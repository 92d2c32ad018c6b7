SPECIFICATION StudioSpec
CONSTANTS
  MaxVersions = 2
  MaxActs = 3
  MaxStudioFaults = 1
INVARIANT TwoTabsOneEnvelope
CHECK_DEADLOCK FALSE
