SPECIFICATION StudioSpec
CONSTANTS
  MaxVersions = 2
  MaxActs = 3
  MaxStudioFaults = 1
INVARIANT StudioTypeOK
INVARIANT EachActSendsOnce
 
PROPERTY WaitingTabEnds
CHECK_DEADLOCK FALSE
