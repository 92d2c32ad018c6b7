SPECIFICATION FairSpec
CONSTANTS
  a = a
  c = c
  Signer = {a}
  Creator = c
  WaitBound = 2
  MaxTime = 4
  MaxSeals = 0
  MaxFailures = 0
PROPERTY WaitEnds
CHECK_DEADLOCK FALSE
