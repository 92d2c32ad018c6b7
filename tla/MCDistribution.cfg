SPECIFICATION FairSpec
CONSTANTS
  a = a
  c = c
  Signer = {a}
  Creator = c
  WaitBound = 2
  MaxTime = 3
  MaxSeals = 1
  MaxFailures = 2
INVARIANT TypeOK
INVARIANT WaitIsHonoured
INVARIANT WaitMailsOnce
INVARIANT StampMeansMailed
PROPERTY GateOpenDelivers
CHECK_DEADLOCK FALSE
