SPECIFICATION FairSpec
CONSTANTS
  a = a
  b = b
  w1 = w1
  Signer = {a, b}
  Invited = {a, b}
  Worker = {w1}
  MaxPdf = 1
  MaxRequests = 0
  AutoCloseModes = {TRUE, FALSE}
  MayWait = FALSE
PROPERTY AutoCloseDelivers
PROPERTY ManualParks
CHECK_DEADLOCK FALSE
