SPECIFICATION Spec
CONSTANTS
  a = a
  b = b
  w1 = w1
  Signer = {a, b}
  Invited = {a}
  Worker = {w1}
  MaxPdf = 2
  MaxRequests = 1
  AutoCloseModes = {TRUE, FALSE}
  MayWait = TRUE
INVARIANT LifecycleInv
INVARIANT OpenCanBeServed
PROPERTY SealedStaysQuiet
CHECK_DEADLOCK FALSE
