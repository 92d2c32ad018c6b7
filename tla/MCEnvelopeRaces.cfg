SPECIFICATION Spec
CONSTANTS
  a = a
  b = b
  w1 = w1
  w2 = w2
  Signer = {a, b}
  Invited = {a, b}
  Worker = {w1, w2}
  MaxPdf = 1
  MaxRequests = 1
  AutoCloseModes = {TRUE, FALSE}
  MayWait = FALSE
SYMMETRY WorkerSymmetry
INVARIANT TypeOK
INVARIANT DeliveredIsCompleted
INVARIANT CompletionNotLost
PROPERTY ImplementsLifecycle
CHECK_DEADLOCK FALSE
