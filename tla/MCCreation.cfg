SPECIFICATION Spec
CONSTANTS
  k = k
  p = p
  d1 = d1
  q1 = q1
  q2 = q2
  c1 = c1
  c2 = c2
  Key = {k}
  Payment = {p}
  Draft = {d1}
  Payload = {q1, q2}
  Client = {c1, c2}
  Grant = 1
  MaxRequests = 3
  MaxFailures = 1
SYMMETRY ClientSymmetry
INVARIANT TypeOK
INVARIANT BalanceIsLedger
INVARIANT SameAnswer
INVARIANT OneEnvelopeUnlessLost
CHECK_DEADLOCK FALSE
