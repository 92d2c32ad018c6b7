SPECIFICATION FairSpec
CONSTANTS
  e1 = e1
  e2 = e2
  a = a
  Env = {e1, e2}
  Early = {e1}
  Owned = {e1}
  Signer = {a}
  MaxPurgers = 2
  MaxCrashes = 1
INVARIANT TypeOK
INVARIANT HolderKeepsBlobs
PROPERTY FreedUnlessCut
CHECK_DEADLOCK FALSE
