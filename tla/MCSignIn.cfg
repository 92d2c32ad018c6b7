SPECIFICATION Spec
CONSTANTS
  Gate = "send"
  MaxLinks = 1
  MaxCodes = 2
  MaxTries = 2
  MaxGoogle = 1
  MaxFailures = 1
INVARIANT TypeOK
INVARIANT HeldDraftInReach
INVARIANT PaidIsConverted
PROPERTY NoConfirmAfterVerdict
PROPERTY WaitingTabMovesOn
CHECK_DEADLOCK FALSE
