SPECIFICATION ServiceSpec
CONSTANTS
    Scenes = {"session", "agent", "gate", "account",
              "anchors", "nudges", "forward", "evidence"}
    Tab = {t1, t2}
    Request = {r1, r2}
    MaxSessions = 1
    MaxRotations = 1
    MaxSessionFaults = 1
    MaxCalls = 3
    MaxFunds = 2
    MaxAgentFaults = 1
    Account = {"ann", "bob"}
    KeyId = {1, 2}
    Slot = {1, 2}
    MaxChanges = 2
    MaxReads = 3
    MaxAccountFaults = 1
    Evaluator = {g1, g2}
    MaxAttempts = 4
    MaxStatements = 2
    MaxAnchorFaults = 1
    MaxRows = 2
    MaxReminders = 1
    MaxNudgeFaults = 1
    Member = {1, 2}
    Mail_ <- Messages
    EnforceSenderAuth = TRUE
    MaxMails = 2
    MaxRotations_ = 1
    File = {"f1", "f2"}
    Signatory = {1, 2}
    Kind_ <- Assembled
    MaxLoads = 2
CHECK_DEADLOCK FALSE
INVARIANT ServiceTypeOK
INVARIANT TokenNotStranded
INVARIANT PaymentsKept
INVARIANT ActsAsPresented
INVARIANT QuietPageShowsAccount
INVARIANT AnchorFitsStatement
INVARIANT UnclearIsWatched
INVARIANT AcceptedVerifies
INVARIANT OutageNeverLowers
