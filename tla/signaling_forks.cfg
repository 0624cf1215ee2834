SPECIFICATION Spec
CONSTANTS
    Branches = {b1, b2}
    NoBranch = NoBranch
    Statuses = {486}
    MaxForks = 16
    HasCredentials = FALSE
    Sessions = {"m1", "m2"}
    AnswerMedia = {"m1", "m2", "disabled", "invalid"}
    EarlyMedia = {"none", "m1"}
    ByeSenders = {}
    ByeStatuses = {200}
    MaxStaleRecoveries = 1
    MaxTx = 4
    MaxBatch = 2
    MaxHangups = 1
    MaxInvites = 1
    MaxByes = 1
INVARIANTS TypeOK TimersFitTransactions AnswersAcked CleanEndHangsUpEveryDialog MediaFollowsSelection
SYMMETRY BranchSymmetry
