SPECIFICATION Spec
CONSTANTS
    Branches = {b1}
    NoBranch = NoBranch
    Statuses = {486}
    MaxForks = 16
    HasCredentials = FALSE
    Sessions = {}
    AnswerMedia = {"none"}
    EarlyMedia = {"none"}
    ByeSenders = {}
    ByeStatuses = {200, 481}
    MaxStaleRecoveries = 1
    MaxTx = 4
    MaxBatch = 1
    MaxHangups = 1
    MaxInvites = 1
    MaxByes = 1
INVARIANTS TerminatingMeansBye
