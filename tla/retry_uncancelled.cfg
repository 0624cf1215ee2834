SPECIFICATION Spec
CONSTANTS
    Branches = {b1}
    NoBranch = NoBranch
    Statuses = {401, 407}
    MaxForks = 16
    HasCredentials = TRUE
    Sessions = {}
    AnswerMedia = {"none"}
    EarlyMedia = {"none"}
    ByeSenders = {}
    ByeStatuses = {200}
    MaxStaleRecoveries = 1
    MaxTx = 4
    MaxBatch = 1
    MaxHangups = 1
    MaxInvites = 3
    MaxByes = 1
INVARIANTS HangupCancelsAttempt
