SPECIFICATION Spec
CONSTANTS
    Branches = {b1}
    NoBranch = NoBranch
    Statuses = {401, 407, 487}
    MaxForks = 16
    HasCredentials = TRUE
    Sessions = {}
    AnswerMedia = {"none"}
    EarlyMedia = {"none"}
    ByeSenders = {b1}
    ByeStatuses = {200}
    MaxStaleRecoveries = 0
    MaxTx = 4
    MaxBatch = 2
    MaxHangups = 1
    MaxInvites = 2
    MaxByes = 2
INVARIANTS AnswersAcked
PROPERTIES ShutdownEnds ShutdownFences CancelCoversAttempts
