SPECIFICATION Spec
CONSTANTS
    Ids = {i1, i2}
    NoId = NoId
    Maxima = {1, 2}
    NotificationCapacity = 2
    PumpLimit = 1
    MaxGeneration = 2
    MaxActions = 2
INVARIANTS TypeOK LeasesExact RegistriesAgree OutcomesKept NotificationsOrdered StoppedMeansJoined
PROPERTIES DrainEnds
