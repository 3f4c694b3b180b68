SPECIFICATION ClientFairSpec
CONSTANTS
    c1 = c1
    c2 = c2
    doctor = doctor
    Waker = Waker
    Nobody = Nobody
    Clients <- MCOneClient
    Checkers <- MCCheckers
PROPERTIES
    SubmitReturns
    NobodyWaitsForEver
    StopCompletesIfWoken
CHECK_DEADLOCK FALSE
