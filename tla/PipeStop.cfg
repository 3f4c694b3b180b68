SPECIFICATION FairSpec
CONSTANTS
    c1 = c1
    c2 = c2
    doctor = doctor
    Waker = Waker
    Nobody = Nobody
    Clients <- MCOneClient
    Checkers <- MCNone
PROPERTIES
    StopCompletes
CHECK_DEADLOCK FALSE
