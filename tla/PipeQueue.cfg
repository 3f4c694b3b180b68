SPECIFICATION Spec
CONSTANTS
    c1 = c1
    c2 = c2
    doctor = doctor
    Waker = Waker
    Nobody = Nobody
    Clients <- MCClients
    Checkers <- MCNone
PROPERTIES
    SecondRequestWaits
CHECK_DEADLOCK FALSE
