SPECIFICATION Spec
CONSTANTS
    c1 = c1
    c2 = c2
    doctor = doctor
    Waker = Waker
    Nobody = Nobody
    Clients <- MCClients
    Checkers <- MCCheckers
SYMMETRY MCSymmetry
INVARIANTS
    PipeInv
    AnswerIsOutcome
    FailureMeansUnserved
    LateCallersUnserved
CHECK_DEADLOCK FALSE
