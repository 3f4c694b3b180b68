SPECIFICATION Spec
CONSTANTS
    c1 = c1
    c2 = c2
    Nobody = Nobody
    Commands <- MCCommands
    CommandLines <- MCRelativeLines
    Refusals = {"SourceBlacklisted"}
    Initially <- MCInitially
    Views <- MCViews
    MaxOutside = 0
INVARIANTS
    KindIsRightEitherWay
CHECK_DEADLOCK FALSE
