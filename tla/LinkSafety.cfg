SPECIFICATION FairSpec
CONSTANTS
    c1 = c1
    c2 = c2
    Nobody = Nobody
    Commands <- MCCommands
    CommandLines <- MCCommandLines
    Refusals = {"SourceBlacklisted"}
    Initially <- MCInitially
    Views <- MCViews
    MaxOutside = 1
INVARIANTS
    CommandInv
    AnswersMatchLinks
    KindIsRight
PROPERTIES
    NothingLostUnforced
    ContainersStay
    CommandsEnd
CHECK_DEADLOCK FALSE
