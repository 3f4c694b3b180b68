SPECIFICATION FairDoctorSpec
CONSTANTS
    s1 = s1
    s2 = s2
    s3 = s3
    Shells <- MCShells
    CommandLines <- MCCommandLines
    Machines <- MCMachines
INVARIANTS
    DoctorInv
    OkWasTrue
    DelayedStart
    SatisfiedMeansUsable
    FindingsWereTrue
PROPERTIES
    ShellsEnd
CHECK_DEADLOCK FALSE
