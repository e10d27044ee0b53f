\* Three processes start over a new or an old database; statements fail, processes die.
SPECIFICATION Spec
CONSTANTS
    p1 = p1
    p2 = p2
    p3 = p3
    Procs = {p1, p2, p3}
    Script <- MCScript
    Added <- MCAdded
    StartFaults = {"locked", "crash"}
SYMMETRY ProcSymmetry
INVARIANTS
    TypeOK
    RecordedMeansBuilt
    ReadyMeansComplete
    UndisturbedStartsSucceed
    RaceHasAWinner
