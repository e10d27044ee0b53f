\* One host over the JSONL store: four recordings, three failures, retries.
SPECIFICATION Spec
CONSTANTS
    Null = Null
    Keys = {"port"}
    Precedence <- DefaultPrecedence
    Notes <- MCNotes
    MaxTick = 4
    MaxFaults = 3
INVARIANTS
    TypeOK
    HealthyMeansReadable
    ConfirmedMemoriesKept
    RetriesNeverDuplicate
PROPERTY
    LedgerSpec
