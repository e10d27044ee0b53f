\* One host that records the same things again and again; every fault, and a
\* reindex between two turns.
SPECIFICATION Spec
CONSTANTS
    Null = Null
    c1 = c1
    c2 = c2
    Clients = {c1}
    Keys = {"port"}
    Rooms = {"work"}
    Precedence <- DefaultPrecedence
    Texts <- MCTexts
    Redact <- MCRedact
    Signature <- MCSignature
    Turns <- RepeatingTurns
    Window = 2
    MaxTick = 5
    CoarseClock = FALSE
    Faults = {"db", "disk", "unlink", "crash", "open"}
    Commands = {"reindex"}
    LiveCommands = {}
INVARIANTS
    NoDuplicateMemories
    RepeatedErrorsGrouped
    AnswersAreFaithful
PROPERTIES
    ReindexRecovers
    LedgerSpec
