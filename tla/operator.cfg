\* One host; the operator pins and decides between its turns, unpins at any time; every fault.
SPECIFICATION Spec
CONSTANTS
    Null = Null
    c1 = c1
    c2 = c2
    Clients = {c1}
    Keys = {"port", "host"}
    Rooms = {"work"}
    Precedence <- DefaultPrecedence
    Texts <- MCTexts
    Redact <- MCRedact
    Signature <- MCSignature
    Turns <- TwoKeyTurns
    Window = 2
    MaxTick = 4
    CoarseClock = FALSE
    Faults = {"db", "disk", "unlink", "crash", "open"}
    Commands = {"pin", "unpin", "resolve"}
    LiveCommands = {"unpin"}
INVARIANTS
    SyncedWhenAnswered
PROPERTIES
    OperatorDecisionSticks
