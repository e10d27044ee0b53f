\* A host whose database or raw directory cannot be opened for a while.
SPECIFICATION Spec
CONSTANTS
    Null = Null
    c1 = c1
    c2 = c2
    Clients = {c1}
    Keys = {"port"}
    Rooms = {"work"}
    Precedence <- DefaultPrecedence
    Texts <- MCTexts
    Redact <- MCRedact
    Signature <- MCSignature
    Turns <- RivalTurns
    Window = 2
    MaxTick = 3
    CoarseClock = FALSE
    Faults = {"open"}
    Commands = {}
    LiveCommands = {}
INVARIANTS
    IngestFailsOpen
