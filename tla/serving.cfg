\* Two hosts and an operator who decides conflicts while they work; every fault.
SPECIFICATION Spec
CONSTANTS
    Null = Null
    c1 = c1
    c2 = c2
    Clients = {c1, c2}
    Keys = {"port"}
    Rooms = {"work"}
    Precedence <- DefaultPrecedence
    Texts <- MCTexts
    Redact <- MCRedact
    Signature <- MCSignature
    Turns <- RivalTurns
    Window = 2
    MaxTick = 3
    CoarseClock = FALSE
    Faults = {"db", "disk", "unlink", "crash"}
    Commands = {"resolve"}
    LiveCommands = {"resolve"}
SYMMETRY ClientSymmetry
INVARIANTS
    TypeOK
    RawBacked
    EffectiveFollowsPrecedence
PROPERTIES
    LedgerSpec
