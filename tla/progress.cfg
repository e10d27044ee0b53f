\* Two hosts, two conflicts, failing transactions and a full disk, no crash.
SPECIFICATION FairSpec
CONSTANTS
    Null = Null
    c1 = c1
    c2 = c2
    Clients = {c1, c2}
    Keys = {"port", "host"}
    Rooms = {"work"}
    Precedence <- DefaultPrecedence
    Texts <- MCTexts
    Redact <- MCRedact
    Signature <- MCSignature
    Turns <- TwoKeyTurns
    Window = 2
    MaxTick = 3
    CoarseClock = FALSE
    Faults = {"db", "disk"}
    Commands = {}
    LiveCommands = {}
INVARIANTS
    NoOrphans
PROPERTIES
    EveryIngestReturns
    EverySyncRecords
