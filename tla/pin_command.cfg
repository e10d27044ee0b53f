\* hermes-mp pin.
SPECIFICATION Spec
CONSTANTS
    Null = Null
    c1 = c1
    c2 = c2
    Clients = {c1}
    Keys = {"port"}
    Rooms = {"work"}
    Precedence <- DefaultPrecedence
    Texts <- MCTexts
    Redact <- MCRedact
    Signature <- MCSignature
    Turns <- RivalTurns
    Window = 2
    MaxTick = 3
    CoarseClock = FALSE
    Faults = {}
    Commands = {"pin"}
    LiveCommands = {}
INVARIANTS
    PinsTakeEffect
