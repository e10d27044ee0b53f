\* A query over a stored conflict whose loser is a diagnostic.
SPECIFICATION RecallSpec
CONSTANTS
    Null = Null
    c1 = c1
    Clients = {c1}
    Keys = {"port"}
    Rooms = {"work", "home", "scratch"}
    Precedence <- MCPrecedence
    Texts <- MCTexts
    Redact <- Identity
    Signature <- Identity
    Turns <- MCTurns
    Window = 1
    MaxTick = 3
    CoarseClock = FALSE
    Faults = {}
    Commands = {}
    LiveCommands = {}
    MaxLength <- MCMaxLength
    Count <- Estimate
    Queries <- MCQueries
    MaxScore = 2
    Threshold = 1
    Penalty = 1
    TopK = 2
    TopKRaw = 1
    ActiveRooms = {"work", "home"}
    ScratchRooms = {"scratch"}
    TextLength <- MCLengths
    HeaderLength = 6
    ItemLength = 6
    ExcerptLength = 1
    EmptyLength = 1
    MaxQuote = 2
    MinExcerpt = 2
    SafetyPercent = 115
    MaxRounds = 256
INVARIANTS
    NoLoserInPrompt
