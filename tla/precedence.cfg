SPECIFICATION Spec
CONSTANTS
    Null = Null
    MaxMemories = 3
INVARIANTS
    WinnerOutranksAll
    SyncIsIdempotent
