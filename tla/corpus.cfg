SPECIFICATION Spec
CONSTANTS
    Slot = {s1, s2}
    Upload = {"u"}
    Concept = {"c"}
    ChunkLimit = 1
    MaxAttempts = 2
    MaxRows = 3
    MaxChunks = 1
    MaxFound = 1
    MaxWork = 4
INVARIANTS ReadyServes SearchableWhenDone
PROPERTY CorpusIsKept
SYMMETRY Alike
VIEW Matters
CHECK_DEADLOCK FALSE
