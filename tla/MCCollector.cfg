CONSTANTS
    FileOrder <- Both
    Reparsed = {codex}
    ChunkSize = 2
    MaxLines = 3
    KeptLines = 1
    Worlds <- AllWorlds
    claude = claude
    codex = codex
SPECIFICATION Spec
INVARIANTS CommittedIsDelivered GrowingMatchesFullParse
PROPERTY SinkErrorsNeverRedeliver
