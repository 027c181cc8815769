CONSTANTS
    FileOrder <- OneIncremental
    Reparsed = {}
    ChunkSize = 2
    MaxLines = 3
    KeptLines = 0
    Worlds <- TruncateWorld
    claude = claude
    codex = codex
SPECIFICATION Spec
INVARIANT CommittedIsDelivered
