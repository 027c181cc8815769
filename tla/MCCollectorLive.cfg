CONSTANTS
    FileOrder <- Both
    Reparsed = {codex}
    ChunkSize = 1
    MaxLines = 2
    KeptLines = 1
    Worlds <- CrashWorld
    claude = claude
    codex = codex
SPECIFICATION FairSpec
PROPERTY EveryEventDelivered
