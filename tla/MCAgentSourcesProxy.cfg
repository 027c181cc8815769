CONSTANTS
    Device = dev
    DeviceName = name
    ProcsId = procs
    Batches = {b1, b2}
    x = x
    y = y
    z = z
    Payloads <- MCPayloads
    Bytes <- MCBytes
    MaxBytes = 3
    MaxEnvelopeBytes = 2
    MaxSequence = 2
    MaxChunks = 2
    Uploaders = {u1, u2}
    Conns = {c1, c2}
    NoConn = NoConn
    NoEnvelope = NoEnvelope
    NoAck = NoAck
    Worlds <- ProxyOnV2
    Calls = {p1, p2, p3}
    ScanBatches <- OneScan
    RingCap = 2
    MaxQuotaAge = 0
SPECIFICATION AgentSpec
INVARIANT LossNeedsOutage
CHECK_DEADLOCK FALSE
