CONSTANTS
    Device = dev
    Batches = {b1, b2, b3, b4}
    small = small
    large = large
    huge = huge
    Payloads = {small, large, huge}
    Bytes <- MCBytes
    MaxBytes = 2
    MaxEnvelopeBytes = 2
    MaxSequence = 3
    MaxChunks = 2
    Uploaders = {u1, u2}
    Conns = {c1, c2, c3}
    NoConn = NoConn
    NoEnvelope = NoEnvelope
    NoAck = NoAck
SYMMETRY MCSymmetry
SPECIFICATION Spec
INVARIANTS TypeOK FifoIsSequenceOrder RemovedOnlyIfApplied AppliedInOrderOnce AnswerIsReceiptOfRequest
PROPERTY RefinesChannel
CHECK_DEADLOCK FALSE
