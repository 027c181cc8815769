CONSTANTS
    Conns = {c1, c2, c3}
    Devices = {d1, d2}
    Batches = {b1, b2}
    Payloads = {p}
    MaxSequence = 1
    Requests <- MCRequests
    NoEnvelope = NoEnvelope
    NoAck = NoAck
SPECIFICATION HubSpec
INVARIANTS ReceiptPerAppliedBatch AnswerNamesItsDevice
