SPECIFICATION Spec
CONSTANTS
    FirstExpected = 1
    MaxSequence = 5
    MaxRequest = 2
    MaxBatch = 3
    Sessions = {s1, s2}
    NoSession = NoSession
    NoRequest = NoRequest
    Payloads <- MCPayloads
    Feed <- MCFeed
INVARIANT PartialRetransmissionRequests
