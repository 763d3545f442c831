SPECIFICATION LSpec
CONSTANTS
    FirstExpected = 1
    MaxSequence = 4
    MaxRequest = 2
    MaxBatch = 2
    Sessions = {s1}
    NoSession = NoSession
    NoRequest = NoRequest
    Payloads <- MCPayloads
    Feed <- MCFeed
    Total = 3
INVARIANTS AsksForThePast EndsKnowingly
PROPERTY CatchesUp
