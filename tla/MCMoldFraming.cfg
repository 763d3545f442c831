SPECIFICATION Spec
CONSTANTS
    Radix = 3
    EndCount = 4
    MaxSequence = 5
    FirstNumbers = {0, 3, 4, 5}
    MaxBody = 7
INVARIANTS AcceptsExactlyPackets RoundTrip
