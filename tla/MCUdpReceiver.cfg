SPECIFICATION Spec
CONSTANTS
    Stoppers = {t1, t2}
    SocketRoom = 2
    MaxArrivals = 4
INVARIANTS TypeOK WakeIsNoDatagram NeverBlocksInRecv DescriptorsOwned
PROPERTY StopEndsLoop
