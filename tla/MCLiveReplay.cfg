SPECIFICATION Spec
CONSTANTS
    MaxDatagram = 2
    MaxSize = 3
    MaxRecords = 3
    MaxClock = 1
    Feed <- MCFeed
    Datagrams <- MCDatagrams
    LiveOrders = 3
    ReplayOrders = 2
INVARIANTS ReplaysTheCapture TornRecordOnly ClosedCaptureReplays ReplayFollowsLive
