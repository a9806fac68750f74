\* Fair scheduling, two events, one task outstanding at a time.
SPECIFICATION FairSpec
CONSTANTS
    EventSev = {4}
    High = 3
    NodeCount = 2
    NetMaxNodes = 3
    Edges <- TwoEdges
    Cells = {"left", "middle", "right"}
    NodeCell <- TwoPlaces
    Middle <- Between
    Batches = {1}
    Slices = 1
    MaxEvents = 2
    Capacity = 1
    ThreatMax = 2
    ThreatVisible = 1
    FlashFrames = 1
    NoEvent = NoEvent
    LogSlots = 2
    WordSize = 4
    LogVisible = 2
PROPERTIES QuitEnds TasksRunOrQuit
