\* Two events, at most two tasks outstanding, three nodes of which two lie in one
\* cell, and one index without a node.
SPECIFICATION Spec
CONSTANTS
    EventSev = {2, 4}
    High = 3
    NodeCount = 3
    NetMaxNodes = 4
    Edges <- ThreeEdges
    Cells = {"left", "middle", "right"}
    NodeCell <- ThreePlaces
    Middle <- Between
    Batches = {1, 2}
    Slices = 1
    MaxEvents = 2
    Capacity = 2
    ThreatMax = 1
    ThreatVisible = 1
    FlashFrames = 1
    NoEvent = NoEvent
    LogSlots = 2
    WordSize = 4
    LogVisible = 2
INVARIANTS EveryAlertAccountedFor LogBeforeAlert MarksShown PauseStopsBatches
PROPERTY NothingAfterJoin
