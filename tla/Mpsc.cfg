\* The loop's own thread and two others, two tasks each.
SPECIFICATION FairSpec
CONSTANTS
    Thread = {loop, net, io}
    LoopThread = loop
    MaxPosts = 2
    Stub = stub
    Null = null
INVARIANTS RunsInSwapOrder CutOnlyByPushes
PROPERTIES QuietPopFindsTask EveryTaskRuns
CHECK_DEADLOCK FALSE
