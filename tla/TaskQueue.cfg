\* A four-slot ring, every interleaving of the two threads; the properties of
\* every behaviour under the fairness of the frame loop.
SPECIFICATION FairSpec
CONSTANTS
    Slots = 4
    MaxPosts = 11
INVARIANTS NoSharedSlot RunsInOrderExactlyOnce DepthIsExact IInv
PROPERTIES FifoSpec EveryTaskRuns
