\* An arena of eight bytes with offsets of sixteen values; posts that use up
\* an arena of four tasks; framebuffers around the limit of sixty-four bytes.
SPECIFICATION KernelSpec
CONSTANTS
  Word = 16  Size = 8  Sizes = {1, 3, 15}  Aligns = {1, 2, 4}  MaxDepth = 2  MaxPushes = 4
  Posters = {t1, t2}  PostCapacity = 4  PostsEach = 3  NoTask = NoTask
  Capacity = 4
  GfxWord = 64  Dims = {3, 4, 16}  Kinds = {buf, tex}  MaxSlots = 3  MaxObjects = 4
  MaxVerts = 14  CmdCounts = {3}  MaxDraws = 3
  MaxNodes = 4  MaxWidgets = 3  MaxQuads = 6  Viewports = {1, 2}
  PyWidgets = 4  Heights = {0, 20, 30}  DefaultHeight = 30
INVARIANTS LiveIsIntact PostsAreRun ContextIsSound LayoutIsSound PySceneIsSound
PROPERTIES PoolIsStore WalkedInOrder
CHECK_DEADLOCK FALSE
