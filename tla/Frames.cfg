\* The browser's loop is started up to three times in five units of time; the
\* benchmark runs four frames of two tickers; one widget has two animations.
SPECIFICATION FramesSpec
CONSTANTS
  Cap = 2  MaxTime = 5  MaxStarts = 3  MaxIds = 6
  Tickers = {a, b}  MaxPrice = 3  TargetHz = 2  FrameMs = 2  Durations = {1, 3}  Frames = 4
  MaxWidgets = 1  MaxAnims = 2  Deltas = {1, 2}  Alphas = {5, 13}  Tweens <- EveryKind
INVARIANTS FramesAreSound FrameIsRight
PROPERTIES LoopsGoOn AnimationsEnd
CHECK_DEADLOCK FALSE
