\* A table of three rows of which two are drawn (SEV_HIGH is 3, SEV_CRITICAL 4);
\* a log ring of four slots with a counter of eight values; a ring of three
\* frame times; command lines of four words; a pipe of three bytes read two at a
\* time.
SPECIFICATION PartsSpec
CONSTANTS
    Severity = {3, 4}
    ThreatMax = 3
    ThreatVisible = 2
    FlashFrames = 2
    MaxAlerts = 6
    Event = {e1, e2, e3}
    NoEvent = NoEvent
    LogSlots = 4
    WordSize = 8
    LogVisible = 4
    Window = 3
    RefreshTime = 4
    Times = {1, 2, 5}
    IndexWord = 8
    MaxFrames = 8
    Word = 128
    WordBits = 7
    MinRing = 4
    LogRing = 16
    MaxNodes = 5
    MaxFps = 12
    TargetFps = 6
    Numbers = {0, 1, 3, 9, 20, 65, 128}
    MaxArgs = 4
    Size = {wide, tall, tiny}
    TooSmall = {tiny}
    PipeCapacity = 3
    ReadSize = 2
    HasPipe = TRUE
INVARIANTS RowsAreHandledAlerts KeepsMostSevere SortIsStableOrder FlashesWhenNew LogShowsNewest FrameFigures SettingsHold LayoutFollows
PROPERTY LayoutSettles
CHECK_DEADLOCK FALSE
