\* Two timers, of which one may be cleared.
SPECIFICATION Spec
CONSTANTS
  MaxClock = 2  Lead = 0  Delays = {0, 1, 2}  Intervals = {1}
  MaxSets = 2  MaxClears = 1  MaxPosts = 0  MaxFibers = 1
INVARIANT DueTimersFire
CHECK_DEADLOCK FALSE
