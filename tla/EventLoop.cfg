\* Four timers set, repeated and cleared, a task and two fibers, in two units of time
\* and ticks that are given a time up to one unit ahead of the clock.
SPECIFICATION Spec
CONSTANTS
  MaxClock = 1  Lead = 1  Delays = {1, 2}  Intervals = {1}
  MaxSets = 4  MaxClears = 1  MaxPosts = 1  MaxFibers = 2
INVARIANTS TimersKept FibersRunOnce
PROPERTY FiresInOrder
CHECK_DEADLOCK FALSE
