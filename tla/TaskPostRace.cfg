\* Two threads that post when they like, twice each.
SPECIFICATION Spec
CONSTANTS
  Posters = {t1, t2}  Capacity = 4  MaxPosts = 2  Serial = FALSE  NoTask = NoTask
INVARIANT NoSharedTask
CHECK_DEADLOCK FALSE
