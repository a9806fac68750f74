------------------------------ MODULE EventLoop ------------------------------
(***************************************************************************)
(* The event loop of sc_runtime.h on the thread that owns it: the tick      *)
(* drains the tasks, fires the timers from a binary heap ordered by fire    *)
(* time and runs the fibers; callbacks call the API while the tick is in    *)
(* the middle of its tables.  Array indices are the code's plus one.        *)
(*                                                                         *)
(* Between two steps of the tick, and inside any callback, "client" code    *)
(* makes any number of API calls, each an action.  The list of tasks is a   *)
(* count here: its order and its concurrency are MpscQueue's subject.       *)
(* Each timer set gets a key of its own (a history), as ids are reused.     *)
(***************************************************************************)
EXTENDS Integers, Sequences, FiniteSets

CONSTANTS MaxClock,   \* bound: the clock runs from 0 to MaxClock
          Lead,       \* how far the `now_ns` given to sc_loop_tick may be ahead of the clock
          Delays,     \* delays given to sc_timer_set
          Intervals,  \* intervals given to sc_timer_repeat
          MaxSets, MaxClears, MaxPosts, MaxFibers   \* bounds on API calls

ASSUME LoopAssumption ==
  /\ {MaxClock, Lead, MaxSets, MaxClears, MaxPosts, MaxFibers} \subseteq Nat
  /\ Delays \subseteq Nat /\ Intervals \subseteq Nat \ {0}

VARIABLES
  pc,        \* where the loop's thread is
  clock,     \* sc_clock_ns()
  now,       \* the argument of the tick under way
  managed,   \* ticks are called by sc_loop_run (else by the embedding program)
  running,   \* loop->running
  tasks,     \* number of tasks in the list
  posts,     \* history: number of sc_task_post calls
  heap,      \* timers[0 .. timer_count - 1]
  handle,    \* history: what sc_timer_set or _repeat returned, by key
  clears,    \* history: the keys whose handle was given to sc_timer_clear
  fires,     \* history: how often the timer with this key has fired
  fibers,    \* fibers[0 .. fiber_count - 1].state
  current,   \* current_fiber (0 for the code's -1)
  fi,        \* the tick's index into the fibers
  entries    \* history: how often the function of each fiber was entered

timerVars == <<heap, handle, clears, fires>>
fiberVars == <<fibers, current, fi, entries>>
loopVars  == <<managed, running, tasks, posts>>
vars == <<pc, clock, now, loopVars, timerVars, fiberVars>>

-----------------------------------------------------------------------------
(* The heap. *)

Exchange(h, i, j) == [h EXCEPT ![i] = h[j], ![j] = h[i]]

(* One turn of each sift's loop: the place that place i is exchanged with, or
   i when the loop ends. *)
Above(h, i) ==
  LET p == i \div 2
  IN IF i = 1 \/ h[p].at <= h[i].at THEN i ELSE p

Mut_Below(h, i) ==             \* looks at the left child only
  IF 2 * i <= Len(h) /\ h[2 * i].at < h[i].at THEN 2 * i ELSE i

Below(h, i) ==
  LET less == {c \in {2 * i, 2 * i + 1} : c <= Len(h) /\ h[c].at < h[i].at}
  IN IF less = {} THEN i
     ELSE CHOOSE c \in less : \A d \in less :
            h[c].at < h[d].at \/ (h[c].at = h[d].at /\ c <= d)

(* The heap, and the place come to, after k turns; no sift takes more than
   the heap has places. *)
Sifted(h, i, up) ==
  LET turn[k \in 0..Len(h)] ==
        IF k = 0 THEN <<h, i>>
        ELSE LET g == turn[k - 1][1]
                 j == turn[k - 1][2]
                 m == IF up THEN Above(g, j) ELSE Below(g, j)
             IN <<Exchange(g, m, j), m>>
  IN turn[Len(h)][1]

SiftUp(h, i) == Sifted(h, i, TRUE)

SiftDown(h, i) == Sifted(h, i, FALSE)

Rearmed(h) == SiftDown([h EXCEPT ![1].at = now + h[1].ivl], 1)

Mut_WithoutTop(h) == SubSeq(h, 1, Len(h) - 1)      \* the last is not moved to the top
WithoutTop(h) ==
  LET n == Len(h)
  IN IF n = 1 THEN <<>> ELSE SiftDown([SubSeq(h, 1, n - 1) EXCEPT ![1] = h[n]], 1)

-----------------------------------------------------------------------------
Init ==
  /\ pc = "init" /\ clock = 0 /\ now = 0
  /\ managed = FALSE /\ running = FALSE /\ tasks = 0 /\ posts = 0
  /\ heap = <<>> /\ handle = <<>> /\ clears = {} /\ fires = <<>>
  /\ fibers = <<>> /\ current = 0 /\ fi = 1 /\ entries = <<>>

InCallback == pc \in {"task", "timer", "fiber"}
Client     == InCallback \/ pc = "init" \/ (pc = "rest" /\ ~managed)

(* sc_timer_set and sc_timer_repeat.  The result is read from the last slot
   after the sift, whichever timer is there by then. *)
AddTimer(delay, rep) ==
  /\ Client /\ Len(handle) < MaxSets /\ clock + delay <= MaxClock
  /\ LET n == Len(heap) + 1
         t == [id |-> n - 1, key |-> Len(handle) + 1, active |-> TRUE,
               repeat |-> rep, at |-> clock + delay, ivl |-> delay]
         h == SiftUp(Append(heap, t), n)
     IN heap' = h /\ handle' = Append(handle, h[n].id)
  /\ fires' = Append(fires, 0)
  /\ UNCHANGED <<pc, clock, now, loopVars, clears, fiberVars>>

SetTimer    == \E d \in Delays : AddTimer(d, FALSE)
RepeatTimer == \E d \in Intervals : AddTimer(d, TRUE)

(* The first timer in the table whose id is the one looked for. *)
Found(id) == {i \in DOMAIN heap : heap[i].id = id /\ \A j \in 1..(i - 1) : heap[j].id # id}

ClearTimer(k) ==
  /\ Client /\ k \notin clears /\ Cardinality(clears) < MaxClears
  /\ heap' = [i \in DOMAIN heap |->
                [heap[i] EXCEPT !.active = @ /\ i \notin Found(handle[k])]]
  /\ clears' = clears \cup {k}
  /\ UNCHANGED <<pc, clock, now, loopVars, handle, fires, fiberVars>>

PostTask ==
  /\ Client /\ posts < MaxPosts
  /\ tasks' = tasks + 1 /\ posts' = posts + 1
  /\ UNCHANGED <<pc, clock, now, managed, running, timerVars, fiberVars>>

(* Without memory for its stack the slot is given back and -1 returned,
   which changes nothing. *)
SpawnFiber ==
  /\ Client /\ Len(fibers) < MaxFibers
  /\ fibers' = Append(fibers, "IDLE") /\ entries' = Append(entries, 0)
  /\ UNCHANGED <<pc, clock, now, loopVars, timerVars, current, fi>>

MarkCurrent(state) ==
  /\ Client /\ current # 0
  /\ fibers' = [fibers EXCEPT ![current] = state]
  /\ UNCHANGED <<pc, clock, now, loopVars, timerVars, current, fi, entries>>

YieldFiber == MarkCurrent("WAITING")     \* and the fiber goes on
ExitFiber  == MarkCurrent("DEAD")        \* likewise

-----------------------------------------------------------------------------
(* Running and stopping.  Any thread may call sc_loop_stop. *)

RunLoop ==
  /\ pc = "init" /\ pc' = "rest"
  /\ managed' = TRUE /\ running' = TRUE
  /\ UNCHANGED <<clock, now, tasks, posts, timerVars, fiberVars>>

EmbedLoop ==
  /\ pc = "init" /\ pc' = "rest"
  /\ UNCHANGED <<clock, now, loopVars, timerVars, fiberVars>>

StopLoop ==
  /\ running /\ running' = FALSE
  /\ UNCHANGED <<pc, clock, now, managed, tasks, posts, timerVars, fiberVars>>

RunReturns ==
  /\ pc = "rest" /\ managed /\ ~running
  /\ pc' = "ended"
  /\ UNCHANGED <<clock, now, loopVars, timerVars, fiberVars>>

Shutdown ==
  /\ pc = "ended" \/ (pc = "rest" /\ ~managed)
  /\ pc' = "shut" /\ running' = FALSE
  /\ UNCHANGED <<clock, now, managed, tasks, posts, timerVars, fiberVars>>

-----------------------------------------------------------------------------
(* The tick. *)

MayTick == pc = "rest" /\ (managed => running)

BeginTick ==
  /\ MayTick /\ pc' = "drain" /\ fi' = 1
  /\ now' \in clock..(IF managed THEN clock ELSE clock + Lead)
  /\ UNCHANGED <<clock, loopVars, timerVars, fibers, current, entries>>

RunTask ==
  /\ pc = "drain" /\ tasks > 0
  /\ tasks' = tasks - 1 /\ pc' = "task"
  /\ UNCHANGED <<clock, now, managed, running, posts, timerVars, fiberVars>>

TaskReturns ==
  /\ pc = "task" /\ pc' = "drain"
  /\ UNCHANGED <<clock, now, loopVars, timerVars, fiberVars>>

EndDrain ==
  /\ pc = "drain" /\ tasks = 0 /\ pc' = "fire"
  /\ UNCHANGED <<clock, now, loopVars, timerVars, fiberVars>>

TopFires == Len(heap) > 0 /\ heap[1].active /\ heap[1].at <= now

FireTop ==
  /\ pc = "fire" /\ TopFires
  /\ pc' = "timer" /\ fires' = [fires EXCEPT ![heap[1].key] = @ + 1]
  /\ UNCHANGED <<clock, now, loopVars, heap, handle, clears, fiberVars>>

Mut_FireOne ==                 \* an `if` for the `while`
  /\ pc = "timer" /\ pc' = "fibers"
  /\ heap' = IF heap[1].repeat THEN Rearmed(heap) ELSE WithoutTop(heap)
  /\ UNCHANGED <<clock, now, loopVars, handle, clears, fires, fiberVars>>

(* `top` is slot 0, whichever timer is in it after the callback. *)
TimerReturns ==
  /\ pc = "timer" /\ pc' = "fire"
  /\ heap' = IF heap[1].repeat THEN Rearmed(heap) ELSE WithoutTop(heap)
  /\ UNCHANGED <<clock, now, loopVars, handle, clears, fires, fiberVars>>

EndFiring ==
  /\ pc = "fire" /\ ~TopFires /\ pc' = "fibers"
  /\ UNCHANGED <<clock, now, loopVars, timerVars, fiberVars>>

MoreFibers == fi <= Len(fibers)

Mut_EnterFiber ==              \* the state is not looked at
  /\ pc = "fibers" /\ MoreFibers
  /\ fibers' = [fibers EXCEPT ![fi] = "RUNNING"] /\ current' = fi
  /\ entries' = [entries EXCEPT ![fi] = @ + 1] /\ pc' = "fiber"
  /\ UNCHANGED <<clock, now, loopVars, timerVars, fi>>

EnterFiber ==
  /\ pc = "fibers" /\ MoreFibers /\ fibers[fi] \in {"IDLE", "WAITING"}
  /\ fibers' = [fibers EXCEPT ![fi] = "RUNNING"] /\ current' = fi
  /\ entries' = [entries EXCEPT ![fi] = @ + 1] /\ pc' = "fiber"
  /\ UNCHANGED <<clock, now, loopVars, timerVars, fi>>

PassFiber ==
  /\ pc = "fibers" /\ MoreFibers /\ fibers[fi] \notin {"IDLE", "WAITING"}
  /\ fi' = fi + 1
  /\ UNCHANGED <<pc, clock, now, loopVars, timerVars, fibers, current, entries>>

FiberReturns ==
  /\ pc = "fiber" /\ pc' = "fibers" /\ fi' = fi + 1
  /\ fibers' = [fibers EXCEPT ![fi] = "DEAD"] /\ current' = 0
  /\ UNCHANGED <<clock, now, loopVars, timerVars, entries>>

EndTick ==
  /\ pc = "fibers" /\ ~MoreFibers /\ pc' = "rest"
  /\ UNCHANGED <<clock, now, loopVars, timerVars, fiberVars>>

Advance ==
  /\ clock < MaxClock /\ clock' = clock + 1
  /\ UNCHANGED <<pc, now, loopVars, timerVars, fiberVars>>

Tick == \/ BeginTick \/ RunTask \/ TaskReturns \/ EndDrain \/ FireTop
        \/ TimerReturns \/ EndFiring \/ EnterFiber \/ PassFiber \/ FiberReturns
        \/ EndTick
Call == \/ SetTimer \/ RepeatTimer \/ (\E k \in DOMAIN handle : ClearTimer(k))
        \/ PostTask \/ SpawnFiber \/ YieldFiber \/ ExitFiber
Next == \/ Tick \/ Call \/ RunLoop \/ EmbedLoop \/ StopLoop \/ RunReturns
        \/ Shutdown \/ Advance

Spec == Init /\ [][Next]_vars

(* sc_loop_run, or the embedding program's loop, ticks again and again; a
   callback returns; time passes. *)
FairSpec == Spec /\ WF_vars(Tick) /\ WF_vars(RunReturns) /\ WF_vars(Advance)

-----------------------------------------------------------------------------
TypeOK ==
  /\ pc \in {"init", "rest", "drain", "task", "fire", "timer", "fibers", "fiber",
             "ended", "shut"}
  /\ clock \in 0..MaxClock /\ now \in 0..(MaxClock + Lead)
  /\ managed \in BOOLEAN /\ running \in BOOLEAN
  /\ posts \in 0..MaxPosts /\ tasks \in 0..posts
  /\ \A i \in DOMAIN heap :
       /\ heap[i].key \in DOMAIN handle /\ heap[i].at \in Nat
       /\ heap[i].id \in 0..(Len(handle) - 1)
  /\ clears \subseteq DOMAIN handle /\ DOMAIN fires = DOMAIN handle
  /\ fibers \in Seq({"IDLE", "RUNNING", "WAITING", "DEAD"})
  /\ current \in {0, fi} /\ DOMAIN entries = DOMAIN fibers

(* "The heap is sorted by fire_at_ns" (docs/WIKI.md:600) at every moment,
   also while a callback sets timers and when the top is re-armed or removed. *)
HeapOrder ==
  \A i \in 2..Len(heap) : heap[i \div 2].at <= heap[i].at

(* A timer that was not cleared is in the heap once, until it has fired for
   good: the tick removes or re-arms the timer it fired and no other one. *)
NoTimerLost ==
  \A k \in DOMAIN handle :
    LET slots == {i \in DOMAIN heap : heap[i].key = k}
    IN /\ Cardinality(slots) <= 1
       /\ slots = {} => fires[k] = 1
       /\ \A i \in slots : heap[i].repeat \/ fires[k] <= (IF pc = "timer" THEN 1 ELSE 0)

(* No fiber has been looked at, which might set timers, since the loop that
   fires timers ended. *)
FiringEnded == pc = "fibers" /\ fi = 1

(* When the firing loop ends, a timer that is due and active waits only
   because an inactive one is at the top: with no clearing, the tick fires
   everything that is due. *)
OnlyClearedBlocks ==
  \A i \in DOMAIN heap :
    (FiringEnded /\ heap[i].active /\ heap[i].at <= now) => ~heap[1].active

(* The heap stays a heap that holds every timer still to fire, and firing ends
   only when it should. *)
TimersKept == TypeOK /\ HeapOrder /\ NoTimerLost /\ OnlyClearedBlocks

(* Timers fire in the order of their times, never early. *)
FiresInOrder ==
  [][\A k \in DOMAIN handle : fires'[k] # fires[k] =>
       \E i \in DOMAIN heap :
         /\ heap[i].key = k /\ heap[i].at <= now
         /\ \A j \in DOMAIN heap : heap[j].at >= heap[i].at]_vars

(* A tick leaves no fiber behind, also one spawned by a fiber in that tick,
   and no function is entered twice, whatever was yielded in it and whichever
   callbacks call yield or exit outside a fiber. *)
FibersRunOnce ==
  /\ \A f \in DOMAIN fibers : entries[f] <= 1
  /\ (pc = "fibers" /\ ~MoreFibers) =>
       \A f \in DOMAIN fibers : fibers[f] = "DEAD" /\ entries[f] = 1

(* A timer that is set fires in the end unless the loop is stopped or a timer
   is cleared (one that is stays in the way of all behind it). *)
EveryTimerFires ==
  \A k \in 1..MaxSets :
    (k \in DOMAIN handle /\ pc # "init") ~>
      \/ pc \in {"ended", "shut"} \/ clears # {}
      \/ k \in DOMAIN fires /\ fires[k] > 0

(* A stop while sc_loop_run is running ends it, from every place of the tick,
   although callbacks may go on posting, setting and spawning. *)
StopEnds == (managed /\ ~running) ~> pc \in {"ended", "shut"}

-----------------------------------------------------------------------------
(* What the documents say; the code differs. *)

(* "We must scan the heap to find the timer whose .id field matches"
   (sc_runtime.h:398): the id that setting a timer returns is that timer's. *)
HandleNamesTimer ==
  \A i \in DOMAIN heap : heap[i].id = handle[heap[i].key]

(* "On each sc_loop_tick, timers with fire_at_ns <= now fire in order"
   (docs/WIKI.md:600), whether or not another one was cleared. *)
DueTimersFire ==
  FiringEnded => \A i \in DOMAIN heap : heap[i].active => heap[i].at > now

=============================================================================
