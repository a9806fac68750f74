-------------------------------- MODULE MCFrames --------------------------------
(***************************************************************************)
(* The loops that drive frames: the event loop of sc_runtime.h, the          *)
(* browser's of tools/wasm, the benchmark's of the stock dashboard, and the *)
(* animations a scene ticks in each.  Only one drives a program, so a       *)
(* behaviour is one of a single loop, which `unit` names, and the others    *)
(* stay as they begin.                                                      *)
(***************************************************************************)
EXTENDS WasmLoop, Sequences

CONSTANTS
  Tickers, MaxPrice, TargetHz, FrameMs, Durations, Frames,
  MaxWidgets, MaxAnims, Deltas, Alphas, Tweens

VARIABLES
  unit,                              \* the loop that takes steps
  loop_pc, loop_clock, loop_now, managed, loop_running, tasks, posts,
  heap, handle, clears, fires, fibers, current, fi, entries,
  stock_pc, frame, now, last, tickers, cells, accum, samples, fps, rendered,
  widgets, anims, viewport, drawn, event, called, events

(* Two timers, one-shot or repeated, while two tasks and a fiber run. *)
Timers == INSTANCE EventLoop WITH
  pc <- loop_pc, clock <- loop_clock, now <- loop_now, running <- loop_running,
  MaxClock <- 2, Lead <- 0, Delays <- {0, 2}, Intervals <- {1},
  MaxSets <- 2, MaxClears <- 0, MaxPosts <- 2, MaxFibers <- 1

Stock == INSTANCE StockDashboard WITH pc <- stock_pc

Tween(prop, ease, from, to, dur, loop) ==
  [prop |-> prop, ease |-> ease, from |-> from, to |-> to, dur |-> dur, loop |-> loop]

(* Tweens of every kind, for the run. *)
EveryKind == {Tween("alpha", "linear", 0, 12, 2, FALSE), Tween("alpha", "out", 12, 0, 2, FALSE),
              Tween("alpha", "inout", 0, 12, 3, FALSE), Tween("alpha", "in", 0, 12, 3, TRUE),
              Tween("alpha", "linear", 0, 4, 0, FALSE), Tween("x", "linear", 0, 8, 2, FALSE)}

Anims == INSTANCE Scene WITH
  Looks <- {[interactive |-> TRUE, border |-> FALSE]}, MaxQuads <- 6, Viewports <- {1},
  MaxEvents <- 0

ASSUME FramesAssumption ==
  Timers!LoopAssumption /\ Stock!StockAssumption /\ Anims!SceneAssumption

loopUnit  == <<loop_pc, loop_clock, loop_now, managed, loop_running, tasks, posts, heap,
               handle, clears, fires, fibers, current, fi, entries>>
stockUnit == <<stock_pc, frame, now, last, tickers, cells, accum, samples, fps, rendered>>
animUnit  == <<widgets, anims, viewport, drawn, event, called, events>>
frameVars == <<unit, vars, loopUnit, stockUnit, animUnit>>

-----------------------------------------------------------------------------
FramesInit ==
  /\ unit \in {"timers", "stock", "anims", "browser"}
  /\ Init /\ Timers!Init /\ Stock!Init /\ Anims!Init
  /\ unit # "stock" => \A t \in Tickers : tickers[t].price = 1

FramesNext ==
  \/ /\ unit = "timers" /\ Timers!Next /\ UNCHANGED <<unit, vars, stockUnit, animUnit>>
  \/ /\ unit = "stock" /\ Stock!Next /\ UNCHANGED <<unit, vars, loopUnit, animUnit>>
  \/ /\ unit = "anims" /\ Anims!Next /\ UNCHANGED <<unit, vars, loopUnit, stockUnit>>
  \/ /\ unit = "browser" /\ Next /\ UNCHANGED <<unit, loopUnit, stockUnit, animUnit>>

(* The fairness of the loop that is driven: sc_loop_run, or the embedding
   program, ticks and callbacks return; time passes; the benchmark goes on; the
   scene is updated in every frame; the browser makes frames. *)
FramesSpec ==
  /\ FramesInit /\ [][FramesNext]_frameVars
  /\ WF_loopUnit(unit = "timers" /\ Timers!Tick)
  /\ WF_loopUnit(unit = "timers" /\ Timers!Advance)
  /\ WF_loopUnit(unit = "timers" /\ Timers!RunReturns)
  /\ WF_stockUnit(unit = "stock" /\ Stock!Next)
  /\ WF_animUnit(unit = "anims" /\ Anims!Idle /\ Anims!UpdateNow)
  /\ WF_vars(unit = "browser" /\ Browser)

-----------------------------------------------------------------------------
(* Every frame of the benchmark shows the prices and their directions, and the
   label a whole window (update_dashboard). *)
FrameIsRight == Stock!FrameIsRight

(* The loops go on and end: a timer fires unless the loop is stopped, a stop
   ends sc_loop_run, a stopped browser loop runs out of callbacks, one-shot
   animations end, and the benchmark comes to its end with all prices drawn. *)
LoopsGoOn ==
  /\ Timers!EveryTimerFires /\ Timers!StopEnds /\ StopEnds /\ Anims!OneShotsEnd
  /\ (unit = "stock") ~> (frame = Frames /\ Stock!AllDrawn)

(* Animations keep within their time; an update that ends one of alpha leaves
   alpha at the tween's end, and one that ends one of a place leaves the widget
   where the layout puts it (sc_scene_update). *)
AnimationsEnd == []Anims!AnimationsKeepTime /\ Anims!EndsAtTarget
=============================================================================
