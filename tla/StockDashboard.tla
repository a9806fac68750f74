----------------------------- MODULE StockDashboard -----------------------------
(***************************************************************************)
(* The frame loop of stock_dashboard.c: prices that move, the cells that    *)
(* show them, the frames-per-second label, and the calls into the graphics  *)
(* context, the scene and the frame arena, in the order in which a frame    *)
(* makes them.  A price is a small number, time is in milliseconds.         *)
(***************************************************************************)
EXTENDS Integers, FiniteSets, FiniteSetsExt

CONSTANTS
  Tickers,             \* the tickers (1024 in the program)
  MaxPrice,            \* bound: prices are 1..MaxPrice
  TargetHz,            \* TARGET_HZ: the frames of a window of the counter
  FrameMs, Durations,  \* FRAME_NS; what a frame's work takes
  Frames               \* BENCH_FRAMES

StockAssumption ==
  /\ {MaxPrice, TargetHz, FrameMs, Frames} \subseteq Nat \ {0}
  /\ Durations \subseteq Nat /\ IsFiniteSet(Durations)

VARIABLES
  pc,                  \* the next step of the frame
  frame, now, last,    \* frame number, t_now, t_last
  tickers,             \* per ticker: price, prev, dirty
  cells,               \* per ticker: the price shown, and whether it is green
  accum, samples, fps, \* fps_accum, fps_sample_count; the label as <<frames, time>>
  rendered             \* history: the cells as the last frame drew them

clock   == <<frame, now, last>>
counter == <<accum, samples, fps>>
vars == <<pc, clock, tickers, cells, counter, rendered>>

Empty == [c \in Tickers |-> [shown |-> 0, green |-> TRUE]]

(* tickers_init and build_scene: every cell shows "0.00", and is to be filled. *)
Init ==
  /\ pc = "begin" /\ frame = 0 /\ now = 0 /\ last = 0
  /\ \E p \in [Tickers -> 1..MaxPrice] :
       tickers = [t \in Tickers |-> [price |-> p[t], prev |-> p[t], dirty |-> TRUE]]
  /\ cells = Empty /\ rendered = Empty
  /\ accum = 0 /\ samples = 0 /\ fps = <<0, 0>>

(* t_now is read; the first frame, which has no time, is taken for a whole one. *)
Dt == IF now = last THEN FrameMs ELSE now - last

BeginFrame == pc = "begin" /\ frame < Frames /\ pc' = "tick"
              /\ UNCHANGED <<clock, tickers, cells, counter, rendered>>

(* tickers_tick: some tickers move by a step. *)
Tick ==
  /\ pc = "tick" /\ pc' = "cells"
  /\ \E moved \in SUBSET Tickers, step \in [Tickers -> {-1, 0, 1}] :
       tickers' = [t \in Tickers |->
         IF t \notin moved THEN tickers[t]
         ELSE [price |-> Max({1, Min({MaxPrice, tickers[t].price + step[t]})}),
               prev |-> tickers[t].price, dirty |-> TRUE]]
  /\ UNCHANGED <<clock, cells, counter, rendered>>

Rising(t) == tickers[t].price >= tickers[t].prev

Mut_UpdateCells ==             \* shows the price before the move
  /\ pc = "cells" /\ pc' = "fps"
  /\ cells' = [t \in Tickers |-> IF tickers[t].dirty
                                 THEN [shown |-> tickers[t].prev, green |-> Rising(t)] ELSE cells[t]]
  /\ tickers' = [t \in Tickers |-> [tickers[t] EXCEPT !.dirty = FALSE]]
  /\ UNCHANGED <<clock, counter, rendered>>

(* Text and colours of the dirty cells. *)
UpdateCells ==
  /\ pc = "cells" /\ pc' = "fps"
  /\ cells' = [t \in Tickers |-> IF tickers[t].dirty
                                 THEN [shown |-> tickers[t].price, green |-> Rising(t)] ELSE cells[t]]
  /\ tickers' = [t \in Tickers |-> [tickers[t] EXCEPT !.dirty = FALSE]]
  /\ UNCHANGED <<clock, counter, rendered>>

CountFrame ==
  /\ pc = "fps" /\ pc' = "scene"
  /\ IF samples + 1 >= TargetHz
       THEN fps' = <<samples + 1, accum + Dt>> /\ accum' = 0 /\ samples' = 0
       ELSE accum' = accum + Dt /\ samples' = samples + 1 /\ UNCHANGED fps
  /\ UNCHANGED <<clock, tickers, cells, rendered>>

(* sc_scene_update, which lays the scene out, and sc_scene_render. *)
UpdateScene ==
  /\ pc = "scene" /\ pc' = "end" /\ rendered' = cells
  /\ UNCHANGED <<clock, tickers, cells, counter>>

(* The task queue is drained, the arena is reset (neither is used by this
   program), and the thread sleeps for what is left of the period. *)
EndFrame(work) ==
  /\ pc = "end" /\ pc' = "begin"
  /\ frame' = frame + 1 /\ last' = now /\ now' = now + Max({work, FrameMs})
  /\ UNCHANGED <<tickers, cells, counter, rendered>>

Next == \/ BeginFrame \/ Tick \/ UpdateCells \/ CountFrame \/ UpdateScene
        \/ \E work \in Durations : EndFrame(work)
Spec == Init /\ [][Next]_vars
FairSpec == Spec /\ WF_vars(Next)

-----------------------------------------------------------------------------
TypeOK ==
  /\ samples \in 0..(TargetHz - 1) /\ frame \in 0..Frames
  /\ \A t \in Tickers : tickers[t].price \in 1..MaxPrice /\ tickers[t].dirty \in BOOLEAN

(* What a frame has drawn is the price of every ticker, and its colour the
   direction of the last move, also for tickers that did not move since. *)
FrameShowsPrices ==
  pc = "end" => \A t \in Tickers :
    rendered[t] = [shown |-> tickers[t].price, green |-> Rising(t)]

(* The label tells a whole window: TARGET_HZ frames, and the time they took,
   which is a period each at least. *)
LabelTellsWindow ==
  fps # <<0, 0>> => /\ fps[1] = TargetHz
                    /\ fps[2] >= TargetHz * FrameMs
                    /\ fps[2] <= TargetHz * Max({FrameMs} \cup Durations)

(* What a frame shows is right: prices, directions and the rate. *)
FrameIsRight == TypeOK /\ FrameShowsPrices /\ LabelTellsWindow

(* All prices have been drawn. *)
AllDrawn == \A t \in Tickers : rendered[t].shown = tickers[t].price

=============================================================================
