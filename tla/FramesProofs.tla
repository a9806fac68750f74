------------------------------ MODULE FramesProofs ------------------------------
(***************************************************************************)
(* Proofs about the loops that drive frames, in the composition that the   *)
(* run of MCFrames checks: the browser's, for every cap of a step and any  *)
(* number of starts, stops, frames and callbacks; the benchmark's, for any *)
(* tickers, moves of prices and lengths of a frame; and the animations of  *)
(* a scene, for any number of them, any tweens and any lengths of a frame. *)
(***************************************************************************)
EXTENDS MCFrames, SequenceTheorems, FiniteSetTheorems, WellFoundedInduction, TLAPS

USE WasmAssumption

-----------------------------------------------------------------------------
(* The browser's frame loop. *)

(* The callbacks still to come. *)
Waiting == requested \cup batch

BrowserTypes ==
  /\ running \in BOOLEAN /\ frameId \in 0 .. ids /\ ids \in Nat
  /\ requested \subseteq 1 .. ids /\ batch \subseteq 1 .. ids
  /\ clock \in Nat /\ lastTs \in 0 .. clock /\ frameTs \in 0 .. clock /\ begun \in 0 .. clock
  /\ starts \in Nat /\ sceneTime \in Int /\ extra \in Nat /\ late \in Nat

(* What running loops have to come is their latest request; and a callback  *)
(* is in one of the two sets.                                               *)
LatestIsWaiting == (running => frameId \in Waiting) /\ requested \cap batch = {}

(* Before the first start nothing has been requested. *)
NothingBefore == starts = 0 => ~running /\ Waiting = {} /\ sceneTime = 0 /\ extra = 0

(* Each start of a running loop makes one chain of callbacks more than the  *)
(* one that stop cancels; each late tick ends such a chain.                 *)
Owed == Cardinality(Waiting) + late <= extra + (IF running THEN 1 ELSE 0)

(* The steps share the time up to the last one. *)
TimeGiven == sceneTime <= lastTs - begun

BrowserInv == BrowserTypes /\ LatestIsWaiting /\ NothingBefore /\ Owed /\ TimeGiven

-----------------------------------------------------------------------------
(* The least of the callbacks of a frame is one of them, and a step is at   *)
(* most the time since the last.                                            *)
LEMMA MinOfBatch == ASSUME NEW T, T \subseteq Nat, T # {}
                    PROVE  Min(T) \in T /\ \A y \in T : Min(T) <= y
<1> DEFINE R == OpToRel(<, Nat)
<1>1. \A x, y \in Nat : <<y, x>> \in R <=> y < x
  BY DEF OpToRel
<1>2. IsWellFoundedOn(R, Nat)
  BY NatLessThanWellFounded
<1> HIDE DEF R
<1>3. PICK x \in T : \A y \in T : ~ (<<y, x>> \in R)
  BY <1>2, WFMin
<1>4. \A y \in T : x <= y
  <2> SUFFICES ASSUME NEW y \in T PROVE x <= y
    OBVIOUS
  <2>1. x \in Nat /\ y \in Nat /\ ~ (y < x)
    BY <1>1, <1>3
  <2> QED
    BY <2>1
<1> QED
  BY <1>4 DEF Min

LEMMA StepAtMost == ASSUME NEW ts \in Nat, lastTs \in Nat
                    PROVE  Step(ts) \in Int /\ Step(ts) <= ts - lastTs
<1>1. \E x \in {ts - lastTs, Cap} : \A y \in {ts - lastTs, Cap} : x <= y
  OBVIOUS
<1>2. /\ Step(ts) \in {ts - lastTs, Cap}
      /\ \A y \in {ts - lastTs, Cap} : Step(ts) <= y
  BY <1>1 DEF Step, Min
<1> QED
  BY <1>2

(* The callbacks that wait are finitely many. *)
LEMMA WaitingFinite == ASSUME BrowserTypes PROVE IsFiniteSet(Waiting)
<1>1. IsFiniteSet(1 .. ids)
  BY FS_Interval DEF BrowserTypes
<1>2. Waiting \in SUBSET (1 .. ids)
  BY DEF BrowserTypes, Waiting
<1> QED
  BY <1>1, <1>2, FS_Subset

-----------------------------------------------------------------------------
LEMMA BrowserBegins == Init => BrowserInv
<1> SUFFICES ASSUME Init PROVE BrowserInv
  OBVIOUS
<1>1. Waiting = {} /\ Cardinality(Waiting) = 0
  BY FS_EmptySet DEF Init, Waiting
<1>2. BrowserTypes
  <2>1. running \in BOOLEAN
    BY Zenon DEF Init
  <2> QED
    BY <2>1 DEF Init, BrowserTypes
<1>3. LatestIsWaiting /\ NothingBefore
  BY <1>1 DEF Init, LatestIsWaiting, NothingBefore
<1>4. Owed /\ TimeGiven
  BY <1>1 DEF Init, Owed, TimeGiven
<1> QED
  BY <1>2, <1>3, <1>4 DEF BrowserInv

(* A start requests one callback more, and owes it if the loop was running. *)
LEMMA StartKeeps == ASSUME BrowserInv, Start PROVE BrowserInv'
<1> USE DEF BrowserInv, Start, Request
<1>1. BrowserTypes'
  BY DEF BrowserTypes
<1>2. Waiting' = Waiting \cup {ids + 1} /\ ids + 1 \notin Waiting
  BY DEF Waiting, BrowserTypes
<1>3. LatestIsWaiting'
  BY <1>2 DEF LatestIsWaiting, BrowserTypes
<1>4. NothingBefore'
  BY DEF NothingBefore, BrowserTypes
<1>5. Owed'
  <2>1. Cardinality(Waiting') = Cardinality(Waiting) + 1 /\ Cardinality(Waiting) \in Nat
    BY <1>2, WaitingFinite, FS_AddElement, FS_CardinalityType
  <2>2. CASE running
    BY <2>1, <2>2 DEF Owed, BrowserTypes
  <2>3. CASE ~running
    BY <2>1, <2>3 DEF Owed, BrowserTypes
  <2> QED
    BY <2>2, <2>3
<1>6. TimeGiven'
  <2>1. CASE starts = 0
    BY <2>1 DEF TimeGiven, NothingBefore, BrowserTypes
  <2>2. CASE starts # 0
    BY <2>2 DEF TimeGiven, BrowserTypes
  <2> QED
    BY <2>1, <2>2
<1> QED
  BY <1>1, <1>3, <1>4, <1>5, <1>6

(* A stop of a running loop cancels its latest request. *)
LEMMA StopKeeps == ASSUME BrowserInv, Stop PROVE BrowserInv'
<1> USE DEF BrowserInv, Stop, history
<1>1. BrowserTypes'
  BY DEF BrowserTypes
<1>2. Waiting' = Waiting \ {frameId}
  BY DEF Waiting
<1>3. LatestIsWaiting' /\ NothingBefore'
  BY <1>2 DEF LatestIsWaiting, NothingBefore
<1>4. Owed'
  <2>1. /\ Cardinality(Waiting') = IF frameId \in Waiting THEN Cardinality(Waiting) - 1
                                   ELSE Cardinality(Waiting)
        /\ Cardinality(Waiting) \in Nat
    BY <1>2, WaitingFinite, FS_RemoveElement, FS_CardinalityType
  <2>2. CASE running
    <3>1. Cardinality(Waiting') = Cardinality(Waiting) - 1
      BY <2>1, <2>2 DEF LatestIsWaiting
    <3> QED
      BY <2>1, <2>2, <3>1 DEF Owed, BrowserTypes
  <2>3. CASE ~running
    BY <2>1, <2>3 DEF Owed, BrowserTypes
  <2> QED
    BY <2>2, <2>3
<1>5. TimeGiven'
  BY DEF TimeGiven
<1> QED
  BY <1>1, <1>3, <1>4, <1>5

(* The beginning of a frame moves the callbacks, and time only passes. *)
LEMMA BeginFrameKeeps == ASSUME BrowserInv, BeginFrame PROVE BrowserInv'
<1> USE DEF BrowserInv, BeginFrame, appVars, history
<1>1. Waiting' = Waiting
  BY DEF Waiting
<1>2. BrowserTypes'
  BY DEF BrowserTypes
<1>3. LatestIsWaiting' /\ NothingBefore' /\ Owed' /\ TimeGiven'
  BY <1>1 DEF LatestIsWaiting, NothingBefore, Owed, TimeGiven
<1> QED
  BY <1>2, <1>3

LEMMA PassKeeps == ASSUME BrowserInv, Pass PROVE BrowserInv'
<1> USE DEF BrowserInv, Pass, appVars, browserVars, history
<1>1. Waiting' = Waiting
  BY DEF Waiting
<1>2. BrowserTypes'
  BY DEF BrowserTypes
<1>3. LatestIsWaiting' /\ NothingBefore' /\ Owed' /\ TimeGiven'
  BY <1>1 DEF LatestIsWaiting, NothingBefore, Owed, TimeGiven
<1> QED
  BY <1>2, <1>3

(* A callback goes, and another comes unless the loop is stopped. *)
LEMMA CallbackKeeps == ASSUME BrowserInv, Callback PROVE BrowserInv'
<1> USE DEF BrowserInv
<1> DEFINE m == Min(batch)
<1>1. m \in batch /\ m \in Waiting
  <2>1. batch \subseteq Nat /\ batch # {}
    BY DEF BrowserTypes, Callback
  <2> QED
    BY <2>1, MinOfBatch DEF Waiting
<1> HIDE DEF m
<1>2. Step(frameTs) \in Int /\ Step(frameTs) <= frameTs - lastTs
  BY StepAtMost DEF BrowserTypes
<1>3. /\ batch' = batch \ {m} /\ lastTs' = frameTs /\ sceneTime' = sceneTime + Step(frameTs)
      /\ running' = running /\ frameTs' = frameTs /\ clock' = clock /\ starts' = starts
      /\ begun' = begun /\ extra' = extra
  BY DEF Callback, m
<1>4. starts # 0
  BY <1>1 DEF NothingBefore
<1>5. TimeGiven' /\ NothingBefore'
  BY <1>2, <1>3, <1>4 DEF TimeGiven, NothingBefore, BrowserTypes
<1>6. /\ clock' \in Nat /\ lastTs' \in 0 .. clock' /\ frameTs' \in 0 .. clock'
      /\ begun' \in 0 .. clock' /\ sceneTime' \in Int
  BY <1>2, <1>3 DEF BrowserTypes
<1>7. IsFiniteSet(Waiting \ {m}) /\ Cardinality(Waiting \ {m}) = Cardinality(Waiting) - 1
      /\ Cardinality(Waiting) \in Nat
  BY <1>1, WaitingFinite, FS_RemoveElement, FS_CardinalityType
<1>8. CASE running
  <2>1. /\ ids' = ids + 1 /\ frameId' = ids + 1 /\ requested' = requested \cup {ids + 1}
        /\ late' = late
    BY <1>8 DEF Callback, Loop, Request
  <2>2. BrowserTypes'
    <3>1. requested' \subseteq 1 .. ids' /\ batch' \subseteq 1 .. ids'
      <4>1. batch' \subseteq batch /\ ids \in Nat
        BY <1>3 DEF BrowserTypes
      <4> QED
        BY <2>1, <4>1 DEF BrowserTypes
    <3> QED
      BY <1>3, <1>6, <2>1, <3>1 DEF BrowserTypes
  <2>3. ids + 1 \notin requested /\ ids + 1 \notin batch
    BY DEF BrowserTypes
  <2>4. Waiting' = (Waiting \ {m}) \cup {ids + 1} /\ ids + 1 \notin Waiting \ {m}
    BY <1>1, <1>3, <2>1, <2>3 DEF Waiting, LatestIsWaiting
  <2>5. LatestIsWaiting'
    BY <1>3, <2>1, <2>3, <2>4 DEF LatestIsWaiting
  <2>6. Owed'
    <3>1. Cardinality(Waiting') = Cardinality(Waiting \ {m}) + 1
      BY <1>7, <2>4, FS_AddElement
    <3> QED
      BY <1>3, <1>7, <2>1, <3>1 DEF Owed, BrowserTypes
  <2> QED
    BY <1>5, <2>2, <2>5, <2>6
<1>9. CASE ~running
  <2>1. ids' = ids /\ frameId' = frameId /\ requested' = requested /\ late' = late + 1
    BY <1>9 DEF Callback, Loop
  <2>2. BrowserTypes'
    <3>1. batch' \subseteq batch
      BY <1>3
    <3>2. running' \in BOOLEAN
      BY <1>3, Zenon DEF BrowserTypes
    <3>3. /\ frameId' \in 0 .. ids' /\ ids' \in Nat /\ requested' \subseteq 1 .. ids'
          /\ batch' \subseteq 1 .. ids'
      BY <2>1, <3>1 DEF BrowserTypes
    <3>4. starts' \in Nat /\ extra' \in Nat /\ late' \in Nat
      BY <1>3, <2>1 DEF BrowserTypes
    <3> QED
      BY <1>6, <3>2, <3>3, <3>4 DEF BrowserTypes
  <2>3. Waiting' = Waiting \ {m}
    BY <1>1, <1>3, <2>1 DEF Waiting, LatestIsWaiting
  <2>4. LatestIsWaiting'
    BY <1>3, <1>9, <2>1 DEF LatestIsWaiting
  <2>5. Owed'
    BY <1>3, <1>7, <1>9, <2>1, <2>3 DEF Owed, BrowserTypes
  <2> QED
    BY <1>5, <2>2, <2>4, <2>5
<1> QED
  BY <1>8, <1>9

(* Whatever the order of starts, stops and frames: a running loop has a     *)
(* callback to come, the scene is ticked in a stopped one at most as often  *)
(* as the loop was started while it ran, and it is never given more time    *)
(* than has passed.                                                         *)
THEOREM FramesStaySound == FramesSpec => []FramesAreSound
<1>1. BrowserInv /\ [FramesNext]_frameVars => BrowserInv'
  <2> SUFFICES ASSUME BrowserInv, [FramesNext]_frameVars PROVE BrowserInv'
    OBVIOUS
  <2>1. CASE UNCHANGED vars
    BY <2>1 DEF vars, appVars, browserVars, history, BrowserInv, BrowserTypes, LatestIsWaiting,
                NothingBefore, Owed, TimeGiven, Waiting
  <2>2. CASE Next
    BY <2>2, StartKeeps, StopKeeps, BeginFrameKeeps, PassKeeps, CallbackKeeps DEF Next, Browser
  <2> QED
    BY <2>1, <2>2 DEF FramesNext, frameVars
<1>2. BrowserInv => FramesAreSound
  <2> SUFFICES ASSUME BrowserInv PROVE FramesAreSound
    OBVIOUS
  <2>1. RunningGoesOn
    BY DEF BrowserInv, LatestIsWaiting, Waiting, RunningGoesOn
  <2>2. LateTicksOnlyAfterExtraStarts
    <3>1. Cardinality(Waiting) \in Nat /\ (running => Cardinality(Waiting) # 0)
      BY WaitingFinite, FS_CardinalityType, FS_EmptySet DEF BrowserInv, LatestIsWaiting
    <3> QED
      BY <3>1 DEF BrowserInv, Owed, BrowserTypes, LateTicksOnlyAfterExtraStarts
  <2>3. SceneTimeWithinClock
    BY DEF BrowserInv, BrowserTypes, TimeGiven, SceneTimeWithinClock
  <2> QED
    BY <2>1, <2>2, <2>3 DEF FramesAreSound
<1>3. FramesInit => BrowserInv
  BY BrowserBegins DEF FramesInit
<1> QED
  BY <1>1, <1>2, <1>3, PTL DEF FramesSpec

-----------------------------------------------------------------------------
(* The benchmark's frames. *)

(* Induction over the numbers, for a set of them. *)
LEMMA Induction == ASSUME NEW S, 0 \in S, \A n \in Nat : n \in S => n + 1 \in S
                   PROVE  Nat \subseteq S
<1>1. SUFFICES ASSUME Nat \ S # {} PROVE FALSE
  OBVIOUS
<1> DEFINE m == Min(Nat \ S)
<1>2. m \in Nat \ S /\ \A y \in Nat \ S : m <= y
  BY <1>1, MinOfBatch
<1> HIDE DEF m
<1>3. m # 0 /\ m - 1 \in Nat
  BY <1>2
<1>4. m - 1 \in S
  BY <1>2, <1>3
<1> QED
  BY <1>2, <1>3, <1>4

(* A finite set of numbers has a largest.                                   *)
LEMMA FiniteMax == ASSUME NEW T, T \subseteq Nat, T # {}, IsFiniteSet(T)
                   PROVE  Stock!Max(T) \in T /\ \A y \in T : y <= Stock!Max(T)
<1> DEFINE c == Cardinality(T)
<1>1. c \in Nat /\ ExistsBijection(1 .. c, T)
  BY FS_CardinalityType
<1>2. PICK f \in [1 .. c -> T] : \A y \in T : \E x \in 1 .. c : f[x] = y
  BY <1>1 DEF ExistsBijection, Bijection, Surjection
<1> HIDE DEF c
<1> DEFINE S == {m \in Nat : 1 <= m /\ m <= c => \E x \in 1 .. m : \A y \in 1 .. m : f[y] <= f[x]}
<1>3. \A m \in 1 .. c : f[m] \in Nat
  BY <1>2
<1>4. 0 \in S
  OBVIOUS
<1>5. ASSUME NEW m \in Nat, m \in S PROVE m + 1 \in S
  <2> SUFFICES ASSUME m + 1 <= c
               PROVE  \E x \in 1 .. m + 1 : \A y \in 1 .. m + 1 : f[y] <= f[x]
    OBVIOUS
  <2>1. CASE m = 0
    <3>1. \A y \in 1 .. m + 1 : y = 1
      BY <2>1
    <3> QED
      BY <1>1, <1>3, <2>1, <3>1
  <2>2. CASE m # 0
    <3>1. PICK x \in 1 .. m : \A y \in 1 .. m : f[y] <= f[x]
      BY <1>1, <1>5, <2>2
    <3>2. /\ x \in 1 .. m + 1 /\ m + 1 \in 1 .. m + 1 /\ f[x] \in Nat /\ f[m + 1] \in Nat
          /\ \A y \in 1 .. m + 1 : (y \in 1 .. m \/ y = m + 1) /\ f[y] \in Nat
      BY <1>1, <1>3
    <3>3. CASE f[m + 1] <= f[x]
      BY <3>1, <3>2, <3>3
    <3>4. CASE ~ (f[m + 1] <= f[x])
      <4>1. \A y \in 1 .. m + 1 : f[y] <= f[m + 1]
        BY <3>1, <3>2, <3>4
      <4> QED
        BY <3>2, <4>1
    <3> QED
      BY <3>3, <3>4
  <2> QED
    BY <2>1, <2>2
<1>6. c # 0
  <2>1. PICK y \in T : TRUE
    OBVIOUS
  <2>2. \E x \in 1 .. c : f[x] = y
    BY <1>2, <2>1
  <2> QED
    BY <1>1, <2>2
<1>7. PICK x \in 1 .. c : \A y \in 1 .. c : f[y] <= f[x]
  <2>1. c \in S
    <3> HIDE DEF S
    <3> QED
      BY <1>1, <1>4, <1>5, Induction
  <2> QED
    BY <1>1, <1>6, <2>1
<1>8. f[x] \in T /\ \A y \in T : y <= f[x]
  BY <1>2, <1>7
<1>9. \E z \in T : \A y \in T : z >= y
  BY <1>8
<1> QED
  BY <1>9 DEF Stock!Max

(* The longest frame. *)
Longest == Stock!Max({FrameMs} \cup Durations)

Ticker == [price : 1 .. MaxPrice, prev : 1 .. MaxPrice, dirty : BOOLEAN]

StockTypes ==
  /\ stock_pc \in {"begin", "tick", "cells", "fps", "scene", "end"}
  /\ frame \in 0 .. Frames /\ (stock_pc # "begin" => frame < Frames)
  /\ now \in Nat /\ last \in Nat /\ accum \in Nat /\ samples \in 0 .. (TargetHz - 1)
  /\ tickers \in [Tickers -> Ticker]

(* A ticker that is not dirty is shown as it is; after the cells have been  *)
(* written none is dirty, until the next frame moves some.                  *)
CellsCurrent ==
  /\ \A t \in Tickers :
       ~ tickers[t].dirty => cells[t] = [shown |-> tickers[t].price, green |-> Stock!Rising(t)]
  /\ stock_pc \in {"fps", "scene", "end"} => \A t \in Tickers : ~ tickers[t].dirty
  /\ stock_pc = "end" => rendered = cells

(* A frame takes a period at least and the longest at most; the window has  *)
(* the time of its frames.                                                  *)
TimeCounted ==
  /\ now = last \/ (last + FrameMs <= now /\ now <= last + Longest)
  /\ samples * FrameMs <= accum /\ accum <= samples * Longest

StockInv == StockTypes /\ CellsCurrent /\ TimeCounted /\ Stock!LabelTellsWindow

LEMMA StockConstants ==
    /\ MaxPrice \in Nat \ {0} /\ TargetHz \in Nat \ {0} /\ FrameMs \in Nat \ {0}
    /\ Frames \in Nat \ {0} /\ Durations \subseteq Nat
    /\ Longest \in Nat /\ FrameMs <= Longest /\ \A d \in Durations : d <= Longest
<1>1. /\ MaxPrice \in Nat \ {0} /\ TargetHz \in Nat \ {0} /\ FrameMs \in Nat \ {0}
      /\ Frames \in Nat \ {0} /\ Durations \subseteq Nat
  BY FramesAssumption DEF Stock!StockAssumption
<1>2. IsFiniteSet(Durations)
  BY FramesAssumption DEF Stock!StockAssumption, Stock!IsFiniteSet, IsFiniteSet
<1> DEFINE T == {FrameMs} \cup Durations
<1>3. T \subseteq Nat /\ T # {} /\ IsFiniteSet(T) /\ FrameMs \in T /\ \A d \in Durations : d \in T
  <2>1. IsFiniteSet(Durations \cup {FrameMs}) /\ T = Durations \cup {FrameMs}
    BY <1>2, FS_AddElement
  <2> QED
    BY <1>1, <2>1
<1> HIDE DEF T
<1>4. Stock!Max(T) \in T /\ \A y \in T : y <= Stock!Max(T)
  BY <1>3, FiniteMax
<1>5. Stock!Max(T) \in Nat /\ FrameMs <= Stock!Max(T) /\ \A d \in Durations : d <= Stock!Max(T)
  BY <1>3, <1>4
<1> QED
  BY <1>1, <1>5 DEF Longest, T

(* Of two numbers. *)
LEMMA OfTwo == ASSUME NEW x \in Int, NEW y \in Int
               PROVE  /\ Stock!Max({x, y}) = IF x >= y THEN x ELSE y
                      /\ Stock!Min({x, y}) = IF x <= y THEN x ELSE y
<1>1. \E z \in {x, y} : \A u \in {x, y} : z >= u
  OBVIOUS
<1>2. \E z \in {x, y} : \A u \in {x, y} : z <= u
  OBVIOUS
<1>3. Stock!Max({x, y}) \in {x, y} /\ \A u \in {x, y} : Stock!Max({x, y}) >= u
  BY <1>1 DEF Stock!Max
<1>4. Stock!Min({x, y}) \in {x, y} /\ \A u \in {x, y} : Stock!Min({x, y}) <= u
  BY <1>2 DEF Stock!Min
<1> QED
  BY <1>3, <1>4

(* One frame more in the window.                                            *)
LEMMA OneMoreFrame ==
    ASSUME NEW k \in Nat, NEW m \in Nat
    PROVE  (k + 1) * m = k * m + m /\ k * m \in Nat
<1>1. (k + 1) * m = k * m + m
  BY SMTT(30)
<1>2. k * m \in Nat
  BY SMTT(30)
<1> QED
  BY <1>1, <1>2

LEMMA StockBegins == Stock!Init => StockInv
<1> SUFFICES ASSUME Stock!Init PROVE StockInv
  OBVIOUS
<1> USE StockConstants
<1>1. PICK p \in [Tickers -> 1 .. MaxPrice] :
         tickers = [t \in Tickers |-> [price |-> p[t], prev |-> p[t], dirty |-> TRUE]]
  BY DEF Stock!Init
<1>2. /\ stock_pc = "begin" /\ frame = 0 /\ now = 0 /\ last = 0
      /\ accum = 0 /\ samples = 0 /\ fps = <<0, 0>>
  BY DEF Stock!Init
<1>3. tickers \in [Tickers -> Ticker] /\ \A t \in Tickers : tickers[t].dirty
  BY <1>1 DEF Ticker
<1>4. StockTypes
  BY <1>2, <1>3 DEF StockTypes
<1>5. CellsCurrent
  BY <1>2, <1>3 DEF CellsCurrent
<1>6. 0 * FrameMs = 0 /\ 0 * Longest = 0
  OBVIOUS
<1>7. TimeCounted
  BY <1>2, <1>6 DEF TimeCounted
<1>8. Stock!LabelTellsWindow
  BY <1>2 DEF Stock!LabelTellsWindow
<1> QED
  BY <1>4, <1>5, <1>7, <1>8 DEF StockInv

LEMMA StockBeginFrame == ASSUME StockInv, Stock!BeginFrame PROVE StockInv'
<1> USE StockConstants
<1>1. /\ stock_pc' = "tick" /\ frame < Frames /\ stock_pc = "begin"
      /\ UNCHANGED <<frame, now, last, tickers, cells, accum, samples, fps, rendered>>
  BY DEF Stock!BeginFrame, Stock!clock, Stock!counter
<1>2. StockTypes'
  BY <1>1 DEF StockInv, StockTypes
<1>3. CellsCurrent'
  BY <1>1 DEF StockInv, CellsCurrent, Stock!Rising
<1>4. TimeCounted'
  BY <1>1 DEF StockInv, TimeCounted
<1>5. (Stock!LabelTellsWindow)'
  BY <1>1 DEF StockInv, Stock!LabelTellsWindow
<1> QED
  BY <1>2, <1>3, <1>4, <1>5 DEF StockInv

(* Prices move by a step and stay prices; what moves is dirty.              *)
LEMMA StockTick == ASSUME StockInv, Stock!Tick PROVE StockInv'
<1> USE StockConstants
<1>1. PICK moved \in SUBSET Tickers, step \in [Tickers -> {-1, 0, 1}] :
         tickers' = [t \in Tickers |->
           IF t \notin moved THEN tickers[t]
           ELSE [price |-> Stock!Max({1, Stock!Min({MaxPrice, tickers[t].price + step[t]})}),
                 prev |-> tickers[t].price, dirty |-> TRUE]]
  BY DEF Stock!Tick
<1>2. /\ stock_pc' = "cells" /\ stock_pc = "tick"
      /\ UNCHANGED <<frame, now, last, cells, accum, samples, fps, rendered>>
  BY DEF Stock!Tick, Stock!clock, Stock!counter
<1>3. tickers \in [Tickers -> Ticker]
  BY DEF StockInv, StockTypes
<1>4. ASSUME NEW t \in Tickers, t \in moved PROVE tickers'[t] \in Ticker /\ tickers'[t].dirty
  <2> DEFINE z == tickers[t].price + step[t]
             q == Stock!Max({1, Stock!Min({MaxPrice, z})})
  <2>1. tickers[t].price \in 1 .. MaxPrice /\ z \in Int
    BY <1>3 DEF Ticker
  <2> HIDE DEF z
  <2>2. Stock!Min({MaxPrice, z}) \in Int /\ Stock!Min({MaxPrice, z}) <= MaxPrice
    <3>1. MaxPrice \in Int /\ z \in Int
      BY <2>1
    <3>2. Stock!Min({MaxPrice, z}) = IF MaxPrice <= z THEN MaxPrice ELSE z
      BY <3>1, OfTwo
    <3> QED
      BY <3>1, <3>2
  <2>3. q \in 1 .. MaxPrice
    BY <2>2, OfTwo
  <2>4. tickers'[t] = [price |-> q, prev |-> tickers[t].price, dirty |-> TRUE]
    BY <1>1, <1>4 DEF z
  <2> HIDE DEF q
  <2> QED
    BY <2>1, <2>3, <2>4 DEF Ticker
<1>5. \A t \in Tickers : t \notin moved => tickers'[t] = tickers[t]
  BY <1>1
<1>6. tickers' \in [Tickers -> Ticker]
  <2>1. \A t \in Tickers : tickers'[t] \in Ticker
    BY <1>3, <1>4, <1>5
  <2> QED
    BY <1>1, <2>1
<1>7. StockTypes'
  BY <1>2, <1>6 DEF StockInv, StockTypes
<1>8. CellsCurrent'
  <2>1. \A t \in Tickers : ~ tickers'[t].dirty => t \notin moved
    BY <1>4
  <2> QED
    BY <1>2, <1>5, <2>1 DEF StockInv, CellsCurrent, Stock!Rising
<1>9. TimeCounted'
  BY <1>2 DEF StockInv, TimeCounted
<1>10. (Stock!LabelTellsWindow)'
  BY <1>2 DEF StockInv, Stock!LabelTellsWindow
<1> QED
  BY <1>7, <1>8, <1>9, <1>10 DEF StockInv

(* The dirty cells are written, and then none is.                           *)
LEMMA StockCells == ASSUME StockInv, Stock!UpdateCells PROVE StockInv'
<1> USE StockConstants
<1>1. /\ stock_pc' = "fps" /\ stock_pc = "cells"
      /\ UNCHANGED <<frame, now, last, accum, samples, fps, rendered>>
  BY DEF Stock!UpdateCells, Stock!clock, Stock!counter
<1>2. /\ cells' = [t \in Tickers |-> IF tickers[t].dirty
                      THEN [shown |-> tickers[t].price, green |-> Stock!Rising(t)] ELSE cells[t]]
      /\ tickers' = [t \in Tickers |-> [tickers[t] EXCEPT !.dirty = FALSE]]
  BY DEF Stock!UpdateCells
<1>3. tickers \in [Tickers -> Ticker]
  BY DEF StockInv, StockTypes
<1>4. /\ tickers' \in [Tickers -> Ticker]
      /\ \A t \in Tickers : /\ ~ tickers'[t].dirty /\ tickers'[t].price = tickers[t].price
                            /\ tickers'[t].prev = tickers[t].prev
  BY <1>2, <1>3 DEF Ticker
<1>5. \A t \in Tickers : cells'[t] = [shown |-> tickers[t].price, green |-> Stock!Rising(t)]
  BY <1>2 DEF StockInv, CellsCurrent
<1>6. \A t \in Tickers : (Stock!Rising(t))' = Stock!Rising(t)
  BY <1>4 DEF Stock!Rising
<1>7. StockTypes'
  BY <1>1, <1>4 DEF StockInv, StockTypes
<1>8. CellsCurrent'
  BY <1>1, <1>4, <1>5, <1>6 DEF CellsCurrent
<1>9. TimeCounted'
  BY <1>1 DEF StockInv, TimeCounted
<1>10. (Stock!LabelTellsWindow)'
  BY <1>1 DEF StockInv, Stock!LabelTellsWindow
<1> QED
  BY <1>7, <1>8, <1>9, <1>10 DEF StockInv

(* The frame is counted; a whole window is told and a new one begins.       *)
LEMMA StockCounts == ASSUME StockInv, Stock!CountFrame PROVE StockInv'
<1> USE StockConstants
<1>1. /\ stock_pc' = "scene" /\ stock_pc = "fps"
      /\ UNCHANGED <<frame, now, last, tickers, cells, rendered>>
  BY DEF Stock!CountFrame, Stock!clock
<1>2. /\ now \in Nat /\ last \in Nat /\ accum \in Nat /\ samples \in 0 .. (TargetHz - 1)
      /\ samples \in Nat
  BY DEF StockInv, StockTypes
<1> DEFINE dt == Stock!Dt
<1>3. dt \in Nat /\ FrameMs <= dt /\ dt <= Longest
  BY <1>2 DEF StockInv, TimeCounted, Stock!Dt
<1> HIDE DEF dt
<1>4. /\ samples * FrameMs <= accum /\ accum <= samples * Longest
      /\ samples * FrameMs \in Nat /\ samples * Longest \in Nat
      /\ (samples + 1) * FrameMs = samples * FrameMs + FrameMs
      /\ (samples + 1) * Longest = samples * Longest + Longest
  BY <1>2, OneMoreFrame DEF StockInv, TimeCounted
<1>5. (samples + 1) * FrameMs <= accum + dt /\ accum + dt <= (samples + 1) * Longest
  BY <1>2, <1>3, <1>4
<1>6. CellsCurrent'
  BY <1>1 DEF StockInv, CellsCurrent, Stock!Rising
<1>7. CASE samples + 1 >= TargetHz
  <2>1. fps' = <<samples + 1, accum + dt>> /\ accum' = 0 /\ samples' = 0
    BY <1>7 DEF Stock!CountFrame, dt
  <2>2. samples + 1 = TargetHz
    BY <1>2, <1>7
  <2>3. StockTypes'
    BY <1>1, <2>1 DEF StockInv, StockTypes
  <2>4. 0 * FrameMs = 0 /\ 0 * Longest = 0
    OBVIOUS
  <2>5. TimeCounted'
    BY <1>1, <2>1, <2>4 DEF StockInv, TimeCounted
  <2>6. fps'[1] = TargetHz /\ fps'[2] = accum + dt
    BY <2>1, <2>2
  <2>7. TargetHz * FrameMs <= accum + dt /\ accum + dt <= TargetHz * Longest
    BY <1>5, <2>2
  <2>8. (Stock!LabelTellsWindow)'
    BY <2>6, <2>7 DEF Stock!LabelTellsWindow, Longest
  <2> QED
    BY <1>6, <2>3, <2>5, <2>8 DEF StockInv
<1>8. CASE ~ (samples + 1 >= TargetHz)
  <2>1. fps' = fps /\ accum' = accum + dt /\ samples' = samples + 1
    BY <1>8 DEF Stock!CountFrame, dt
  <2>2. samples + 1 \in 0 .. (TargetHz - 1) /\ accum + dt \in Nat
    BY <1>2, <1>3, <1>8
  <2>3. StockTypes'
    BY <1>1, <2>1, <2>2 DEF StockInv, StockTypes
  <2>4. TimeCounted'
    BY <1>1, <1>5, <2>1 DEF StockInv, TimeCounted
  <2>5. (Stock!LabelTellsWindow)'
    BY <2>1 DEF StockInv, Stock!LabelTellsWindow
  <2> QED
    BY <1>6, <2>3, <2>4, <2>5 DEF StockInv
<1> QED
  BY <1>7, <1>8

LEMMA StockScene == ASSUME StockInv, Stock!UpdateScene PROVE StockInv'
<1> USE StockConstants
<1>1. /\ stock_pc' = "end" /\ stock_pc = "scene" /\ rendered' = cells
      /\ UNCHANGED <<frame, now, last, tickers, cells, accum, samples, fps>>
  BY DEF Stock!UpdateScene, Stock!clock, Stock!counter
<1>2. StockTypes'
  BY <1>1 DEF StockInv, StockTypes
<1>3. CellsCurrent'
  BY <1>1 DEF StockInv, CellsCurrent, Stock!Rising
<1>4. TimeCounted'
  BY <1>1 DEF StockInv, TimeCounted
<1>5. (Stock!LabelTellsWindow)'
  BY <1>1 DEF StockInv, Stock!LabelTellsWindow
<1> QED
  BY <1>2, <1>3, <1>4, <1>5 DEF StockInv

LEMMA StockEnd == ASSUME StockInv, NEW work \in Durations, Stock!EndFrame(work) PROVE StockInv'
<1> USE StockConstants
<1>1. /\ stock_pc' = "begin" /\ stock_pc = "end" /\ frame' = frame + 1 /\ last' = now
      /\ now' = now + Stock!Max({work, FrameMs})
      /\ UNCHANGED <<tickers, cells, accum, samples, fps, rendered>>
  BY DEF Stock!EndFrame, Stock!counter
<1>2. /\ Stock!Max({work, FrameMs}) \in Nat /\ FrameMs <= Stock!Max({work, FrameMs})
      /\ Stock!Max({work, FrameMs}) <= Longest
  BY OfTwo
<1>3. StockTypes'
  BY <1>1, <1>2 DEF StockInv, StockTypes
<1>4. CellsCurrent'
  BY <1>1 DEF StockInv, CellsCurrent, Stock!Rising
<1>5. TimeCounted'
  <2>1. now \in Nat
    BY DEF StockInv, StockTypes
  <2>2. last' + FrameMs <= now' /\ now' <= last' + Longest
    BY <1>1, <1>2, <2>1
  <2> QED
    BY <1>1, <2>2 DEF StockInv, TimeCounted
<1>6. (Stock!LabelTellsWindow)'
  BY <1>1 DEF StockInv, Stock!LabelTellsWindow
<1> QED
  BY <1>3, <1>4, <1>5, <1>6 DEF StockInv

(* Every frame of the benchmark draws the price of every ticker and the      *)
(* direction of its last move, although only dirty cells are written; and    *)
(* the label tells a whole window, with the time of its frames: for any      *)
(* number of tickers and frames, any moves and any lengths of a frame.       *)
THEOREM FramesShowPrices == FramesSpec => []FrameIsRight
<1>1. FramesInit => StockInv
  BY StockBegins DEF FramesInit
<1>2. StockInv /\ [FramesNext]_frameVars => StockInv'
  <2> SUFFICES ASSUME StockInv, [FramesNext]_frameVars PROVE StockInv'
    OBVIOUS
  <2>1. CASE UNCHANGED stockUnit
    <3>1. UNCHANGED <<stock_pc, frame, now, last, tickers, cells, accum, samples, fps, rendered>>
      BY <2>1 DEF stockUnit
    <3> QED
      BY <3>1 DEF StockInv, StockTypes, CellsCurrent, TimeCounted, Stock!LabelTellsWindow,
                  Stock!Rising
  <2>2. CASE Stock!Next
    BY <2>2, StockBeginFrame, StockTick, StockCells, StockCounts, StockScene, StockEnd
       DEF Stock!Next
  <2> QED
    BY <2>1, <2>2 DEF FramesNext, frameVars
<1>3. StockInv => FrameIsRight
  <2> SUFFICES ASSUME StockInv PROVE FrameIsRight
    OBVIOUS
  <2>1. Stock!TypeOK
    BY DEF StockInv, StockTypes, Ticker, Stock!TypeOK
  <2>2. Stock!FrameShowsPrices
    BY DEF StockInv, CellsCurrent, Stock!FrameShowsPrices
  <2> QED
    BY <2>1, <2>2 DEF StockInv, FrameIsRight, Stock!FrameIsRight
<1> QED
  BY <1>1, <1>2, <1>3, PTL DEF FramesSpec

-----------------------------------------------------------------------------
(* The animations of a scene. *)

LEMMA AnimConstants ==
    /\ MaxAnims \in Nat /\ MaxWidgets \in Nat /\ Deltas \subseteq Nat /\ Alphas \subseteq Int
    /\ \A t \in Tweens : /\ t.dur \in Nat /\ t.from \in Int /\ t.to \in Int
                         /\ t.ease \in {"linear", "in", "out", "inout"}
<1>1. Anims!SceneAssumption
  BY FramesAssumption
<1> QED
  BY <1>1 DEF Anims!SceneAssumption

(* What a widget and an animation are. *)
Spot == {Anims!Unset} \cup [by : {"layout"}, viewport : {1}, count : Nat]
Shape == [interactive : BOOLEAN, border : BOOLEAN, visible : BOOLEAN, alpha : Int, pos : Spot]
Anim == [widget : Nat, tween : Tweens, elapsed : Nat, active : BOOLEAN]

(* Each belongs to a widget of the scene, and is within its time while it is *)
(* active.                                                                   *)
AnimInv ==
  /\ widgets \in Seq(Shape) /\ anims \in Seq(Anim) /\ viewport = 1
  /\ \A n \in 1 .. Len(anims) : anims[n].widget \in 1 .. Len(widgets)
  /\ \A n \in 1 .. Len(anims) :
       anims[n].active /\ anims[n].tween.dur > 0 => anims[n].elapsed <= anims[n].tween.dur

LEMMA AnimFacts ==
    ASSUME AnimInv
    PROVE  /\ Len(widgets) \in Nat /\ DOMAIN widgets = 1 .. Len(widgets)
           /\ \A w \in 1 .. Len(widgets) : widgets[w] \in Shape
           /\ Len(anims) \in Nat /\ DOMAIN anims = 1 .. Len(anims)
           /\ \A n \in 1 .. Len(anims) : anims[n] \in Anim
BY LenProperties, ElementOfSeq DEF AnimInv

(* The least of two numbers, and the last of the animations of a property.  *)
LEMMA LeastOfTwo == ASSUME NEW x \in Int, NEW y \in Int
                    PROVE  Anims!Min({x, y}) = IF x <= y THEN x ELSE y
<1>1. Anims!Min({x, y}) = Stock!Min({x, y})
  BY DEF Anims!Min, Stock!Min
<1> QED
  BY <1>1, OfTwo

LEMMA LastDrives ==
    ASSUME AnimInv, NEW w, NEW prop, Anims!Driving(w, prop) # {}
    PROVE  /\ Anims!Driver(w, prop) \in Anims!Driving(w, prop)
           /\ \A n \in Anims!Driving(w, prop) : n <= Anims!Driver(w, prop)
<1> DEFINE T == Anims!Driving(w, prop)
<1>1. T \in SUBSET (1 .. Len(anims)) /\ Len(anims) \in Nat
  BY AnimFacts DEF Anims!Driving
<1> HIDE DEF T
<1>2. IsFiniteSet(T) /\ T \subseteq Nat
  <2>1. IsFiniteSet(1 .. Len(anims))
    BY <1>1, FS_Interval
  <2>2. IsFiniteSet(T)
    BY <1>1, <2>1, FS_Subset
  <2> QED
    BY <1>1, <2>2
<1>3. T # {}
  BY DEF T
<1>4. Stock!Max(T) \in T /\ \A y \in T : y <= Stock!Max(T)
  BY <1>2, <1>3, FiniteMax
<1>5. Anims!Driver(w, prop) = Stock!Max(T)
  BY DEF T, Anims!Driver, Anims!Max, Stock!Max
<1> QED
  BY <1>4, <1>5 DEF T

(* A number times another, divided by it. *)
LEMMA Whole == ASSUME NEW x \in Int, NEW q \in Nat \ {0} PROVE (x * q) \div q = x
BY SMTT(30)

LEMMA Square == ASSUME NEW d \in Nat \ {0}
                PROVE  /\ d * d \in Nat \ {0} /\ d * (2 * d - d) = d * d
                       /\ (4 * d - 2 * d) * d - d * d = d * d
BY SMTT(30)

(* Past its end a tween has the value it ends at, whatever its easing.      *)
LEMMA ValueAtEnd ==
    ASSUME NEW t \in Tweens, NEW e \in Nat, t.dur <= e
    PROVE  Anims!Value(t, e) = t.to
<1> DEFINE d == t.dur
<1>1. d \in Nat /\ t.from \in Int /\ t.to \in Int /\ t.ease \in {"linear", "in", "out", "inout"}
  BY AnimConstants
<1>2. CASE d = 0
  BY <1>2 DEF Anims!Value
<1>3. CASE d # 0
  <2>1. Anims!Min({e, d}) = d
    BY <1>1, LeastOfTwo
  <2>2. d * d \in Nat \ {0} /\ d * (2 * d - d) = d * d /\ (4 * d - 2 * d) * d - d * d = d * d
    BY <1>1, <1>3, Square
  <2>3. Anims!Eased(t.ease, d, d) = d * d
    <3>1. ~ (2 * d < d)
      BY <1>1
    <3> HIDE DEF d
    <3> QED
      BY <1>1, <2>2, <3>1 DEF Anims!Eased
  <2>4. Anims!Value(t, e) = t.from + ((t.to - t.from) * (d * d)) \div (d * d)
    BY <1>3, <2>1, <2>3 DEF Anims!Value
  <2> HIDE DEF d
  <2>5. t.to - t.from \in Int /\ d * d \in Nat \ {0}
    BY <1>1, <2>2
  <2>6. ((t.to - t.from) * (d * d)) \div (d * d) = t.to - t.from
    BY <2>5, Whole
  <2> QED
    BY <1>1, <2>4, <2>6
<1> QED
  BY <1>2, <1>3
(* The value of a tween is a number. *)
LEMMA ValueIsNumber == ASSUME NEW t \in Tweens, NEW e \in Nat PROVE Anims!Value(t, e) \in Int
<1> DEFINE d == t.dur
           m == Anims!Min({e, d})
           k == Anims!Eased(t.ease, m, d)
<1>1. d \in Nat /\ t.from \in Int /\ t.to \in Int /\ t.ease \in {"linear", "in", "out", "inout"}
  BY AnimConstants
<1>2. CASE d = 0
  BY <1>1, <1>2 DEF Anims!Value
<1>3. CASE d # 0
  <2>1. m \in Nat
    BY <1>1, LeastOfTwo
  <2>2. Anims!Value(t, e) = t.from + ((t.to - t.from) * k) \div (d * d)
    BY <1>3 DEF Anims!Value
  <2>3. d * d \in Nat \ {0}
    BY <1>1, <1>3, Square
  <2>4. k \in Int
    <3> HIDE DEF m, d
    <3>1. /\ m * d \in Int /\ m * m \in Int /\ m * (2 * d - m) \in Int
          /\ 2 * m * m \in Int /\ (4 * d - 2 * m) * m - d * d \in Int
      BY <1>1, <2>1
    <3> QED
      BY <1>1, <3>1 DEF k, Anims!Eased
  <2> DEFINE q == d * d
             x == (t.to - t.from) * k
  <2>5. x \in Int
    <3> HIDE DEF k
    <3> QED
      BY <1>1, <2>4
  <2>6. q \in Nat \ {0}
    BY <2>3
  <2>7. Anims!Value(t, e) = t.from + x \div q
    BY <2>2
  <2> HIDE DEF x, q, d, k
  <2>8. x \div q \in Int
    BY <2>5, <2>6
  <2> QED
    BY <1>1, <2>7, <2>8
<1> QED
  BY <1>2, <1>3

(* What an update makes of an animation: one that ends is past its end.     *)
LEMMA TickKeeps ==
    ASSUME NEW a \in Anim, NEW dt \in Nat, a.active /\ a.tween.dur > 0 => a.elapsed <= a.tween.dur
    PROVE  LET b == Anims!Ticked(a, dt)
           IN /\ b \in Anim /\ b.widget = a.widget /\ b.tween = a.tween
              /\ b.active /\ b.tween.dur > 0 => b.elapsed <= b.tween.dur
              /\ a.active /\ ~ b.active => a.tween.dur <= b.elapsed
<1> DEFINE d == a.tween.dur
           e == a.elapsed + dt
<1>1. a.tween \in Tweens /\ d \in Nat /\ a.elapsed \in Nat /\ e \in Nat /\ a.widget \in Nat
  BY AnimConstants DEF Anim
<1>2. CASE ~ a.active \/ d = 0
  BY <1>2 DEF Anims!Ticked
<1>3. CASE a.active /\ d # 0 /\ e <= d
  <2>1. Anims!Ticked(a, dt) = [a EXCEPT !.elapsed = e]
    BY <1>3 DEF Anims!Ticked
  <2> HIDE DEF e
  <2> QED
    BY <1>1, <1>3, <2>1 DEF Anim
<1>4. CASE a.active /\ d # 0 /\ ~ (e <= d) /\ a.tween.loop
  <2>1. Anims!Ticked(a, dt) = [a EXCEPT !.elapsed = e % d]
    BY <1>4 DEF Anims!Ticked
  <2>2. e % d \in Nat /\ e % d <= d
    <3> HIDE DEF e, d
    <3> QED
      BY <1>1, <1>4
  <2> DEFINE r == e % d
  <2> HIDE DEF r
  <2> QED
    BY <1>1, <1>4, <2>1, <2>2 DEF Anim, r
<1>5. CASE a.active /\ d # 0 /\ ~ (e <= d) /\ ~ a.tween.loop
  <2> DEFINE b == [a EXCEPT !.elapsed = e, !.active = FALSE]
  <2>1. Anims!Ticked(a, dt) = b
    BY <1>5 DEF Anims!Ticked
  <2>2. b.widget = a.widget /\ b.tween = a.tween /\ b.elapsed = e /\ b.active = FALSE
    BY DEF Anim
  <2>3. b \in Anim
    BY <1>1 DEF Anim
  <2>4. d <= e
    BY <1>1, <1>5
  <2> HIDE DEF b
  <2> QED
    BY <2>1, <2>2, <2>3, <2>4
<1> QED
  BY <1>2, <1>3, <1>4, <1>5

(* An animated number of a widget is a number.                              *)
LEMMA TweenedIsNumber ==
    ASSUME AnimInv, NEW w, NEW was \in Int, NEW dt \in Nat
    PROVE  Anims!Tweened(w, "alpha", was, dt) \in Int
<1> DEFINE n == Anims!Driver(w, "alpha")
<1>1. CASE n = 0
  BY <1>1 DEF Anims!Tweened
<1>2. CASE n # 0
  <2>1. n \in Anims!Driving(w, "alpha")
    <3>1. Anims!Driving(w, "alpha") # {}
      BY <1>2 DEF Anims!Driver
    <3> QED
      BY <3>1, LastDrives
  <2>2. n \in 1 .. Len(anims)
    BY <2>1, AnimFacts DEF Anims!Driving
  <2> HIDE DEF n
  <2>3. /\ anims[n] \in Anim
        /\ (anims[n].active /\ anims[n].tween.dur > 0 => anims[n].elapsed <= anims[n].tween.dur)
    BY <2>2, AnimFacts DEF AnimInv
  <2>4. Anims!Ticked(anims[n], dt) \in Anim
    BY <2>3, TickKeeps
  <2>5. anims[n].tween \in Tweens /\ Anims!Ticked(anims[n], dt).elapsed \in Nat
    BY <2>3, <2>4 DEF Anim
  <2>6. Anims!Value(anims[n].tween, Anims!Ticked(anims[n], dt).elapsed) \in Int
    BY <2>5, ValueIsNumber
  <2> QED
    BY <1>2, <2>6 DEF Anims!Tweened, n
<1> QED
  BY <1>1, <1>2

(* After an update: the animations are ticked, and a widget has the alpha   *)
(* of what drives it, and the place the layout gives it.                    *)
LEMMA Updated ==
    ASSUME AnimInv, NEW dt \in Nat, Anims!Update(dt)
    PROVE  /\ widgets' \in Seq(Shape) /\ Len(widgets') = Len(widgets) /\ viewport' = viewport
           /\ anims' \in Seq(Anim) /\ Len(anims') = Len(anims)
           /\ \A w \in 1 .. Len(widgets) :
                /\ widgets'[w].alpha = Anims!Tweened(w, "alpha", widgets[w].alpha, dt)
                /\ widgets'[w].pos = Anims!Placed
           /\ \A n \in 1 .. Len(anims) : anims'[n] = Anims!Ticked(anims[n], dt)
<1> DEFINE k == Len(widgets)
           m == Len(anims)
           at == [by |-> "layout", viewport |-> viewport, count |-> k]
           spot(w) == IF Anims!Driver(w, "x") = 0 THEN widgets[w].pos
                      ELSE [by |-> "animation", x |-> Anims!Tweened(w, "x", 0, dt)]
           alpha(w) == Anims!Tweened(w, "alpha", widgets[w].alpha, dt)
           new(w) == [[widgets[w] EXCEPT !.alpha = alpha(w), !.pos = spot(w)] EXCEPT !.pos = at]
<1>1. /\ k \in Nat /\ DOMAIN widgets = 1 .. k /\ \A w \in 1 .. k : widgets[w] \in Shape
      /\ m \in Nat /\ DOMAIN anims = 1 .. m /\ \A n \in 1 .. m : anims[n] \in Anim
      /\ viewport = 1
  BY AnimFacts DEF AnimInv
<1>2. /\ widgets' = [w \in 1 .. k |-> new(w)] /\ viewport' = viewport
      /\ anims' = [n \in 1 .. m |-> Anims!Ticked(anims[n], dt)]
  <2> HIDE DEF k, m
  <2> QED
    BY <1>1 DEF Anims!Update, Anims!Ids, Anims!Placed, k
<1>3. at \in Spot
  BY <1>1 DEF Spot
<1>4. ASSUME NEW w \in 1 .. k PROVE new(w) \in Shape /\ new(w).alpha = alpha(w) /\ new(w).pos = at
  <2>1. alpha(w) \in Int
    <3>1. widgets[w].alpha \in Int
      BY <1>1 DEF Shape
    <3> QED
      BY <3>1, TweenedIsNumber
  <2>2. widgets[w] \in Shape
    BY <1>1
  <2> HIDE DEF at, alpha, spot
  <2> QED
    BY <1>3, <2>1, <2>2 DEF Shape
<1>5. ASSUME NEW n \in 1 .. m PROVE Anims!Ticked(anims[n], dt) \in Anim
  <2>1. /\ anims[n] \in Anim
        /\ (anims[n].active /\ anims[n].tween.dur > 0 => anims[n].elapsed <= anims[n].tween.dur)
    BY <1>1 DEF AnimInv
  <2> QED
    BY <2>1, TickKeeps
<1> HIDE DEF k, m, new
<1>6. widgets' \in Seq(Shape) /\ Len(widgets') = k
  BY <1>1, <1>2, <1>4
<1>7. anims' \in Seq(Anim) /\ Len(anims') = m
  BY <1>1, <1>2, <1>5
<1>8. \A w \in 1 .. k : widgets'[w].alpha = alpha(w) /\ widgets'[w].pos = at
  BY <1>2, <1>4
<1>9. at = Anims!Placed
  BY DEF Anims!Placed, k
<1> HIDE DEF at
<1> QED
  BY <1>2, <1>6, <1>7, <1>8, <1>9 DEF k, m

LEMMA UpdateOfAnims ==
    ASSUME AnimInv, NEW dt \in Nat, Anims!Update(dt)
    PROVE  AnimInv' /\ \A n \in 1 .. Len(anims) : Anims!AtTarget(n)
<1>1. /\ widgets' \in Seq(Shape) /\ Len(widgets') = Len(widgets) /\ viewport' = viewport
      /\ anims' \in Seq(Anim) /\ Len(anims') = Len(anims)
      /\ \A w \in 1 .. Len(widgets) :
           /\ widgets'[w].alpha = Anims!Tweened(w, "alpha", widgets[w].alpha, dt)
           /\ widgets'[w].pos = Anims!Placed
      /\ \A n \in 1 .. Len(anims) : anims'[n] = Anims!Ticked(anims[n], dt)
  BY Updated
<1>2. ASSUME NEW n \in 1 .. Len(anims)
      PROVE  /\ anims[n] \in Anim /\ anims[n].widget \in 1 .. Len(widgets)
             /\ anims'[n] \in Anim /\ anims'[n].widget = anims[n].widget
             /\ anims'[n].active /\ anims'[n].tween.dur > 0
                  => anims'[n].elapsed <= anims'[n].tween.dur
             /\ anims[n].active /\ ~ anims'[n].active => anims[n].tween.dur <= anims'[n].elapsed
  <2>1. /\ anims[n] \in Anim /\ anims[n].widget \in 1 .. Len(widgets)
        /\ (anims[n].active /\ anims[n].tween.dur > 0 => anims[n].elapsed <= anims[n].tween.dur)
    BY AnimFacts DEF AnimInv
  <2> DEFINE b == Anims!Ticked(anims[n], dt)
  <2>2. /\ b \in Anim /\ b.widget = anims[n].widget
        /\ b.active /\ b.tween.dur > 0 => b.elapsed <= b.tween.dur
        /\ anims[n].active /\ ~ b.active => anims[n].tween.dur <= b.elapsed
    BY <2>1, TickKeeps
  <2>3. anims'[n] = b
    BY <1>1
  <2> HIDE DEF b
  <2> QED
    BY <2>1, <2>2, <2>3
<1>3. AnimInv'
  BY <1>1, <1>2 DEF AnimInv
<1>4. ASSUME NEW n \in 1 .. Len(anims), anims[n].active, ~ anims'[n].active,
             anims[n].tween.prop = "alpha",
             \A i \in DOMAIN anims : (i > n /\ anims[i].widget = anims[n].widget
                                      /\ anims[i].tween.prop = "alpha") => ~ anims[i].active
      PROVE  widgets'[anims[n].widget].alpha = anims[n].tween.to
  <2> DEFINE w == anims[n].widget
             on == Anims!Driving(w, "alpha")
  <2>1. n \in on /\ on \subseteq 1 .. Len(anims)
    BY <1>4, AnimFacts DEF Anims!Driving
  <2>2. \A i \in on : i <= n
    BY <1>4, AnimFacts DEF Anims!Driving
  <2>3. Anims!Driver(w, "alpha") \in on /\ \A i \in on : i <= Anims!Driver(w, "alpha")
    BY <2>1, LastDrives
  <2>4. Anims!Driver(w, "alpha") = n /\ n # 0
    <3> DEFINE h == Anims!Driver(w, "alpha")
    <3> HIDE DEF on, h
    <3>1. h \in 1 .. Len(anims) /\ h <= n /\ n <= h /\ Len(anims) \in Nat
      BY <2>1, <2>2, <2>3, AnimFacts DEF h
    <3> QED
      BY <3>1 DEF h
  <2>5. widgets'[w].alpha = Anims!Value(anims[n].tween, Anims!Ticked(anims[n], dt).elapsed)
    BY <1>1, <1>2, <2>4 DEF Anims!Tweened
  <2>6. widgets'[w].alpha = Anims!Value(anims[n].tween, anims'[n].elapsed)
    BY <1>1, <2>5
  <2>7. /\ anims[n].tween \in Tweens /\ anims'[n].elapsed \in Nat
        /\ anims[n].tween.dur <= anims'[n].elapsed
    BY <1>2, <1>4 DEF Anim
  <2> QED
    BY <2>6, <2>7, ValueAtEnd
<1>5. \A n \in 1 .. Len(anims) : Anims!AtTarget(n)
  BY <1>1, <1>2, <1>4 DEF Anims!AtTarget
<1> QED
  BY <1>3, <1>5

(* A call of the program leaves the time of every animation as it is.       *)
CallLeavesTime ==
  /\ AnimInv' /\ Len(anims) <= Len(anims')
  /\ \A n \in 1 .. Len(anims) : anims'[n].elapsed = anims[n].elapsed

LEMMA CallOfAnims == ASSUME AnimInv, Anims!Call PROVE CallLeavesTime
<1>1. /\ Len(widgets) \in Nat /\ DOMAIN widgets = 1 .. Len(widgets) /\ widgets \in Seq(Shape)
      /\ \A w \in 1 .. Len(widgets) : widgets[w] \in Shape
      /\ Len(anims) \in Nat /\ DOMAIN anims = 1 .. Len(anims) /\ anims \in Seq(Anim)
      /\ \A n \in 1 .. Len(anims) : /\ anims[n] \in Anim /\ anims[n].widget \in 1 .. Len(widgets)
  BY AnimFacts DEF AnimInv
<1>2. ASSUME widgets' \in Seq(Shape), Len(widgets) <= Len(widgets'), UNCHANGED <<anims, viewport>>
      PROVE  CallLeavesTime
  <2>1. \A n \in 1 .. Len(anims) : anims[n].widget \in 1 .. Len(widgets')
    <3>1. Len(widgets') \in Nat
      BY <1>2, LenProperties
    <3> QED
      BY <1>1, <1>2, <3>1
  <2>2. AnimInv'
    BY <1>2, <2>1 DEF AnimInv
  <2> QED
    BY <1>1, <1>2, <2>2 DEF CallLeavesTime
<1>3. ASSUME NEW w \in 1 .. Len(widgets), NEW new \in Shape, widgets' = [widgets EXCEPT ![w] = new],
             UNCHANGED <<anims, viewport>>
      PROVE  CallLeavesTime
  <2>1. widgets' \in Seq(Shape) /\ Len(widgets') = Len(widgets)
    BY <1>1, <1>3, ExceptSeq
  <2> QED
    BY <1>1, <1>2, <1>3, <2>1
<1>4. ASSUME NEW look \in {[interactive |-> TRUE, border |-> FALSE]}, Anims!AddWidget(look)
      PROVE  CallLeavesTime
  <2> DEFINE new == Anims!New(look, Anims!Unset)
  <2>1. new \in Shape
    <3>1. Anims!Unset \in Spot
      BY DEF Spot
    <3>2. look.interactive \in BOOLEAN /\ look.border \in BOOLEAN
      <4>1. look = [interactive |-> TRUE, border |-> FALSE]
        OBVIOUS
      <4>2. look.interactive = TRUE /\ look.border = FALSE
        BY <4>1, Zenon
      <4> QED
        BY <4>2, Zenon
    <3>3. new = [interactive |-> look.interactive, border |-> look.border,
                 visible |-> TRUE, alpha |-> 12, pos |-> Anims!Unset]
      BY DEF Anims!New
    <3> HIDE DEF new
    <3> QED
      BY <3>1, <3>2, <3>3 DEF Shape
  <2>2. widgets' = Append(widgets, new) /\ UNCHANGED <<anims, viewport>>
    BY <1>4 DEF Anims!AddWidget
  <2> HIDE DEF new
  <2>3. widgets' \in Seq(Shape) /\ Len(widgets') = Len(widgets) + 1
    BY <1>1, <2>1, <2>2, AppendProperties
  <2> QED
    BY <1>1, <1>2, <2>2, <2>3
<1>5. ASSUME NEW w \in 1 .. Len(widgets), NEW v \in BOOLEAN, Anims!SetVisible(w, v)
      PROVE  CallLeavesTime
  <2> DEFINE new == [widgets[w] EXCEPT !.visible = v]
  <2>1. new \in Shape
    BY <1>1 DEF Shape
  <2>2. widgets' = [widgets EXCEPT ![w] = new] /\ UNCHANGED <<anims, viewport>>
    BY <1>1, <1>5 DEF Anims!SetVisible
  <2> HIDE DEF new
  <2> QED
    BY <1>3, <2>1, <2>2
<1>6. ASSUME NEW w \in 1 .. Len(widgets), NEW a \in Alphas, Anims!SetAlpha(w, a)
      PROVE  CallLeavesTime
  <2> DEFINE new == [widgets[w] EXCEPT !.alpha = Anims!Clamp(a)]
  <2>1. new \in Shape
    <3>1. a \in Int
      BY AnimConstants
    <3>2. Anims!Clamp(a) \in Int
      BY <3>1 DEF Anims!Clamp
    <3> QED
      BY <1>1, <3>2 DEF Shape
  <2>2. widgets' = [widgets EXCEPT ![w] = new] /\ UNCHANGED <<anims, viewport>>
    BY <1>1, <1>6 DEF Anims!SetAlpha
  <2> HIDE DEF new
  <2> QED
    BY <1>3, <2>1, <2>2
<1>7. ASSUME NEW w \in 1 .. Len(widgets), NEW t \in Tweens, Anims!PushAnim(w, t)
      PROVE  CallLeavesTime
  <2> DEFINE new == [widget |-> w, tween |-> t, elapsed |-> 0, active |-> TRUE]
  <2>1. new \in Anim /\ new.widget = w /\ new.elapsed <= new.tween.dur
    <3>1. w \in Nat /\ 0 <= t.dur
      BY <1>1, AnimConstants
    <3> QED
      BY <3>1 DEF Anim
  <2>2. anims' = Append(anims, new) /\ UNCHANGED <<widgets, viewport>>
    BY <1>7 DEF Anims!PushAnim
  <2> HIDE DEF new
  <2>3. /\ anims' \in Seq(Anim) /\ Len(anims') = Len(anims) + 1
        /\ \A n \in 1 .. Len(anims) : anims'[n] = anims[n]
        /\ anims'[Len(anims) + 1] = new
    BY <1>1, <2>1, <2>2, AppendProperties
  <2>4. \A n \in 1 .. Len(anims) + 1 : n \in 1 .. Len(anims) \/ n = Len(anims) + 1
    BY <1>1
  <2>5. AnimInv'
    <3>1. widgets' = widgets /\ viewport' = viewport
      BY <2>2
    <3>2. ASSUME NEW n \in 1 .. Len(anims')
          PROVE  /\ anims'[n].widget \in 1 .. Len(widgets')
                 /\ anims'[n].active /\ anims'[n].tween.dur > 0
                      => anims'[n].elapsed <= anims'[n].tween.dur
      <4>1. CASE n \in 1 .. Len(anims)
        BY <1>1, <2>3, <3>1, <4>1 DEF AnimInv
      <4>2. CASE n = Len(anims) + 1
        BY <2>1, <2>3, <3>1, <4>2
      <4> QED
        BY <2>3, <2>4, <4>1, <4>2
    <3> QED
      BY <1>1, <2>3, <3>1, <3>2 DEF AnimInv
  <2> QED
    BY <1>1, <2>3, <2>5 DEF CallLeavesTime
<1>8. ASSUME NEW n \in 1 .. Len(anims), Anims!StopAnim(n)
      PROVE  CallLeavesTime
  <2> DEFINE new == [anims[n] EXCEPT !.active = FALSE]
  <2>1. /\ new \in Anim /\ new.widget = anims[n].widget /\ new.elapsed = anims[n].elapsed
        /\ ~ new.active
    BY <1>1 DEF Anim
  <2>2. anims' = [anims EXCEPT ![n] = new] /\ UNCHANGED <<widgets, viewport>>
    BY <1>1, <1>8 DEF Anims!StopAnim
  <2> HIDE DEF new
  <2>3. /\ anims' \in Seq(Anim) /\ Len(anims') = Len(anims)
        /\ \A i \in 1 .. Len(anims) : anims'[i] = IF i = n THEN new ELSE anims[i]
    BY <1>1, <2>1, <2>2, ExceptSeq
  <2>4. AnimInv'
    BY <1>1, <2>1, <2>2, <2>3 DEF AnimInv
  <2> QED
    BY <1>1, <2>1, <2>3, <2>4 DEF CallLeavesTime
<1> QED
  BY <1>1, <1>4, <1>5, <1>6, <1>7, <1>8 DEF Anims!Call, Anims!Ids
(* What any step of the scene does to its animations. *)
LEMMA AnimStep ==
    ASSUME AnimInv, [FramesNext]_frameVars
    PROVE  AnimInv' /\ [\A n \in DOMAIN anims : Anims!AtTarget(n)]_(Anims!vars)
<1>1. DOMAIN anims = 1 .. Len(anims)
  BY AnimFacts
<1>2. ASSUME UNCHANGED <<widgets, anims, viewport>>
      PROVE  AnimInv' /\ \A n \in DOMAIN anims : Anims!AtTarget(n)
  BY <1>2 DEF AnimInv, Anims!AtTarget
<1>3. ASSUME Anims!Call PROVE AnimInv' /\ \A n \in DOMAIN anims : Anims!AtTarget(n)
  <2>1. CallLeavesTime
    BY <1>3, CallOfAnims
  <2> QED
    BY <1>1, <2>1 DEF CallLeavesTime, Anims!AtTarget
<1>4. ASSUME NEW dt \in Deltas, Anims!Update(dt)
      PROVE  AnimInv' /\ \A n \in DOMAIN anims : Anims!AtTarget(n)
  BY <1>1, <1>4, AnimConstants, UpdateOfAnims
<1>5. ASSUME NEW v \in {1}, Anims!Resize(v)
      PROVE  AnimInv' /\ \A n \in DOMAIN anims : Anims!AtTarget(n)
  <2>1. UNCHANGED <<widgets, anims, viewport>>
    BY <1>5 DEF Anims!Resize, AnimInv
  <2> QED
    BY <1>2, <2>1
<1>6. CASE UNCHANGED animUnit
  <2>1. UNCHANGED <<widgets, anims, viewport>> /\ UNCHANGED Anims!vars
    BY <1>6 DEF animUnit, Anims!vars, Anims!sceneVars, Anims!eventVars
  <2> QED
    BY <1>2, <2>1
<1>7. CASE Anims!Next
  <2>1. CASE Anims!Call
    BY <1>3, <2>1
  <2>2. CASE Anims!UpdateNow
    BY <1>4, <2>2 DEF Anims!UpdateNow
  <2>3. CASE Anims!Render \/ UNCHANGED <<widgets, anims, viewport>>
    BY <1>2, <2>3 DEF Anims!Render, Anims!sceneVars
  <2>4. ASSUME NEW origin \in BOOLEAN, NEW under \in SUBSET (1 .. MaxWidgets),
               NEW kind \in {"mouse", "resize"}, Anims!BeginDispatch(kind, origin, under)
        PROVE  UNCHANGED <<widgets, anims, viewport>>
    BY <2>4 DEF Anims!BeginDispatch, Anims!sceneVars
  <2>5. CASE Anims!Dispatch
    <3>1. \/ UNCHANGED <<widgets, anims, viewport>>
          \/ Anims!Call
          \/ \E v \in {1} : Anims!Resize(v)
      BY <2>5 DEF Anims!Dispatch, Anims!PassWidget, Anims!CallWidget, Anims!EndDispatch,
                  Anims!sceneVars
    <3> QED
      BY <1>2, <1>3, <1>5, <3>1
  <2> QED
    BY <1>7, <2>1, <2>2, <2>3, <2>4, <2>5 DEF Anims!Next
<1> QED
  BY <1>6, <1>7 DEF FramesNext, frameVars

(* Whatever is made, stopped, shown or hidden between the updates and by    *)
(* the callbacks, for any number of widgets and animations, any tweens and  *)
(* any lengths of a frame: the time of an animation stays within its        *)
(* duration while it is active; one of alpha that ends in an update leaves  *)
(* alpha at its target, unless a later one drives it too; and one of a      *)
(* place leaves the widget where the layout puts it.                        *)
THEOREM AnimationsEndRight == FramesSpec => AnimationsEnd
<1>1. FramesInit => AnimInv
  <2> SUFFICES ASSUME FramesInit PROVE AnimInv
    OBVIOUS
  <2>1. widgets = <<>> /\ anims = <<>> /\ viewport = 1
    BY DEF FramesInit, Anims!Init
  <2>2. <<>> \in Seq(Shape) /\ <<>> \in Seq(Anim) /\ Len(<<>>) = 0
    BY EmptySeq
  <2> QED
    BY <2>1, <2>2 DEF AnimInv
<1>2. AnimInv /\ [FramesNext]_frameVars => AnimInv'
  BY AnimStep
<1>3. AnimInv => Anims!AnimationsKeepTime
  <2> SUFFICES ASSUME AnimInv PROVE Anims!AnimationsKeepTime
    OBVIOUS
  <2>1. ASSUME NEW n \in 1 .. Len(anims), anims[n].tween.dur > 0, anims[n].active
        PROVE  anims[n].elapsed \in 0 .. anims[n].tween.dur
    <3>1. anims[n].elapsed \in Nat /\ anims[n].tween.dur \in Nat
      BY AnimFacts, AnimConstants DEF Anim
    <3> QED
      BY <2>1, <3>1 DEF AnimInv
  <2> QED
    BY <2>1, AnimFacts DEF Anims!AnimationsKeepTime
<1>4. AnimInv /\ [FramesNext]_frameVars => [\A n \in DOMAIN anims : Anims!AtTarget(n)]_(Anims!vars)
  BY AnimStep
<1> QED
  BY <1>1, <1>2, <1>3, <1>4, PTL DEF FramesSpec, AnimationsEnd, Anims!EndsAtTarget
=============================================================================
