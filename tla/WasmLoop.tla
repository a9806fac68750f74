------------------------------- MODULE WasmLoop -------------------------------
(***************************************************************************)
(* The frame loop of tools/wasm/silvercore.js: start, stop, and the frame   *)
(* callbacks that request one another.  The browser runs every callback     *)
(* that was requested before a frame, with the time at which the frame      *)
(* began, and the page's own callbacks run among them.   The page may      *)
(* start a loop that is running.                                            *)
(***************************************************************************)
EXTENDS Integers, FiniteSets, FiniteSetsExt

CONSTANTS Cap,                   \* the longest step of a scene (0.1 s)
          MaxTime, MaxStarts, MaxIds     \* bounds: clock, calls of start, requests

ASSUME WasmAssumption == Cap \in Nat /\ MaxTime \in Nat /\ MaxStarts \in Nat /\ MaxIds \in Nat

VARIABLES
  running, frameId, lastTs,      \* of SilverCoreApp
  requested, ids,                \* callbacks waiting for a frame; ids given out
  batch, frameTs,                \* callbacks of the frame under way, and its time
  clock, starts,                 \* performance.now(); bound
  sceneTime, begun,              \* history: time given to the scene; first start
  extra, late                    \* history: starts while running; ticks while stopped

appVars     == <<running, frameId, lastTs>>
browserVars == <<requested, ids, batch, frameTs>>
history     == <<sceneTime, begun, extra, late>>
vars == <<appVars, browserVars, clock, starts, history>>

Init ==
  /\ running = FALSE /\ frameId = 0 /\ lastTs = 0
  /\ requested = {} /\ ids = 0 /\ batch = {} /\ frameTs = 0
  /\ clock = 0 /\ starts = 0
  /\ sceneTime = 0 /\ begun = 0 /\ extra = 0 /\ late = 0

Request == ids < MaxIds /\ ids' = ids + 1 /\ frameId' = ids + 1 /\ requested' = requested \cup {ids + 1}

Mut_Start ==                     \* an id that was used up counts as a request
  /\ starts < MaxStarts /\ starts' = starts + 1
  /\ running' = TRUE /\ lastTs' = clock
  /\ IF frameId = 0 THEN Request ELSE UNCHANGED <<ids, frameId, requested>>
  /\ begun' = IF starts = 0 THEN clock ELSE begun
  /\ extra' = IF running THEN extra + 1 ELSE extra
  /\ UNCHANGED <<batch, frameTs, clock, sceneTime, late>>

Start ==
  /\ starts < MaxStarts /\ starts' = starts + 1
  /\ running' = TRUE /\ lastTs' = clock /\ Request
  /\ begun' = IF starts = 0 THEN clock ELSE begun
  /\ extra' = IF running THEN extra + 1 ELSE extra
  /\ UNCHANGED <<batch, frameTs, clock, sceneTime, late>>

Stop ==
  /\ running' = FALSE /\ requested' = requested \ {frameId} /\ batch' = batch \ {frameId}
  /\ UNCHANGED <<frameId, lastTs, ids, frameTs, clock, starts, history>>

(* A frame begins when the callbacks of the last one have run. *)
BeginFrame ==
  /\ batch = {} /\ requested # {}
  /\ batch' = requested /\ requested' = {} /\ frameTs' = clock
  /\ UNCHANGED <<appVars, ids, clock, starts, history>>

Loop == IF running THEN Request ELSE UNCHANGED <<ids, frameId, requested>>

Step(ts) == Min({ts - lastTs, Cap})

(* One callback: the scene is stepped, and the next frame is requested. *)
Callback ==
  /\ batch # {} /\ batch' = batch \ {Min(batch)}
  /\ lastTs' = frameTs /\ sceneTime' = sceneTime + Step(frameTs)
  /\ late' = IF running THEN late ELSE late + 1
  /\ Loop
  /\ UNCHANGED <<running, frameTs, clock, starts, begun, extra>>

Pass == clock < MaxTime /\ clock' = clock + 1 /\ UNCHANGED <<appVars, browserVars, starts, history>>

Browser == BeginFrame \/ Callback
Next == Start \/ Stop \/ Pass \/ Browser
Spec == Init /\ [][Next]_vars
(* The browser goes on making frames. *)
FairSpec == Spec /\ WF_vars(Browser)

-----------------------------------------------------------------------------
(* A loop that runs has a callback to come: no order of starts, stops and
   frames leaves it without one. *)
RunningGoesOn == running => (requested \cup batch) # {}

(* A callback ticks the scene without looking whether the loop still runs.
   That happens only if the loop was started while it was running. *)
LateTicksOnlyAfterExtraStarts == late <= extra

(* However many chains of callbacks there are, they share the time: the scene
   is never given more than has passed since the loop was started. *)
SceneTimeWithinClock == sceneTime <= clock - begun

(* The frame loop as the page may count on it. *)
FramesAreSound == RunningGoesOn /\ LateTicksOnlyAfterExtraStarts /\ SceneTimeWithinClock

(* After a last stop the callbacks come to an end. *)
StopEnds == <>[](~running) => <>[](requested \cup batch = {})
=============================================================================
