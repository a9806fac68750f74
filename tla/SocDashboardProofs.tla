--------------------------- MODULE SocDashboardProofs ---------------------------
(***************************************************************************)
(* Proofs about the two threads of the SOC dashboard: for every graph, any *)
(* batches and severities, every capacity of the queue and every size of   *)
(* the panels.                                                             *)
(***************************************************************************)
EXTENDS SocDashboard, SequenceTheorems, TLAPS

(* The lemmas about the threat table, for the alerts of this program.       *)
Threat == INSTANCE AlertTableProofs WITH Severity <- {s \in EventSev : s >= High}

-----------------------------------------------------------------------------
(* The inductive invariant, in parts.                                       *)

(* Where the threads are, together: the generator is born when main has     *)
(* started it, and gone once it has been joined.                            *)
FlowInv == /\ gpc \in {"unborn", "check", "batch", "log", "roll", "alert", "mark",
                       "edges", "slice", "pause", "sleep", "done"}
           /\ mpc \in {"start", "failed", "input", "drain", "panels", "stop", "join", "done"}
                      \cup Drawing
           /\ genRunning \in BOOLEAN /\ genPaused \in BOOLEAN /\ quit \in BOOLEAN
           /\ mpc = "start" => gpc = "unborn" /\ ~genPaused
           /\ mpc = "failed" => gpc = "unborn"
           /\ mpc = "done" => gpc = "done"

(* The event under way is the last one, and has drawn an id at most once.   *)
EventInv == /\ events \in Nat /\ left \in Nat /\ nextAlertId \in Nat
            /\ events + left <= MaxEvents
            /\ nextAlertId <= events
            /\ gpc \in {"log", "roll"} => nextAlertId < events
            /\ gpc \in {"log", "roll", "alert"} =>
                  /\ event \in [n : 1 .. MaxEvents, sev : EventSev]
                  /\ event.n = events
            /\ gpc = "alert" => event.sev >= High /\ nextAlertId > 0

(* A pause finds the generator before its next batch; it has started one    *)
(* more if it had already looked.                                           *)
InBatch == {"batch", "log", "roll", "alert", "mark", "edges", "pause"}

PauseInv == /\ slice \in 0 .. Slices /\ begun \in Nat
            /\ gpc \in {"pause", "sleep"} => slice < Slices
            /\ genPaused => \/ begun = 0
                            \/ /\ begun = 1
                               /\ genRunning => gpc \in InBatch \/ (gpc = "slice" /\ slice = 0)

(* Every edge of a suspicious node is marked, or is still to be marked.     *)
Touches(e, nodes) == Ends(e) \cap nodes # {}

MarksInv == /\ suspNodes \subseteq 0 .. NodeCount - 1 /\ suspEdges \subseteq DOMAIN Edges
            /\ edge \in 0 .. Len(Edges) + 1
            /\ gpc = "edges" => marking \in suspNodes /\ edge > 0
            /\ \A e \in suspEdges : Touches(e, suspNodes)
            /\ \A e \in DOMAIN Edges : Touches(e, suspNodes) =>
                  e \in suspEdges \/ (gpc = "edges" /\ edge <= e /\ marking \in Ends(e))

(* The nodes whose glyph, and those whose mark too, is on the canvas.       *)
Drawn == {n \in Nodes : /\ mpc \notin {"edges", "edge_mark"}
                        /\ mpc = "nodes" => n < drawing
                        /\ mpc = "node_mark" => n <= drawing}

Done == {n \in Nodes : /\ mpc \notin {"edges", "edge_mark"}
                       /\ mpc \in {"nodes", "node_mark"} => n < drawing}

(* What lights a cell: the last node done there, which is suspicious, or an *)
(* edge alone in it, the first, of which a suspicious node is to be seen    *)
(* too unless it is still to be drawn or a later one hides it.              *)
NodeLit(c) == \E n \in suspNodes \cap Done :
                 NodeCell[n] = c /\ \A m \in Done : NodeCell[m] = c => m <= n

Comes(n) == n \in suspNodes /\ (n \notin Drawn \/ canvas[NodeCell[n]] = "X" \/ ~TopNode(n))

EdgeLit(c) == \E e \in suspEdges :
                 /\ MiddleOf(e) = c /\ FirstEdge(e) /\ \A m \in Done : NodeCell[m] # c
                 /\ \E n \in Ends(e) : Comes(n)

LitInv == \A c \in lit : NodeLit(c) \/ EdgeLit(c)

(* A suspicious glyph's cell is lit, or is about to be.                     *)
GlyphInv == \A c \in Cells : canvas[c] \in {"*", "X"} =>
               /\ mpc = "edge_mark" /\ c = MiddleOf(drawing) => drawing \in suspEdges
               /\ mpc = "node_mark" /\ c = NodeCell[drawing] => drawing \in suspNodes
               /\ \/ mpc = "edge_mark" /\ c = MiddleOf(drawing)
                  \/ mpc = "node_mark" /\ c = NodeCell[drawing]
                  \/ c \in lit

(* No cell of an edge that has been drawn or skipped is blank.              *)
FilledInv == \A f \in DOMAIN Edges :
                /\ mpc \in {"edges", "edge_mark"} /\ f < drawing => canvas[MiddleOf(f)] # " "
                /\ mpc = "edge_mark" /\ f < drawing => MiddleOf(f) # MiddleOf(drawing)
                /\ mpc = "edge_mark" => canvas[MiddleOf(drawing)] # " "

CanvasInv == /\ canvas \in [Cells -> {" ", ".", "*", "o", "X"}] /\ lit \subseteq Cells
             /\ mpc \in {"edges", "edge_mark"} => drawing \in DOMAIN Edges
             /\ mpc \in {"nodes", "node_mark"} => drawing \in Nodes
             /\ GlyphInv /\ LitInv /\ FilledInv

(* The tasks in the queue, those run being the first of those accepted.     *)
LogTasks == [kind : {"log"}, n : 1 .. MaxEvents, sev : EventSev]

AlertTasks == [kind : {"alert"}, n : 1 .. MaxEvents, sev : {s \in EventSev : s >= High},
               id : 0 .. MaxEvents]

Tasks == LogTasks \cup AlertTasks

QueueInv == /\ accepted \in Seq(Tasks) /\ delivered \in Seq(Tasks) /\ dropped \in Seq(Tasks)
            /\ Len(delivered) <= Len(accepted)
            /\ \A i \in 1 .. Len(delivered) : delivered[i] = accepted[i]

(* The ids of the alerts: each drawn one is in the queue, in rising order,  *)
(* or dropped, or being posted.                                             *)
Posted == IF gpc = "alert" THEN nextAlertId - 1 ELSE nextAlertId

RisingIds(tasks) ==
    \A i, j \in 1 .. Len(tasks) :
        i < j /\ tasks[i].kind = "alert" /\ tasks[j].kind = "alert" => tasks[i].id < tasks[j].id

IdsInv == /\ RisingIds(accepted)
          /\ Ids(accepted) \cup Ids(dropped) = 0 .. Posted - 1
          /\ Ids(accepted) \cap Ids(dropped) = {}

(* The log task of an event is posted, or dropped, before its alert.        *)
LoggedBefore(queue, lost, k, n) ==
    \/ \E j \in 1 .. k : queue[j].kind = "log" /\ queue[j].n = n
    \/ \E j \in 1 .. Len(lost) : lost[j].kind = "log" /\ lost[j].n = n

LogsInv == /\ \A i \in 1 .. Len(accepted) :
                 accepted[i].kind = "alert" => LoggedBefore(accepted, dropped, i - 1, accepted[i].n)
           /\ gpc \in {"roll", "alert"} => LoggedBefore(accepted, dropped, Len(accepted), event.n)

(* The table has been given the alerts that were delivered.                 *)
PanelInv == /\ Threat!TableInv
            /\ Log!LogTypeOK
            /\ \A n \in DOMAIN handled : handled[n].id \in Ids(delivered)

IInv == /\ FlowInv /\ EventInv /\ PauseInv /\ MarksInv /\ CanvasInv
        /\ QueueInv /\ IdsInv /\ LogsInv /\ PanelInv

-----------------------------------------------------------------------------
LEMMA SameInit == Table!Init <=> Threat!Init
BY DEF Table!Init, Threat!Init

LEMMA FlowBegins == Init => FlowInv /\ EventInv /\ PauseInv /\ MarksInv /\ CanvasInv
<1> SUFFICES ASSUME Init PROVE FlowInv /\ EventInv /\ PauseInv /\ MarksInv /\ CanvasInv
  OBVIOUS
<1> USE DashboardAssumption DEF Init
<1>1. FlowInv
  BY DEF FlowInv
<1>2. EventInv
  BY DEF EventInv
<1>3. PauseInv
  BY DEF PauseInv
<1>4. MarksInv
  <2>1. Len(Edges) \in Nat
    BY LenProperties
  <2> QED
    BY <2>1 DEF MarksInv, Touches
<1>5. CanvasInv
  BY DEF CanvasInv, GlyphInv, LitInv, FilledInv, Blank
<1> QED
  BY <1>1, <1>2, <1>3, <1>4, <1>5

LEMMA QueueBegins == Init => QueueInv /\ IdsInv /\ LogsInv
<1> SUFFICES ASSUME Init PROVE QueueInv /\ IdsInv /\ LogsInv
  OBVIOUS
<1>1. accepted = <<>> /\ delivered = <<>> /\ dropped = <<>> /\ nextAlertId = 0 /\ gpc = "unborn"
  BY DEF Init, Fifo!Init
<1>2. Len(<<>>) = 0 /\ <<>> \in Seq(Tasks)
  BY EmptySeq
<1>3. QueueInv
  BY <1>1, <1>2 DEF QueueInv
<1>4. IdsInv
  BY <1>1, <1>2 DEF IdsInv, RisingIds, Ids, Posted
<1>5. LogsInv
  BY <1>1, <1>2 DEF LogsInv
<1> QED
  BY <1>3, <1>4, <1>5

LEMMA PanelBegins == Init => PanelInv
<1> SUFFICES ASSUME Init PROVE PanelInv
  OBVIOUS
<1>1. Threat!TableAssumption
  BY PanelAssumption DEF Table!TableAssumption, Threat!TableAssumption
<1>2. Threat!TableInv
  BY <1>1, SameInit, Threat!TableInit DEF Init
<1>3. Log!LogTypeOK
  <2>1. LogSlots \in Nat \ {0} /\ WordSize \in Nat \ {0}
    BY PanelAssumption DEF Log!LogAssumption
  <2>2. <<>> \in Seq([n : 1 .. MaxEvents, sev : EventSev]) /\ Len(<<>>) = 0
    BY EmptySeq
  <2> QED
    BY <2>1, <2>2 DEF Init, Log!Init, Log!LogTypeOK
<1>4. handled = <<>>
  BY DEF Init, Table!Init
<1> QED
  BY <1>2, <1>3, <1>4 DEF PanelInv

-----------------------------------------------------------------------------
(* Where the threads are.                                                   *)
LEMMA FlowKept == FlowInv /\ [Next]_vars => FlowInv'
<1> SUFFICES ASSUME FlowInv, [Next]_vars PROVE FlowInv'
  OBVIOUS
<1> USE DEF FlowInv
<1>1. CASE Generator
  <2>1. UNCHANGED <<mpc, genRunning, genPaused, quit>>
    BY <1>1 DEF Generator, mainVars, flagVars
  <2>2. gpc \notin {"unborn", "done"}
        /\ gpc' \in {"check", "batch", "log", "roll", "alert", "mark", "edges", "slice",
                     "pause", "sleep", "done"}
    BY <1>1 DEF Generator, BeginBatch, GeneratorReturns, MakeEvent, EndBatch, PostLog, NoAlert,
                RaiseAlert, PostAlert, MarkNothing, MarkNode, MarkEdge, EndMarking, NextSlice,
                LeavePause, SleepSlice, Post
  <2> QED
    BY <2>1, <2>2
<1>2. CASE Main
  <2>1. CASE StartGenerator \/ StartFails
    BY <2>1 DEF StartGenerator, StartFails
  <2>2. CASE OtherKey \/ PauseKey \/ QuitKey
    BY <2>2 DEF OtherKey, PauseKey, QuitKey, flagVars
  <2>3. CASE RunTask \/ FreeSlot \/ EndDrain \/ DrawPanels
    BY <2>3 DEF RunTask, FreeSlot, EndDrain, DrawPanels, flagVars, Drawing
  <2>5. CASE DrawEdge \/ SkipEdge \/ LightEdge \/ DrawNode \/ LightNode
    BY <2>5 DEF DrawEdge, SkipEdge, LightEdge, DrawNode, LightNode, Put, Light, GoOnWithEdges,
                GoOnWithNodes, flagVars, Drawing
  <2>4. CASE StopGenerator \/ JoinGenerator
    BY <2>4 DEF StopGenerator, JoinGenerator, flagVars
  <2> QED
    BY <1>2, <2>1, <2>2, <2>3, <2>4, <2>5 DEF Main
<1>3. CASE UNCHANGED vars
  BY <1>3 DEF vars, mainVars, flagVars
<1> QED
  BY <1>1, <1>2, <1>3 DEF Next, Exited

(* None of main's steps touches the generator's variables, nor starts it    *)
(* twice.                                                                   *)
LEMMA MainLeaves ==
    ASSUME FlowInv, Main \/ UNCHANGED vars
    PROVE  /\ UNCHANGED <<event, events, nextAlertId, suspNodes, suspEdges, marking, edge, left,
                          slice, dropped, accepted>>
           /\ gpc' = gpc \/ (gpc = "unborn" /\ gpc' = "check")
<1>1. CASE Main
  <2>1. UNCHANGED <<event, events, nextAlertId, suspNodes, suspEdges, marking, edge, left, slice,
                    dropped>>
    BY <1>1 DEF Main, genVars, eventVars, markVars
  <2>2. gpc' = gpc \/ (gpc = "unborn" /\ gpc' = "check")
    BY <1>1 DEF Main, StartGenerator, StartFails, OtherKey, PauseKey, QuitKey, RunTask, FreeSlot,
                EndDrain, DrawEdge, SkipEdge, LightEdge, DrawNode, LightNode, DrawPanels,
                StopGenerator, JoinGenerator, FlowInv
  <2>3. accepted' = accepted
    BY <1>1 DEF Main, StartGenerator, StartFails, OtherKey, PauseKey, QuitKey, RunTask, FreeSlot,
                EndDrain, DrawEdge, SkipEdge, LightEdge, DrawNode, LightNode, DrawPanels,
                StopGenerator, JoinGenerator, queueVars, Fifo!Deliver, Fifo!Release
  <2> QED
    BY <2>1, <2>2, <2>3
<1>2. CASE UNCHANGED vars
  BY <1>2 DEF vars, postVars, queueVars, loopVars, eventVars, markVars
<1> QED
  BY <1>1, <1>2

-----------------------------------------------------------------------------
(* The counters of the generator.                                           *)
LEMMA EventKept == FlowInv /\ EventInv /\ [Next]_vars => EventInv'
<1> SUFFICES ASSUME FlowInv, EventInv, [Next]_vars PROVE EventInv'
  OBVIOUS
<1> USE DashboardAssumption DEF EventInv
<1>1. CASE Generator
  <2>1. CASE BeginBatch
    <3>1. PICK batch \in Batches : events + batch <= MaxEvents /\ left' = batch
      BY <2>1 DEF BeginBatch
    <3>2. batch \in Nat
      OBVIOUS
    <3>3. gpc' = "batch" /\ UNCHANGED <<event, events, nextAlertId>>
      BY <2>1 DEF BeginBatch, eventVars
    <3> QED
      BY <3>1, <3>2, <3>3
  <2>2. CASE MakeEvent
    <3>1. PICK sev \in EventSev : event' = [n |-> events + 1, sev |-> sev]
      BY <2>2 DEF MakeEvent
    <3>2. left > 0 /\ left' = left - 1 /\ events' = events + 1 /\ gpc' = "log"
          /\ nextAlertId' = nextAlertId
      BY <2>2 DEF MakeEvent
    <3>3. events + 1 \in 1 .. MaxEvents
      BY <3>2
    <3> QED
      BY <3>1, <3>2, <3>3
  <2>3. CASE EndBatch \/ GeneratorReturns \/ NextSlice \/ LeavePause \/ SleepSlice
    BY <2>3 DEF EndBatch, GeneratorReturns, NextSlice, LeavePause, SleepSlice, loopVars, eventVars
  <2>4. CASE PostLog
    BY <2>4 DEF PostLog, Post, loopVars, eventVars
  <2>5. CASE PostAlert
    BY <2>5 DEF PostAlert, Post, loopVars, eventVars
  <2>6. CASE NoAlert \/ MarkNothing \/ MarkNode \/ MarkEdge \/ EndMarking
    BY <2>6 DEF NoAlert, MarkNothing, MarkNode, MarkEdge, EndMarking, loopVars, eventVars
  <2>7. CASE RaiseAlert
    BY <2>7 DEF RaiseAlert, loopVars
  <2> QED
    BY <1>1, <2>1, <2>2, <2>3, <2>4, <2>5, <2>6, <2>7 DEF Generator
<1>2. CASE Main \/ UNCHANGED vars
  BY <1>2, MainLeaves
<1> QED
  BY <1>1, <1>2 DEF Next, Exited

(* The pause.                                                               *)
LEMMA PauseKept == FlowInv /\ PauseInv /\ [Next]_vars => PauseInv'
<1> SUFFICES ASSUME FlowInv, PauseInv, [Next]_vars PROVE PauseInv'
  OBVIOUS
<1> USE DashboardAssumption DEF PauseInv, InBatch
<1>1. CASE Generator
  <2>1. UNCHANGED <<genRunning, genPaused>>
    BY <1>1 DEF Generator, mainVars, flagVars
  <2>2. CASE BeginBatch
    <3>1. gpc = "check" /\ gpc' = "batch" /\ slice' = slice /\ begun' = begun + 1 /\ genRunning
      BY <2>2 DEF BeginBatch
    <3>2. genPaused => begun = 0
      BY <3>1
    <3> QED
      BY <2>1, <3>1, <3>2
  <2>9. CASE GeneratorReturns
    <3>1. gpc = "check" /\ gpc' = "done" /\ slice' = slice /\ begun' = begun /\ ~genRunning
      BY <2>9 DEF GeneratorReturns, loopVars
    <3> QED
      BY <2>1, <3>1
  <2>3. CASE MakeEvent \/ EndBatch
    BY <2>1, <2>3 DEF MakeEvent, EndBatch
  <2>4. CASE PostLog \/ PostAlert
    BY <2>1, <2>4 DEF PostLog, PostAlert, Post, loopVars
  <2>5. CASE NoAlert \/ RaiseAlert \/ MarkNothing \/ MarkNode \/ MarkEdge \/ EndMarking
    BY <2>1, <2>5 DEF NoAlert, RaiseAlert, MarkNothing, MarkNode, MarkEdge, EndMarking, loopVars
  <2>6. CASE NextSlice
    BY <2>1, <2>6 DEF NextSlice, loopVars, FlowInv
  <2>7. CASE LeavePause
    BY <2>1, <2>7 DEF LeavePause, loopVars, FlowInv
  <2>8. CASE SleepSlice
    BY <2>1, <2>8 DEF SleepSlice
  <2> QED
    BY <1>1, <2>2, <2>3, <2>4, <2>5, <2>6, <2>7, <2>8, <2>9 DEF Generator
<1>2. CASE Main
  <2>1. slice' = slice
    BY <1>2, MainLeaves
  <2>2. CASE StartGenerator \/ StartFails
    BY <2>1, <2>2 DEF StartGenerator, StartFails, FlowInv
  <2>3. CASE PauseKey
    BY <2>1, <2>3 DEF PauseKey
  <2>4. CASE OtherKey \/ QuitKey \/ RunTask \/ FreeSlot \/ EndDrain \/ DrawPanels
             \/ JoinGenerator
    BY <2>1, <2>4 DEF OtherKey, QuitKey, RunTask, FreeSlot, EndDrain, DrawPanels, JoinGenerator,
                      flagVars
  <2>6. CASE DrawEdge \/ SkipEdge \/ LightEdge \/ DrawNode \/ LightNode
    <3>1. UNCHANGED <<genRunning, genPaused, gpc, begun>>
      BY <2>6 DEF DrawEdge, SkipEdge, LightEdge, DrawNode, LightNode, flagVars
    <3> QED
      BY <2>1, <3>1
  <2>5. CASE StopGenerator
    BY <2>1, <2>5 DEF StopGenerator
  <2> QED
    BY <1>2, <2>2, <2>3, <2>4, <2>5, <2>6 DEF Main
<1>3. CASE UNCHANGED vars
  BY <1>3 DEF vars, mainVars, flagVars, loopVars
<1> QED
  BY <1>1, <1>2, <1>3 DEF Next, Exited

-----------------------------------------------------------------------------
(* The marks.  Nodes and edges stay marked.                                 *)
LEMMA MarksKept == FlowInv /\ MarksInv /\ [Next]_vars
                   => MarksInv' /\ suspNodes \subseteq suspNodes' /\ suspEdges \subseteq suspEdges'
<1> SUFFICES ASSUME FlowInv, MarksInv, [Next]_vars
             PROVE  MarksInv' /\ suspNodes \subseteq suspNodes' /\ suspEdges \subseteq suspEdges'
  OBVIOUS
<1>0. /\ Len(Edges) \in Nat /\ DOMAIN Edges = 1 .. Len(Edges)
      /\ NodeCount \in Nat \ {0}
  BY DashboardAssumption, LenProperties
<1>1. CASE Generator
  <2>1. CASE MarkNode
    <3>1. /\ gpc = "mark" /\ gpc' = "edges" /\ marking' \in 0 .. NodeCount - 1
          /\ suspNodes' = suspNodes \cup {marking'} /\ edge' = 1 /\ suspEdges' = suspEdges
      BY <2>1 DEF MarkNode
    <3>2. \A e \in suspEdges : Touches(e, suspNodes')
      BY <3>1 DEF MarksInv, Touches
    <3>3. ASSUME NEW e \in DOMAIN Edges, Touches(e, suspNodes')
          PROVE  e \in suspEdges' \/ (edge' <= e /\ marking' \in Ends(e))
      <4>1. Touches(e, suspNodes) \/ marking' \in Ends(e)
        BY <3>1, <3>3 DEF Touches
      <4> QED
        BY <1>0, <3>1, <4>1 DEF MarksInv
    <3>4. suspNodes' \subseteq 0 .. NodeCount - 1 /\ suspEdges' \subseteq DOMAIN Edges
          /\ edge' \in 0 .. Len(Edges) + 1 /\ marking' \in suspNodes' /\ edge' > 0
      BY <1>0, <3>1 DEF MarksInv
    <3>5. MarksInv'
      BY <3>1, <3>2, <3>3, <3>4 DEF MarksInv
    <3> QED
      BY <3>1, <3>5
  <2>2. CASE MarkEdge
    <3>1. /\ gpc = "edges" /\ gpc' = "edges" /\ marking' = marking
          /\ suspNodes' = suspNodes /\ edge <= Len(Edges) /\ edge' = edge + 1
          /\ suspEdges' = IF marking \in Ends(edge) THEN suspEdges \cup {edge} ELSE suspEdges
      BY <2>2 DEF MarkEdge, Incident
    <3>2. edge \in DOMAIN Edges /\ edge + 1 \in 0 .. Len(Edges) + 1 /\ edge + 1 > 0
      BY <1>0, <3>1 DEF MarksInv
    <3>3. marking \in Ends(edge) => Touches(edge, suspNodes)
      BY <3>1 DEF MarksInv, Touches
    <3>4. \A e \in suspEdges' : Touches(e, suspNodes)
      BY <3>1, <3>3 DEF MarksInv
    <3>5. ASSUME NEW e \in DOMAIN Edges, Touches(e, suspNodes)
          PROVE  e \in suspEdges' \/ (edge + 1 <= e /\ marking \in Ends(e))
      <4>1. e \in suspEdges \/ (edge <= e /\ marking \in Ends(e))
        BY <3>5, <3>1 DEF MarksInv
      <4>2. e = edge \/ edge + 1 <= e \/ ~ (edge <= e)
        BY <1>0, <3>2
      <4> QED
        BY <3>1, <4>1, <4>2
    <3>6. suspNodes' \subseteq 0 .. NodeCount - 1 /\ suspEdges' \subseteq DOMAIN Edges
          /\ edge' \in 0 .. Len(Edges) + 1 /\ marking' \in suspNodes' /\ edge' > 0
      BY <3>1, <3>2 DEF MarksInv
    <3>7. MarksInv'
      BY <3>1, <3>4, <3>5, <3>6 DEF MarksInv
    <3> QED
      BY <3>1, <3>7
  <2>3. CASE EndMarking
    <3>1. gpc' = "batch" /\ edge > Len(Edges) /\ UNCHANGED <<suspNodes, suspEdges, marking, edge>>
      BY <2>3 DEF EndMarking, markVars
    <3>2. \A e \in DOMAIN Edges : ~ (edge <= e)
      BY <1>0, <3>1 DEF MarksInv
    <3> QED
      BY <3>1, <3>2 DEF MarksInv
  <2>4. CASE ~ (MarkNode \/ MarkEdge \/ EndMarking)
    <3>1. UNCHANGED <<suspNodes, suspEdges, marking, edge>> /\ gpc # "edges" /\ gpc' # "edges"
      BY <1>1, <2>4 DEF Generator, BeginBatch, GeneratorReturns, MakeEvent, EndBatch, PostLog,
              NoAlert, RaiseAlert, PostAlert, MarkNothing, NextSlice, LeavePause, SleepSlice,
              Post, markVars
    <3> QED
      BY <3>1 DEF MarksInv
  <2> QED
    BY <2>1, <2>2, <2>3, <2>4
<1>2. CASE Main \/ UNCHANGED vars
  <2>1. UNCHANGED <<suspNodes, suspEdges, marking, edge>>
        /\ (gpc' = gpc \/ (gpc = "unborn" /\ gpc' = "check"))
    BY <1>2, MainLeaves
  <2> QED
    BY <2>1 DEF MarksInv
<1> QED
  BY <1>1, <1>2 DEF Next, Exited

-----------------------------------------------------------------------------
(* The canvas, while the marks are being set.                               *)
LEMMA Graph ==
    /\ Len(Edges) \in Nat \ {0} /\ DOMAIN Edges = 1 .. Len(Edges) /\ NodeCount \in Nat \ {0}
    /\ \A n \in Nodes : NodeCell[n] \in Cells
    /\ \A e \in DOMAIN Edges : Ends(e) \subseteq Nodes /\ MiddleOf(e) \in Cells
<1>1. Len(Edges) \in Nat \ {0} /\ DOMAIN Edges = 1 .. Len(Edges)
  BY DashboardAssumption, LenProperties, EmptySeq
<1>2. ASSUME NEW e \in DOMAIN Edges PROVE Ends(e) \subseteq Nodes /\ MiddleOf(e) \in Cells
  <2>1. Edges[e] \in (0 .. NodeCount - 1) \X (0 .. NodeCount - 1)
    BY <1>1, DashboardAssumption, ElementOfSeq
  <2>2. MiddleOf(e) \in Cells
    BY <2>1, DashboardAssumption DEF MiddleOf
  <2> QED
    BY <2>1, <2>2 DEF Ends, Nodes
<1> QED
  BY <1>1, <1>2, DashboardAssumption DEF Nodes

(* More marks light no cell and leave a lit one lit for its reason.         *)
LEMMA CanvasStands ==
    ASSUME CanvasInv, suspNodes \subseteq suspNodes', suspEdges \subseteq suspEdges',
           UNCHANGED <<canvas, lit>>,
           UNCHANGED <<mpc, drawing>> \/ (mpc \notin Drawing /\ mpc' \notin Drawing)
    PROVE  CanvasInv'
<1>1. Drawn' = Drawn /\ Done' = Done
  BY DEF Drawn, Done, Drawing
<1>2. LitInv'
  <2>1. ASSUME NEW n, Comes(n) PROVE Comes(n)'
    BY <1>1, <2>1 DEF Comes
  <2>2. ASSUME NEW c, EdgeLit(c) PROVE EdgeLit(c)'
    <3>1. PICK e \in suspEdges : /\ MiddleOf(e) = c /\ FirstEdge(e) /\ \A m \in Done : NodeCell[m] # c
                                 /\ \E n \in Ends(e) : Comes(n)
      BY <2>2 DEF EdgeLit
    <3>2. \E n \in Ends(e) : Comes(n)'
      BY <2>1, <3>1
    <3> QED
      BY <1>1, <3>1, <3>2 DEF EdgeLit
  <2>3. ASSUME NEW c, NodeLit(c) PROVE NodeLit(c)'
    BY <1>1, <2>3 DEF NodeLit
  <2> QED
    BY <2>2, <2>3 DEF CanvasInv, LitInv
<1>3. GlyphInv' /\ FilledInv'
  BY DEF CanvasInv, GlyphInv, FilledInv, Drawing
<1> QED
  BY <1>2, <1>3 DEF CanvasInv, Drawing

(* Going over the edges.                                                    *)
LEMMA EdgesKept ==
    ASSUME MarksInv, CanvasInv, DrawEdge \/ SkipEdge \/ LightEdge,
           suspNodes' = suspNodes, suspEdges' = suspEdges
    PROVE  CanvasInv'
<1>1. mpc \in {"edges", "edge_mark"} /\ mpc' \in {"edges", "edge_mark", "nodes"}
      /\ (mpc' = "nodes" => drawing' = 0)
  BY DEF DrawEdge, SkipEdge, LightEdge, Put, Light, GoOnWithEdges
<1>2. drawing \in DOMAIN Edges /\ MiddleOf(drawing) \in Cells
  BY <1>1, Graph DEF CanvasInv
<1>3. Drawn = {} /\ Done = {} /\ Drawn' = {} /\ Done' = {}
  <2>1. \A n \in Nodes : ~ (n < 0)
    BY Graph DEF Nodes
  <2> QED
    BY <1>1, <2>1 DEF Drawn, Done
<1>4. ASSUME NEW n \in suspNodes PROVE Comes(n)'
  BY <1>3 DEF Comes
<1>5. ASSUME NEW c, EdgeLit(c) PROVE EdgeLit(c)'
  BY <1>3, <1>4, <1>5 DEF EdgeLit, Comes
<1>6. \A c : ~NodeLit(c)
  BY <1>3 DEF NodeLit
<1>7. ASSUME GoOnWithEdges
       PROVE  /\ mpc' = "edges" => drawing' \in DOMAIN Edges
              /\ mpc' = "nodes" => drawing' \in Nodes
  <2>1. drawing < Len(Edges) => drawing + 1 \in DOMAIN Edges
    BY <1>2, Graph
  <2>2. 0 \in Nodes
    BY Graph DEF Nodes
  <2> QED
    BY <1>7, <2>1, <2>2 DEF GoOnWithEdges
<1>8. CASE DrawEdge
  <2>1. /\ mpc = "edges" /\ mpc' = "edge_mark" /\ drawing' = drawing /\ lit' = lit
        /\ canvas[MiddleOf(drawing)] = " "
        /\ canvas' = [canvas EXCEPT ![MiddleOf(drawing)] = EdgeGlyph]
    BY <1>8 DEF DrawEdge, Put
  <2>2. EdgeGlyph \in {"*", "."} /\ (EdgeGlyph = "*" => drawing \in suspEdges)
    BY DEF EdgeGlyph
  <2>3. canvas' \in [Cells -> {" ", ".", "*", "o", "X"}]
    BY <2>1, <2>2 DEF CanvasInv
  <2>4. GlyphInv'
    BY <1>2, <2>1, <2>2 DEF CanvasInv, GlyphInv
  <2>5. LitInv'
    BY <1>5, <1>6, <2>1 DEF CanvasInv, LitInv
  <2>6. FilledInv'
    BY <1>2, <2>1, <2>2, Graph DEF CanvasInv, FilledInv
  <2> QED
    BY <1>2, <2>1, <2>3, <2>4, <2>5, <2>6 DEF CanvasInv
<1>9. CASE SkipEdge
  <2>1. /\ mpc = "edges" /\ GoOnWithEdges /\ lit' = lit /\ canvas' = canvas
        /\ canvas[MiddleOf(drawing)] # " "
    BY <1>9 DEF SkipEdge
  <2>2. GlyphInv'
    BY <2>1 DEF CanvasInv, GlyphInv, GoOnWithEdges
  <2>3. LitInv'
    BY <1>5, <1>6, <2>1 DEF CanvasInv, LitInv
  <2>4. FilledInv'
    <3>1. \A f \in DOMAIN Edges : f < drawing + 1 => f < drawing \/ f = drawing
      BY <1>2, Graph
    <3> QED
      BY <2>1, <3>1 DEF CanvasInv, FilledInv, GoOnWithEdges
  <2>5. /\ mpc' = "edges" => drawing' \in DOMAIN Edges
        /\ mpc' = "nodes" => drawing' \in Nodes
    BY <1>7, <2>1
  <2> QED
    BY <1>1, <2>1, <2>2, <2>3, <2>4, <2>5 DEF CanvasInv, GoOnWithEdges
<1>10. CASE LightEdge
  <2>1. /\ mpc = "edge_mark" /\ GoOnWithEdges /\ canvas' = canvas
        /\ lit' = IF drawing \in suspEdges THEN lit \cup {MiddleOf(drawing)}
                                           ELSE lit \ {MiddleOf(drawing)}
    BY <1>10 DEF LightEdge, Light
  <2>2. GlyphInv'
    BY <2>1 DEF CanvasInv, GlyphInv, GoOnWithEdges
  <2>3. ASSUME NEW c, c = MiddleOf(drawing), drawing \in suspEdges PROVE EdgeLit(c)'
    <3>1. FirstEdge(drawing)
      <4>1. \A f \in DOMAIN Edges : f < drawing => MiddleOf(f) # MiddleOf(drawing)
        BY <2>1 DEF CanvasInv, FilledInv
      <4> QED
        BY <1>2, <4>1, Graph DEF FirstEdge
    <3>2. \E n \in Ends(drawing) : Comes(n)'
      BY <1>4, <2>3 DEF MarksInv, Touches
    <3> QED
      BY <1>3, <2>3, <3>1, <3>2 DEF EdgeLit
  <2>4. LitInv'
    BY <1>5, <1>6, <2>1, <2>3 DEF CanvasInv, LitInv
  <2>5. FilledInv'
    <3>1. \A f \in DOMAIN Edges : f < drawing + 1 => f < drawing \/ f = drawing
      BY <1>2, Graph
    <3> QED
      BY <2>1, <3>1 DEF CanvasInv, FilledInv, GoOnWithEdges
  <2>6. /\ mpc' = "edges" => drawing' \in DOMAIN Edges
        /\ mpc' = "nodes" => drawing' \in Nodes
        /\ lit' \subseteq Cells
    BY <1>2, <1>7, <2>1 DEF CanvasInv
  <2> QED
    BY <1>1, <2>1, <2>2, <2>4, <2>5, <2>6 DEF CanvasInv, GoOnWithEdges
<1> QED
  BY <1>8, <1>9, <1>10

(* Drawing a node hides what was in its cell: an edge, or an earlier node.  *)
LEMMA NodeDrawn ==
    ASSUME MarksInv, CanvasInv, DrawNode, suspNodes' = suspNodes, suspEdges' = suspEdges
    PROVE  CanvasInv'
<1>1. /\ mpc = "nodes" /\ mpc' = "node_mark" /\ drawing' = drawing /\ lit' = lit
      /\ canvas' = [canvas EXCEPT ![NodeCell[drawing]] = NodeGlyph]
  BY DEF DrawNode, Put
<1>2. drawing \in Nodes /\ NodeCell[drawing] \in Cells
  BY <1>1, Graph DEF CanvasInv
<1>3. NodeGlyph \in {"X", "o"} /\ (NodeGlyph = "X" <=> drawing \in suspNodes)
  BY DEF NodeGlyph
<1>4. canvas' \in [Cells -> {" ", ".", "*", "o", "X"}]
  BY <1>1, <1>3 DEF CanvasInv
<1>5. GlyphInv'
  BY <1>1, <1>2, <1>3 DEF CanvasInv, GlyphInv
<1>6. FilledInv'
  BY <1>1 DEF FilledInv
<1>7. Done' = Done /\ Drawn = {n \in Nodes : n < drawing}
      /\ Drawn' = {n \in Nodes : n <= drawing}
  BY <1>1 DEF Done, Drawn
<1>8. ASSUME NEW n \in Nodes, Comes(n) PROVE Comes(n)'
  <2>1. CASE n = drawing
    BY <1>1, <1>2, <1>3, <1>8, <2>1 DEF Comes, CanvasInv
  <2>2. CASE n \notin Drawn /\ n # drawing
    <3>1. n \notin Drawn'
      BY <1>2, <1>7, <2>2, Graph DEF Nodes
    <3> QED
      BY <1>8, <3>1 DEF Comes
  <2>3. CASE n \in Drawn /\ NodeCell[n] = NodeCell[drawing]
    <3>1. ~TopNode(n)
      BY <1>2, <1>7, <2>3, Graph DEF TopNode, Nodes
    <3> QED
      BY <1>8, <3>1 DEF Comes
  <2>4. CASE n \in Drawn /\ NodeCell[n] # NodeCell[drawing]
    <3>1. NodeCell[n] \in Cells
      BY Graph
    <3>2. canvas'[NodeCell[n]] = canvas[NodeCell[n]]
      BY <1>1, <2>4, <3>1 DEF CanvasInv
    <3> QED
      BY <1>8, <2>4, <3>2 DEF Comes
  <2> QED
    BY <2>1, <2>2, <2>3, <2>4
<1>9. ASSUME NEW c, EdgeLit(c) PROVE EdgeLit(c)'
  <2>1. PICK e \in suspEdges : /\ MiddleOf(e) = c /\ FirstEdge(e) /\ \A m \in Done : NodeCell[m] # c
                               /\ \E n \in Ends(e) : Comes(n)
    BY <1>9 DEF EdgeLit
  <2>2. \E n \in Ends(e) : Comes(n)'
    BY <1>8, <2>1 DEF Comes, MarksInv, Nodes
  <2> QED
    BY <1>7, <2>1, <2>2 DEF EdgeLit
<1>10. ASSUME NEW c, NodeLit(c) PROVE NodeLit(c)'
  BY <1>7, <1>10 DEF NodeLit
<1>11. LitInv'
  BY <1>1, <1>9, <1>10 DEF CanvasInv, LitInv
<1> QED
  BY <1>1, <1>2, <1>4, <1>5, <1>6, <1>11 DEF CanvasInv

(* Its mark lights the cell or darkens it, whatever was there.              *)
LEMMA NodeLights ==
    ASSUME CanvasInv, LightNode, suspNodes' = suspNodes, suspEdges' = suspEdges
    PROVE  CanvasInv'
<1>1. /\ mpc = "node_mark" /\ GoOnWithNodes /\ canvas' = canvas
      /\ lit' = IF drawing \in suspNodes THEN lit \cup {NodeCell[drawing]}
                                         ELSE lit \ {NodeCell[drawing]}
  BY DEF LightNode, Light
<1>2. drawing \in Nodes /\ NodeCell[drawing] \in Cells
  BY <1>1, Graph DEF CanvasInv
<1>3. /\ mpc' \in {"nodes", "panels"}
      /\ mpc' = "nodes" => drawing' = drawing + 1 /\ drawing' \in Nodes
      /\ mpc' = "panels" => \A n \in Nodes : n <= drawing
  BY <1>1, <1>2, Graph DEF GoOnWithNodes, Nodes
<1>4. GlyphInv'
  BY <1>1, <1>3 DEF CanvasInv, GlyphInv
<1>5. FilledInv'
  BY <1>3 DEF FilledInv
<1>6. Drawn' = Drawn /\ Done = {n \in Nodes : n < drawing}
      /\ Done' = {n \in Nodes : n <= drawing}
  <2>1. \A n \in Nodes : n < drawing + 1 <=> n <= drawing
    BY <1>2, Graph DEF Nodes
  <2> QED
    BY <1>1, <1>3, <2>1 DEF Done, Drawn
<1>7. \A m \in Done' : m \in Done \/ m = drawing
  BY <1>2, <1>6, Graph DEF Nodes
<1>8. ASSUME NEW c, c # NodeCell[drawing], EdgeLit(c) PROVE EdgeLit(c)'
  <2>1. \A n : Comes(n) => Comes(n)'
    BY <1>1, <1>6 DEF Comes
  <2> QED
    BY <1>7, <1>8, <2>1 DEF EdgeLit
<1>9. ASSUME NEW c, c # NodeCell[drawing], NodeLit(c) PROVE NodeLit(c)'
  <2>1. PICK n \in suspNodes \cap Done : NodeCell[n] = c /\ \A m \in Done : NodeCell[m] = c => m <= n
    BY <1>9 DEF NodeLit
  <2>2. n \in Done'
    BY <1>2, <1>6, <2>1, Graph DEF Nodes
  <2> QED
    BY <1>7, <1>9, <2>1, <2>2 DEF NodeLit
<1>10. ASSUME NEW c, c = NodeCell[drawing], drawing \in suspNodes PROVE NodeLit(c)'
  <2>1. drawing \in Done' /\ \A m \in Done' : m <= drawing
    BY <1>2, <1>6, Graph DEF Nodes
  <2> QED
    BY <1>10, <2>1 DEF NodeLit
<1>11. LitInv'
  BY <1>1, <1>8, <1>9, <1>10 DEF CanvasInv, LitInv
<1>12. lit' \subseteq Cells
  BY <1>1, <1>2 DEF CanvasInv
<1> QED
  BY <1>1, <1>3, <1>4, <1>5, <1>11, <1>12 DEF CanvasInv

LEMMA CanvasKept ==
    FlowInv /\ MarksInv /\ CanvasInv /\ [Next]_vars => CanvasInv'
<1> SUFFICES ASSUME FlowInv, MarksInv, CanvasInv, [Next]_vars PROVE CanvasInv'
  OBVIOUS
<1>1. suspNodes \subseteq suspNodes' /\ suspEdges \subseteq suspEdges'
  BY MarksKept
<1>2. CASE Generator \/ UNCHANGED vars
  <2>1. UNCHANGED <<mpc, canvas, lit, drawing>>
    BY <1>2 DEF Generator, vars, mainVars, canvasVars
  <2> QED
    BY <1>1, <2>1, CanvasStands
<1>3. CASE Main
  <2>1. suspNodes' = suspNodes /\ suspEdges' = suspEdges
    BY <1>3, MainLeaves
  <2>2. CASE EndDrain
    <3>1. canvas' = Blank /\ lit' = {} /\ drawing' = 1 /\ mpc' = "edges"
      BY <2>2 DEF EndDrain
    <3>2. 1 \in DOMAIN Edges /\ \A f \in DOMAIN Edges : ~ (f < 1)
      BY Graph
    <3> QED
      BY <3>1, <3>2 DEF CanvasInv, GlyphInv, LitInv, FilledInv, Blank
  <2>3. CASE DrawEdge \/ SkipEdge \/ LightEdge
    BY <2>1, <2>3, EdgesKept
  <2>4. CASE DrawNode
    BY <2>1, <2>4, NodeDrawn
  <2>5. CASE LightNode
    BY <2>1, <2>5, NodeLights
  <2>6. CASE StartGenerator \/ StartFails \/ OtherKey \/ PauseKey \/ QuitKey
    <3>1. UNCHANGED <<canvas, lit>> /\ mpc \notin Drawing /\ mpc' \notin Drawing
      BY <2>6 DEF StartGenerator, StartFails, OtherKey, PauseKey, QuitKey, canvasVars, Drawing
    <3> QED
      BY <1>1, <3>1, CanvasStands
  <2>7. CASE RunTask \/ FreeSlot \/ DrawPanels \/ StopGenerator \/ JoinGenerator
    <3>1. UNCHANGED <<canvas, lit>> /\ mpc \notin Drawing /\ mpc' \notin Drawing
      BY <2>7 DEF RunTask, FreeSlot, DrawPanels, StopGenerator, JoinGenerator, canvasVars, Drawing
    <3> QED
      BY <1>1, <3>1, CanvasStands
  <2> QED
    BY <1>3, <2>2, <2>3, <2>4, <2>5, <2>6, <2>7 DEF Main
<1> QED
  BY <1>2, <1>3 DEF Next, Exited

(* When the canvas is finished every node has been drawn.                   *)
LEMMA FinishedCanvas == MarksInv /\ CanvasInv => CanvasConsistent
<1> SUFFICES ASSUME MarksInv, CanvasInv, mpc \notin Drawing, NEW c \in Cells
             PROVE  /\ canvas[c] \in {"*", "X"} => c \in lit
                    /\ c \in lit =>
                         \/ \E n \in suspNodes : NodeCell[n] = c /\ TopNode(n)
                         \/ \E e \in suspEdges :
                               /\ MiddleOf(e) = c /\ FirstEdge(e) /\ \A n \in Nodes : NodeCell[n] # c
                               /\ \E n \in Ends(e) \cap suspNodes :
                                     canvas[NodeCell[n]] = "X" \/ ~TopNode(n)
  BY DEF CanvasConsistent
<1>1. Drawn = Nodes /\ Done = Nodes
  BY DEF Drawn, Done, Drawing
<1>2. canvas[c] \in {"*", "X"} => c \in lit
  BY DEF CanvasInv, GlyphInv, Drawing
<1>3. CASE NodeLit(c)
  BY <1>1, <1>2, <1>3 DEF NodeLit, TopNode
<1>4. CASE EdgeLit(c)
  <2>1. PICK e \in suspEdges : /\ MiddleOf(e) = c /\ FirstEdge(e) /\ \A m \in Nodes : NodeCell[m] # c
                               /\ \E n \in Ends(e) : Comes(n)
    BY <1>1, <1>4 DEF EdgeLit
  <2>2. \E n \in Ends(e) \cap suspNodes : canvas[NodeCell[n]] = "X" \/ ~TopNode(n)
    BY <1>1, <2>1 DEF Comes, MarksInv, Nodes
  <2> QED
    BY <1>2, <2>1, <2>2
<1> QED
  BY <1>2, <1>3, <1>4 DEF CanvasInv, LitInv

-----------------------------------------------------------------------------
(* What a step does to the queue: a post ends in the queue or is dropped,   *)
(* and posts come only from the places of the generator they are made at.   *)
Puts(task) == \/ accepted' = Append(accepted, task) /\ dropped' = dropped
              \/ dropped' = Append(dropped, task) /\ accepted' = accepted

LEMMA TaskTypes ==
    ASSUME FlowInv, EventInv
    PROVE  /\ gpc = "log" => LogTask \in LogTasks
           /\ gpc = "alert" => AlertTask \in AlertTasks /\ AlertTask.id = Posted
<1>1. gpc = "log" => LogTask \in LogTasks
  BY DEF EventInv, LogTask, LogTasks
<1>2. ASSUME gpc = "alert" PROVE AlertTask \in AlertTasks /\ AlertTask.id = Posted
  <2>1. /\ event \in [n : 1 .. MaxEvents, sev : EventSev] /\ event.sev >= High
        /\ nextAlertId \in Nat /\ nextAlertId > 0 /\ nextAlertId <= MaxEvents
    BY <1>2, DashboardAssumption DEF EventInv
  <2>2. nextAlertId - 1 \in 0 .. MaxEvents
    BY <2>1, DashboardAssumption
  <2> QED
    BY <1>2, <2>1, <2>2 DEF AlertTask, AlertTasks, Posted
<1> QED
  BY <1>1, <1>2

LEMMA PostSteps ==
    ASSUME FlowInv, EventInv, [Next]_vars
    PROVE  \/ /\ UNCHANGED <<accepted, dropped>> /\ Posted' = Posted
              /\ gpc' \in {"roll", "alert"} => gpc \in {"roll", "alert"} /\ event' = event
           \/ /\ gpc = "log" /\ gpc' = "roll" /\ event' = event
              /\ Puts(LogTask) /\ Posted' = Posted
           \/ /\ gpc = "alert" /\ gpc' = "mark"
              /\ Puts(AlertTask) /\ Posted' = Posted + 1
<1>1. CASE Generator
  <2>1. CASE PostLog
    BY <2>1 DEF PostLog, Post, Puts, Posted, eventVars, Fifo!Admit, Fifo!Publish, Fifo!Refuse
  <2>2. CASE PostAlert
    <3>1. /\ gpc = "alert" /\ nextAlertId' = nextAlertId /\ event' = event
          /\ \/ UNCHANGED <<accepted, dropped, gpc>>
             \/ Puts(AlertTask) /\ gpc' = "mark"
      BY <2>2 DEF PostAlert, Post, Puts, eventVars, Fifo!Admit, Fifo!Publish, Fifo!Refuse
    <3>2. nextAlertId \in Nat
      BY DEF EventInv
    <3> QED
      BY <3>1, <3>2 DEF Posted
  <2>3. CASE RaiseAlert
    <3>1. /\ UNCHANGED <<accepted, dropped, event>> /\ gpc = "roll" /\ gpc' = "alert"
          /\ nextAlertId' = nextAlertId + 1
      BY <2>3 DEF RaiseAlert, postVars, queueVars
    <3>2. nextAlertId \in Nat
      BY DEF EventInv
    <3> QED
      BY <3>1, <3>2 DEF Posted
  <2>4. CASE MakeEvent
    BY <2>4 DEF MakeEvent, postVars, queueVars, Posted
  <2>5. CASE ~ (PostLog \/ PostAlert \/ RaiseAlert \/ MakeEvent)
    <3>1. /\ UNCHANGED <<accepted, dropped, nextAlertId>>
          /\ gpc # "alert" /\ gpc' \notin {"roll", "alert"}
      BY <1>1, <2>5 DEF Generator, BeginBatch, GeneratorReturns, EndBatch, NoAlert, MarkNothing,
              MarkNode, MarkEdge, EndMarking, NextSlice, LeavePause, SleepSlice, postVars,
              queueVars, eventVars
    <3> QED
      BY <3>1 DEF Posted
  <2> QED
    BY <2>1, <2>2, <2>3, <2>4, <2>5
<1>2. CASE Main \/ UNCHANGED vars
  <2>1. /\ UNCHANGED <<event, nextAlertId, dropped, accepted>>
        /\ gpc' = gpc \/ (gpc = "unborn" /\ gpc' = "check")
    BY <1>2, MainLeaves
  <2> QED
    BY <2>1 DEF Posted
<1> QED
  BY <1>1, <1>2 DEF Next, Exited

(* A task is run by main alone, the oldest that has not been.               *)
LEMMA DeliverSteps ==
    ASSUME FlowInv, [Next]_vars
    PROVE  \/ delivered' = delivered /\ UNCHANGED <<alerts, handled, shown, logRing, logWrite, newest>>
           \/ /\ delivered' = delivered /\ UNCHANGED <<logRing, logWrite, newest>>
              /\ Table!RenderThreats(ThreatVisible)
           \/ /\ Len(delivered) < Len(accepted) /\ UNCHANGED <<accepted, dropped>>
              /\ delivered' = Append(delivered, accepted[Len(delivered) + 1])
              /\ Handle(accepted[Len(delivered) + 1])
<1>1. CASE Generator
  <2>1. UNCHANGED <<alerts, handled, shown, logRing, logWrite, newest>>
    BY <1>1 DEF Generator, mainVars, panelVars
  <2>2. delivered' = delivered
    BY <1>1 DEF Generator, BeginBatch, GeneratorReturns, MakeEvent, EndBatch, PostLog, NoAlert,
                RaiseAlert, PostAlert, MarkNothing, MarkNode, MarkEdge, EndMarking, NextSlice,
                LeavePause, SleepSlice, Post, postVars, queueVars, Fifo!Admit, Fifo!Publish,
                Fifo!Refuse
  <2> QED
    BY <2>1, <2>2
<1>2. CASE Main /\ RunTask
  <2>1. UNCHANGED <<accepted, dropped>>
    BY <1>2, MainLeaves
  <2> QED
    BY <1>2, <2>1 DEF RunTask, Fifo!Deliver
<1>3. CASE FreeSlot
  BY <1>3 DEF FreeSlot, Fifo!Release, panelVars
<1>4. CASE DrawPanels
  BY <1>4 DEF DrawPanels, queueVars
<1>5. CASE StartGenerator \/ StartFails \/ OtherKey \/ PauseKey \/ QuitKey \/ EndDrain \/ DrawEdge
           \/ SkipEdge \/ LightEdge \/ DrawNode \/ LightNode \/ StopGenerator \/ JoinGenerator
  BY <1>5 DEF StartGenerator, StartFails, OtherKey, PauseKey, QuitKey, EndDrain, DrawEdge,
              SkipEdge, LightEdge, DrawNode, LightNode, StopGenerator, JoinGenerator, queueVars, panelVars
<1>6. CASE UNCHANGED vars
  BY <1>6 DEF vars, mainVars, panelVars, postVars, queueVars
<1> QED
  BY <1>1, <1>2, <1>3, <1>4, <1>5, <1>6 DEF Next, Main, Exited

LEMMA QueueSizes ==
    ASSUME QueueInv
    PROVE  /\ Len(accepted) \in Nat /\ Len(delivered) \in Nat /\ Len(dropped) \in Nat
           /\ DOMAIN accepted = 1 .. Len(accepted) /\ DOMAIN delivered = 1 .. Len(delivered)
           /\ DOMAIN dropped = 1 .. Len(dropped)
           /\ \A i \in 1 .. Len(accepted) : accepted[i] \in Tasks
           /\ \A i \in 1 .. Len(dropped) : dropped[i] \in Tasks
           /\ \A i \in 1 .. Len(delivered) : i \in 1 .. Len(accepted)
<1>1. accepted \in Seq(Tasks) /\ delivered \in Seq(Tasks) /\ dropped \in Seq(Tasks)
      /\ Len(delivered) <= Len(accepted)
  BY DEF QueueInv
<1>2. Len(accepted) \in Nat /\ DOMAIN accepted = 1 .. Len(accepted)
  BY <1>1, LenProperties
<1>3. Len(delivered) \in Nat /\ DOMAIN delivered = 1 .. Len(delivered)
  BY <1>1, LenProperties
<1>4. Len(dropped) \in Nat /\ DOMAIN dropped = 1 .. Len(dropped)
  BY <1>1, LenProperties
<1>5. /\ \A i \in 1 .. Len(accepted) : accepted[i] \in Tasks
      /\ \A i \in 1 .. Len(dropped) : dropped[i] \in Tasks
  BY <1>1, ElementOfSeq
<1> QED
  BY <1>1, <1>2, <1>3, <1>4, <1>5

LEMMA QueueKept == FlowInv /\ EventInv /\ QueueInv /\ [Next]_vars => QueueInv'
<1> SUFFICES ASSUME FlowInv, EventInv, QueueInv, [Next]_vars PROVE QueueInv'
  OBVIOUS
<1>0. accepted \in Seq(Tasks) /\ delivered \in Seq(Tasks) /\ dropped \in Seq(Tasks)
  BY DEF QueueInv
<1>1. ASSUME NEW task \in Tasks, Puts(task), delivered' = delivered PROVE QueueInv'
  <2>1. CASE accepted' = Append(accepted, task) /\ dropped' = dropped
    <3>1. /\ accepted' \in Seq(Tasks) /\ Len(accepted') = Len(accepted) + 1
          /\ \A i \in 1 .. Len(accepted) : accepted'[i] = accepted[i]
      BY <1>0, <2>1, AppendProperties
    <3>2. Len(delivered) <= Len(accepted')
      BY <3>1, QueueSizes DEF QueueInv
    <3>3. \A i \in 1 .. Len(delivered) : delivered[i] = accepted'[i]
      BY <3>1, QueueSizes DEF QueueInv
    <3> QED
      BY <1>0, <1>1, <2>1, <3>1, <3>2, <3>3 DEF QueueInv
  <2>2. CASE dropped' = Append(dropped, task) /\ accepted' = accepted
    <3>1. dropped' \in Seq(Tasks)
      BY <1>0, <2>2, AppendProperties
    <3> QED
      BY <1>0, <1>1, <2>2, <3>1 DEF QueueInv
  <2> QED
    BY <1>1, <2>1, <2>2 DEF Puts
<1>2. CASE delivered' = delivered
  <2>1. CASE UNCHANGED <<accepted, dropped>>
    BY <1>2, <2>1 DEF QueueInv
  <2>2. CASE gpc = "log" /\ Puts(LogTask)
    <3>1. LogTask \in Tasks
      BY <2>2, TaskTypes DEF Tasks
    <3> QED
      BY <1>1, <1>2, <2>2, <3>1
  <2>3. CASE gpc = "alert" /\ Puts(AlertTask)
    <3>1. AlertTask \in Tasks
      BY <2>3, TaskTypes DEF Tasks
    <3> QED
      BY <1>1, <1>2, <2>3, <3>1
  <2> QED
    BY <2>1, <2>2, <2>3, PostSteps
<1>3. CASE /\ Len(delivered) < Len(accepted) /\ UNCHANGED <<accepted, dropped>>
           /\ delivered' = Append(delivered, accepted[Len(delivered) + 1])
  <2>1. Len(delivered) + 1 \in 1 .. Len(accepted)
    BY <1>3, QueueSizes
  <2>2. accepted[Len(delivered) + 1] \in Tasks
    BY <2>1, QueueSizes
  <2>3. /\ delivered' \in Seq(Tasks) /\ Len(delivered') = Len(delivered) + 1
        /\ \A i \in 1 .. Len(delivered) : delivered'[i] = delivered[i]
        /\ delivered'[Len(delivered) + 1] = accepted[Len(delivered) + 1]
    BY <1>0, <1>3, <2>2, AppendProperties
  <2>4. \A i \in 1 .. Len(delivered) + 1 : i \in 1 .. Len(delivered) \/ i = Len(delivered) + 1
    BY QueueSizes
  <2>5. \A i \in 1 .. Len(delivered') : delivered'[i] = accepted'[i]
    BY <1>3, <2>3, <2>4 DEF QueueInv
  <2>6. Len(delivered') <= Len(accepted')
    BY <1>3, <2>1, <2>3
  <2> QED
    BY <1>0, <1>3, <2>3, <2>5, <2>6 DEF QueueInv
<1> QED
  BY <1>2, <1>3, DeliverSteps

-----------------------------------------------------------------------------
(* The ids.                                                                 *)
LEMMA IdsOfAppend ==
    ASSUME NEW tasks \in Seq(Tasks), NEW task \in Tasks
    PROVE  /\ task.kind = "alert" => Ids(Append(tasks, task)) = Ids(tasks) \cup {task.id}
           /\ task.kind # "alert" => Ids(Append(tasks, task)) = Ids(tasks)
<1> DEFINE n == Len(tasks)
           more == Append(tasks, task)
<1>1. n \in Nat /\ DOMAIN tasks = 1 .. n
  BY LenProperties
<1>2. /\ more \in Seq(Tasks) /\ Len(more) = n + 1
      /\ \A i \in 1 .. n : more[i] = tasks[i]
      /\ more[n + 1] = task
  BY AppendProperties
<1>3. DOMAIN more = 1 .. n + 1
  BY <1>2, LenProperties
<1> HIDE DEF more
<1>4. \A i \in 1 .. n + 1 : i \in 1 .. n \/ i = n + 1
  BY <1>1
<1>5. n + 1 \in 1 .. n + 1 /\ \A i \in 1 .. n : i \in 1 .. n + 1
  BY <1>1
<1> HIDE DEF n
<1>6. ASSUME NEW x PROVE x \in Ids(more) <=> x \in Ids(tasks) \/ (task.kind = "alert" /\ x = task.id)
  <2>1. x \in Ids(more) <=> \E i \in 1 .. n + 1 : more[i].kind = "alert" /\ x = more[i].id
    BY <1>3 DEF Ids
  <2>2. x \in Ids(tasks) <=> \E i \in 1 .. n : tasks[i].kind = "alert" /\ x = tasks[i].id
    BY <1>1 DEF Ids
  <2> QED
    BY <1>2, <1>4, <1>5, <2>1, <2>2 DEF n
<1>7. task.kind = "alert" => Ids(more) = Ids(tasks) \cup {task.id}
  BY <1>6
<1>8. task.kind # "alert" => Ids(more) = Ids(tasks)
  BY <1>6
<1> QED
  BY <1>7, <1>8 DEF more

LEMMA RisingAppend ==
    ASSUME NEW tasks \in Seq(Tasks), NEW task \in Tasks, RisingIds(tasks),
           task.kind = "alert" => \A x \in Ids(tasks) : x < task.id
    PROVE  RisingIds(Append(tasks, task))
<1> DEFINE n == Len(tasks)
           more == Append(tasks, task)
<1>1. n \in Nat /\ DOMAIN tasks = 1 .. n
  BY LenProperties
<1>2. /\ Len(more) = n + 1 /\ more[n + 1] = task
      /\ \A i \in 1 .. n : more[i] = tasks[i]
  BY AppendProperties
<1> HIDE DEF more
<1>3. ASSUME NEW i \in 1 .. n + 1, NEW j \in 1 .. n + 1, i < j,
             more[i].kind = "alert", more[j].kind = "alert"
      PROVE  more[i].id < more[j].id
  <2>1. i \in 1 .. n /\ (j \in 1 .. n \/ j = n + 1) /\ more[i] = tasks[i]
    BY <1>1, <1>2, <1>3
  <2>2. CASE j \in 1 .. n
    BY <1>2, <1>3, <2>1, <2>2 DEF RisingIds
  <2>3. CASE j = n + 1
    <3>1. tasks[i].id \in Ids(tasks)
      BY <1>1, <1>3, <2>1 DEF Ids
    <3> QED
      BY <1>2, <1>3, <2>1, <2>3, <3>1
  <2> QED
    BY <2>1, <2>2, <2>3
<1> QED
  BY <1>2, <1>3 DEF RisingIds, more

LEMMA IdsKept == FlowInv /\ EventInv /\ QueueInv /\ IdsInv /\ [Next]_vars => IdsInv'
<1> SUFFICES ASSUME FlowInv, EventInv, QueueInv, IdsInv, [Next]_vars PROVE IdsInv'
  OBVIOUS
<1>0. accepted \in Seq(Tasks) /\ dropped \in Seq(Tasks) /\ Posted \in Nat
  <2>1. Posted \in Nat
    BY DEF EventInv, Posted
  <2> QED
    BY <2>1 DEF QueueInv
<1>1. CASE UNCHANGED <<accepted, dropped>> /\ Posted' = Posted
  BY <1>1 DEF IdsInv
<1>2. CASE gpc = "log" /\ Puts(LogTask) /\ Posted' = Posted
  <2>1. LogTask \in Tasks /\ LogTask.kind # "alert"
    BY <1>2, TaskTypes DEF Tasks, LogTask
  <2>2. Ids(accepted') = Ids(accepted) /\ Ids(dropped') = Ids(dropped)
    <3>1. \/ accepted' = Append(accepted, LogTask) /\ dropped' = dropped
          \/ accepted' = accepted /\ dropped' = Append(dropped, LogTask)
      BY <1>2 DEF Puts
    <3>2. Ids(Append(accepted, LogTask)) = Ids(accepted)
          /\ Ids(Append(dropped, LogTask)) = Ids(dropped)
      BY <1>0, <2>1, IdsOfAppend
    <3> QED
      BY <3>1, <3>2
  <2>3. RisingIds(accepted')
    BY <1>0, <1>2, <2>1, RisingAppend DEF Puts, IdsInv
  <2> QED
    BY <1>2, <2>2, <2>3 DEF IdsInv
<1>3. CASE gpc = "alert" /\ Puts(AlertTask) /\ Posted' = Posted + 1
  <2>1. AlertTask \in Tasks /\ AlertTask.kind = "alert" /\ AlertTask.id = Posted
    BY <1>3, TaskTypes DEF Tasks, AlertTask
  <2>2. \A x \in Ids(accepted) \cup Ids(dropped) : x < Posted /\ x # Posted
    BY <1>0 DEF IdsInv
  <2>3. 0 .. Posted = (0 .. Posted - 1) \cup {Posted}
    BY <1>0
  <2>4. CASE accepted' = Append(accepted, AlertTask) /\ dropped' = dropped
    <3>1. Ids(accepted') = Ids(accepted) \cup {Posted}
      BY <1>0, <2>1, <2>4, IdsOfAppend
    <3>2. RisingIds(accepted')
      BY <1>0, <2>1, <2>2, <2>4, RisingAppend DEF IdsInv
    <3>3. Ids(accepted') \cup Ids(dropped') = 0 .. Posted
      BY <2>3, <2>4, <3>1 DEF IdsInv
    <3>4. Ids(accepted') \cap Ids(dropped') = {}
      BY <2>2, <2>4, <3>1 DEF IdsInv
    <3> QED
      BY <1>0, <1>3, <3>2, <3>3, <3>4 DEF IdsInv
  <2>5. CASE dropped' = Append(dropped, AlertTask) /\ accepted' = accepted
    <3>1. Ids(dropped') = Ids(dropped) \cup {Posted}
      BY <1>0, <2>1, <2>5, IdsOfAppend
    <3>2. RisingIds(accepted')
      BY <2>5 DEF IdsInv
    <3>3. Ids(accepted') \cup Ids(dropped') = 0 .. Posted
      BY <2>3, <2>5, <3>1 DEF IdsInv
    <3>4. Ids(accepted') \cap Ids(dropped') = {}
      BY <2>2, <2>5, <3>1 DEF IdsInv
    <3> QED
      BY <1>0, <1>3, <3>2, <3>3, <3>4 DEF IdsInv
  <2> QED
    BY <1>3, <2>4, <2>5 DEF Puts
<1> QED
  BY <1>1, <1>2, <1>3, PostSteps


-----------------------------------------------------------------------------
(* Logs before alerts.                                                      *)
LEMMA LoggedStays ==
    ASSUME QueueInv, NEW task \in Tasks, Puts(task), NEW k \in 0 .. Len(accepted), NEW n,
           LoggedBefore(accepted, dropped, k, n)
    PROVE  LoggedBefore(accepted', dropped', k, n)
<1>0. accepted \in Seq(Tasks) /\ dropped \in Seq(Tasks)
  BY DEF QueueInv
<1>1. Len(accepted) \in Nat /\ Len(dropped) \in Nat
  BY QueueSizes
<1>2. CASE accepted' = Append(accepted, task) /\ dropped' = dropped
  <2>1. \A i \in 1 .. Len(accepted) : accepted'[i] = accepted[i]
    BY <1>0, <1>2, AppendProperties
  <2>2. \A i \in 1 .. k : i \in 1 .. Len(accepted)
    BY <1>1
  <2> QED
    BY <1>2, <2>1, <2>2 DEF LoggedBefore
<1>3. CASE dropped' = Append(dropped, task) /\ accepted' = accepted
  <2>1. Len(dropped') = Len(dropped) + 1 /\ \A i \in 1 .. Len(dropped) : dropped'[i] = dropped[i]
    BY <1>0, <1>3, AppendProperties
  <2>2. \A i \in 1 .. Len(dropped) : i \in 1 .. Len(dropped')
    BY <1>1, <2>1
  <2> QED
    BY <1>3, <2>1, <2>2 DEF LoggedBefore
<1> QED
  BY <1>2, <1>3 DEF Puts

LEMMA LogsKept == FlowInv /\ EventInv /\ QueueInv /\ LogsInv /\ [Next]_vars => LogsInv'
<1> SUFFICES ASSUME FlowInv, EventInv, QueueInv, LogsInv, [Next]_vars PROVE LogsInv'
  OBVIOUS
<1>0. accepted \in Seq(Tasks) /\ dropped \in Seq(Tasks) /\ Len(accepted) \in Nat /\ Len(dropped) \in Nat
  BY QueueSizes DEF QueueInv
<1>1. CASE /\ UNCHANGED <<accepted, dropped>>
           /\ gpc' \in {"roll", "alert"} => gpc \in {"roll", "alert"} /\ event' = event
  BY <1>1 DEF LogsInv, LoggedBefore
(* The rows that were there are as they were; a new alert's log was posted. *)
<1>2. ASSUME NEW task \in Tasks, Puts(task),
             task.kind = "alert" => LoggedBefore(accepted, dropped, Len(accepted), task.n)
      PROVE  \A i \in 1 .. Len(accepted') :
                 accepted'[i].kind = "alert"
                    => LoggedBefore(accepted', dropped', i - 1, accepted'[i].n)
  <2> SUFFICES ASSUME NEW i \in 1 .. Len(accepted'), accepted'[i].kind = "alert"
               PROVE  LoggedBefore(accepted', dropped', i - 1, accepted'[i].n)
    OBVIOUS
  <2>1. CASE i \in 1 .. Len(accepted)
    <3>1. accepted'[i] = accepted[i]
      <4>1. CASE accepted' = accepted
        BY <4>1
      <4>2. CASE accepted' = Append(accepted, task)
        BY <1>0, <1>2, <2>1, <4>2, AppendProperties
      <4> QED
        BY <1>2, <4>1, <4>2 DEF Puts
    <3>2. LoggedBefore(accepted, dropped, i - 1, accepted[i].n) /\ i - 1 \in 0 .. Len(accepted)
      BY <1>0, <2>1, <3>1 DEF LogsInv
    <3>3. LoggedBefore(accepted', dropped', i - 1, accepted[i].n)
      BY <1>2, <3>2, LoggedStays
    <3> QED
      BY <3>1, <3>3
  <2>2. CASE i \notin 1 .. Len(accepted)
    <3>1. accepted' = Append(accepted, task) /\ i = Len(accepted) + 1 /\ accepted'[i] = task
      <4>1. accepted' = Append(accepted, task)
        BY <1>2, <2>2 DEF Puts
      <4>2. Len(accepted') = Len(accepted) + 1 /\ accepted'[Len(accepted) + 1] = task
        BY <1>0, <4>1, AppendProperties
      <4> QED
        BY <1>0, <2>2, <4>1, <4>2
    <3>2. i - 1 = Len(accepted) /\ Len(accepted) \in 0 .. Len(accepted)
      BY <1>0, <3>1
    <3>3. LoggedBefore(accepted', dropped', Len(accepted), task.n)
      BY <1>2, <2>2, <3>1, <3>2, LoggedStays
    <3> QED
      BY <3>1, <3>2, <3>3
  <2> QED
    BY <2>1, <2>2
<1>3. CASE gpc = "log" /\ gpc' = "roll" /\ event' = event /\ Puts(LogTask)
  <2>1. LogTask \in Tasks /\ LogTask.kind = "log" /\ LogTask.n = event.n
    BY <1>3, TaskTypes DEF Tasks, LogTask
  <2>2. \A i \in 1 .. Len(accepted') :
            accepted'[i].kind = "alert"
               => LoggedBefore(accepted', dropped', i - 1, accepted'[i].n)
    <3>1. LogTask.kind # "alert"
      BY <2>1
    <3> QED
      BY <1>2, <1>3, <2>1, <3>1
  <2>3. LoggedBefore(accepted', dropped', Len(accepted'), event.n)
    <3>1. CASE accepted' = Append(accepted, LogTask)
      <4>1. Len(accepted') = Len(accepted) + 1 /\ accepted'[Len(accepted) + 1] = LogTask
        BY <1>0, <2>1, <3>1, AppendProperties
      <4>2. Len(accepted) + 1 \in 1 .. Len(accepted')
        BY <1>0, <4>1
      <4> QED
        BY <2>1, <4>1, <4>2 DEF LoggedBefore
    <3>2. CASE dropped' = Append(dropped, LogTask)
      <4>1. Len(dropped') = Len(dropped) + 1 /\ dropped'[Len(dropped) + 1] = LogTask
        BY <1>0, <2>1, <3>2, AppendProperties
      <4>2. Len(dropped) + 1 \in 1 .. Len(dropped')
        BY <1>0, <4>1
      <4> QED
        BY <2>1, <4>1, <4>2 DEF LoggedBefore
    <3> QED
      BY <1>3, <3>1, <3>2 DEF Puts
  <2> QED
    BY <1>3, <2>2, <2>3 DEF LogsInv
<1>4. CASE gpc = "alert" /\ gpc' = "mark" /\ Puts(AlertTask)
  <2>1. AlertTask \in Tasks /\ AlertTask.n = event.n
    BY <1>4, TaskTypes DEF Tasks, AlertTask
  <2>2. LoggedBefore(accepted, dropped, Len(accepted), AlertTask.n)
    BY <1>4, <2>1 DEF LogsInv
  <2>3. \A i \in 1 .. Len(accepted') :
            accepted'[i].kind = "alert"
               => LoggedBefore(accepted', dropped', i - 1, accepted'[i].n)
    BY <1>2, <1>4, <2>1, <2>2
  <2> QED
    BY <1>4, <2>3 DEF LogsInv
<1> QED
  BY <1>1, <1>3, <1>4, PostSteps

-----------------------------------------------------------------------------
(* The panels.                                                              *)
LEMMA SameAssumption == Threat!TableAssumption
BY PanelAssumption DEF Table!TableAssumption, Threat!TableAssumption

LEMMA SameHandle ==
    ASSUME NEW id, NEW sev, Table!HandleAlert(id, sev) PROVE Threat!HandleAlert(id, sev)
<1>1. ASSUME NEW s, NEW row PROVE Table!Insert(s, row) = Threat!Insert(s, row)
  BY DEF Table!Insert, Threat!Insert, Table!SelectLastInSeq, Threat!SelectLastInSeq,
         Table!Max, Threat!Max
<1>2. ASSUME NEW table PROVE Table!Sorted(table) = Threat!Sorted(table)
  BY <1>1 DEF Table!Sorted, Threat!Sorted
<1>3. ASSUME NEW table PROVE Table!Slot(table) = Threat!Slot(table)
  BY DEF Table!Slot, Threat!Slot, Table!SelectInSeq, Threat!SelectInSeq, Table!Min, Threat!Min
<1>4. ASSUME NEW table, NEW row PROVE Table!Place(table, row) = Threat!Place(table, row)
  BY <1>3 DEF Table!Place, Threat!Place, Table!Max, Threat!Max
<1> QED
  BY <1>2, <1>4 DEF Table!HandleAlert, Threat!HandleAlert

LEMMA SameRender == Table!RenderThreats(ThreatVisible) => Threat!RenderThreats(ThreatVisible)
BY DEF Table!RenderThreats, Threat!RenderThreats, Table!Drawn, Threat!Drawn, Table!Rows,
       Threat!Rows, Table!Min, Threat!Min

LEMMA LogKept ==
    ASSUME Log!LogTypeOK, NEW ev \in [n : 1 .. MaxEvents, sev : EventSev], Log!HandleLog(ev)
    PROVE  Log!LogTypeOK'
<1> DEFINE E == [n : 1 .. MaxEvents, sev : EventSev]
           seen == Append(newest, ev)
           m == Log!Min({Len(seen), LogSlots})
<1>1. LogSlots \in Nat \ {0} /\ WordSize \in Nat \ {0}
  BY PanelAssumption DEF Log!LogAssumption
<1>2. /\ logRing \in [0 .. LogSlots - 1 -> E \cup {NoEvent}] /\ logWrite \in 0 .. WordSize - 1
      /\ newest \in Seq(E)
  BY DEF Log!LogTypeOK
<1>3. logRing' \in [0 .. LogSlots - 1 -> E \cup {NoEvent}]
  <2>1. logRing' = [logRing EXCEPT ![logWrite % LogSlots] = ev]
    BY DEF Log!HandleLog
  <2> HIDE DEF E
  <2> QED
    BY <1>2, <2>1 DEF E
<1>4. logWrite' \in 0 .. WordSize - 1
  <2>1. logWrite' = (logWrite + 1) % WordSize
    BY DEF Log!HandleLog
  <2>2. logWrite + 1 \in Int
    BY <1>2
  <2>3. (logWrite + 1) % WordSize \in 0 .. WordSize - 1
    BY <1>1, <2>2
  <2> QED
    BY <2>1, <2>3
<1>5. seen \in Seq(E) /\ Len(seen) \in Nat
  BY <1>2, AppendProperties, LenProperties
<1>6. newest' = SubSeq(seen, Len(seen) - m + 1, Len(seen))
  BY DEF Log!HandleLog, Log!Remember, Log!LastOf
<1> HIDE DEF seen, E
<1>7. m \in Nat /\ m <= LogSlots /\ m <= Len(seen)
  <2>1. m = Threat!Min({Len(seen), LogSlots})
    BY DEF Log!Min, Threat!Min
  <2>2. m = IF Len(seen) <= LogSlots THEN Len(seen) ELSE LogSlots
    BY <1>1, <1>5, <2>1, Threat!MinOfTwo
  <2> QED
    BY <1>1, <1>5, <2>2
<1> HIDE DEF m
<1>8. newest' \in Seq(E) /\ Len(newest') <= LogSlots
  <2>1. Len(seen) - m + 1 \in 1 .. Len(seen) + 1
    BY <1>5, <1>7
  <2>2. \A i \in Len(seen) - m + 1 .. Len(seen) : seen[i] \in E
    <3>1. \A i \in 1 .. Len(seen) : seen[i] \in E
      BY <1>5, ElementOfSeq
    <3>2. \A i \in Len(seen) - m + 1 .. Len(seen) : i \in 1 .. Len(seen)
      BY <1>5, <2>1
    <3> QED
      BY <3>1, <3>2
  <2>3. /\ newest' \in Seq(E)
        /\ Len(newest') = IF Len(seen) - m + 1 <= Len(seen)
                          THEN Len(seen) - (Len(seen) - m + 1) + 1 ELSE 0
    BY <1>5, <1>6, <1>7, <2>1, <2>2, SubSeqProperties
  <2> QED
    BY <1>1, <1>5, <1>7, <2>3
<1> QED
  BY <1>3, <1>4, <1>8 DEF Log!LogTypeOK, E

LEMMA TableStands ==
    ASSUME Threat!TableInv, UNCHANGED <<alerts, handled, shown>> PROVE Threat!TableInv'
<1>1. alerts' = alerts /\ handled' = handled /\ shown' = shown
  OBVIOUS
<1>2. Threat!TableTypeOK' /\ Threat!SortedBySeverity' /\ Threat!IdsRise'
  BY <1>1 DEF Threat!TableInv, Threat!TableTypeOK, Threat!SortedBySeverity, Threat!IdsRise,
              Threat!Rows
<1>3. Threat!RowsAreHandledAlerts'
  <2>1. Threat!RowsAreHandledAlerts
    BY DEF Threat!TableInv
  <2> QED
    BY <1>1, <2>1 DEF Threat!RowsAreHandledAlerts, Threat!Rows, Threat!Min
<1>4. Threat!KeepsMostSevere'
  BY <1>1 DEF Threat!TableInv, Threat!KeepsMostSevere
<1>5. Threat!StableUntilFull' /\ Threat!FlashesWhenNew'
  BY <1>1 DEF Threat!TableInv, Threat!StableUntilFull, Threat!FlashesWhenNew, Threat!Rows
<1> QED
  BY <1>2, <1>3, <1>4, <1>5 DEF Threat!TableInv

LEMMA PanelKept ==
    FlowInv /\ QueueInv /\ IdsInv /\ PanelInv /\ [Next]_vars => PanelInv'
<1> SUFFICES ASSUME FlowInv, QueueInv, IdsInv, PanelInv, [Next]_vars PROVE PanelInv'
  OBVIOUS
<1>0. /\ Threat!TableAssumption /\ Threat!TableInv /\ Threat!TableTypeOK /\ Log!LogTypeOK
      /\ \A n \in DOMAIN handled : handled[n].id \in Ids(delivered)
  BY SameAssumption DEF PanelInv, Threat!TableInv
<1>1. CASE delivered' = delivered /\ UNCHANGED <<alerts, handled, shown, logRing, logWrite, newest>>
  <2>1. Threat!TableInv'
    BY <1>0, <1>1, TableStands
  <2>2. Log!LogTypeOK'
    BY <1>0, <1>1 DEF Log!LogTypeOK
  <2> QED
    BY <1>0, <1>1, <2>1, <2>2 DEF PanelInv
<1>2. CASE /\ delivered' = delivered /\ UNCHANGED <<logRing, logWrite, newest>>
           /\ Table!RenderThreats(ThreatVisible)
  <2>1. Threat!RenderThreats(ThreatVisible) /\ ThreatVisible \in Nat
    BY <1>0, <1>2, SameRender DEF Threat!TableAssumption
  <2>2. Threat!TableInv'
    BY <1>0, <2>1, Threat!RenderKeepsTable
  <2>3. Log!LogTypeOK'
    BY <1>0, <1>2 DEF Log!LogTypeOK
  <2>4. handled' = handled
    BY <2>1 DEF Threat!RenderThreats
  <2> QED
    BY <1>0, <1>2, <2>2, <2>3, <2>4 DEF PanelInv
<1>3. CASE /\ Len(delivered) < Len(accepted) /\ UNCHANGED <<accepted, dropped>>
           /\ delivered' = Append(delivered, accepted[Len(delivered) + 1])
           /\ Handle(accepted[Len(delivered) + 1])
  <2> DEFINE k == Len(delivered) + 1
             task == accepted[k]
  <2>1. k \in 1 .. Len(accepted) /\ task \in Tasks /\ Len(delivered) \in Nat
    BY <1>3, QueueSizes
  <2>2. delivered \in Seq(Tasks) /\ delivered' = Append(delivered, task) /\ Handle(task)
    BY <1>3 DEF QueueInv
  <2> HIDE DEF task
  <2>3. CASE task.kind = "log"
    <3>1. [n |-> task.n, sev |-> task.sev] \in [n : 1 .. MaxEvents, sev : EventSev]
      BY <2>1, <2>3 DEF Tasks, LogTasks, AlertTasks
    <3>2. Log!LogTypeOK'
      BY <1>0, <2>2, <2>3, <3>1, LogKept DEF Handle
    <3>3. UNCHANGED <<alerts, handled, shown>>
      BY <2>2, <2>3 DEF Handle
    <3>4. Threat!TableInv'
      BY <1>0, <3>3, TableStands
    <3>5. Ids(delivered') = Ids(delivered)
      <4>1. task.kind # "alert"
        BY <2>3
      <4> QED
        BY <2>1, <2>2, <4>1, IdsOfAppend
    <3> QED
      BY <1>0, <3>2, <3>3, <3>4, <3>5 DEF PanelInv
  <2>4. CASE task.kind = "alert"
    <3>1. task.id \in Nat /\ task.sev \in {s \in EventSev : s >= High}
      BY <2>1, <2>4 DEF Tasks, LogTasks, AlertTasks
    <3>2. Threat!HandleAlert(task.id, task.sev) /\ UNCHANGED <<logRing, logWrite, newest>>
      <4>1. task.kind # "log"
        BY <2>4
      <4> QED
        BY <2>2, <4>1, SameHandle DEF Handle
    <3>3. ASSUME NEW n \in DOMAIN handled PROVE handled[n].id < task.id
      <4>1. PICK i \in DOMAIN delivered : delivered[i].kind = "alert" /\ delivered[i].id = handled[n].id
        BY <1>0 DEF Ids
      <4>2. i \in 1 .. Len(delivered) /\ delivered[i] = accepted[i]
        BY <4>1, QueueSizes DEF QueueInv
      <4>3. i \in 1 .. Len(accepted) /\ i < k
        BY <2>1, <4>2, QueueSizes
      <4>4. accepted[i].id < accepted[k].id
        BY <2>1, <2>4, <4>1, <4>2, <4>3 DEF IdsInv, RisingIds, task
      <4> QED
        BY <4>1, <4>2, <4>4 DEF task
    <3>4. Threat!TableInv'
      BY <1>0, <3>1, <3>2, <3>3, Threat!AlertKeepsTable
    <3>5. Log!LogTypeOK'
      BY <1>0, <3>2 DEF Log!LogTypeOK
    <3>6. Ids(delivered') = Ids(delivered) \cup {task.id}
      BY <2>1, <2>2, <2>4, IdsOfAppend
    <3>7. ASSUME NEW n \in DOMAIN handled' PROVE handled'[n].id \in Ids(delivered')
      <4>1. /\ handled' \in Seq(Threat!Alert) /\ Len(handled') = Len(handled) + 1
            /\ \A x \in 1 .. Len(handled) : handled'[x] = handled[x]
            /\ handled'[Len(handled) + 1] = [id |-> task.id, sev |-> task.sev]
        BY <1>0, <3>1, <3>2, Threat!AlertEnters
      <4>2. Len(handled) \in Nat /\ DOMAIN handled = 1 .. Len(handled)
        BY <1>0, Threat!TableSizes
      <4>3. n \in 1 .. Len(handled) \/ n = Len(handled) + 1
        BY <4>1, <4>2, LenProperties
      <4>4. CASE n \in 1 .. Len(handled)
        BY <1>0, <3>6, <4>1, <4>2, <4>4
      <4>5. CASE n = Len(handled) + 1
        BY <3>6, <4>1, <4>5
      <4> QED
        BY <4>3, <4>4, <4>5
    <3> QED
      BY <3>4, <3>5, <3>7 DEF PanelInv
  <2> QED
    BY <2>1, <2>3, <2>4 DEF Tasks, LogTasks, AlertTasks
<1> QED
  BY <1>1, <1>2, <1>3, DeliverSteps

-----------------------------------------------------------------------------
(* The inductive invariant.                                                 *)
LEMMA Begins == Init => IInv
BY FlowBegins, QueueBegins, PanelBegins DEF IInv

LEMMA Kept == IInv /\ [Next]_vars => IInv'
<1> SUFFICES ASSUME IInv, [Next]_vars PROVE IInv'
  OBVIOUS
<1>1. /\ FlowInv /\ EventInv /\ PauseInv /\ MarksInv /\ CanvasInv
      /\ QueueInv /\ IdsInv /\ LogsInv /\ PanelInv
  BY DEF IInv
<1>2. FlowInv' /\ EventInv' /\ PauseInv'
  BY <1>1, FlowKept, EventKept, PauseKept
<1>3. MarksInv' /\ CanvasInv'
  BY <1>1, MarksKept, CanvasKept
<1>4. QueueInv' /\ IdsInv' /\ LogsInv'
  BY <1>1, QueueKept, IdsKept, LogsKept
<1>5. PanelInv'
  BY <1>1, PanelKept
<1> QED
  BY <1>2, <1>3, <1>4, <1>5 DEF IInv

(* In every reachable state of the program the two threads, the queue, the  *)
(* marks, the canvas and the panels are related as the invariant says.      *)
THEOREM Invariance == Spec => []IInv
<1>1. Init => IInv
  BY Begins
<1>2. IInv /\ [Next]_vars => IInv'
  BY Kept
<1> QED
  BY <1>1, <1>2, PTL DEF Spec

-----------------------------------------------------------------------------
(* Where the ids are.  Those of the tasks run and of those waiting are      *)
(* together those of the tasks accepted, and differ because they rise.      *)
Waiting == SubSeq(accepted, Len(delivered) + 1, Len(accepted))

LEMMA WaitingTasks ==
    ASSUME QueueInv
    PROVE  Ids(Waiting) = {accepted[i].id : i \in {j \in 1 .. Len(accepted) :
                                    j > Len(delivered) /\ accepted[j].kind = "alert"}}
<1> DEFINE d == Len(delivered)
           a == Len(accepted)
           w == Waiting
<1>1. d \in Nat /\ a \in Nat /\ d <= a
  BY QueueSizes DEF QueueInv
<1>2. /\ DOMAIN w = 1 .. a - d
      /\ \A i \in 1 .. a - d : w[i] = accepted[d + i]
  <2>1. \A i \in d + 1 .. a : accepted[i] \in Tasks
    BY <1>1, QueueSizes
  <2>2. /\ w \in Seq(Tasks)
        /\ Len(w) = a - d
        /\ \A i \in 1 .. a - d : w[i] = accepted[d + i]
    <3>1. /\ w \in Seq(Tasks)
          /\ Len(w) = IF d + 1 <= a THEN a - (d + 1) + 1 ELSE 0
          /\ \A i \in 1 .. a - (d + 1) + 1 : w[i] = accepted[d + 1 + i - 1]
      BY <1>1, <2>1, SubSeqProperties DEF Waiting, QueueInv
    <3>2. a - (d + 1) + 1 = a - d
      BY <1>1
    <3>3. \A i \in 1 .. a - d : d + 1 + i - 1 = d + i
      BY <1>1
    <3>4. Len(w) = a - d
      BY <1>1, <3>1
    <3> HIDE DEF w
    <3> QED
      BY <3>1, <3>2, <3>3, <3>4
  <2> HIDE DEF w
  <2> QED
    BY <2>2, LenProperties
<1> HIDE DEF w
<1>3. ASSUME NEW x \in Ids(w)
      PROVE  \E i \in 1 .. a : i > d /\ accepted[i].kind = "alert" /\ accepted[i].id = x
  <2>1. PICK i \in DOMAIN w : w[i].kind = "alert" /\ w[i].id = x
    BY DEF Ids
  <2>2. d + i \in 1 .. a /\ d + i > d
    BY <1>1, <1>2, <2>1
  <2> QED
    BY <1>2, <2>1, <2>2
<1>4. ASSUME NEW i \in 1 .. a, i > d, accepted[i].kind = "alert"
      PROVE  accepted[i].id \in Ids(w)
  <2>1. i - d \in 1 .. a - d /\ d + (i - d) = i
    BY <1>1, <1>4
  <2>2. w[i - d] = accepted[i] /\ i - d \in DOMAIN w
    BY <1>2, <2>1
  <2> QED
    BY <1>4, <2>2 DEF Ids
<1>5. Ids(Waiting) = Ids(w)
  BY DEF w
<1> QED
  BY <1>3, <1>4, <1>5

LEMMA DeliveredTasks ==
    ASSUME QueueInv
    PROVE  Ids(delivered) = {accepted[i].id : i \in {j \in 1 .. Len(accepted) :
                                    j <= Len(delivered) /\ accepted[j].kind = "alert"}}
<1>1. /\ DOMAIN delivered = 1 .. Len(delivered) /\ Len(delivered) \in Nat
      /\ Len(accepted) \in Nat /\ Len(delivered) <= Len(accepted)
  BY QueueSizes DEF QueueInv
<1>2. \A i \in 1 .. Len(delivered) : delivered[i] = accepted[i]
  BY DEF QueueInv
<1>3. \A i \in 1 .. Len(delivered) : i \in 1 .. Len(accepted) /\ i <= Len(delivered)
  BY <1>1
<1>4. \A i \in 1 .. Len(accepted) : i <= Len(delivered) => i \in 1 .. Len(delivered)
  BY <1>1
<1>5. ASSUME NEW x \in Ids(delivered)
      PROVE  \E i \in 1 .. Len(accepted) :
                i <= Len(delivered) /\ accepted[i].kind = "alert" /\ accepted[i].id = x
  BY <1>1, <1>2, <1>3 DEF Ids
<1>6. ASSUME NEW i \in 1 .. Len(accepted), i <= Len(delivered), accepted[i].kind = "alert"
      PROVE  accepted[i].id \in Ids(delivered)
  BY <1>1, <1>2, <1>4, <1>6 DEF Ids
<1> QED
  BY <1>5, <1>6

LEMMA IdsSplit ==
    ASSUME QueueInv, IdsInv
    PROVE  /\ Ids(delivered) \cup Ids(Waiting) = Ids(accepted)
           /\ Ids(delivered) \cap Ids(Waiting) = {}
<1>1. Len(accepted) \in Nat /\ Len(delivered) \in Nat /\ DOMAIN accepted = 1 .. Len(accepted)
  BY QueueSizes
<1>2. Ids(accepted) = {accepted[i].id : i \in {j \in 1 .. Len(accepted) : accepted[j].kind = "alert"}}
  BY <1>1 DEF Ids
<1>3. \A i \in 1 .. Len(accepted) : i <= Len(delivered) \/ i > Len(delivered)
  BY <1>1
<1>4. Ids(delivered) \cup Ids(Waiting) = Ids(accepted)
  BY <1>2, <1>3, DeliveredTasks, WaitingTasks
<1>5. ASSUME NEW x \in Ids(delivered), x \in Ids(Waiting) PROVE FALSE
  <2>1. PICK i \in 1 .. Len(accepted) :
            i <= Len(delivered) /\ accepted[i].kind = "alert" /\ accepted[i].id = x
    BY DeliveredTasks
  <2>2. PICK j \in 1 .. Len(accepted) :
            j > Len(delivered) /\ accepted[j].kind = "alert" /\ accepted[j].id = x
    BY <1>5, WaitingTasks
  <2>3. i < j
    BY <1>1, <2>1, <2>2
  <2>4. accepted[i].id < accepted[j].id
    BY <2>1, <2>2, <2>3 DEF IdsInv, RisingIds
  <2>5. accepted[i].id \in Nat
    <3>1. accepted[i] \in Tasks
      BY QueueSizes
    <3> QED
      BY <2>1, <3>1 DEF Tasks, LogTasks, AlertTasks
  <2> QED
    BY <2>1, <2>2, <2>4, <2>5
<1> QED
  BY <1>4, <1>5

(* No alert id is lost or handled twice on its way from the generator       *)
(* through the queue to the table, whatever the queue refuses.              *)
LEMMA AccountedFor ==
    ASSUME EventInv, QueueInv, IdsInv, PanelInv PROVE EveryAlertAccountedFor
<1> DEFINE posting == IF gpc = "alert" THEN {nextAlertId - 1} ELSE {}
           A == Ids(delivered)
           B == Ids(Waiting)
           C == Ids(dropped)
           places == <<A, B, C, posting>>
<1>1. A \cup B \cup C = 0 .. Posted - 1 /\ A \cap B = {} /\ (A \cup B) \cap C = {}
  BY IdsSplit DEF IdsInv
<1>2. A \cup B \cup C \cup posting = 0 .. nextAlertId - 1
  BY <1>1 DEF EventInv, Posted
<1>3. (A \cup B \cup C) \cap posting = {}
  BY <1>1 DEF EventInv, Posted
<1> HIDE DEF posting, A, B, C
<1>4. UNION {places[i] : i \in 1 .. 4} = 0 .. nextAlertId - 1
  <2>1. {places[i] : i \in 1 .. 4} = {A, B, C, posting}
    <3>1. places[1] = A /\ places[2] = B /\ places[3] = C /\ places[4] = posting
      OBVIOUS
    <3>2. 1 .. 4 = {1, 2, 3, 4}
      OBVIOUS
    <3> HIDE DEF places
    <3> QED
      BY <3>1, <3>2
  <2> QED
    BY <1>2, <2>1
<1>5. \A i, j \in 1 .. 4 : i # j => places[i] \cap places[j] = {}
  <2>1. places[1] = A /\ places[2] = B /\ places[3] = C /\ places[4] = posting
    OBVIOUS
  <2>2. \A i \in 1 .. 4 : i = 1 \/ i = 2 \/ i = 3 \/ i = 4
    OBVIOUS
  <2> HIDE DEF places
  <2> QED
    BY <1>1, <1>3, <2>1, <2>2
<1>6. \A i, j \in DOMAIN handled : i < j => handled[i].id < handled[j].id
  BY DEF PanelInv, Threat!TableInv, Threat!IdsRise
<1> QED
  BY <1>4, <1>5, <1>6 DEF EveryAlertAccountedFor, posting, A, B, C, Waiting

THEOREM AlertsAccountedFor == Spec => []EveryAlertAccountedFor
<1>1. IInv => EveryAlertAccountedFor
  BY AccountedFor DEF IInv
<1> QED
  BY <1>1, Invariance, PTL

(* An alert is run after the log line of its event, unless that one was     *)
(* refused by the full queue.                                               *)
THEOREM LogsComeFirst == Spec => []LogBeforeAlert
<1>1. ASSUME QueueInv, LogsInv PROVE LogBeforeAlert
  <2>1. /\ Len(delivered) \in Nat /\ Len(accepted) \in Nat /\ Len(delivered) <= Len(accepted)
        /\ DOMAIN delivered = 1 .. Len(delivered) /\ DOMAIN dropped = 1 .. Len(dropped)
    BY <1>1, QueueSizes DEF QueueInv
  <2>2. \A i \in 1 .. Len(delivered) : delivered[i] = accepted[i]
    BY <1>1 DEF QueueInv
  <2>3. ASSUME NEW i \in 1 .. Len(delivered), delivered[i].kind = "alert"
        PROVE  \/ \E j \in 1 .. i - 1 : delivered[j].kind = "log" /\ delivered[j].n = delivered[i].n
               \/ \E j \in 1 .. Len(dropped) : dropped[j].kind = "log" /\ dropped[j].n = delivered[i].n
    <3>1. i \in 1 .. Len(accepted) /\ accepted[i].kind = "alert" /\ accepted[i] = delivered[i]
      BY <2>1, <2>2, <2>3
    <3>2. LoggedBefore(accepted, dropped, i - 1, delivered[i].n)
      BY <1>1, <3>1 DEF LogsInv
    <3>3. \A j \in 1 .. i - 1 : j \in 1 .. Len(delivered)
      BY <2>1
    <3> QED
      BY <2>2, <3>2, <3>3 DEF LoggedBefore
  <2> QED
    BY <2>1, <2>3 DEF LogBeforeAlert
<1>2. IInv => LogBeforeAlert
  BY <1>1 DEF IInv
<1> QED
  BY <1>2, Invariance, PTL

-----------------------------------------------------------------------------
(* The two threads are well typed; the marks of the graph agree between two *)
(* calls of net_mark_suspicious; and what is on the canvas is consistent,   *)
(* although the generator marks while the main thread draws.                *)
LEMMA WellTyped == IInv => TypeOK
<1> SUFFICES ASSUME IInv PROVE TypeOK
  OBVIOUS
<1>1. /\ FlowInv /\ EventInv /\ PauseInv /\ MarksInv /\ CanvasInv
      /\ Threat!TableTypeOK /\ Log!LogTypeOK
  BY DEF IInv, PanelInv, Threat!TableInv
<1>2. Table!TableTypeOK
  BY <1>1 DEF Table!TableTypeOK, Threat!TableTypeOK, Table!Row, Threat!Row
<1>3. events \in 0 .. MaxEvents /\ nextAlertId \in 0 .. MaxEvents
  BY <1>1, DashboardAssumption DEF EventInv
<1>4. left \in Nat /\ slice \in 0 .. Slices /\ edge \in 0 .. Len(Edges) + 1
  BY <1>1 DEF EventInv, PauseInv, MarksInv
<1>5. /\ suspNodes \subseteq Nodes /\ suspEdges \subseteq DOMAIN Edges
      /\ canvas \in [Cells -> {" ", ".", "*", "o", "X"}] /\ lit \subseteq Cells
  BY <1>1 DEF MarksInv, CanvasInv, Nodes
<1> QED
  BY <1>1, <1>2, <1>3, <1>4, <1>5 DEF TypeOK, FlowInv

THEOREM MarksAreShown == Spec => []MarksShown
<1>1. IInv => TypeOK
  BY WellTyped
<1>2. IInv => CanvasConsistent
  BY FinishedCanvas DEF IInv
<1>3. IInv => MarksAgree
  BY DEF IInv, MarksInv, MarksAgree, Touches
<1> QED
  BY <1>1, <1>2, <1>3, Invariance, PTL DEF MarksShown

(* After the pause key at most one more batch is begun.                     *)
THEOREM PauseStops == Spec => []PauseStopsBatches
<1>1. IInv => PauseStopsBatches
  BY DEF IInv, PauseInv, PauseStopsBatches
<1> QED
  BY <1>1, Invariance, PTL

(* Once main has joined the generator nothing either thread owns changes.   *)
LEMMA DoneStands == FlowInv /\ [Next]_vars
                    => (mpc = "done" => UNCHANGED <<queueVars, panelVars, genVars, gpc>>)
<1> SUFFICES ASSUME FlowInv, [Next]_vars, mpc = "done"
             PROVE  UNCHANGED <<queueVars, panelVars, genVars, gpc>>
  OBVIOUS
<1>1. gpc = "done"
  BY DEF FlowInv
<1>2. ~Generator
  BY <1>1 DEF Generator, BeginBatch, GeneratorReturns, MakeEvent, EndBatch, PostLog, NoAlert,
              RaiseAlert, PostAlert, MarkNothing, MarkNode, MarkEdge, EndMarking, NextSlice,
              LeavePause, SleepSlice, Post
<1>3. ~Main
  BY DEF Main, StartGenerator, StartFails, OtherKey, PauseKey, QuitKey, RunTask, FreeSlot,
         EndDrain, DrawEdge, SkipEdge, LightEdge, DrawNode, LightNode, Put, Light, DrawPanels,
         StopGenerator, JoinGenerator
<1>4. UNCHANGED vars
  BY <1>2, <1>3 DEF Next, Exited
<1> QED
  BY <1>4 DEF vars, mainVars, postVars, genVars, loopVars

THEOREM FinalAfterJoin == Spec => NothingAfterJoin
<1>1. IInv /\ [Next]_vars => [mpc = "done" => UNCHANGED <<queueVars, panelVars, genVars, gpc>>]_vars
  BY DoneStands DEF IInv
<1> QED
  BY <1>1, Invariance, PTL DEF Spec, NothingAfterJoin

(* The threat table stays sorted, keeps the most severe alerts and holds    *)
(* only alerts it was given, also when they come over the queue.            *)
THEOREM TableIsRight ==
    Spec => [](Table!SortedBySeverity /\ Table!RowsAreHandledAlerts /\ Table!KeepsMostSevere)
<1>1. ASSUME IInv PROVE Table!SortedBySeverity
  BY <1>1 DEF IInv, PanelInv, Threat!TableInv, Threat!SortedBySeverity, Table!SortedBySeverity,
             Threat!Rows, Table!Rows
<1>2. ASSUME IInv PROVE Table!RowsAreHandledAlerts
  BY <1>2 DEF IInv, PanelInv, Threat!TableInv, Threat!RowsAreHandledAlerts,
             Table!RowsAreHandledAlerts, Threat!Rows, Table!Rows, Threat!Min, Table!Min,
             Threat!Last, Table!Last
<1>3. ASSUME IInv PROVE Table!KeepsMostSevere
  BY <1>3 DEF IInv, PanelInv, Threat!TableInv, Threat!KeepsMostSevere, Table!KeepsMostSevere,
             Threat!AtLeast, Table!AtLeast, Threat!Min, Table!Min, Threat!Cardinality,
             Table!Cardinality
<1> QED
  BY <1>1, <1>2, <1>3, Invariance, PTL
=============================================================================
