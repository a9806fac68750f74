----------------------------- MODULE SocDashboard -----------------------------
(***************************************************************************)
(* The SOC dashboard program: the event generator thread and the ncurses   *)
(* main thread of apps/soc_dashboard/soc_dashboard.c.  They share the task *)
(* queue, the generator's two flags and, without any synchronisation, the  *)
(* suspicion marks of the network graph.                                   *)
(*                                                                         *)
(* The queue is the abstract BoundedFifo, which TaskQueue implements; what *)
(* the handlers do to the threat table and the log ring is AlertTable and  *)
(* LogRing.  Marks are stored and loaded in program order, as x86 and the   *)
(* loops of the code have it.                                               *)
(*                                                                         *)
(* Definitions named Mut_... are seeded faults that no behaviour uses.     *)
(***************************************************************************)
EXTENDS Naturals, Sequences, FiniteSets

CONSTANTS
    EventSev,       \* severities an event can have
    High,           \* SEV_HIGH: from here on an event may raise an alert
    NodeCount,      \* d->node_count, from --nodes
    NetMaxNodes,    \* NET_MAX_NODES: marks are drawn from this range (100)
    Edges,          \* d->edges: a sequence of pairs of node indices
    Cells,          \* the cells of the canvas
    NodeCell,       \* the cell each node lies in
    Middle,         \* the cell half way between two nodes
    Batches,        \* the sizes a batch can have (84 .. 333)
    Slices,         \* the slices slept after a batch (10)
    MaxEvents,      \* bound: events generated in a behaviour
    Capacity,       \* TASK_RING_SIZE - 1
    ThreatMax, ThreatVisible, FlashFrames,          \* see AlertTable
    NoEvent, LogSlots, WordSize, LogVisible         \* see LogRing

ASSUME DashboardAssumption ==
    /\ EventSev \subseteq Nat
    /\ NodeCount \in 1 .. NetMaxNodes
    /\ Edges \in Seq((0 .. NodeCount - 1) \X (0 .. NodeCount - 1))
    /\ Batches \subseteq Nat \ {0}
    /\ Edges # <<>>
    /\ NodeCell \in [0 .. NodeCount - 1 -> Cells]
    /\ Middle \in [(0 .. NodeCount - 1) \X (0 .. NodeCount - 1) -> Cells]
    /\ \A m, n \in 0 .. NodeCount - 1 : Middle[<<m, n>>] = Middle[<<n, m>>]
    /\ \A n \in 0 .. NodeCount - 1 : Middle[<<n, n>>] = NodeCell[n]
    /\ Slices \in Nat \ {0}
    /\ MaxEvents \in Nat
    /\ Capacity \in Nat \ {0}

VARIABLES
    accepted, delivered, released, known, admitted, refused,    \* d->tasks
    alerts, handled, shown,         \* the threat table
    logRing, logWrite, newest,      \* the log ring
    genRunning,     \* d->gen_running
    genPaused,      \* d->gen_paused
    quit,           \* d->quit
    suspNodes,      \* the nodes with d->nodes[i].suspicious
    suspEdges,      \* the edges with d->edges[i].suspicious
    canvas,         \* d->canvas: the glyph in each cell
    lit,            \* the cells with d->canvas_susp
    drawing,        \* the edge or node net_render_canvas has come to
    gpc,            \* where the generator is in gen_thread_fn
    left,           \* events of the batch still to come
    slice,          \* slices slept since the batch
    event,          \* the event under way
    nextAlertId,    \* d->next_alert_id
    marking,        \* the node net_mark_suspicious is marking
    edge,           \* the edge its loop has come to
    mpc,            \* where the main thread is
    events,         \* history: events generated
    dropped,        \* history: the tasks whose post was refused
    begun           \* history: batches begun since `p` was last pressed

Fifo == INSTANCE BoundedFifo WITH
            Task <- [kind : {"log"}, n : 1 .. MaxEvents, sev : EventSev]
                    \cup [kind : {"alert"}, n : 1 .. MaxEvents, sev : EventSev,
                          id : 0 .. MaxEvents]

Table == INSTANCE AlertTable WITH Severity <- {s \in EventSev : s >= High}

Log == INSTANCE LogRing WITH Event <- [n : 1 .. MaxEvents, sev : EventSev]

ASSUME PanelAssumption == Table!TableAssumption /\ Log!LogAssumption

queueVars == <<accepted, delivered, released, known, admitted, refused>>
panelVars == <<alerts, handled, shown, logRing, logWrite, newest>>
flagVars == <<genRunning, genPaused, quit>>
canvasVars == <<canvas, lit, drawing>>
mainVars == <<panelVars, flagVars, canvasVars, mpc>>
postVars == <<queueVars, dropped>>
loopVars == <<left, slice, begun>>
eventVars == <<event, events, nextAlertId>>
markVars == <<suspNodes, suspEdges, marking, edge>>

vars == <<mainVars, postVars, loopVars, eventVars, markVars, gpc>>

Nodes == 0 .. NodeCount - 1
Blank == [c \in Cells |-> " "]
Drawing == {"edges", "edge_mark", "nodes", "node_mark"}     \* inside net_render_canvas

LogTask == [kind |-> "log", n |-> event.n, sev |-> event.sev]

Mut_AlertTask == [kind |-> "alert", n |-> event.n, sev |-> event.sev, id |-> nextAlertId]

AlertTask == [kind |-> "alert", n |-> event.n, sev |-> event.sev, id |-> nextAlertId - 1]

-----------------------------------------------------------------------------
(* The program after the memset and net_init, before anything is started.  *)
Init == /\ Fifo!Init
        /\ Table!Init
        /\ Log!Init
        /\ genRunning = FALSE
        /\ genPaused = FALSE
        /\ quit = FALSE
        /\ suspNodes = {}
        /\ suspEdges = {}
        /\ canvas = Blank
        /\ lit = {}
        /\ drawing = 0
        /\ gpc = "unborn"
        /\ left = 0
        /\ slice = 0
        /\ event = [n |-> 0, sev |-> 0]
        /\ nextAlertId = 0
        /\ marking = 0
        /\ edge = 0
        /\ mpc = "start"
        /\ events = 0
        /\ dropped = <<>>
        /\ begun = 0

-----------------------------------------------------------------------------
(* The generator thread.  None of its steps touches what the main thread   *)
(* owns (mainVars).                                                         *)

(* while (gen_running) *)
BeginBatch == /\ gpc = "check"
              /\ genRunning
              /\ \E batch \in Batches : events + batch <= MaxEvents /\ left' = batch
              /\ begun' = begun + 1
              /\ gpc' = "batch"
              /\ UNCHANGED <<postVars, slice, eventVars, markVars>>

GeneratorReturns == /\ gpc = "check"
                    /\ ~genRunning
                    /\ gpc' = "done"
                    /\ UNCHANGED <<postVars, loopVars, eventVars, markVars>>

Mut_MakeEvent == /\ gpc = "batch"
                 /\ left > 0
                 /\ left' = left - 1
                 /\ \E sev \in EventSev : event' = [n |-> events + 1, sev |-> sev]
                 /\ events' = events + 1
                 /\ gpc' = IF event'.sev >= High THEN "roll" ELSE "log"
                 /\ UNCHANGED <<postVars, slice, begun, nextAlertId, markVars>>

MakeEvent == /\ gpc = "batch"
             /\ left > 0
             /\ left' = left - 1
             /\ \E sev \in EventSev : event' = [n |-> events + 1, sev |-> sev]
             /\ events' = events + 1
             /\ gpc' = "log"
             /\ UNCHANGED <<postVars, slice, begun, nextAlertId, markVars>>

EndBatch == /\ gpc = "batch"
            /\ left = 0
            /\ slice' = 0
            /\ gpc' = "slice"
            /\ UNCHANGED <<postVars, left, begun, eventVars, markVars>>

(* task_post of a task, from one place to the next; its result is not       *)
(* looked at.                                                               *)
Post(task, here, next) ==
    /\ gpc = here
    /\ \/ Fifo!Admit /\ UNCHANGED <<gpc, dropped>>
       \/ Fifo!Publish /\ accepted' = Append(accepted, task) /\ gpc' = next /\ UNCHANGED dropped
       \/ Fifo!Refuse /\ dropped' = Append(dropped, task) /\ gpc' = next
    /\ UNCHANGED <<loopVars, eventVars, markVars>>

PostLog == Post(LogTask, "log", "roll")

(* An event of high severity raises an alert one time in four. *)
NoAlert == /\ gpc = "roll"
           /\ gpc' = "batch"
           /\ UNCHANGED <<postVars, loopVars, eventVars, markVars>>

RaiseAlert == /\ gpc = "roll"
              /\ event.sev >= High
              /\ nextAlertId' = nextAlertId + 1
              /\ gpc' = "alert"
              /\ UNCHANGED <<postVars, loopVars, event, events, markVars>>

PostAlert == Post(AlertTask, "alert", "mark")

(* net_mark_suspicious of a random index below NET_MAX_NODES: on this       *)
(* thread, without a lock.  An index >= node_count is ignored.              *)
MarkNothing == /\ gpc = "mark"
               /\ NodeCount < NetMaxNodes
               /\ gpc' = "batch"
               /\ UNCHANGED <<postVars, loopVars, eventVars, markVars>>

MarkNode == /\ gpc = "mark"
            /\ marking' \in 0 .. NodeCount - 1
            /\ suspNodes' = suspNodes \cup {marking'}
            /\ edge' = 1
            /\ gpc' = "edges"
            /\ UNCHANGED <<postVars, loopVars, eventVars, suspEdges>>

Ends(e) == {Edges[e][1], Edges[e][2]}

Mut_Incident == Edges[edge][1] = marking

Incident == marking \in Ends(edge)

MarkEdge == /\ gpc = "edges"
            /\ edge <= Len(Edges)
            /\ suspEdges' = IF Incident THEN suspEdges \cup {edge} ELSE suspEdges
            /\ edge' = edge + 1
            /\ UNCHANGED <<gpc, postVars, loopVars, eventVars, suspNodes, marking>>

EndMarking == /\ gpc = "edges"
              /\ edge > Len(Edges)
              /\ gpc' = "batch"
              /\ UNCHANGED <<postVars, loopVars, eventVars, markVars>>

(* for (slice = 0; slice < 10 && gen_running; slice++) *)
NextSlice == /\ gpc = "slice"
             /\ gpc' = IF slice < Slices /\ genRunning THEN "pause" ELSE "check"
             /\ UNCHANGED <<postVars, loopVars, eventVars, markVars>>

(* while (gen_paused && gen_running) nanosleep(50 ms) *)
Mut_LeavePause == /\ gpc = "pause"
                  /\ ~genPaused
                  /\ gpc' = "sleep"
                  /\ UNCHANGED <<postVars, loopVars, eventVars, markVars>>

Mut_IgnorePause == /\ gpc = "pause"
                   /\ gpc' = "sleep"
                   /\ UNCHANGED <<postVars, loopVars, eventVars, markVars>>

LeavePause == /\ gpc = "pause"
              /\ ~(genPaused /\ genRunning)
              /\ gpc' = "sleep"
              /\ UNCHANGED <<postVars, loopVars, eventVars, markVars>>

SleepSlice == /\ gpc = "sleep"
              /\ slice' = slice + 1
              /\ gpc' = "slice"
              /\ UNCHANGED <<postVars, left, begun, eventVars, markVars>>

Generator ==
    /\ \/ BeginBatch \/ GeneratorReturns \/ MakeEvent \/ EndBatch \/ PostLog
       \/ NoAlert \/ RaiseAlert \/ PostAlert \/ MarkNothing \/ MarkNode \/ MarkEdge
       \/ EndMarking \/ NextSlice \/ LeavePause \/ SleepSlice
    /\ UNCHANGED mainVars

-----------------------------------------------------------------------------
(* The main thread.  None of its steps touches what the generator owns, but *)
(* starting it.                                                             *)
genVars == <<eventVars, markVars, left, slice, dropped>>

(* gen_running is set and the thread created; without a terminal that has   *)
(* colours, or without the thread, main returns.                            *)
StartGenerator == /\ mpc = "start"
                  /\ genRunning' = TRUE
                  /\ gpc' = "check"
                  /\ mpc' = "input"
                  /\ UNCHANGED <<queueVars, panelVars, genPaused, quit, canvasVars, begun>>

StartFails == /\ mpc = "start"
              /\ mpc' = "failed"
              /\ genRunning' \in BOOLEAN
              /\ UNCHANGED <<queueVars, panelVars, genPaused, quit, canvasVars, begun, gpc>>

(* getch: no key, or one that does not concern the threads ... *)
OtherKey == /\ mpc = "input"
            /\ mpc' = "drain"
            /\ UNCHANGED <<queueVars, panelVars, flagVars, canvasVars, begun, gpc>>

(* ... `p` ... *)
PauseKey == /\ mpc = "input"
            /\ genPaused' = ~genPaused
            /\ begun' = 0
            /\ mpc' = "drain"
            /\ UNCHANGED <<queueVars, panelVars, genRunning, quit, canvasVars, gpc>>

(* ... and `q`, which leaves the loop without another drain. *)
QuitKey == /\ mpc = "input"
           /\ quit' = TRUE
           /\ mpc' = "stop"
           /\ UNCHANGED <<queueVars, panelVars, genRunning, genPaused, canvasVars, begun, gpc>>

(* task_drain: each task runs to its end on this thread. *)
Handle(task) ==
    IF task.kind = "log"
    THEN /\ Log!HandleLog([n |-> task.n, sev |-> task.sev])
         /\ UNCHANGED <<alerts, handled, shown>>
    ELSE /\ Table!HandleAlert(task.id, task.sev)
         /\ UNCHANGED <<logRing, logWrite, newest>>

RunTask == /\ mpc = "drain"
           /\ Fifo!Deliver
           /\ Handle(accepted[Len(delivered) + 1])
           /\ UNCHANGED <<mpc, flagVars, canvasVars, begun, gpc>>

FreeSlot == /\ mpc = "drain"
            /\ Fifo!Release
            /\ UNCHANGED <<mpc, panelVars, flagVars, canvasVars, begun, gpc>>

Mut_EndDrain == /\ mpc = "drain"
                /\ genPaused \/ released = Len(accepted)
                /\ canvas' = Blank
                /\ lit' = {}
                /\ drawing' = 1
                /\ mpc' = "edges"
                /\ UNCHANGED <<queueVars, panelVars, flagVars, begun, gpc>>

(* The queue is empty, and net_render_canvas starts from an empty canvas.   *)
EndDrain == /\ mpc = "drain"
            /\ released = Len(accepted)
            /\ canvas' = Blank
            /\ lit' = {}
            /\ drawing' = 1
            /\ mpc' = "edges"
            /\ UNCHANGED <<queueVars, panelVars, flagVars, begun, gpc>>

(* It draws the edges one by one, then the nodes, while the generator may   *)
(* be marking them.  Several can fall into a cell: of the edges the first   *)
(* stays, and of the nodes the last, over any edge.  The mark is read twice *)
(* without synchronisation, for the glyph and for canvas_susp, and may have *)
(* been set in between.                                                     *)
MiddleOf(e) == Middle[Edges[e]]

GoOnWithEdges == IF drawing < Len(Edges)
                 THEN drawing' = drawing + 1 /\ mpc' = "edges"
                 ELSE drawing' = 0 /\ mpc' = "nodes"

GoOnWithNodes == IF drawing < NodeCount - 1
                 THEN drawing' = drawing + 1 /\ mpc' = "nodes"
                 ELSE drawing' = 0 /\ mpc' = "panels"

Put(glyph, cell, here, next) == /\ mpc = here
                                /\ canvas' = [canvas EXCEPT ![cell] = glyph]
                                /\ mpc' = next
                                /\ UNCHANGED <<lit, drawing>>

Light(marked, cell, here) == /\ mpc = here
                             /\ lit' = IF marked THEN lit \cup {cell} ELSE lit \ {cell}
                             /\ UNCHANGED canvas

EdgeGlyph == IF drawing \in suspEdges THEN "*" ELSE "."
NodeGlyph == IF drawing \in suspNodes THEN "X" ELSE "o"

Mut_DrawEdge == /\ Put(EdgeGlyph, MiddleOf(drawing), "edges", "edge_mark")
                /\ UNCHANGED <<queueVars, panelVars, flagVars, begun, gpc>>

DrawEdge == /\ mpc = "edges"
            /\ canvas[MiddleOf(drawing)] = " "
            /\ Put(EdgeGlyph, MiddleOf(drawing), "edges", "edge_mark")
            /\ UNCHANGED <<queueVars, panelVars, flagVars, begun, gpc>>

SkipEdge == /\ mpc = "edges"
            /\ canvas[MiddleOf(drawing)] # " "
            /\ GoOnWithEdges
            /\ UNCHANGED <<queueVars, panelVars, flagVars, canvas, lit, begun, gpc>>

LightEdge == /\ Light(drawing \in suspEdges, MiddleOf(drawing), "edge_mark")
             /\ GoOnWithEdges
             /\ UNCHANGED <<queueVars, panelVars, flagVars, begun, gpc>>

DrawNode == /\ Put(NodeGlyph, NodeCell[drawing], "nodes", "node_mark")
            /\ UNCHANGED <<queueVars, panelVars, flagVars, begun, gpc>>

LightNode == /\ Light(drawing \in suspNodes, NodeCell[drawing], "node_mark")
             /\ GoOnWithNodes
             /\ UNCHANGED <<queueVars, panelVars, flagVars, begun, gpc>>

DrawPanels == /\ mpc = "panels"
              /\ Table!RenderThreats(ThreatVisible)
              /\ mpc' = "input"
              /\ UNCHANGED <<queueVars, logRing, logWrite, newest, flagVars, canvasVars,
                             begun, gpc>>

(* The cleanup: gen_running is cleared, the thread joined, and the windows  *)
(* and the pipe are released.                                               *)
StopGenerator == /\ mpc = "stop"
                 /\ genRunning' = FALSE
                 /\ mpc' = "join"
                 /\ UNCHANGED <<queueVars, panelVars, genPaused, quit, canvasVars, begun, gpc>>

Mut_JoinGenerator == /\ mpc = "join"
                     /\ mpc' = "done"
                     /\ UNCHANGED <<queueVars, panelVars, flagVars, canvasVars, begun, gpc>>

JoinGenerator == /\ mpc = "join"
                 /\ gpc = "done"
                 /\ mpc' = "done"
                 /\ UNCHANGED <<queueVars, panelVars, flagVars, canvasVars, begun, gpc>>

Main ==
    /\ \/ StartGenerator \/ StartFails \/ OtherKey \/ PauseKey \/ QuitKey \/ RunTask
       \/ FreeSlot \/ EndDrain \/ DrawEdge \/ SkipEdge \/ LightEdge \/ DrawNode
       \/ LightNode \/ DrawPanels \/ StopGenerator \/ JoinGenerator
    /\ UNCHANGED genVars

(* The process has ended. *)
Exited == mpc \in {"done", "failed"} /\ UNCHANGED vars

Next == Generator \/ Main \/ Exited

Spec == Init /\ [][Next]_vars

(* Both threads are scheduled for ever; which keys are pressed is up to the *)
(* user.                                                                    *)
FairSpec == Spec /\ WF_vars(Generator) /\ WF_vars(Main)

-----------------------------------------------------------------------------
(* Each thread's state is well typed, and only nodes and edges that exist   *)
(* are marked.                                                              *)
TypeOK == /\ Table!TableTypeOK
          /\ Log!LogTypeOK
          /\ {genRunning, genPaused, quit} \subseteq BOOLEAN
          /\ suspNodes \subseteq Nodes /\ suspEdges \subseteq DOMAIN Edges
          /\ canvas \in [Cells -> {" ", ".", "*", "o", "X"}] /\ lit \subseteq Cells
          /\ gpc \in {"unborn", "check", "batch", "log", "roll", "alert", "mark",
                      "edges", "slice", "pause", "sleep", "done"}
          /\ mpc \in {"start", "failed", "input", "drain", "panels", "stop", "join", "done"}
                     \cup Drawing
          /\ left \in Nat /\ slice \in 0 .. Slices
          /\ events \in 0 .. MaxEvents /\ nextAlertId \in 0 .. MaxEvents
          /\ edge \in 0 .. Len(Edges) + 1

Ids(tasks) == {tasks[i].id : i \in {j \in DOMAIN tasks : tasks[j].kind = "alert"}}

(* Every alert id drawn is handled, waiting, dropped at a full queue, or    *)
(* still being posted, and none is in two of these places; the table has    *)
(* been given them in the order of their ids.  (The id counter belongs to   *)
(* the generator, the table to the main thread.)                            *)
EveryAlertAccountedFor ==
    LET waiting == SubSeq(accepted, Len(delivered) + 1, Len(accepted))
        posting == IF gpc = "alert" THEN {nextAlertId - 1} ELSE {}
        places == <<Ids(delivered), Ids(waiting), Ids(dropped), posting>>
    IN  /\ UNION {places[i] : i \in 1 .. 4} = 0 .. nextAlertId - 1
        /\ \A i, j \in 1 .. 4 : i # j => places[i] \cap places[j] = {}
        /\ \A i, j \in DOMAIN handled : i < j => handled[i].id < handled[j].id

(* An alert enters the table only after the event it is about has entered   *)
(* the log, unless the log's post was dropped.                              *)
LogBeforeAlert ==
    \A i \in DOMAIN delivered :
        delivered[i].kind = "alert" =>
            \/ \E j \in 1 .. i - 1 : /\ delivered[j].kind = "log"
                                     /\ delivered[j].n = delivered[i].n
            \/ \E j \in DOMAIN dropped : /\ dropped[j].kind = "log"
                                         /\ dropped[j].n = delivered[i].n

(* On a finished canvas a cell whose glyph is a suspicious one is lit.  A   *)
(* cell is lit by what is to be seen in it: the last node there, or the     *)
(* first edge where no node is; and of a lit edge a suspicious node is to   *)
(* be seen, unless a later node hides it, although the marks are set while  *)
(* they are being drawn: nodes are marked before their edges and drawn      *)
(* after them.  (The glyph of a lit cell may be the ordinary one.)          *)
TopNode(n) == \A m \in Nodes : NodeCell[m] = NodeCell[n] => m <= n

FirstEdge(e) == \A f \in DOMAIN Edges : MiddleOf(f) = MiddleOf(e) => e <= f

CanvasConsistent ==
    mpc \notin Drawing =>
        \A c \in Cells :
            /\ canvas[c] \in {"*", "X"} => c \in lit
            /\ c \in lit =>
                 \/ \E n \in suspNodes : NodeCell[n] = c /\ TopNode(n)
                 \/ \E e \in suspEdges :
                       /\ MiddleOf(e) = c /\ FirstEdge(e) /\ \A n \in Nodes : NodeCell[n] # c
                       /\ \E n \in Ends(e) \cap suspNodes :
                             canvas[NodeCell[n]] = "X" \/ ~TopNode(n)

(* Between two calls of net_mark_suspicious the marks agree: the suspicious *)
(* edges are those of the suspicious nodes.                                 *)
MarksAgree ==
    gpc # "edges" => suspEdges = {e \in DOMAIN Edges : Ends(e) \cap suspNodes # {}}

(* Marks are of nodes and edges that exist, agree, and are drawn so, as far *)
(* as the cells of the canvas can show them.                                *)
MarksShown == TypeOK /\ CanvasConsistent /\ MarksAgree

(* After `p` the generator may finish its batch, and one whose start it can *)
(* no longer stop follows at most.                                          *)
PauseStopsBatches == genPaused => begun <= 1

(* Once the windows and the pipe are being released the generator does not  *)
(* run any more and the totals printed at the end are final.                *)
NothingAfterJoin ==
    [][mpc = "done" => UNCHANGED <<queueVars, panelVars, genVars, gpc>>]_vars

(* `q` ends the program, from whatever state the generator is in, also when *)
(* it is paused.                                                            *)
QuitEnds == quit ~> mpc = "done"

(* A task that got into the queue is run, unless the program is quit.       *)
TasksRunOrQuit ==
    \A k \in 1 .. 2 * MaxEvents :
        Len(accepted) >= k ~> Len(delivered) >= k \/ quit

=============================================================================
