------------------------------- MODULE MpscQueue -------------------------------
(***************************************************************************)
(* The task queue of the kernel's event loop (include/sc_runtime.h): an    *)
(* intrusive linked list that any thread pushes to and the loop's thread   *)
(* pops from, one action per atomic access of _sc_mpsc_push and            *)
(* _sc_mpsc_pop.  A push swaps `head` and then links the node it got to    *)
(* its own; between the two the list has a gap.  When the list runs down   *)
(* to its last task, pop pushes the stub behind it.                        *)
(*                                                                         *)
(* One of the posting threads is the loop's own: it posts from handlers.   *)
(* Every task has a node of its own: the arena they come from is never     *)
(* reset.                                                                  *)
(*                                                                         *)
(* Definitions named Mut_... are seeded faults that no behaviour uses.     *)
(***************************************************************************)
EXTENDS Naturals, Sequences, FiniteSets

CONSTANTS
    Thread,         \* the threads that post tasks
    LoopThread,     \* the thread that runs the event loop
    MaxPosts,       \* bound: how many tasks each thread posts
    Stub,           \* the address of q->stub
    Null            \* the null pointer

Task == Thread \X (1 .. MaxPosts)
Node == Task \cup {Stub}

ASSUME MpscAssumption ==
    /\ LoopThread \in Thread
    /\ MaxPosts \in Nat
    /\ Stub \notin Task
    /\ Null \notin Node

VARIABLES
    link,       \* the _next of every node
    head,       \* q->head: the node pushed last
    tail,       \* q->tail: the node popped next
    posts,      \* how many tasks each thread has begun to push
    prev,       \* the node a thread's push has got from head
    pushing,    \* the threads between the swap and the link
    cpc,        \* where the loop is in _sc_mpsc_pop
    stubPrev,   \* the node pop's own push of the stub has got from head
    list,       \* history: the nodes from tail to head, in the order of
                \* their swaps
    order,      \* history: the tasks pushed, in the order of their swaps
    ran,        \* history: the tasks popped and run
    overlap     \* history: whether a push was under way during this pop

vars == <<link, head, tail, posts, prev, pushing, cpc, stubPrev, list, order, ran, overlap>>
pushVars == <<posts, prev, pushing, order>>

-----------------------------------------------------------------------------
(* _sc_mpsc_init *)
Init == /\ link = [n \in Node |-> Null]
        /\ head = Stub
        /\ tail = Stub
        /\ posts = [t \in Thread |-> 0]
        /\ prev = [t \in Thread |-> Null]
        /\ pushing = {}
        /\ cpc = "pop"
        /\ stubPrev = Null
        /\ list = <<Stub>>
        /\ order = <<>>
        /\ ran = <<>>
        /\ overlap = FALSE

(* _sc_mpsc_push of a thread's next task.  The loop's own thread posts from *)
(* a task it runs, or from a timer or a fiber later in the tick.            *)
MayPost(t) == /\ t \notin pushing
              /\ posts[t] < MaxPosts
              /\ t = LoopThread => cpc \in {"run", "rest"}

Swap(t) ==
    LET task == <<t, posts[t] + 1>>
    IN  /\ MayPost(t)
        /\ posts' = [posts EXCEPT ![t] = @ + 1]
        /\ link' = [link EXCEPT ![task] = Null]
        /\ prev' = [prev EXCEPT ![t] = head]
        /\ head' = task
        /\ pushing' = pushing \cup {t}
        /\ list' = Append(list, task)
        /\ order' = Append(order, task)
        /\ overlap' = TRUE
        /\ UNCHANGED <<tail, cpc, stubPrev, ran>>

Link(t) == /\ t \in pushing
           /\ link' = [link EXCEPT ![prev[t]] = <<t, posts[t]>>]
           /\ pushing' = pushing \ {t}
           /\ UNCHANGED <<head, tail, posts, prev, cpc, stubPrev, list, order, ran, overlap>>

-----------------------------------------------------------------------------
(* _sc_mpsc_pop; only this thread stores `tail`. *)

(* It returns NULL, and the loop's tick goes on to the timers and fibers.   *)
ReturnNull == cpc' = "rest"

(* It returns the task at the old tail, which the tick runs.                *)
ReturnTask == /\ tail' = link[tail]
              /\ list' = Tail(list)
              /\ ran' = Append(ran, tail)
              /\ cpc' = "run"

PopEmpty == /\ cpc = "pop"
            /\ tail = Stub
            /\ link[Stub] = Null
            /\ ReturnNull
            /\ UNCHANGED <<link, head, tail, pushVars, stubPrev, list, ran, overlap>>

SkipStub == /\ cpc = "pop"
            /\ tail = Stub
            /\ link[Stub] # Null
            /\ tail' = link[Stub]
            /\ list' = Tail(list)
            /\ cpc' = "next"
            /\ UNCHANGED <<link, head, pushVars, stubPrev, ran, overlap>>

AtTask == cpc = "next" \/ (cpc = "pop" /\ tail # Stub)

PopNext == /\ AtTask
           /\ link[tail] # Null
           /\ ReturnTask
           /\ UNCHANGED <<link, head, pushVars, stubPrev, overlap>>

Mut_SeeLast == /\ AtTask
               /\ link[tail] = Null
               /\ ReturnNull
               /\ UNCHANGED <<link, head, tail, pushVars, stubPrev, list, ran, overlap>>

SeeLast == /\ AtTask
           /\ link[tail] = Null
           /\ cpc' = "compare"
           /\ UNCHANGED <<link, head, tail, pushVars, stubPrev, list, ran, overlap>>

(* The tail has no successor and is not the head: somebody is pushing.      *)
Mut_NotLast == /\ cpc = "compare"
               /\ tail # head
               /\ cpc' = "clear"
               /\ UNCHANGED <<link, head, tail, pushVars, stubPrev, list, ran, overlap>>

NotLast == /\ cpc = "compare"
           /\ tail # head
           /\ ReturnNull
           /\ UNCHANGED <<link, head, tail, pushVars, stubPrev, list, ran, overlap>>

IsLast == /\ cpc = "compare"
          /\ tail = head
          /\ cpc' = "clear"
          /\ UNCHANGED <<link, head, tail, pushVars, stubPrev, list, ran, overlap>>

ClearStub == /\ cpc = "clear"
             /\ link' = [link EXCEPT ![Stub] = Null]
             /\ cpc' = "swap"
             /\ UNCHANGED <<head, tail, pushVars, stubPrev, list, ran, overlap>>

SwapStub == /\ cpc = "swap"
            /\ stubPrev' = head
            /\ head' = Stub
            /\ list' = Append(list, Stub)
            /\ cpc' = "link"
            /\ UNCHANGED <<link, tail, pushVars, ran, overlap>>

Mut_LinkStub == /\ cpc = "link"
                /\ link' = [link EXCEPT ![tail] = Stub]
                /\ cpc' = "last"
                /\ UNCHANGED <<head, tail, pushVars, stubPrev, list, ran, overlap>>

LinkStub == /\ cpc = "link"
            /\ link' = [link EXCEPT ![stubPrev] = Stub]
            /\ cpc' = "last"
            /\ UNCHANGED <<head, tail, pushVars, stubPrev, list, ran, overlap>>

PopLast == /\ cpc = "last"
           /\ link[tail] # Null
           /\ ReturnTask
           /\ UNCHANGED <<link, head, pushVars, stubPrev, overlap>>

LastBlocked == /\ cpc = "last"
               /\ link[tail] = Null
               /\ ReturnNull
               /\ UNCHANGED <<link, head, tail, pushVars, stubPrev, list, ran, overlap>>

(* The task's handler returns and the tick pops the next task, or the tick  *)
(* ends and the next one begins; the loop's own pushes are complete.        *)
PopAgain == /\ cpc \in {"run", "rest"}
            /\ LoopThread \notin pushing
            /\ cpc' = "pop"
            /\ overlap' = (pushing # {})
            /\ UNCHANGED <<link, head, tail, pushVars, stubPrev, list, ran>>

-----------------------------------------------------------------------------
Post(t) == Swap(t) \/ Link(t)

Loop == \/ PopEmpty \/ SkipStub \/ PopNext \/ SeeLast \/ NotLast \/ IsLast
        \/ ClearStub \/ SwapStub \/ LinkStub \/ PopLast \/ LastBlocked
        \/ PopAgain

Next == Loop \/ \E t \in Thread : Post(t)

Spec == Init /\ [][Next]_vars

(* The loop keeps ticking, and a thread that has begun a push completes it. *)
FairSpec == Spec /\ WF_vars(Loop) /\ \A t \in Thread : WF_vars(Link(t))

-----------------------------------------------------------------------------
(* Tasks are pushed and popped as nodes of the list.                        *)
TypeOK == /\ link \in [Node -> Node \cup {Null}]
          /\ head \in Node
          /\ tail \in Node
          /\ posts \in [Thread -> 0 .. MaxPosts]
          /\ prev \in [Thread -> Node \cup {Null}]
          /\ pushing \subseteq Thread
          /\ cpc \in {"pop", "next", "compare", "clear", "swap", "link", "last", "run", "rest"}
          /\ stubPrev \in Node \cup {Null}
          /\ list \in Seq(Node)
          /\ order \in Seq(Task)
          /\ ran \in Seq(Task)
          /\ overlap \in BOOLEAN

(* Tasks run in the order in which their pushes swapped the head, each      *)
(* once: also across the stub's leaving and re-entering the list.           *)
RunsInSwapOrder == /\ Len(ran) <= Len(order)
                   /\ \A k \in 1 .. Len(ran) : ran[k] = order[k]

(* The nodes at which the list is cut: those that a push under way, or      *)
(* pop's own push of the stub, has got from head and not yet linked.        *)
Cuts == {prev[t] : t \in pushing} \cup (IF cpc = "link" THEN {stubPrev} ELSE {})

(* From the tail to the head the nodes are linked in the order of their     *)
(* swaps, except where a push is between its two steps: what a completed    *)
(* push has linked no other push undoes, nor pop's of the stub.             *)
CutOnlyByPushes ==
    /\ list # <<>>
    /\ tail = list[1]
    /\ head = list[Len(list)]
    /\ \A k \in 1 .. Len(list) :
           link[list[k]] = IF k = Len(list) \/ list[k] \in Cuts THEN Null ELSE list[k + 1]

(* A pop during which nobody was pushing returns NULL only if the list is   *)
(* empty.  (One that overlaps a push may, and leave its successors to the   *)
(* next tick.)                                                              *)
QuietPopFindsTask ==
    [][cpc # "rest" /\ cpc' = "rest" /\ ~overlap => ran = order]_vars

(* Every task pushed is run.                                                *)
EveryTaskRuns ==
    \A k \in 1 .. Cardinality(Task) : Len(order) >= k ~> Len(ran) >= k

================================================================================
