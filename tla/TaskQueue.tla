------------------------------ MODULE TaskQueue ------------------------------
(***************************************************************************)
(* The lock-free single-producer single-consumer ring that carries work    *)
(* from the event generator thread to the ncurses main thread              *)
(* (apps/soc_dashboard/task_queue.h), one action per shared memory access  *)
(* of task_post and task_drain.                                            *)
(*                                                                         *)
(* The index `write` is an atomic stored with release and loaded with      *)
(* acquire.  The index `read` is a plain u32 that one thread stores while  *)
(* the other loads it.  On the x86 build that load is a single coherent    *)
(* access which the call-free gaps of the producer let the compiler and    *)
(* the store buffer delay: it returns any value `read` has held since the  *)
(* producer's previous load of it (LoadsOfRead).                           *)
(*                                                                         *)
(* A task is the number of the task_post call that carries it; its         *)
(* function pointer and its payload are stored, and read, separately.      *)
(*                                                                         *)
(* A definition named Mut_... is a seeded fault: the definition after it   *)
(* as a plausible slip of the code would have it.  No behaviour uses it.   *)
(***************************************************************************)
EXTENDS Naturals, Sequences

CONSTANTS
    Slots,      \* TASK_RING_SIZE, a power of two (4096)
    MaxPosts    \* bound: how many times the producer calls task_post

ASSUME SlotsAssumption == Slots \in Nat /\ Slots >= 2
ASSUME MaxPostsAssumption == MaxPosts \in Nat

VARIABLES
    ring,       \* q->ring: the function and the payload held by each slot
    write,      \* q->write: the slot the producer fills next
    read,       \* q->read: the slot the consumer runs next
    ppc,        \* where the producer is in task_post
    seen,       \* the value of q->read that task_post loaded last
    cpc,        \* where the consumer is in task_drain
    calling,    \* the function pointer task_drain has loaded and called
    posted,     \* history: calls of task_post so far
    sent,       \* history: the tasks published, in order
    ran,        \* history: the tasks run, as their handler saw them
    refused     \* history: calls of task_post that returned false

producerVars == <<ppc, seen, posted, sent, refused>>
consumerVars == <<cpc, calling, ran>>
vars == <<ring, write, read, producerVars, consumerVars>>

Index == 0 .. Slots - 1
Task == [fn : 0 .. MaxPosts, data : 0 .. MaxPosts]
TaskOf(call) == [fn |-> call, data |-> call]

-----------------------------------------------------------------------------
(* Index arithmetic: (i + 1) & TASK_RING_MASK and (j - i) & TASK_RING_MASK  *)
(* for indices below a power of two.                                        *)
Succ(i) == IF i + 1 = Slots THEN 0 ELSE i + 1

Dist(i, j) == IF i <= j THEN j - i ELSE (j + Slots) - i

Mut_DepthSwapped == Dist(write, read)

(* task_depth, for the panels drawn by the consumer's thread. *)
Depth == Dist(read, write)

(* The values the producer's unsynchronised load of q->read can return. *)
LoadsOfRead == {r \in Index : Dist(seen, r) <= Dist(seen, read)}

-----------------------------------------------------------------------------
(* The indices stay inside the ring and the slots hold tasks. *)
TypeOK == /\ ring \in [Index -> Task]
          /\ write \in Index
          /\ read \in Index
          /\ ppc \in {"idle", "fn", "payload", "publish"}
          /\ seen \in Index
          /\ cpc \in {"load", "call", "run", "advance"}
          /\ calling \in 0 .. MaxPosts
          /\ posted \in 0 .. MaxPosts
          /\ sent \in Seq(Task)
          /\ ran \in Seq(Task)
          /\ refused \in Nat

Init == /\ ring = [i \in Index |-> TaskOf(0)]   \* main's memset
        /\ write = 0
        /\ read = 0
        /\ ppc = "idle"
        /\ seen = 0
        /\ cpc = "load"
        /\ calling = 0
        /\ posted = 0
        /\ sent = <<>>
        /\ ran = <<>>
        /\ refused = 0

-----------------------------------------------------------------------------
(* task_post, on the generator thread. *)

Mut_IsFullTooEarly(r) == Succ(write) = r \/ Succ(Succ(write)) = r

(* One slot stays empty so that a full ring differs from an empty one. *)
IsFull(r) == Succ(write) = r

PostRefused == /\ ppc = "idle"
               /\ posted < MaxPosts
               /\ posted' = posted + 1
               /\ \E r \in LoadsOfRead : IsFull(r) /\ seen' = r
               /\ refused' = refused + 1
               /\ UNCHANGED <<ring, write, read, ppc, sent, consumerVars>>

Mut_PostAlwaysAdmitted == /\ ppc = "idle"
                          /\ posted < MaxPosts
                          /\ posted' = posted + 1
                          /\ \E r \in LoadsOfRead : seen' = r
                          /\ ppc' = "fn"
                          /\ UNCHANGED <<ring, write, read, sent, refused, consumerVars>>

PostAdmitted == /\ ppc = "idle"
                /\ posted < MaxPosts
                /\ posted' = posted + 1
                /\ \E r \in LoadsOfRead : ~IsFull(r) /\ seen' = r
                /\ ppc' = "fn"
                /\ UNCHANGED <<ring, write, read, sent, refused, consumerVars>>

StoreFn == /\ ppc = "fn"
           /\ ring' = [ring EXCEPT ![write] = [fn |-> posted, data |-> @.data]]
           /\ ppc' = "payload"
           /\ UNCHANGED <<write, read, seen, posted, sent, refused, consumerVars>>

StorePayload == /\ ppc = "payload"
                /\ ring' = [ring EXCEPT ![write] = [fn |-> @.fn, data |-> posted]]
                /\ ppc' = "publish"
                /\ UNCHANGED <<write, read, seen, posted, sent, refused, consumerVars>>

(* The release store of q->write makes the slot visible. *)
Publish == /\ ppc = "publish"
           /\ write' = Succ(write)
           /\ sent' = Append(sent, TaskOf(posted))
           /\ ppc' = "idle"
           /\ UNCHANGED <<ring, read, seen, posted, refused, consumerVars>>

-----------------------------------------------------------------------------
(* task_drain, on the main thread, called again and again by its frame     *)
(* loop.                                                                   *)

(* The acquire load of q->write, and the loop's test. *)
Mut_LoadLessThan == /\ cpc = "load"
                    /\ read < write
                    /\ cpc' = "call"
                    /\ UNCHANGED <<ring, write, read, producerVars, calling, ran>>

LoadNotEmpty == /\ cpc = "load"
                /\ read # write
                /\ cpc' = "call"
                /\ UNCHANGED <<ring, write, read, producerVars, calling, ran>>

(* The loop ends and the next frame's task_drain starts over. *)
LoadEmpty == /\ cpc = "load"
             /\ read = write
             /\ UNCHANGED <<ring, write, read, producerVars, consumerVars>>

(* The handler is called: its address is loaded from the slot ... *)
CallHandler == /\ cpc = "call"
               /\ calling' = ring[read].fn
               /\ cpc' = "run"
               /\ UNCHANGED <<ring, write, read, producerVars, ran>>

(* ... and it reads its payload in place, in the slot, until it returns. *)
RunHandler == /\ cpc = "run"
              /\ ran' = Append(ran, [fn |-> calling, data |-> ring[read].data])
              /\ cpc' = "advance"
              /\ UNCHANGED <<ring, write, read, producerVars, calling>>

(* Only then is the slot given back to the producer. *)
Mut_AdvanceToWrite == /\ cpc = "advance"
                      /\ read' = write
                      /\ cpc' = "load"
                      /\ UNCHANGED <<ring, write, producerVars, calling, ran>>

Advance == /\ cpc = "advance"
           /\ read' = Succ(read)
           /\ cpc' = "load"
           /\ UNCHANGED <<ring, write, producerVars, calling, ran>>

-----------------------------------------------------------------------------
Producer == PostRefused \/ PostAdmitted \/ StoreFn \/ StorePayload \/ Publish
Consumer == LoadNotEmpty \/ LoadEmpty \/ CallHandler \/ RunHandler \/ Advance

Next == Producer \/ Consumer

Spec == Init /\ [][Next]_vars

(* The main thread's frame loop calls task_drain in every frame. *)
FairSpec == Spec /\ WF_vars(Consumer)

-----------------------------------------------------------------------------
(* How many tasks have had their slot given back. *)
Completed == IF cpc = "advance" THEN Len(ran) - 1 ELSE Len(ran)

(* While the producer fills the slot at `write` and the consumer runs the   *)
(* one at `read`, these are two slots: a handler never works on a payload   *)
(* that is being overwritten (the full test at task_queue.h:33, made with   *)
(* a stale `read`).                                                         *)
NoSharedSlot ==
    ppc \in {"fn", "payload", "publish"} /\ cpc \in {"call", "run", "advance"}
        => write # read

(* The handlers that have run are, in order, exactly the oldest published   *)
(* tasks, each with its own function and its own payload: nothing is lost,  *)
(* repeated, reordered or torn, however the two threads interleave and      *)
(* wherever the indices wrap.                                               *)
RunsInOrderExactlyOnce ==
    /\ Len(ran) <= Len(sent)
    /\ \A k \in 1 .. Len(ran) : ran[k] = sent[k]

(* The masked difference shown by the panels (task_depth) is the true       *)
(* number of tasks accepted and not completed, and never reaches the ring's *)
(* size, at which it would read as 0.                                       *)
DepthIsExact ==
    /\ Len(sent) = Completed + Depth
    /\ Depth < Slots

(* The inductive strengthening of the invariants above. *)

(* Between the two indices lie the published tasks not yet given back, in   *)
(* order and untouched.                                                     *)
SlotsHoldPending ==
    \A i \in Index : Dist(read, i) < Depth
                        => ring[i] = sent[Completed + Dist(read, i) + 1]

(* The producer's last view of `read` lies behind the true one, and the     *)
(* index it stores next never catches up with that view.                    *)
ProducerKeepsOneSlotFree ==
    /\ Dist(seen, write) = Dist(seen, read) + Depth
    /\ ppc # "idle" => Succ(write) # seen

(* How far each thread has got with its task. *)
ProducerHalfWay ==
    /\ ppc \in {"payload", "publish"} => ring[write].fn = posted
    /\ ppc = "publish" => ring[write].data = posted

ConsumerHalfWay ==
    /\ cpc \in {"call", "run", "advance"} => read # write
    /\ cpc = "run" => calling = ring[read].fn
    /\ cpc = "advance" => Len(ran) > 0

(* Together they are kept by every step of either thread (proved in         *)
(* TaskQueueProofs).                                                        *)
IInv == /\ TypeOK
        /\ RunsInOrderExactlyOnce
        /\ DepthIsExact
        /\ SlotsHoldPending
        /\ ProducerKeepsOneSlotFree
        /\ ProducerHalfWay
        /\ ConsumerHalfWay

(* Whatever was published is run in the end. *)
EveryTaskRuns ==
    \A k \in 1 .. MaxPosts : Len(sent) >= k ~> Len(ran) >= k

-----------------------------------------------------------------------------
(* The ring implements the bounded FIFO of BoundedFifo.  The abstract queue *)
(* counts completed tasks where the ring compares indices: the producer has *)
(* noticed all of them but the ones between the index it loaded last and    *)
(* the current one.                                                         *)
Fifo == INSTANCE BoundedFifo WITH
            Capacity  <- Slots - 1,
            accepted  <- sent,
            delivered <- ran,
            released  <- Completed,
            known     <- Completed - Dist(seen, read),
            admitted  <- ppc # "idle"

FifoSpec == Fifo!Spec

=============================================================================
