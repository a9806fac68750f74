--------------------------- MODULE TaskQueueProofs ---------------------------
(***************************************************************************)
(* Proofs about the task ring, for every ring size and every number of     *)
(* posts.                                                                  *)
(***************************************************************************)
EXTENDS TaskQueue, TLAPS

USE SlotsAssumption, MaxPostsAssumption

-----------------------------------------------------------------------------
(* The index arithmetic. *)

(* The masked successor is another slot of the ring. *)
LEMMA SuccType == ASSUME NEW i \in Index
                  PROVE  Succ(i) \in Index /\ Succ(i) # i
BY DEF Succ, Index

(* The masked difference is below the ring's size, and 0 only for equals. *)
LEMMA DistType == ASSUME NEW i \in Index, NEW j \in Index
                  PROVE  /\ Dist(i, j) \in Nat
                         /\ Dist(i, j) < Slots
                         /\ Dist(i, j) = 0 <=> i = j
BY DEF Dist, Index

(* A fixed index is a different distance from every index. *)
LEMMA DistInjective == ASSUME NEW i \in Index, NEW j \in Index, NEW k \in Index,
                              Dist(i, j) = Dist(i, k)
                       PROVE  j = k
BY DEF Dist, Index

(* Storing q->write makes the ring one longer unless it was full. *)
LEMMA DistSuccRight == ASSUME NEW i \in Index, NEW j \in Index, Succ(j) # i
                       PROVE  Dist(i, Succ(j)) = Dist(i, j) + 1
BY DEF Dist, Index, Succ

(* Storing q->read makes it one shorter unless it was empty. *)
LEMMA DistSuccLeft == ASSUME NEW i \in Index, NEW j \in Index, i # j
                      PROVE  Dist(Succ(i), j) = Dist(i, j) - 1
BY DEF Dist, Index, Succ

(* Walking from i to k past j. *)
LEMMA DistSum == ASSUME NEW i \in Index, NEW j \in Index, NEW k \in Index
                 PROVE  /\ Dist(i, j) + Dist(j, k) < Slots
                            => Dist(i, k) = Dist(i, j) + Dist(j, k)
                        /\ Dist(i, j) <= Dist(i, k)
                            => Dist(i, k) = Dist(i, j) + Dist(j, k)
BY DEF Dist, Index

(* What a call posts is a task. *)
LEMMA TaskOfType == ASSUME NEW c \in 0 .. MaxPosts
                    PROVE  TaskOf(c) \in Task
BY DEF TaskOf, Task

-----------------------------------------------------------------------------
(* The initial state. *)
LEMMA InitInv == Init => IInv
<1> SUFFICES ASSUME Init PROVE IInv
  OBVIOUS
<1>0. /\ ring = [i \in Index |-> TaskOf(0)] /\ write = 0 /\ read = 0 /\ seen = 0
      /\ ppc = "idle" /\ cpc = "load" /\ calling = 0 /\ posted = 0
      /\ sent = <<>> /\ ran = <<>> /\ refused = 0
  BY DEF Init
<1>1. TypeOK
  BY <1>0, SlotsAssumption, MaxPostsAssumption DEF TypeOK, Index, Task, TaskOf
<1>2. Depth = 0 /\ Dist(seen, read) = 0 /\ Dist(seen, write) = 0
  BY <1>0 DEF Depth, Dist
<1>3. Completed = 0 /\ Len(ran) = 0 /\ Len(sent) = 0
  BY <1>0 DEF Completed
<1>4. SlotsHoldPending
  <2>1. ASSUME NEW i \in Index PROVE ~(Dist(read, i) < 0)
    BY <1>0, SlotsAssumption DEF Dist, Index
  <2> QED
    BY <1>2, <2>1 DEF SlotsHoldPending
<1>5. RunsInOrderExactlyOnce
  BY <1>3 DEF RunsInOrderExactlyOnce
<1>6. DepthIsExact
  BY <1>2, <1>3, SlotsAssumption DEF DepthIsExact
<1>7. ProducerKeepsOneSlotFree
  BY <1>0, <1>2 DEF ProducerKeepsOneSlotFree
<1>8. ProducerHalfWay /\ ConsumerHalfWay
  BY <1>0 DEF ProducerHalfWay, ConsumerHalfWay
<1> QED
  BY <1>1, <1>4, <1>5, <1>6, <1>7, <1>8 DEF IInv

(* A post that looks at `read` again still finds the ring with room behind  *)
(* what it sees, since it sees nothing older than before.                   *)
LEMMA LookAgain ==
    ASSUME IInv, NEW r \in LoadsOfRead
    PROVE  /\ r \in Index
           /\ Dist(r, write) = Dist(r, read) + Depth
           /\ Dist(r, read) = Dist(seen, read) - Dist(seen, r)
<1>1. /\ r \in Index /\ seen \in Index /\ read \in Index /\ write \in Index
      /\ Dist(seen, r) <= Dist(seen, read)
      /\ Dist(seen, write) = Dist(seen, read) + Dist(read, write)
  BY DEF LoadsOfRead, IInv, TypeOK, ProducerKeepsOneSlotFree, Depth
<1> QED
  BY <1>1 DEF Dist, Index, Depth

(* A refused post changes only the producer's view and its counters. *)
LEMMA PostRefusedInv == IInv /\ PostRefused => IInv'
<1> SUFFICES ASSUME IInv, PostRefused PROVE IInv'
  OBVIOUS
<1>1. PICK r \in LoadsOfRead : seen' = r
  BY DEF PostRefused
<1>2. TypeOK'
  BY <1>1, LookAgain DEF IInv, TypeOK, PostRefused, consumerVars
<1>3. Depth' = Depth /\ Completed' = Completed
  BY DEF PostRefused, consumerVars, Depth, Completed
<1>4. ProducerKeepsOneSlotFree'
  BY <1>1, <1>3, LookAgain DEF PostRefused, ProducerKeepsOneSlotFree
<1>5. ProducerHalfWay'
  BY DEF PostRefused, ProducerHalfWay
<1> QED
  BY <1>2, <1>3, <1>4, <1>5
  DEF IInv, PostRefused, consumerVars, RunsInOrderExactlyOnce, DepthIsExact,
      SlotsHoldPending, ConsumerHalfWay

(* A post that found a slot free may fill it: its view leaves one to spare. *)
LEMMA PostAdmittedInv == IInv /\ PostAdmitted => IInv'
<1> SUFFICES ASSUME IInv, PostAdmitted PROVE IInv'
  OBVIOUS
<1>1. PICK r \in LoadsOfRead : ~IsFull(r) /\ seen' = r
  BY DEF PostAdmitted
<1>2. TypeOK'
  BY <1>1, LookAgain DEF IInv, TypeOK, PostAdmitted, consumerVars
<1>3. Depth' = Depth /\ Completed' = Completed
  BY DEF PostAdmitted, consumerVars, Depth, Completed
<1>4. ProducerKeepsOneSlotFree'
  BY <1>1, <1>3, LookAgain DEF PostAdmitted, ProducerKeepsOneSlotFree, IsFull
<1>5. ProducerHalfWay'
  BY DEF PostAdmitted, ProducerHalfWay
<1> QED
  BY <1>2, <1>3, <1>4, <1>5
  DEF IInv, PostAdmitted, consumerVars, RunsInOrderExactlyOnce, DepthIsExact,
      SlotsHoldPending, ConsumerHalfWay

(* Filling the slot at `write` leaves the pending slots, and with them the  *)
(* one the consumer is in, as they are.                                     *)
LEMMA StoreFnInv == IInv /\ StoreFn => IInv'
<1> SUFFICES ASSUME IInv, StoreFn PROVE IInv'
  OBVIOUS
<1>1. TypeOK'
  BY DEF IInv, TypeOK, StoreFn, consumerVars, Task
<1>2. Depth' = Depth /\ Completed' = Completed
  BY DEF StoreFn, consumerVars, Depth, Completed
<1>3. /\ write \in Index /\ read \in Index
      /\ \A i \in Index : i # write => ring'[i] = ring[i]
  BY DEF IInv, TypeOK, StoreFn
<1>4. SlotsHoldPending'
  <2> SUFFICES ASSUME NEW i \in Index, Dist(read, i) < Depth
               PROVE  ring'[i] = sent[Completed + Dist(read, i) + 1]
    BY <1>2 DEF SlotsHoldPending, StoreFn, consumerVars
  <2>1. i # write
    BY <1>3, DistType DEF Depth
  <2> QED
    BY <2>1, <1>3 DEF IInv, SlotsHoldPending
<1>5. ProducerHalfWay'
  BY <1>3 DEF IInv, TypeOK, StoreFn, ProducerHalfWay, Task
<1>6. ConsumerHalfWay'
  BY <1>3 DEF IInv, StoreFn, consumerVars, ConsumerHalfWay
<1> QED
  BY <1>1, <1>2, <1>4, <1>5, <1>6
  DEF IInv, StoreFn, consumerVars, RunsInOrderExactlyOnce, DepthIsExact,
      ProducerKeepsOneSlotFree

(* Storing the payload, likewise, leaves the pending slots as they are. *)
LEMMA StorePayloadInv == IInv /\ StorePayload => IInv'
<1> SUFFICES ASSUME IInv, StorePayload PROVE IInv'
  OBVIOUS
<1>1. TypeOK'
  BY DEF IInv, TypeOK, StorePayload, consumerVars, Task
<1>2. Depth' = Depth /\ Completed' = Completed
  BY DEF StorePayload, consumerVars, Depth, Completed
<1>3. /\ write \in Index /\ read \in Index
      /\ \A i \in Index : i # write => ring'[i] = ring[i]
  BY DEF IInv, TypeOK, StorePayload
<1>4. SlotsHoldPending'
  <2> SUFFICES ASSUME NEW i \in Index, Dist(read, i) < Depth
               PROVE  ring'[i] = sent[Completed + Dist(read, i) + 1]
    BY <1>2 DEF SlotsHoldPending, StorePayload, consumerVars
  <2>1. i # write
    BY <1>3, DistType DEF Depth
  <2> QED
    BY <2>1, <1>3 DEF IInv, SlotsHoldPending
<1>5. ProducerHalfWay'
  BY <1>3 DEF IInv, TypeOK, StorePayload, ProducerHalfWay, Task
<1>6. ConsumerHalfWay'
  BY <1>3 DEF IInv, StorePayload, consumerVars, ConsumerHalfWay
<1> QED
  BY <1>1, <1>2, <1>4, <1>5, <1>6
  DEF IInv, StorePayload, consumerVars, RunsInOrderExactlyOnce, DepthIsExact,
      ProducerKeepsOneSlotFree

(* The slot published is the last of the pending ones, and holds the whole  *)
(* task.                                                                    *)
LEMMA PublishInv == IInv /\ Publish => IInv'
<1> SUFFICES ASSUME IInv, Publish PROVE IInv'
  OBVIOUS
<1>1. /\ write \in Index /\ read \in Index /\ seen \in Index
      /\ write' = Succ(write) /\ write' \in Index /\ read' = read
      /\ seen' = seen /\ ring' = ring /\ ppc' = "idle"
  BY SuccType DEF IInv, TypeOK, Publish
<1>2. /\ sent' = Append(sent, TaskOf(posted))
      /\ ran' = ran /\ cpc' = cpc /\ calling' = calling
  BY DEF Publish, consumerVars
<1>3. TaskOf(posted) \in Task
  BY TaskOfType DEF IInv, TypeOK
<1>4. TypeOK'
  BY <1>1, <1>3 DEF IInv, TypeOK, Publish, consumerVars
<1>5. /\ sent \in Seq(Task) /\ ran \in Seq(Task)
      /\ Len(sent') = Len(sent) + 1
      /\ sent'[Len(sent) + 1] = TaskOf(posted)
      /\ \A k \in 1 .. Len(sent) : sent'[k] = sent[k]
  BY <1>2, <1>3 DEF IInv, TypeOK
<1>6. Dist(seen, Succ(write)) = Dist(seen, write) + 1
  BY <1>1, DistSuccRight DEF IInv, ProducerKeepsOneSlotFree, Publish
<1>7. Succ(write) # read
  BY <1>1, <1>6, DistType, SuccType DEF IInv, ProducerKeepsOneSlotFree, Depth
<1>8. Depth' = Depth + 1 /\ Depth = Dist(read, write) /\ Depth \in Nat
  BY <1>1, <1>7, DistSuccRight, DistType DEF Depth
<1>9. Completed' = Completed /\ Completed \in Nat /\ Completed + Depth = Len(sent)
  BY <1>2, <1>5 DEF Completed, IInv, ConsumerHalfWay, DepthIsExact
<1>10. RunsInOrderExactlyOnce'
  BY <1>2, <1>5 DEF IInv, RunsInOrderExactlyOnce
<1>11. DepthIsExact'
  <2>1. Depth' < Slots
    BY <1>1, DistType DEF Depth
  <2>2. Len(sent') = Completed + (Depth + 1) /\ Len(sent) \in Nat
    BY <1>5, <1>8, <1>9
  <2> QED
    BY <2>1, <2>2, <1>8, <1>9, SMTT(30) DEF DepthIsExact
<1>12. SlotsHoldPending'
  <2> SUFFICES ASSUME NEW i \in Index, Dist(read, i) < Depth + 1
               PROVE  ring[i] = sent'[Completed + Dist(read, i) + 1]
    BY <1>1, <1>8, <1>9 DEF SlotsHoldPending
  <2>1. Dist(read, i) \in Nat
    BY <1>1, DistType
  <2>2. CASE Dist(read, i) < Depth
    <3>1. ring[i] = sent[Completed + Dist(read, i) + 1]
      BY <2>2 DEF IInv, SlotsHoldPending
    <3>2. Completed + Dist(read, i) + 1 \in 1 .. Len(sent)
      BY <2>1, <2>2, <1>8, <1>9
    <3> QED
      BY <3>1, <3>2, <1>5
  <2>3. CASE Dist(read, i) = Depth
    <3>1. i = write
      BY <2>3, <1>1, <1>8, DistInjective
    <3>2. ring[write].fn = posted /\ ring[write].data = posted
      BY DEF IInv, ProducerHalfWay, Publish
    <3>3. ring[write] \in Task
      BY <1>1 DEF IInv, TypeOK
    <3>4. ring[write] = TaskOf(posted)
      BY <3>2, <3>3 DEF Task, TaskOf
    <3> QED
      BY <3>1, <3>4, <2>3, <1>5, <1>9
  <2> QED
    BY <2>1, <2>2, <2>3, <1>8
<1>13. ProducerKeepsOneSlotFree'
  <2>1. Dist(seen, write) = Dist(seen, read) + Depth
    BY DEF IInv, ProducerKeepsOneSlotFree
  <2>2. Dist(seen', write') = Dist(seen', read') + Depth'
    BY <2>1, <1>1, <1>6, <1>8, DistType
  <2> QED
    BY <2>2, <1>1 DEF ProducerKeepsOneSlotFree
<1>14. ProducerHalfWay'
  BY <1>1 DEF ProducerHalfWay
<1>15. ConsumerHalfWay'
  BY <1>1, <1>2, <1>7 DEF IInv, ConsumerHalfWay
<1> QED
  BY <1>4, <1>10, <1>11, <1>12, <1>13, <1>14, <1>15 DEF IInv

(* The two outcomes of the loop's test, and the call, change nothing but    *)
(* the consumer's place.                                                    *)
LEMMA LoadNotEmptyInv == IInv /\ LoadNotEmpty => IInv'
<1> SUFFICES ASSUME IInv, LoadNotEmpty PROVE IInv'
  OBVIOUS
<1>1. TypeOK'
  BY DEF IInv, TypeOK, LoadNotEmpty, producerVars
<1>2. Depth' = Depth /\ Completed' = Completed
  BY DEF IInv, LoadNotEmpty, producerVars, Depth, Completed
<1> QED
  BY <1>1, <1>2
  DEF IInv, LoadNotEmpty, producerVars, RunsInOrderExactlyOnce, DepthIsExact,
      SlotsHoldPending, ProducerKeepsOneSlotFree, ProducerHalfWay, ConsumerHalfWay

(* The function pointer loaded is the one of the slot at `read`. *)
LEMMA CallHandlerInv == IInv /\ CallHandler => IInv'
<1> SUFFICES ASSUME IInv, CallHandler PROVE IInv'
  OBVIOUS
<1>1. TypeOK'
  BY DEF IInv, TypeOK, CallHandler, producerVars, Task
<1>2. Depth' = Depth /\ Completed' = Completed
  BY DEF IInv, CallHandler, producerVars, Depth, Completed
<1> QED
  BY <1>1, <1>2
  DEF IInv, CallHandler, producerVars, RunsInOrderExactlyOnce, DepthIsExact,
      SlotsHoldPending, ProducerKeepsOneSlotFree, ProducerHalfWay, ConsumerHalfWay

(* What the handler sees in its slot is the oldest pending task. *)
LEMMA HandlerSeesOldest ==
    ASSUME IInv, cpc = "run"
    PROVE  /\ Len(ran) < Len(sent)
           /\ [fn |-> calling, data |-> ring[read].data] = sent[Len(ran) + 1]
           /\ sent[Len(ran) + 1] \in Task
<1>1. /\ read \in Index /\ write \in Index /\ read # write
      /\ calling = ring[read].fn /\ ring[read] \in Task
      /\ ran \in Seq(Task) /\ sent \in Seq(Task)
  BY DEF IInv, TypeOK, ConsumerHalfWay
<1>2. Dist(read, read) = 0 /\ Depth > 0 /\ Depth \in Nat
  BY <1>1, DistType DEF Depth
<1>3. Completed = Len(ran) /\ Len(ran) \in Nat
  BY <1>1 DEF Completed
<1>4. Len(sent) = Len(ran) + Depth
  BY <1>3 DEF IInv, DepthIsExact
<1>5. ring[read] = sent[Len(ran) + 1]
  BY <1>1, <1>2, <1>3 DEF IInv, SlotsHoldPending
<1> QED
  BY <1>1, <1>2, <1>3, <1>4, <1>5 DEF Task

(* A handler that has run has run on the oldest pending task. *)
LEMMA RunHandlerInv == IInv /\ RunHandler => IInv'
<1> SUFFICES ASSUME IInv, RunHandler PROVE IInv'
  OBVIOUS
<1>1. /\ cpc = "run" /\ cpc' = "advance"
      /\ ran' = Append(ran, [fn |-> calling, data |-> ring[read].data])
      /\ UNCHANGED <<ring, write, read, producerVars, calling>>
  BY DEF RunHandler
<1>2. /\ Len(ran) < Len(sent)
      /\ ran' = Append(ran, sent[Len(ran) + 1])
      /\ sent[Len(ran) + 1] \in Task
  BY <1>1, HandlerSeesOldest
<1>3. /\ ran' \in Seq(Task) /\ Len(ran') = Len(ran) + 1 /\ Len(ran) \in Nat
      /\ ran'[Len(ran) + 1] = sent[Len(ran) + 1]
      /\ \A k \in 1 .. Len(ran) : ran'[k] = ran[k]
  BY <1>2 DEF IInv, TypeOK
<1>4. TypeOK'
  BY <1>1, <1>3 DEF IInv, TypeOK, producerVars
<1>5. Depth' = Depth /\ Completed' = Completed
  BY <1>1, <1>3 DEF Depth, Completed, producerVars
<1>6. sent' = sent /\ sent \in Seq(Task)
  BY <1>1 DEF producerVars, IInv, TypeOK
<1>7. RunsInOrderExactlyOnce'
  <2>1. Len(ran') <= Len(sent')
    BY <1>2, <1>3, <1>6
  <2>2. ASSUME NEW k \in 1 .. Len(ran')
        PROVE  ran'[k] = sent'[k]
    <3>1. k \in 1 .. Len(ran) \/ k = Len(ran) + 1
      BY <1>3
    <3> QED
      BY <3>1, <1>3, <1>6 DEF IInv, RunsInOrderExactlyOnce
  <2> QED
    BY <2>1, <2>2 DEF RunsInOrderExactlyOnce
<1>8. ConsumerHalfWay'
  BY <1>1, <1>3 DEF IInv, ConsumerHalfWay
<1> QED
  BY <1>1, <1>4, <1>5, <1>6, <1>7, <1>8
  DEF IInv, producerVars, DepthIsExact, SlotsHoldPending,
      ProducerKeepsOneSlotFree, ProducerHalfWay

(* Giving a slot back shortens the pending part at its old end. *)
LEMMA AdvanceInv == IInv /\ Advance => IInv'
<1> SUFFICES ASSUME IInv, Advance PROVE IInv'
  OBVIOUS
<1>1. /\ cpc = "advance" /\ cpc' = "load" /\ read' = Succ(read)
      /\ UNCHANGED <<ring, write, producerVars, calling, ran>>
  BY DEF Advance
<1>2. /\ read \in Index /\ write \in Index /\ seen \in Index /\ read # write
      /\ Succ(read) \in Index
      /\ Len(ran) > 0 /\ Len(ran) \in Nat
  BY <1>1, SuccType DEF IInv, TypeOK, ConsumerHalfWay
<1>3. TypeOK'
  BY <1>1, <1>2 DEF IInv, TypeOK, producerVars
<1>4. Depth' = Depth - 1 /\ Depth \in Nat /\ Depth = Dist(read, write) /\ Depth < Slots
  BY <1>1, <1>2, DistSuccLeft, DistType DEF Depth
<1>5. Completed' = Completed + 1 /\ Completed = Len(ran) - 1
  BY <1>1, <1>2 DEF Completed
<1>6. DepthIsExact'
  BY <1>1, <1>2, <1>4, <1>5 DEF IInv, DepthIsExact, producerVars
<1>7. SlotsHoldPending'
  <2> SUFFICES ASSUME NEW i \in Index, Dist(Succ(read), i) < Depth - 1
               PROVE  ring[i] = sent[Completed + 1 + Dist(Succ(read), i) + 1]
    BY <1>1, <1>4, <1>5 DEF SlotsHoldPending, producerVars
  <2>1. read # i
    <3>1. Dist(Succ(read), read) = Slots - 1
      BY <1>2 DEF Dist, Succ, Index
    <3> QED
      BY <3>1, <1>4
  <2>2. Dist(Succ(read), i) = Dist(read, i) - 1 /\ Dist(read, i) \in Nat
    BY <2>1, <1>2, DistSuccLeft, DistType
  <2>3. ring[i] = sent[Completed + Dist(read, i) + 1]
    BY <2>2, <1>4 DEF IInv, SlotsHoldPending
  <2> QED
    BY <2>2, <2>3, <1>2, <1>5
<1>8. ProducerKeepsOneSlotFree'
  <2>1. Dist(seen, write) = Dist(seen, read) + Depth
    BY DEF IInv, ProducerKeepsOneSlotFree
  <2>2. Dist(seen, write) < Slots /\ Dist(seen, read) \in Nat
    BY <1>2, DistType
  <2>3. Succ(read) # seen
    <3>0. Dist(read, write) # 0
      BY <1>2, DistType
    <3>1. Dist(seen, read) < Slots - 1
      BY <3>0, <2>1, <2>2, <1>4
    <3> QED
      BY <3>1, <1>2 DEF Dist, Succ, Index
  <2>4. Dist(seen, Succ(read)) = Dist(seen, read) + 1
    BY <2>3, <1>2, DistSuccRight
  <2>5. Dist(seen, write) = Dist(seen, Succ(read)) + Depth'
    BY <2>1, <2>2, <2>4, <1>4
  <2>6. seen' = seen /\ write' = write /\ read' = Succ(read) /\ ppc' = ppc
    BY <1>1 DEF producerVars
  <2>7. ppc # "idle" => Succ(write) # seen
    BY DEF IInv, ProducerKeepsOneSlotFree
  <2>8. Dist(seen, write)' = Dist(seen, read)' + Depth'
    BY <2>5, <2>6
  <2>9. (ppc # "idle" => Succ(write) # seen)'
    BY <2>6, <2>7
  <2> QED
    BY <2>8, <2>9 DEF ProducerKeepsOneSlotFree
<1>9. ConsumerHalfWay'
  BY <1>1 DEF ConsumerHalfWay
<1> QED
  BY <1>1, <1>3, <1>6, <1>7, <1>8, <1>9
  DEF IInv, RunsInOrderExactlyOnce, ProducerHalfWay, producerVars

-----------------------------------------------------------------------------
(* Every step of either thread keeps the invariant. *)
LEMMA NextInv == IInv /\ [Next]_vars => IInv'
<1> SUFFICES ASSUME IInv, [Next]_vars PROVE IInv'
  OBVIOUS
<1>1. CASE Producer
  BY <1>1, PostRefusedInv, PostAdmittedInv, StoreFnInv, StorePayloadInv, PublishInv
  DEF Producer
<1>2. CASE LoadEmpty \/ UNCHANGED vars
  BY <1>2
  DEF LoadEmpty, vars, producerVars, consumerVars, IInv, TypeOK,
      RunsInOrderExactlyOnce, DepthIsExact, SlotsHoldPending,
      ProducerKeepsOneSlotFree, ProducerHalfWay, ConsumerHalfWay, Depth, Completed
<1>3. CASE LoadNotEmpty \/ CallHandler \/ RunHandler \/ Advance
  BY <1>3, LoadNotEmptyInv, CallHandlerInv, RunHandlerInv, AdvanceInv
<1> QED
  BY <1>1, <1>2, <1>3 DEF Next, Consumer

(* Every reachable state of the ring satisfies the inductive invariant,     *)
(* whatever the ring's size and however the two threads of task_queue.h     *)
(* interleave.                                                              *)
THEOREM Invariance == Spec => []IInv
BY InitInv, NextInv, PTL DEF Spec

(* The state of the queue stays well typed. *)
THEOREM TypeCorrect == Spec => []TypeOK
BY Invariance, PTL DEF IInv

(* A handler never works on the slot the producer is filling: the producer  *)
(* keeps Succ(write) away from an index that lies between it and `read`, so *)
(* it is the full test with a stale `read` that this rests on.              *)
THEOREM SlotNeverShared == Spec => []NoSharedSlot
<1>1. IInv => NoSharedSlot
  BY DEF IInv, ConsumerHalfWay, NoSharedSlot
<1> QED
  BY <1>1, Invariance, PTL

(* Handlers run on the published tasks in order, each once, none torn.      *)
THEOREM RunsInOrder == Spec => []RunsInOrderExactlyOnce
BY Invariance, PTL DEF IInv

(* task_depth reports the true number of outstanding tasks.                 *)
THEOREM DepthCorrect == Spec => []DepthIsExact
BY Invariance, PTL DEF IInv

-----------------------------------------------------------------------------
(* The ring implements the abstract bounded FIFO. *)

(* The zeroed ring is the empty abstract queue. *)
LEMMA InitRefines == Init => Fifo!Init
BY DEF Init, Fifo!Init, Completed, Dist

(* What the abstract queue's counters are in a reachable state. *)
LEMMA MappedState ==
    ASSUME IInv
    PROVE  /\ sent \in Seq(Task) /\ ran \in Seq(Task)
           /\ Completed \in Nat
           /\ Dist(seen, read) \in Nat
           /\ Depth \in Nat
           /\ Len(sent) = Completed + Depth
           /\ Dist(seen, write) = Dist(seen, read) + Depth
           /\ Len(sent) - (Completed - Dist(seen, read)) = Dist(seen, write)
<1>1. /\ sent \in Seq(Task) /\ ran \in Seq(Task)
      /\ Dist(seen, read) \in Nat /\ Depth \in Nat
  BY DistType DEF IInv, TypeOK, Depth
<1>2. Completed \in Nat
  BY <1>1 DEF IInv, ConsumerHalfWay, Completed
<1> QED
  BY <1>1, <1>2 DEF IInv, DepthIsExact, ProducerKeepsOneSlotFree

(* What they become when the producer looks again. *)
LEMMA MappedView ==
    ASSUME IInv, NEW r \in LoadsOfRead
    PROVE  /\ Completed - Dist(r, read) \in (Completed - Dist(seen, read)) .. Completed
           /\ Len(sent) - (Completed - Dist(r, read)) = Dist(r, write)
<1>1. /\ Completed \in Nat /\ Depth \in Nat /\ Dist(seen, read) \in Nat
      /\ Len(sent) = Completed + Depth
  BY MappedState
<1>2. r \in Index /\ read \in Index /\ seen \in Index
  BY LookAgain DEF IInv, TypeOK
<1>3. Dist(r, read) \in Nat /\ Dist(seen, r) \in Nat
  BY <1>2, DistType
<1>4. /\ Dist(r, write) = Dist(r, read) + Depth
      /\ Dist(r, read) = Dist(seen, read) - Dist(seen, r)
  BY LookAgain
<1> QED
  BY <1>1, <1>3, <1>4

(* A full ring, as the producer sees it, holds one task less than its size. *)
LEMMA FullDistance ==
    ASSUME NEW r \in Index, NEW w \in Index
    PROVE  /\ Succ(w) = r => Dist(r, w) = Slots - 1
           /\ Succ(w) # r => Dist(r, w) < Slots - 1
BY DEF Dist, Succ, Index

(* A full ring, seen with a stale `read`, is a full abstract queue. *)
LEMMA PostRefusedRefines == IInv /\ PostRefused => Fifo!Refuse
<1> SUFFICES ASSUME IInv, PostRefused PROVE Fifo!Refuse
  OBVIOUS
<1>1. PICK r \in LoadsOfRead : IsFull(r) /\ seen' = r
  BY DEF PostRefused
<1>2. /\ ppc = "idle" /\ refused' = refused + 1
      /\ UNCHANGED <<sent, ran, cpc, read, write, ppc>>
  BY DEF PostRefused, consumerVars
<1>3. r \in Index /\ write \in Index
  BY LookAgain DEF IInv, TypeOK
<1>4. Completed' = Completed /\ Dist(seen', read') = Dist(r, read)
  BY <1>1, <1>2 DEF Completed
<1>5. Dist(r, write) = Slots - 1
  BY <1>1, <1>3, FullDistance DEF IsFull
<1>6. /\ Completed - Dist(r, read) \in (Completed - Dist(seen, read)) .. Completed
      /\ Len(sent) - (Completed - Dist(r, read)) = Dist(r, write)
  BY MappedView
<1>7. Len(sent) - (Completed - Dist(r, read)) = Slots - 1
  BY <1>5, <1>6
<1>8. (Completed - Dist(seen, read))' = Completed - Dist(r, read)
  BY <1>4
<1>9. /\ (Completed - Dist(seen, read))' \in (Completed - Dist(seen, read)) .. Completed
      /\ Len(sent) - (Completed - Dist(seen, read))' = Slots - 1
  BY <1>6, <1>7, <1>8
<1> QED
  BY <1>2, <1>4, <1>9, Zenon DEF Fifo!Refuse

(* A post let in by the ring is let in by the abstract queue. *)
LEMMA PostAdmittedRefines == IInv /\ PostAdmitted => Fifo!Admit
<1> SUFFICES ASSUME IInv, PostAdmitted PROVE Fifo!Admit
  OBVIOUS
<1>1. PICK r \in LoadsOfRead : ~IsFull(r) /\ seen' = r
  BY DEF PostAdmitted
<1>2. /\ ppc = "idle" /\ ppc' = "fn"
      /\ UNCHANGED <<sent, ran, cpc, read, write, refused>>
  BY DEF PostAdmitted, consumerVars
<1>3. r \in Index /\ write \in Index
  BY LookAgain DEF IInv, TypeOK
<1>4. Completed' = Completed /\ Dist(seen', read') = Dist(r, read)
  BY <1>1, <1>2 DEF Completed
<1>5. Dist(r, write) < Slots - 1
  BY <1>1, <1>3, FullDistance DEF IsFull
<1>6. /\ Completed - Dist(r, read) \in (Completed - Dist(seen, read)) .. Completed
      /\ Len(sent) - (Completed - Dist(r, read)) = Dist(r, write)
  BY MappedView
<1>7. Len(sent) - (Completed - Dist(r, read)) < Slots - 1
  BY <1>5, <1>6
<1>8. (Completed - Dist(seen, read))' = Completed - Dist(r, read)
  BY <1>4
<1>9. /\ (Completed - Dist(seen, read))' \in (Completed - Dist(seen, read)) .. Completed
      /\ Len(sent) - (Completed - Dist(seen, read))' < Slots - 1
  BY <1>6, <1>7, <1>8
<1> QED
  BY <1>2, <1>4, <1>9, Zenon DEF Fifo!Admit

(* The release store is the moment a task is accepted. *)
LEMMA PublishRefines == IInv /\ Publish => Fifo!Publish
<1> SUFFICES ASSUME IInv, Publish PROVE Fifo!Publish
  OBVIOUS
<1>1. TaskOf(posted) \in Task
  BY TaskOfType DEF IInv, TypeOK
<1>2. /\ ppc = "publish" /\ ppc' = "idle"
      /\ sent' = Append(sent, TaskOf(posted))
      /\ UNCHANGED <<ran, cpc, read, seen, refused>>
  BY DEF Publish, consumerVars
<1>3. Completed' = Completed
  BY <1>2 DEF Completed
<1> QED
  BY <1>1, <1>2, <1>3 DEF Fifo!Publish

(* The handler's run delivers the oldest task not yet delivered. *)
LEMMA RunHandlerRefines == IInv /\ RunHandler => Fifo!Deliver
<1> SUFFICES ASSUME IInv, RunHandler PROVE Fifo!Deliver
  OBVIOUS
<1>1. /\ cpc = "run" /\ cpc' = "advance"
      /\ ran' = Append(ran, [fn |-> calling, data |-> ring[read].data])
      /\ UNCHANGED <<sent, ppc, read, seen, refused>>
  BY DEF RunHandler, producerVars
<1>2. Len(ran) < Len(sent) /\ ran' = Append(ran, sent[Len(ran) + 1])
  BY <1>1, HandlerSeesOldest
<1>3. Completed = Len(ran) /\ Completed' = Len(ran)
  BY <1>1, MappedState DEF Completed
<1> QED
  BY <1>1, <1>2, <1>3 DEF Fifo!Deliver

(* Storing `read` gives the place of a delivered task back. *)
LEMMA AdvanceRefines == IInv /\ Advance => Fifo!Release
<1> SUFFICES ASSUME IInv, Advance PROVE Fifo!Release
  OBVIOUS
<1>1. /\ cpc = "advance" /\ cpc' = "load" /\ read' = Succ(read)
      /\ UNCHANGED <<sent, ran, ppc, write, seen, refused>>
  BY DEF Advance, producerVars
<1>2. Completed = Len(ran) - 1 /\ Completed' = Len(ran) /\ Len(ran) \in Nat
  BY <1>1, MappedState DEF Completed
<1>3. Dist(seen, read') = Dist(seen, read) + 1
  <2>1. IInv'
    BY AdvanceInv
  <2>2. Dist(seen, write) = Dist(seen, read') + Depth' /\ Depth' \in Nat
    BY <2>1, <1>1, DistType
    DEF IInv, TypeOK, ProducerKeepsOneSlotFree, Depth
  <2>3. Depth' = Depth - 1
    BY <1>1, DistSuccLeft DEF IInv, TypeOK, ConsumerHalfWay, Depth
  <2>4. Dist(seen, read') \in Nat
    BY <2>1, <1>1, DistType DEF IInv, TypeOK
  <2>5. /\ Dist(seen, write) = Dist(seen, read) + Depth
        /\ Dist(seen, read) \in Nat /\ Depth \in Nat
    BY MappedState, DistType DEF IInv, TypeOK, ProducerKeepsOneSlotFree, Depth
  <2> QED
    BY <2>2, <2>3, <2>4, <2>5
<1>4. Completed' - Dist(seen', read') = Completed - Dist(seen, read)
  BY <1>1, <1>2, <1>3, MappedState
<1> QED
  BY <1>1, <1>2, <1>4 DEF Fifo!Release

(* The other steps do not show at the abstract level. *)
LEMMA InternalStutters ==
    StoreFn \/ StorePayload \/ LoadNotEmpty \/ LoadEmpty \/ CallHandler \/ UNCHANGED vars
        => UNCHANGED Fifo!vars
<1> SUFFICES ASSUME \/ StoreFn \/ StorePayload \/ LoadNotEmpty
                    \/ LoadEmpty \/ CallHandler \/ UNCHANGED vars
             PROVE  UNCHANGED Fifo!vars
  OBVIOUS
<1>1. /\ UNCHANGED <<sent, ran, read, seen, refused>>
      /\ (ppc' # "idle") = (ppc # "idle")
      /\ (cpc' = "advance") = (cpc = "advance")
  BY DEF StoreFn, StorePayload, LoadNotEmpty, LoadEmpty, CallHandler,
         vars, producerVars, consumerVars
<1>2. Completed' = Completed
  BY <1>1 DEF Completed
<1> QED
  BY <1>1, <1>2 DEF Fifo!vars

(* The ring with its racy full test is a bounded first-in first-out queue   *)
(* of TASK_RING_SIZE - 1 places: each of its steps is a step of the         *)
(* abstract queue or is invisible in it.                                    *)
THEOREM RefinesFifo == Spec => FifoSpec
<1>1. Init => Fifo!Init
  BY InitRefines
<1>2. IInv /\ [Next]_vars => [Fifo!Next]_(Fifo!vars)
  BY PostRefusedRefines, PostAdmittedRefines, PublishRefines, RunHandlerRefines,
     AdvanceRefines, InternalStutters
  DEF Next, Producer, Consumer, Fifo!Next
<1> QED
  BY <1>1, <1>2, Invariance, PTL DEF Spec, FifoSpec, Fifo!Spec

=============================================================================
