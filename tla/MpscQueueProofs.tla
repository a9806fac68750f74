----------------------------- MODULE MpscQueueProofs -----------------------------
(***************************************************************************)
(* Proofs about the event loop's task queue, for any number of posting     *)
(* threads and of tasks: what its intrusive list looks like after every    *)
(* atomic access, and that it is a queue.                                   *)
(***************************************************************************)
EXTENDS MpscQueue, SequenceTheorems, TLAPS

USE MpscAssumption

Places == 1 .. Len(list)

(* Node `b` follows node `a` in list `s`. *)
Follows(s, a, b) == \E k \in 1 .. Len(s) : k < Len(s) /\ s[k] = a /\ s[k + 1] = b

(* How many stubs the first k nodes of list `s` are. *)
StubsTo(s, k) == IF \E j \in 1 .. k : s[j] = Stub THEN 1 ELSE 0

(* No node is in the list twice, and no task before it is posted.           *)
NodesDiffer ==
    /\ \A j, k \in Places : list[j] = list[k] => j = k
    /\ \A k \in Places : list[k] # Stub => list[k][2] <= posts[list[k][1]]

(* The node that a push under way has got from head is still in the list,   *)
(* and its own comes next.                                                  *)
PushesFollow ==
    \A t \in pushing : posts[t] > 0 /\ Follows(list, prev[t], <<t, posts[t]>>)

(* What each step of pop knows about the stub. *)
PopKnows ==
    /\ cpc \in {"next", "compare", "clear", "swap", "link", "last"} => tail # Stub
    /\ cpc \in {"clear", "swap"} => \A k \in Places : list[k] # Stub
    /\ cpc = "swap" => link[Stub] = Null
    /\ cpc = "link" => Follows(list, stubPrev, Stub)

(* The tasks in the list are those pushed and not yet run, in their order.  *)
ListIsRest ==
    /\ Len(order) = Len(ran) + Len(list) - StubsTo(list, Len(list))
    /\ \A k \in Places : list[k] # Stub => list[k] = order[Len(ran) + k - StubsTo(list, k)]

(* A pop that no push overlaps finds the list as the previous one left it.  *)
QuietPop ==
    ~overlap => /\ pushing = {}
                /\ cpc \in {"compare", "clear", "swap"} => Len(list) = 1
                /\ cpc \in {"link", "last"} => Len(list) = 2

IInv == /\ TypeOK /\ NodesDiffer /\ CutOnlyByPushes /\ PushesFollow
        /\ PopKnows /\ ListIsRest /\ RunsInSwapOrder /\ QuietPop

-----------------------------------------------------------------------------
(* Appending a node to the list, and taking its first one away.             *)
LEMMA Appended ==
    ASSUME TypeOK, NEW n \in Node, list' = Append(list, n)
    PROVE  /\ list' \in Seq(Node) /\ Len(list) \in Nat /\ Len(list') = Len(list) + 1
           /\ \A k \in Places : list'[k] = list[k]
           /\ list'[Len(list) + 1] = n
BY AppendProperties, LenProperties DEF TypeOK, Places

LEMMA HeadRemoved ==
    ASSUME TypeOK, list # <<>>, list' = Tail(list)
    PROVE  /\ list' \in Seq(Node) /\ Len(list) \in Nat \ {0} /\ Len(list') = Len(list) - 1
           /\ \A k \in 1 .. Len(list) - 1 : list'[k] = list[k + 1]
<1>1. list \in Seq(Node)
  BY DEF TypeOK
<1>2. Len(Tail(list)) = Len(list) - 1 /\ Tail(list) \in Seq(Node)
  BY <1>1, HeadTailProperties
<1>3. Len(list) \in Nat \ {0}
  BY <1>1, EmptySeq
<1>4. \A k \in 1 .. Len(list) - 1 : Tail(list)[k] = list[k + 1]
  BY <1>1, <1>2, HeadTailProperties
<1> QED
  BY <1>2, <1>3, <1>4

(* Every place of the list holds a node, a task of a thread or the stub.    *)
LEMMA NodesOfList ==
    ASSUME TypeOK
    PROVE  /\ Len(list) \in Nat
           /\ \A k \in Places : list[k] \in Node
           /\ \A k \in Places : list[k] # Stub => list[k] \in Task
<1>1. list \in Seq(Node)
  BY DEF TypeOK
<1>2. Len(list) \in Nat /\ \A k \in Places : list[k] \in Node
  BY <1>1, ElementOfSeq, LenProperties DEF Places
<1> QED
  BY <1>2 DEF Node

-----------------------------------------------------------------------------
LEMMA InitInv == Init => IInv
<1> SUFFICES ASSUME Init PROVE IInv
  OBVIOUS
<1> USE DEF Init
<1>1. Stub \in Node
  BY DEF Node
<1>2. Len(list) = 1 /\ list[1] = Stub /\ Places = {1}
  BY DEF Places
<1>3. TypeOK
  <2>1. list \in Seq(Node)
    BY <1>1
  <2>2. order \in Seq(Task) /\ ran \in Seq(Task)
    BY EmptySeq
  <2>3. overlap \in BOOLEAN
    BY Zenon
  <2> QED
    BY <1>1, <2>1, <2>2, <2>3 DEF TypeOK
<1>4. NodesDiffer
  BY <1>2 DEF NodesDiffer
<1>5. CutOnlyByPushes
  BY <1>1, <1>2 DEF CutOnlyByPushes
<1>6. PushesFollow /\ PopKnows /\ QuietPop
  BY DEF PushesFollow, PopKnows, QuietPop
<1>7. ListIsRest
  <2>1. StubsTo(list, 1) = 1
    BY <1>2 DEF StubsTo
  <2>2. Len(order) = 0 /\ Len(ran) = 0
    BY EmptySeq
  <2> QED
    BY <1>2, <2>1, <2>2 DEF ListIsRest
<1>8. RunsInSwapOrder
  BY EmptySeq DEF RunsInSwapOrder
<1> QED
  BY <1>3, <1>4, <1>5, <1>6, <1>7, <1>8 DEF IInv

-----------------------------------------------------------------------------
(* A task in the list stands for a task that has been pushed.               *)
LEMMA PlaceInOrder ==
    ASSUME TypeOK, ListIsRest, NEW k \in Places, list[k] # Stub
    PROVE  Len(ran) + k - StubsTo(list, k) \in 1 .. Len(order)
<1>1. Len(list) \in Nat /\ Len(ran) \in Nat /\ Len(order) \in Nat
  BY LenProperties DEF TypeOK
<1>2. Len(order) = Len(ran) + Len(list) - StubsTo(list, Len(list))
  BY DEF ListIsRest
<1>3. k = 1 => StubsTo(list, k) = 0
  BY DEF StubsTo, Places
<1>4. k = Len(list) \/ k < Len(list)
  BY <1>1 DEF Places
<1>5. StubsTo(list, k) \in {0, 1} /\ StubsTo(list, Len(list)) \in {0, 1}
  BY DEF StubsTo
<1> QED
  BY <1>1, <1>2, <1>3, <1>4, <1>5 DEF Places

(* The node a push, or pop's push of the stub, has got from head is that of *)
(* no other: its successor in the list tells whose it is.                   *)
LEMMA OneFollower ==
    ASSUME NodesDiffer, NEW a, NEW b, NEW c, Follows(list, a, b), Follows(list, a, c)
    PROVE  b = c
BY DEF NodesDiffer, Follows, Places

(* What follows what, and the stubs counted, when a node is appended.       *)
LEMMA FollowsKept ==
    ASSUME TypeOK, NEW n \in Node, list' = Append(list, n),
           NEW a, NEW b, Follows(list, a, b)
    PROVE  Follows(list', a, b)
<1>1. PICK k \in Places : k < Len(list) /\ list[k] = a /\ list[k + 1] = b
  BY DEF Follows, Places
<1>2. Len(list) \in Nat /\ Len(list') = Len(list) + 1 /\ \A j \in Places : list'[j] = list[j]
  BY Appended
<1>3. k \in Places' /\ k + 1 \in Places /\ k < Len(list')
  BY <1>1, <1>2 DEF Places
<1>4. list'[k] = a /\ list'[k + 1] = b
  BY <1>1, <1>2, <1>3
<1> QED
  BY <1>3, <1>4 DEF Follows, Places

LEMMA StubsKept ==
    ASSUME TypeOK, NEW n \in Node, list' = Append(list, n)
    PROVE  /\ \A k \in 0 .. Len(list) : StubsTo(list', k) = StubsTo(list, k)
           /\ StubsTo(list', Len(list) + 1) = IF n = Stub THEN 1 ELSE StubsTo(list, Len(list))
<1>1. Len(list) \in Nat /\ Len(list') = Len(list) + 1 /\ \A j \in Places : list'[j] = list[j]
      /\ list'[Len(list) + 1] = n
  BY Appended
<1> QED
  BY <1>1 DEF StubsTo, Places

-----------------------------------------------------------------------------
(* A push swaps the head: its task comes last, and the list is cut there.   *)
LEMMA SwapKeeps == ASSUME IInv, NEW t \in Thread, Swap(t) PROVE IInv'
<1> DEFINE task == <<t, posts[t] + 1>>
           n == Len(list)
<1> USE DEF IInv
<1>1. task \in Task /\ task \in Node /\ task # Stub /\ posts'[t] = posts[t] + 1
  BY DEF Swap, MayPost, TypeOK, Task, Node
<1>2. /\ list' \in Seq(Node) /\ n \in Nat /\ Len(list') = n + 1
      /\ \A k \in Places : list'[k] = list[k]
      /\ list'[n + 1] = task
  BY <1>1, Appended DEF Swap
<1>3. \A k \in Places : list[k] # task
  <2>1. posts[t] \in Nat /\ task[1] = t /\ task[2] = posts[t] + 1
    BY DEF TypeOK
  <2>2. ~ task[2] <= posts[task[1]]
    BY <2>1
  <2> QED
    BY <1>1, <2>2 DEF NodesDiffer
<1>4. n > 0 /\ head = list[n] /\ Places' = Places \cup {n + 1} /\ n \in Places
  <2>1. n # 0
    BY EmptySeq DEF CutOnlyByPushes, TypeOK
  <2> QED
    BY <2>1, <1>2 DEF CutOnlyByPushes, Places
<1>5. TypeOK'
  <2>1. order' \in Seq(Task)
    BY <1>1, AppendProperties DEF Swap, TypeOK
  <2>2. link' \in [Node -> Node \cup {Null}] /\ prev' \in [Thread -> Node \cup {Null}]
    BY DEF Swap, TypeOK
  <2>3. posts' \in [Thread -> 0 .. MaxPosts] /\ pushing' \subseteq Thread
    BY DEF Swap, MayPost, TypeOK
  <2> QED
    BY <1>1, <1>2, <2>1, <2>2, <2>3 DEF Swap, TypeOK
<1>6. NodesDiffer'
  <2>1. \A j, k \in Places' : list'[j] = list'[k] => j = k
    BY <1>2, <1>3, <1>4 DEF NodesDiffer, Places
  <2>2. ASSUME NEW k \in Places, list'[k] # Stub
        PROVE  list'[k][2] <= posts'[list'[k][1]]
    <3>1. list'[k] = list[k] /\ list[k] \in Task
      BY <1>2, <2>2, NodesOfList
    <3>2. list[k][1] \in Thread /\ list[k][2] \in Nat
      BY <3>1 DEF Task
    <3>3. posts[list[k][1]] <= posts'[list[k][1]]
      BY <1>1, <3>2 DEF Swap, TypeOK
    <3>4. list[k][2] <= posts[list[k][1]]
      BY <2>2, <3>1 DEF NodesDiffer
    <3>5. posts[list[k][1]] \in Nat /\ posts'[list[k][1]] \in Nat
      BY <1>5, <3>2 DEF TypeOK
    <3> QED
      BY <3>1, <3>2, <3>3, <3>4, <3>5
  <2>3. list'[n + 1][2] <= posts'[list'[n + 1][1]]
    BY <1>1, <1>2 DEF TypeOK
  <2> QED
    BY <1>4, <2>1, <2>2, <2>3 DEF NodesDiffer
<1>7. CutOnlyByPushes'
  <2>1. Cuts' = Cuts \cup {head}
    <3>1. {prev'[u] : u \in pushing'} = {prev[u] : u \in pushing} \cup {head}
      BY DEF Swap, MayPost, TypeOK
    <3> QED
      BY <3>1 DEF Cuts, Swap
  <2>2. \A k \in Places : link'[list'[k]] = link[list[k]]
    <3>1. \A m \in Node : m # task => link'[m] = link[m]
      BY DEF Swap, TypeOK
    <3> QED
      BY <1>2, <1>3, <3>1, NodesOfList
  <2>3. link'[list'[n + 1]] = Null
    BY <1>1, <1>2 DEF Swap, TypeOK
  <2>4. ASSUME NEW k \in Places
        PROVE link'[list'[k]] = IF k = n + 1 \/ list'[k] \in Cuts' THEN Null ELSE list'[k + 1]
    <3>1. CASE k = n
      <4>1. list'[k] \in Cuts'
        BY <1>2, <1>4, <2>1, <3>1
      <4> QED
        BY <2>2, <3>1, <4>1 DEF CutOnlyByPushes, Places
    <3>2. CASE k # n
      <4>1. k + 1 \in Places /\ k # n + 1
        BY <1>2, <3>2 DEF Places
      <4>2. list[k] # head
        BY <1>4, <3>2 DEF NodesDiffer
      <4> QED
        BY <1>2, <2>1, <2>2, <3>2, <4>1, <4>2 DEF CutOnlyByPushes, Places
    <3> QED
      BY <3>1, <3>2
  <2>5. list' # <<>> /\ tail' = list'[1] /\ head' = list'[n + 1]
    BY <1>2, <1>4, EmptySeq DEF Swap, CutOnlyByPushes, Places
  <2> QED
    BY <1>2, <1>4, <2>3, <2>4, <2>5 DEF CutOnlyByPushes, Places
<1>8. PushesFollow'
  <2>1. Follows(list', prev'[t], <<t, posts'[t]>>)
    <3>1. prev'[t] = head /\ <<t, posts'[t]>> = task
      BY <1>1 DEF Swap, TypeOK
    <3>2. n \in 1 .. Len(list') /\ n < Len(list') /\ list'[n] = head /\ list'[n + 1] = task
      BY <1>2, <1>4
    <3> QED
      BY <3>1, <3>2 DEF Follows
  <2>2. ASSUME NEW u \in pushing, u # t PROVE posts'[u] > 0 /\ Follows(list', prev'[u], <<u, posts'[u]>>)
    <3>1. posts'[u] = posts[u] /\ prev'[u] = prev[u] /\ posts[u] > 0
      BY <2>2 DEF Swap, TypeOK, PushesFollow
    <3>2. Follows(list, prev[u], <<u, posts[u]>>)
      BY DEF PushesFollow
    <3>3. ASSUME NEW a, NEW b, Follows(list, a, b) PROVE Follows(list', a, b)
      BY <1>1, <3>3, FollowsKept DEF Swap
    <3> QED
      BY <3>1, <3>2, <3>3
  <2>3. posts'[t] > 0
    BY <1>1 DEF TypeOK
  <2>4. pushing' = pushing \cup {t}
    BY DEF Swap
  <2> QED
    BY <2>1, <2>2, <2>3, <2>4 DEF PushesFollow
<1>9. PopKnows'
  <2>1. cpc = "link" => Follows(list', stubPrev', Stub)
    <3>1. ASSUME NEW a, NEW b, Follows(list, a, b) PROVE Follows(list', a, b)
      BY <1>1, <3>1, FollowsKept DEF Swap
    <3> QED
      BY <3>1 DEF PopKnows, Swap, Follows
  <2>2. link'[Stub] = link[Stub]
    BY <1>1 DEF Swap
  <2> QED
    BY <1>1, <1>2, <1>4, <2>1, <2>2 DEF PopKnows, Swap
<1>10. ListIsRest' /\ RunsInSwapOrder'
  <2>1. /\ Len(order') = Len(order) + 1 /\ order'[Len(order) + 1] = task
        /\ \A k \in 1 .. Len(order) : order'[k] = order[k]
        /\ Len(order) \in Nat /\ Len(ran) \in Nat
    BY <1>1, AppendProperties, LenProperties DEF Swap, TypeOK
  <2>2. /\ \A k \in Places : StubsTo(list', k) = StubsTo(list, k)
        /\ StubsTo(list', n + 1) = StubsTo(list, n) /\ StubsTo(list, n) \in {0, 1}
    BY <1>1, <1>2, StubsKept DEF Swap, Places, StubsTo
  <2>3. ran' = ran
    BY DEF Swap
  <2>4. \A k \in Places : list'[k] # Stub => list'[k] = order'[Len(ran) + k - StubsTo(list', k)]
    BY <1>2, <2>1, <2>2, PlaceInOrder DEF ListIsRest
  <2>5. Len(ran) + (n + 1) - StubsTo(list', n + 1) = Len(order) + 1
    BY <1>2, <2>1, <2>2 DEF ListIsRest
  <2>6. ListIsRest'
    <3>1. list'[n + 1] = order'[Len(ran) + (n + 1) - StubsTo(list', n + 1)]
      BY <1>2, <2>1, <2>5
    <3>2. Len(order') = Len(ran') + Len(list') - StubsTo(list', Len(list'))
      BY <1>2, <2>1, <2>2, <2>3, <2>5
    <3> QED
      BY <1>4, <2>3, <2>4, <3>1, <3>2 DEF ListIsRest
  <2>7. RunsInSwapOrder'
    BY <2>1, <2>3 DEF RunsInSwapOrder
  <2> QED
    BY <2>6, <2>7
<1>11. QuietPop'
  BY DEF QuietPop, Swap
<1> QED
  BY <1>5, <1>6, <1>7, <1>8, <1>9, <1>10, <1>11

(* A push, or pop's push of the stub, links the node it had got from head:  *)
(* the list is cut in one place less.                                       *)
LEMMA Linked ==
    ASSUME TypeOK, NodesDiffer, CutOnlyByPushes, UNCHANGED <<list, head, tail>>,
           NEW a \in Node, NEW b \in Node, Follows(list, a, b), a \notin Cuts', Cuts \subseteq Cuts' \cup {a},
           Cuts' \subseteq Cuts, link' = [link EXCEPT ![a] = b]
    PROVE  CutOnlyByPushes'
<1>1. PICK j \in Places : j < Len(list) /\ list[j] = a /\ list[j + 1] = b
  BY DEF Follows, Places
<1>2. ASSUME NEW k \in Places
      PROVE link'[list[k]] = IF k = Len(list) \/ list[k] \in Cuts' THEN Null ELSE list[k + 1]
  <2>1. list[k] \in Node
    BY NodesOfList
  <2>2. CASE k = j
    BY <1>1, <2>1, <2>2 DEF TypeOK, Places
  <2>3. CASE k # j
    <3>1. list[k] # a
      BY <1>1, <2>3 DEF NodesDiffer
    <3> QED
      BY <2>1, <3>1 DEF TypeOK, CutOnlyByPushes, Places
  <2> QED
    BY <2>2, <2>3
<1> QED
  BY <1>2 DEF CutOnlyByPushes, Places

LEMMA LinkKeeps == ASSUME IInv, NEW t \in Thread, Link(t) PROVE IInv'
<1> DEFINE task == <<t, posts[t]>>
<1> USE DEF IInv
<1>1. Follows(list, prev[t], task) /\ posts[t] > 0
  BY DEF Link, PushesFollow
<1>2. task \in Task /\ task \in Node /\ task # Stub
  BY <1>1 DEF TypeOK, Task, Node
<1>3. prev[t] \in Node
  BY <1>1, NodesOfList DEF Follows, Places
<1>4. TypeOK'
  BY <1>2 DEF TypeOK, Link
<1>5. ASSUME NEW u \in pushing, u # t PROVE prev[u] # prev[t]
  <2>1. Follows(list, prev[u], <<u, posts[u]>>)
    BY DEF PushesFollow
  <2>2. <<u, posts[u]>> # task
    BY <1>5
  <2> QED
    BY <1>1, <2>1, <2>2, OneFollower
<1>6. cpc = "link" => stubPrev # prev[t]
  BY <1>1, <1>2, OneFollower DEF PopKnows
<1>7. CutOnlyByPushes'
  <2>1. prev[t] \notin Cuts'
    BY <1>5, <1>6 DEF Cuts, Link
  <2>2. Cuts \subseteq Cuts' \cup {prev[t]} /\ Cuts' \subseteq Cuts
    BY DEF Cuts, Link
  <2>3. UNCHANGED <<list, head, tail>> /\ link' = [link EXCEPT ![prev[t]] = task]
    BY DEF Link
  <2> HIDE DEF IInv
  <2>4. TypeOK /\ NodesDiffer /\ CutOnlyByPushes
    BY DEF IInv
  <2> QED
    BY <1>1, <1>2, <1>3, <2>1, <2>2, <2>3, <2>4, Linked
<1>8. NodesDiffer' /\ ListIsRest' /\ RunsInSwapOrder'
  BY DEF Link, NodesDiffer, ListIsRest, RunsInSwapOrder, Places
<1>9. PushesFollow' /\ QuietPop'
  BY DEF Link, PushesFollow, QuietPop
<1>10. PopKnows'
  <2>1. cpc = "swap" => prev[t] # Stub
    BY <1>1 DEF PopKnows, Follows, Places
  <2>2. cpc = "swap" => link'[Stub] = link[Stub]
    BY <2>1 DEF Link, TypeOK
  <2> QED
    BY <2>2 DEF PopKnows, Link, Places
<1> QED
  BY <1>4, <1>7, <1>8, <1>9, <1>10

-----------------------------------------------------------------------------
(* Steps of pop that change nothing but its own place and what the tick has *)
(* seen, outside its push of the stub.                                      *)
LEMMA LocalStepKeeps ==
    ASSUME IInv, UNCHANGED <<link, head, tail, pushVars, stubPrev, list, ran>>,
           cpc # "link", cpc' # "link", PopKnows', QuietPop',
           cpc' \in {"pop", "next", "compare", "clear", "last", "run", "rest"}, overlap' \in BOOLEAN
    PROVE  IInv'
<1> USE DEF IInv, pushVars
<1>1. TypeOK'
  BY DEF TypeOK
<1>2. Cuts' = Cuts
  BY DEF Cuts
<1>3. CutOnlyByPushes'
  BY <1>2 DEF CutOnlyByPushes
<1>4. NodesDiffer' /\ PushesFollow' /\ ListIsRest' /\ RunsInSwapOrder'
  BY DEF NodesDiffer, PushesFollow, ListIsRest, RunsInSwapOrder, Places
<1> QED
  BY <1>1, <1>3, <1>4

(* What the list tells of its tail and head.                                *)
LEMMA TailOfList ==
    ASSUME IInv
    PROVE  /\ Len(list) \in Nat \ {0} /\ tail = list[1] /\ head = list[Len(list)]
           /\ tail = head => Len(list) = 1
           /\ link[tail] = Null /\ Cuts = {} => Len(list) = 1
           /\ link[tail] # Null => Len(list) > 1 /\ tail \notin Cuts /\ link[tail] = list[2]
<1> USE DEF IInv
<1>1. Len(list) \in Nat \ {0}
  BY EmptySeq DEF TypeOK, CutOnlyByPushes
<1>2. 1 \in Places /\ Len(list) \in Places
  BY <1>1 DEF Places
<1>3. tail = list[1] /\ head = list[Len(list)]
  BY DEF CutOnlyByPushes
<1>4. link[list[1]] = IF 1 = Len(list) \/ list[1] \in Cuts THEN Null ELSE list[2]
  <2>1. link[list[1]] = IF 1 = Len(list) \/ list[1] \in Cuts THEN Null ELSE list[1 + 1]
    BY <1>2 DEF CutOnlyByPushes, Places
  <2> QED
    BY <2>1
<1>5. Len(list) # 1 => list[2] # Null
  <2>1. Len(list) # 1 => 2 \in Places
    <3>1. \A n \in Nat \ {0} : n # 1 => 2 \in 1 .. n
      OBVIOUS
    <3> QED
      BY <1>1, <3>1 DEF Places
  <2>2. TypeOK
    OBVIOUS
  <2> HIDE DEF IInv
  <2> QED
    BY <2>1, <2>2, NodesOfList
<1>6. tail = head => Len(list) = 1
  BY <1>2, <1>3 DEF NodesDiffer
<1> QED
  BY <1>1, <1>3, <1>4, <1>5, <1>6

LEMMA PopEmptyKeeps == ASSUME IInv, PopEmpty PROVE IInv'
<1>1. PopKnows' /\ QuietPop'
  BY DEF IInv, PopEmpty, ReturnNull, PopKnows, QuietPop, pushVars
<1> QED
  BY <1>1, LocalStepKeeps DEF PopEmpty, ReturnNull, IInv, TypeOK

LEMMA SeeLastKeeps == ASSUME IInv, SeeLast PROVE IInv'
<1>1. cpc # "link"
  BY DEF SeeLast, AtTask
<1>2. PopKnows'
  BY DEF IInv, SeeLast, AtTask, PopKnows
<1>3. ~overlap => Len(list) = 1
  BY <1>1, TailOfList DEF IInv, SeeLast, QuietPop, Cuts
<1>4. QuietPop'
  BY <1>3 DEF IInv, SeeLast, QuietPop, pushVars
<1> QED
  BY <1>1, <1>2, <1>4, LocalStepKeeps DEF SeeLast, IInv, TypeOK

LEMMA NotLastKeeps == ASSUME IInv, NotLast PROVE IInv'
<1>1. PopKnows' /\ QuietPop'
  BY DEF IInv, NotLast, ReturnNull, PopKnows, QuietPop, pushVars
<1> QED
  BY <1>1, LocalStepKeeps DEF NotLast, ReturnNull, IInv, TypeOK

LEMMA IsLastKeeps == ASSUME IInv, IsLast PROVE IInv'
<1>1. PopKnows'
  <2>1. tail # Stub /\ tail = list[1] /\ Len(list) = 1
    BY TailOfList DEF IInv, IsLast, PopKnows
  <2>2. \A k \in Places : list[k] # Stub
    BY <2>1 DEF Places
  <2> QED
    BY <2>1, <2>2 DEF IsLast, PopKnows, Places
<1>2. QuietPop'
  BY DEF IInv, IsLast, QuietPop, pushVars
<1> QED
  BY <1>1, <1>2, LocalStepKeeps DEF IsLast, IInv, TypeOK

LEMMA LastBlockedKeeps == ASSUME IInv, LastBlocked PROVE IInv'
<1>1. PopKnows' /\ QuietPop'
  BY DEF IInv, LastBlocked, ReturnNull, PopKnows, QuietPop, pushVars
<1> QED
  BY <1>1, LocalStepKeeps DEF LastBlocked, ReturnNull, IInv, TypeOK

LEMMA PopAgainKeeps == ASSUME IInv, PopAgain PROVE IInv'
<1>1. PopKnows' /\ QuietPop'
  BY DEF IInv, PopAgain, PopKnows, QuietPop, pushVars
<1>2. overlap' \in BOOLEAN
  BY DEF PopAgain
<1>3. cpc # "link" /\ cpc' = "pop" /\ UNCHANGED <<link, head, tail, pushVars, stubPrev, list, ran>>
  BY DEF PopAgain
<1> QED
  BY <1>1, <1>2, <1>3, LocalStepKeeps

-----------------------------------------------------------------------------
(* The first node is taken away: what has been linked behind it stays.      *)
LEMMA HeadTaken ==
    ASSUME IInv, link[tail] # Null, list' = Tail(list), tail' = link[tail],
           UNCHANGED <<link, head, pushVars, stubPrev, overlap>>, cpc # "link", cpc' # "link"
    PROVE  /\ list' \in Seq(Node) /\ Len(list') = Len(list) - 1 /\ Len(list) \in Nat /\ Len(list) > 1
           /\ \A k \in Places' : k + 1 \in Places /\ list'[k] = list[k + 1]
           /\ tail' \in Node /\ NodesDiffer' /\ CutOnlyByPushes' /\ PushesFollow'
<1> USE DEF pushVars
<1>1. /\ Len(list) \in Nat /\ Len(list) > 1 /\ tail = list[1] /\ head = list[Len(list)]
      /\ tail \notin Cuts /\ link[tail] = list[2]
  BY TailOfList
<1>2. /\ list' \in Seq(Node) /\ Len(list') = Len(list) - 1
      /\ \A k \in 1 .. Len(list) - 1 : list'[k] = list[k + 1]
  BY HeadRemoved DEF IInv, CutOnlyByPushes
<1>3. \A k \in Places' : k + 1 \in Places /\ list'[k] = list[k + 1] /\ k + 1 # 1
  BY <1>1, <1>2 DEF Places
<1>4. tail' \in Node
  BY <1>1, NodesOfList DEF IInv, Places
<1>5. NodesDiffer'
  <2>1. \A j, k \in Places' : list'[j] = list'[k] => j = k
    <3> SUFFICES ASSUME NEW j \in Places', NEW k \in Places', list'[j] = list'[k] PROVE j = k
      OBVIOUS
    <3>1. j + 1 \in Places /\ k + 1 \in Places /\ list[j + 1] = list[k + 1]
      BY <1>3
    <3>2. \A a, b \in Places : list[a] = list[b] => a = b
      BY DEF IInv, NodesDiffer
    <3>3. j + 1 = k + 1
      BY <3>1, <3>2
    <3> QED
      BY <3>3 DEF Places
  <2>2. \A k \in Places' : list'[k] # Stub => list'[k][2] <= posts'[list'[k][1]]
    BY <1>3 DEF IInv, NodesDiffer
  <2> QED
    BY <2>1, <2>2 DEF NodesDiffer
<1>6. CutOnlyByPushes'
  <2>1. Cuts' = Cuts
    BY DEF Cuts
  <2>2. ASSUME NEW k \in Places'
        PROVE link'[list'[k]] = IF k = Len(list') \/ list'[k] \in Cuts' THEN Null ELSE list'[k + 1]
    <3>1. link[list[k + 1]] = IF k + 1 = Len(list) \/ list[k + 1] \in Cuts THEN Null ELSE list[(k + 1) + 1]
      BY <1>3 DEF IInv, CutOnlyByPushes, Places
    <3>2. (k + 1 = Len(list)) <=> (k = Len(list'))
      BY <1>1, <1>2 DEF Places
    <3>3. k # Len(list') => list'[k + 1] = list[(k + 1) + 1]
      BY <1>1, <1>2 DEF Places
    <3> QED
      BY <1>3, <2>1, <3>1, <3>2, <3>3
  <2>3. list' # <<>> /\ tail' = list'[1] /\ head' = list'[Len(list')]
    <3>1. list'[1] = list[1 + 1]
      BY <1>1, <1>2
    <3>2. list'[Len(list) - 1] = list[(Len(list) - 1) + 1]
      BY <1>1, <1>2
    <3>3. Len(list') # 0
      BY <1>1, <1>2
    <3>4. list' # <<>>
      BY <3>3, EmptySeq
    <3>5. (Len(list) - 1) + 1 = Len(list)
      BY <1>1
    <3> QED
      BY <1>1, <1>2, <3>1, <3>2, <3>4, <3>5
  <2> QED
    BY <2>2, <2>3 DEF CutOnlyByPushes, Places
<1>7. PushesFollow'
  <2> SUFFICES ASSUME NEW t \in pushing
               PROVE posts[t] > 0 /\ Follows(list', prev[t], <<t, posts[t]>>)
    BY DEF PushesFollow
  <2>1. posts[t] > 0 /\ Follows(list, prev[t], <<t, posts[t]>>) /\ prev[t] \in Cuts
    BY DEF IInv, PushesFollow, Cuts
  <2>2. PICK k \in Places : k < Len(list) /\ list[k] = prev[t] /\ list[k + 1] = <<t, posts[t]>>
    BY <2>1 DEF Follows, Places
  <2>3. k # 1
    BY <1>1, <2>1, <2>2
  <2>4. k - 1 \in 1 .. Len(list') /\ k - 1 < Len(list')
    BY <1>1, <1>2, <2>2, <2>3 DEF Places
  <2>5. list'[k - 1] = prev[t] /\ list'[(k - 1) + 1] = <<t, posts[t]>>
    <3>1. list'[k - 1] = list[(k - 1) + 1] /\ list'[k] = list[k + 1]
      BY <1>1, <1>2, <2>2, <2>3 DEF Places
    <3>2. (k - 1) + 1 = k
      BY DEF Places
    <3> QED
      BY <2>2, <3>1, <3>2
  <2> QED
    BY <2>1, <2>4, <2>5 DEF Follows
<1> QED
  BY <1>1, <1>2, <1>3, <1>4, <1>5, <1>6, <1>7

(* The stub at the tail is passed over. *)
LEMMA SkipStubKeeps == ASSUME IInv, SkipStub PROVE IInv'
<1>1. link[tail] # Null /\ tail' = link[tail] /\ list' = Tail(list) /\ cpc # "link" /\ cpc' = "next"
      /\ UNCHANGED <<link, head, pushVars, stubPrev, ran, overlap>> /\ cpc = "pop" /\ tail = Stub
  BY DEF SkipStub
<1>2. /\ list' \in Seq(Node) /\ Len(list') = Len(list) - 1 /\ Len(list) \in Nat /\ Len(list) > 1
      /\ \A k \in Places' : k + 1 \in Places /\ list'[k] = list[k + 1]
      /\ tail' \in Node /\ NodesDiffer' /\ CutOnlyByPushes' /\ PushesFollow'
  BY <1>1, HeadTaken
<1>3. list[1] = Stub /\ 1 \in Places
  BY <1>1, <1>2, TailOfList DEF Places
<1>4. \A k \in Places' : list'[k] # Stub
  <2> SUFFICES ASSUME NEW k \in Places' PROVE list[k + 1] # list[1]
    BY <1>2, <1>3
  <2>1. k + 1 # 1 /\ k + 1 \in Places
    BY <1>2 DEF Places
  <2> QED
    BY <1>3, <2>1 DEF IInv, NodesDiffer
<1>5. TypeOK'
  BY <1>1, <1>2 DEF IInv, TypeOK, pushVars
<1>6. PopKnows'
  <2>1. tail' = list'[1] /\ 1 \in Places'
    BY <1>2 DEF CutOnlyByPushes, Places
  <2> QED
    BY <1>1, <1>4, <2>1 DEF PopKnows
<1>7. ListIsRest'
  <2>1. StubsTo(list, Len(list)) = 1 /\ \A k \in Places : StubsTo(list, k) = 1
    BY <1>2, <1>3 DEF StubsTo, Places
  <2>2. \A k \in 0 .. Len(list') : StubsTo(list', k) = 0
    BY <1>2, <1>4 DEF StubsTo, Places
  <2>3. Len(order') = Len(ran') + Len(list') - StubsTo(list', Len(list'))
    <3>1. Len(order) = Len(ran) + Len(list) - 1 /\ StubsTo(list', Len(list')) = 0
      BY <1>2, <2>1, <2>2 DEF IInv, ListIsRest
    <3>2. Len(ran) \in Nat
      BY LenProperties DEF IInv, TypeOK
    <3> QED
      BY <1>1, <1>2, <3>1, <3>2 DEF pushVars
  <2>4. ASSUME NEW k \in Places' PROVE list'[k] = order'[Len(ran') + k - StubsTo(list', k)]
    <3>1. list[k + 1] = order[Len(ran) + (k + 1) - 1]
      BY <1>2, <1>4, <2>1 DEF IInv, ListIsRest
    <3>2. Len(ran) + (k + 1) - 1 = Len(ran) + k - 0
      BY LenProperties DEF IInv, TypeOK, Places
    <3>3. StubsTo(list', k) = 0
      BY <2>2 DEF Places
    <3> QED
      BY <1>1, <1>2, <3>1, <3>2, <3>3 DEF pushVars
  <2> QED
    BY <2>3, <2>4 DEF ListIsRest
<1>8. RunsInSwapOrder'
  BY <1>1 DEF IInv, RunsInSwapOrder, pushVars
<1>9. QuietPop'
  BY <1>1 DEF IInv, QuietPop, pushVars
<1> QED
  BY <1>2, <1>5, <1>6, <1>7, <1>8, <1>9 DEF IInv

(* A task at the tail is returned and run: it is the oldest not yet run.    *)
LEMMA ReturnTaskKeeps ==
    ASSUME IInv, ReturnTask, link[tail] # Null, tail # Stub, cpc # "link",
           UNCHANGED <<link, head, pushVars, stubPrev, overlap>>
    PROVE  IInv'
<1>1. tail' = link[tail] /\ list' = Tail(list) /\ ran' = Append(ran, tail) /\ cpc' = "run"
  BY DEF ReturnTask
<1>2. /\ list' \in Seq(Node) /\ Len(list') = Len(list) - 1 /\ Len(list) \in Nat /\ Len(list) > 1
      /\ \A k \in Places' : k + 1 \in Places /\ list'[k] = list[k + 1]
      /\ tail' \in Node /\ NodesDiffer' /\ CutOnlyByPushes' /\ PushesFollow'
  BY <1>1, HeadTaken
<1>3. list[1] = tail /\ 1 \in Places
  BY <1>2, TailOfList DEF Places
<1>4. tail \in Task
  BY <1>3, NodesOfList DEF IInv
<1>5. /\ ran' \in Seq(Task) /\ Len(ran') = Len(ran) + 1 /\ Len(ran) \in Nat
      /\ \A k \in 1 .. Len(ran) : ran'[k] = ran[k]
      /\ ran'[Len(ran) + 1] = tail
  BY <1>1, <1>4, AppendProperties, LenProperties DEF IInv, TypeOK
<1>6. TypeOK'
  BY <1>1, <1>2, <1>5 DEF IInv, TypeOK, pushVars
<1>7. PopKnows'
  BY <1>1 DEF PopKnows
<1>8. StubsTo(list, 1) = 0 /\ \A k \in 0 .. Len(list') : StubsTo(list', k) = StubsTo(list, k + 1)
  <2>1. StubsTo(list, 1) = 0
    BY <1>3 DEF StubsTo
  <2>2. ASSUME NEW k \in 0 .. Len(list') PROVE StubsTo(list', k) = StubsTo(list, k + 1)
    <3>1. ASSUME NEW j \in 1 .. k, list'[j] = Stub PROVE \E i \in 1 .. k + 1 : list[i] = Stub
      <4>1. j \in Places' /\ j + 1 \in 1 .. k + 1
        BY <1>2 DEF Places
      <4> QED
        BY <1>2, <3>1, <4>1
    <3>2. ASSUME NEW i \in 1 .. k + 1, list[i] = Stub PROVE \E j \in 1 .. k : list'[j] = Stub
      <4>1. i # 1
        BY <1>3, <3>2
      <4>2. i - 1 \in 1 .. k /\ i - 1 \in Places' /\ (i - 1) + 1 = i
        BY <1>2, <4>1 DEF Places
      <4>3. list'[i - 1] = Stub
        BY <1>2, <3>2, <4>2
      <4> QED
        BY <4>2, <4>3
    <3> QED
      BY <3>1, <3>2 DEF StubsTo
  <2> QED
    BY <2>1, <2>2
<1>9. ListIsRest'
  <2>1. Len(list') \in 0 .. Len(list') /\ Len(list') + 1 = Len(list)
    BY <1>2
  <2>2. Len(order') = Len(ran') + Len(list') - StubsTo(list', Len(list'))
    <3>1. Len(order) = Len(ran) + Len(list) - StubsTo(list, Len(list))
      BY DEF IInv, ListIsRest
    <3>2. StubsTo(list', Len(list')) = StubsTo(list, Len(list))
      BY <1>8, <2>1
    <3>3. StubsTo(list, Len(list)) \in Int
      BY DEF StubsTo
    <3>4. \A r, l, c \in Int : r + l - c = (r + 1) + (l - 1) - c
      OBVIOUS
    <3>5. Len(ran) + Len(list) - StubsTo(list, Len(list))
            = (Len(ran) + 1) + (Len(list) - 1) - StubsTo(list, Len(list))
      BY <1>2, <1>5, <3>3, <3>4
    <3> QED
      BY <1>2, <1>5, <3>1, <3>2, <3>5 DEF pushVars
  <2>3. ASSUME NEW k \in Places', list'[k] # Stub
        PROVE  list'[k] = order'[Len(ran') + k - StubsTo(list', k)]
    <3>1. list[k + 1] = order[Len(ran) + (k + 1) - StubsTo(list, k + 1)]
      BY <1>2, <2>3 DEF IInv, ListIsRest
    <3>2. StubsTo(list', k) = StubsTo(list, k + 1) /\ StubsTo(list', k) \in Int /\ k \in Nat
      BY <1>2, <1>8 DEF Places, StubsTo
    <3>3. Len(ran) + (k + 1) - StubsTo(list, k + 1) = Len(ran') + k - StubsTo(list', k)
      <4>1. ASSUME NEW r \in Int, NEW i \in Int, NEW c \in Int PROVE r + (i + 1) - c = (r + 1) + i - c
        OBVIOUS
      <4>2. Len(ran) \in Int /\ k \in Int /\ StubsTo(list, k + 1) \in Int
        BY <1>5, <3>2
      <4>3. Len(ran) + (k + 1) - StubsTo(list, k + 1) = (Len(ran) + 1) + k - StubsTo(list, k + 1)
        BY <4>1, <4>2
      <4> QED
        BY <1>5, <3>2, <4>3
    <3> QED
      BY <1>2, <3>1, <3>3 DEF pushVars
  <2> QED
    BY <2>2, <2>3 DEF ListIsRest
<1>10. RunsInSwapOrder'
  <2>1. tail = order[Len(ran) + 1 - StubsTo(list, 1)] /\ Len(ran) + 1 - StubsTo(list, 1) \in 1 .. Len(order)
    BY <1>3, PlaceInOrder DEF IInv, ListIsRest
  <2>2. Len(ran) + 1 - StubsTo(list, 1) = Len(ran) + 1
    BY <1>5, <1>8
  <2>3. Len(ran) <= Len(order) /\ \A k \in 1 .. Len(ran) : ran[k] = order[k]
    BY DEF IInv, RunsInSwapOrder
  <2>4. \A k \in 1 .. Len(ran') : k \in 1 .. Len(ran) \/ k = Len(ran) + 1
    BY <1>5
  <2>5. \A k \in 1 .. Len(ran') : ran'[k] = order[k]
    BY <1>5, <2>1, <2>2, <2>3, <2>4
  <2>6. Len(ran') <= Len(order)
    BY <1>5, <2>1, <2>2
  <2> QED
    BY <2>5, <2>6 DEF RunsInSwapOrder, pushVars
<1>11. QuietPop'
  BY <1>1 DEF IInv, QuietPop, pushVars
<1> QED
  BY <1>2, <1>6, <1>7, <1>9, <1>10, <1>11 DEF IInv

LEMMA PopNextKeeps == ASSUME IInv, PopNext PROVE IInv'
<1>1. tail # Stub /\ cpc # "link"
  BY DEF IInv, PopKnows, PopNext, AtTask
<1> QED
  BY <1>1, ReturnTaskKeeps DEF PopNext

LEMMA PopLastKeeps == ASSUME IInv, PopLast PROVE IInv'
<1>1. tail # Stub /\ cpc # "link"
  BY DEF IInv, PopKnows, PopLast
<1> QED
  BY <1>1, ReturnTaskKeeps DEF PopLast

-----------------------------------------------------------------------------
(* The push of the stub: it is out of the list until its swap, ...          *)
LEMMA ClearStubKeeps == ASSUME IInv, ClearStub PROVE IInv'
<1>1. /\ cpc = "clear" /\ cpc' = "swap" /\ link' = [link EXCEPT ![Stub] = Null]
      /\ UNCHANGED <<head, tail, posts, prev, pushing, order, stubPrev, list, ran, overlap>>
  BY DEF ClearStub, pushVars
<1>2. Stub \in Node
  BY DEF Node
<1>3. \A n \in Node : n # Stub => link'[n] = link[n]
  BY <1>1 DEF IInv, TypeOK
<1>4. link'[Stub] = Null /\ TypeOK'
  BY <1>1, <1>2 DEF IInv, TypeOK
<1>5. \A k \in Places : list[k] # Stub /\ link'[list[k]] = link[list[k]]
  BY <1>1, <1>3, NodesOfList DEF IInv, PopKnows
<1>6. CutOnlyByPushes'
  <2>1. Cuts' = Cuts
    BY <1>1 DEF Cuts
  <2> QED
    BY <1>1, <1>5, <2>1 DEF IInv, CutOnlyByPushes, Places
<1>7. PopKnows'
  BY <1>1, <1>4, <1>5 DEF IInv, PopKnows, Places
<1>8. NodesDiffer' /\ PushesFollow' /\ ListIsRest' /\ RunsInSwapOrder' /\ QuietPop'
  BY <1>1 DEF IInv, NodesDiffer, PushesFollow, ListIsRest, RunsInSwapOrder, QuietPop, Places
<1> QED
  BY <1>4, <1>6, <1>7, <1>8 DEF IInv

(* ... comes last in it, which cuts it as the push of a task does, ...      *)
LEMMA SwapStubKeeps == ASSUME IInv, SwapStub PROVE IInv'
<1> DEFINE n == Len(list)
<1>1. /\ cpc = "swap" /\ cpc' = "link" /\ stubPrev' = head /\ head' = Stub /\ list' = Append(list, Stub)
      /\ UNCHANGED <<link, tail, posts, prev, pushing, order, ran, overlap>>
  BY DEF SwapStub, pushVars
<1>2. Stub \in Node /\ TypeOK /\ tail # Stub
  BY <1>1 DEF IInv, Node, PopKnows
<1>3. /\ list' \in Seq(Node) /\ n \in Nat /\ Len(list') = n + 1
      /\ \A k \in Places : list'[k] = list[k]
      /\ list'[n + 1] = Stub
  BY <1>1, <1>2, Appended
<1>4. \A k \in Places : list[k] # Stub
  BY <1>1 DEF IInv, PopKnows
<1>5. n > 0 /\ head = list[n] /\ Places' = Places \cup {n + 1} /\ n \in Places /\ tail = list[1]
  BY <1>3, TailOfList DEF Places
<1>6. TypeOK'
  BY <1>1, <1>2, <1>3 DEF TypeOK
<1>7. NodesDiffer'
  <2>1. \A j, k \in Places' : list'[j] = list'[k] => j = k
    BY <1>3, <1>4, <1>5 DEF IInv, NodesDiffer, Places
  <2>2. \A k \in Places' : list'[k] # Stub => list'[k][2] <= posts'[list'[k][1]]
    BY <1>1, <1>3, <1>5 DEF IInv, NodesDiffer
  <2> QED
    BY <2>1, <2>2 DEF NodesDiffer
<1>8. CutOnlyByPushes'
  <2>1. Cuts' = Cuts \cup {head}
    BY <1>1 DEF Cuts
  <2>2. link'[list'[n + 1]] = Null
    BY <1>1, <1>3 DEF IInv, PopKnows
  <2>3. ASSUME NEW k \in Places
        PROVE link'[list'[k]] = IF k = n + 1 \/ list'[k] \in Cuts' THEN Null ELSE list'[k + 1]
    <3>1. link[list[k]] = IF k = n \/ list[k] \in Cuts THEN Null ELSE list[k + 1]
      BY DEF IInv, CutOnlyByPushes, Places
    <3>2. CASE k = n
      BY <1>1, <1>3, <1>5, <2>1, <3>1, <3>2
    <3>3. CASE k # n
      <4>1. k + 1 \in Places /\ k # n + 1
        BY <1>3, <3>3 DEF Places
      <4>2. list[k] # head
        BY <1>5, <3>3 DEF IInv, NodesDiffer
      <4> QED
        BY <1>1, <1>3, <2>1, <3>1, <3>3, <4>1, <4>2
    <3> QED
      BY <3>2, <3>3
  <2>4. 1 \in Places
    BY <1>3, <1>5 DEF Places
  <2>5. list' # <<>> /\ tail' = list'[1] /\ head' = list'[n + 1]
    BY <1>1, <1>3, <1>5, <2>4, EmptySeq
  <2> QED
    BY <1>3, <1>5, <2>2, <2>3, <2>5 DEF CutOnlyByPushes, Places
<1>9. PushesFollow'
  BY <1>1, <1>2, FollowsKept DEF IInv, PushesFollow
<1>10. PopKnows'
  <2>1. n \in 1 .. Len(list') /\ n < Len(list') /\ list'[n] = head /\ list'[n + 1] = Stub
    BY <1>3, <1>5
  <2> QED
    BY <1>1, <1>2, <2>1 DEF PopKnows, Follows
<1>11. ListIsRest'
  <2>1. /\ \A k \in Places : StubsTo(list', k) = StubsTo(list, k)
        /\ StubsTo(list', n + 1) = 1
    BY <1>1, <1>2, <1>3, StubsKept DEF Places
  <2>2. StubsTo(list, n) = 0
    BY <1>4 DEF StubsTo, Places
  <2>3. Len(order) = Len(ran) + n - 0
    BY <2>2 DEF IInv, ListIsRest
  <2>4. Len(ran) \in Nat
    BY LenProperties DEF IInv, TypeOK
  <2>5. Len(order) = Len(ran) + (n + 1) - 1
    BY <1>3, <2>3, <2>4
  <2>6. \A k \in Places : list'[k] # Stub => list'[k] = order[Len(ran) + k - StubsTo(list', k)]
    BY <1>3, <2>1 DEF IInv, ListIsRest
  <2> QED
    BY <1>1, <1>3, <1>5, <2>1, <2>5, <2>6 DEF ListIsRest
<1>12. RunsInSwapOrder'
  BY <1>1 DEF IInv, RunsInSwapOrder
<1>13. QuietPop'
  <2>1. ~overlap => pushing = {} /\ n = 1
    BY <1>1 DEF IInv, QuietPop
  <2>2. n = 1 => Len(list') = 2
    BY <1>3
  <2> QED
    BY <1>1, <2>1, <2>2 DEF QuietPop
<1> QED
  BY <1>6, <1>7, <1>8, <1>9, <1>10, <1>11, <1>12, <1>13 DEF IInv

(* ... and is linked behind the node that was the head.                     *)
LEMMA LinkStubKeeps == ASSUME IInv, LinkStub PROVE IInv'
<1>1. /\ cpc = "link" /\ cpc' = "last" /\ link' = [link EXCEPT ![stubPrev] = Stub]
      /\ UNCHANGED <<head, tail, posts, prev, pushing, order, stubPrev, list, ran, overlap>>
  BY DEF LinkStub, pushVars
<1>2. Follows(list, stubPrev, Stub) /\ Stub \in Node /\ TypeOK /\ NodesDiffer /\ CutOnlyByPushes
  BY <1>1 DEF IInv, PopKnows, Node
<1>3. stubPrev \in Node
  BY <1>2, NodesOfList DEF Follows, Places
<1>4. TypeOK'
  BY <1>1, <1>2 DEF TypeOK
<1>5. ASSUME NEW t \in pushing PROVE prev[t] # stubPrev
  <2>1. Follows(list, prev[t], <<t, posts[t]>>) /\ <<t, posts[t]>> # Stub
    BY DEF IInv, PushesFollow, TypeOK, Task
  <2> QED
    BY <1>2, <2>1, OneFollower
<1>6. CutOnlyByPushes'
  <2>1. stubPrev \notin Cuts' /\ Cuts \subseteq Cuts' \cup {stubPrev} /\ Cuts' \subseteq Cuts
    BY <1>1, <1>5 DEF Cuts
  <2> QED
    BY <1>1, <1>2, <1>3, <2>1, Linked
<1>7. PopKnows'
  BY <1>1 DEF IInv, PopKnows
<1>8. NodesDiffer' /\ PushesFollow' /\ ListIsRest' /\ RunsInSwapOrder' /\ QuietPop'
  BY <1>1 DEF IInv, NodesDiffer, PushesFollow, ListIsRest, RunsInSwapOrder, QuietPop, Places
<1> QED
  BY <1>4, <1>6, <1>7, <1>8 DEF IInv

-----------------------------------------------------------------------------
LEMMA StutterKeeps == ASSUME IInv, UNCHANGED vars PROVE IInv'
<1>1. UNCHANGED <<link, head, tail, pushVars, stubPrev, list, order, ran, overlap, cpc, posts, prev, pushing>>
  BY DEF vars, pushVars
<1>2. TypeOK' /\ Cuts' = Cuts
  BY <1>1 DEF IInv, TypeOK, Cuts
<1>3. CutOnlyByPushes' /\ NodesDiffer' /\ PushesFollow'
  BY <1>1, <1>2 DEF IInv, CutOnlyByPushes, NodesDiffer, PushesFollow, Places
<1>4. PopKnows' /\ ListIsRest' /\ RunsInSwapOrder' /\ QuietPop'
  BY <1>1 DEF IInv, PopKnows, ListIsRest, RunsInSwapOrder, QuietPop, Places
<1> QED
  BY <1>2, <1>3, <1>4 DEF IInv

LEMMA NextKeeps == ASSUME IInv, [Next]_vars PROVE IInv'
<1>1. CASE PopEmpty
  BY <1>1, PopEmptyKeeps
<1>2. CASE SkipStub
  BY <1>2, SkipStubKeeps
<1>3. CASE PopNext
  BY <1>3, PopNextKeeps
<1>4. CASE SeeLast
  BY <1>4, SeeLastKeeps
<1>5. CASE NotLast
  BY <1>5, NotLastKeeps
<1>6. CASE IsLast
  BY <1>6, IsLastKeeps
<1>7. CASE ClearStub
  BY <1>7, ClearStubKeeps
<1>8. CASE SwapStub
  BY <1>8, SwapStubKeeps
<1>9. CASE LinkStub
  BY <1>9, LinkStubKeeps
<1>10. CASE PopLast
  BY <1>10, PopLastKeeps
<1>11. CASE LastBlocked
  BY <1>11, LastBlockedKeeps
<1>12. CASE PopAgain
  BY <1>12, PopAgainKeeps
<1>13. CASE \E t \in Thread : Post(t)
  BY <1>13, SwapKeeps, LinkKeeps DEF Post
<1>14. CASE UNCHANGED vars
  BY <1>14, StutterKeeps
<1> QED
  BY <1>1, <1>2, <1>3, <1>4, <1>5, <1>6, <1>7, <1>8, <1>9, <1>10, <1>11, <1>12, <1>13, <1>14
  DEF Next, Loop

(* The inductive invariant: what the list, the tasks run and the place in   *)
(* _sc_mpsc_pop have to do with each other, after every access.             *)
THEOREM Invariance == Spec => []IInv
<1>1. Init => IInv
  BY InitInv
<1>2. IInv /\ [Next]_vars => IInv'
  BY NextKeeps
<1> QED
  BY <1>1, <1>2, PTL DEF Spec

(* The pointers of _sc_mpsc_push and _sc_mpsc_pop are always of nodes.      *)
THEOREM NodesAreTasks == Spec => []TypeOK
<1>1. IInv => TypeOK
  BY DEF IInv
<1> QED
  BY <1>1, Invariance, PTL

(* From the tail to the head the nodes are linked in the order of their     *)
(* swaps, and cut just where a push stands between its two steps: no link   *)
(* made by _sc_mpsc_push is ever undone, by the stub's either.              *)
THEOREM ListIsWhole == Spec => []CutOnlyByPushes
<1>1. IInv => CutOnlyByPushes
  BY DEF IInv
<1> QED
  BY <1>1, Invariance, PTL

(* Whatever the threads' interleaving, the tick runs the tasks in the order *)
(* of their swaps, each once.                                               *)
THEOREM RunsInOrder == Spec => []RunsInSwapOrder
<1>1. IInv => RunsInSwapOrder
  BY DEF IInv
<1> QED
  BY <1>1, Invariance, PTL

(* Two sequences, one the beginning of the other and as long, are the same. *)
LEMMA SameTasks ==
    ASSUME TypeOK, RunsInSwapOrder, Len(ran) = Len(order)
    PROVE  ran = order
BY SeqEqual DEF TypeOK, RunsInSwapOrder

(* A step of pop that returns NULL with no push seen finds nothing waiting. *)
LEMMA QuietReturn ==
    ASSUME IInv, Next, cpc # "rest", cpc' = "rest", ~overlap
    PROVE  ran = order
<1>1. pushing = {} /\ Len(list) \in Nat \ {0} /\ tail = list[1]
  BY TailOfList DEF IInv, QuietPop
<1>2. PopEmpty
  <2>1. ~ \E t \in Thread : Post(t)
    BY DEF Post, Swap, Link
  <2>2. ~SkipStub /\ ~PopNext /\ ~PopLast
    BY DEF SkipStub, PopNext, PopLast, ReturnTask
  <2>3. ~SeeLast /\ ~IsLast /\ ~ClearStub /\ ~SwapStub /\ ~LinkStub /\ ~PopAgain
    BY DEF SeeLast, IsLast, ClearStub, SwapStub, LinkStub, PopAgain
  <2>4. ~NotLast
    <3>1. cpc = "compare" => Len(list) = 1
      BY DEF IInv, QuietPop
    <3> QED
      BY <3>1, TailOfList DEF NotLast
  <2>5. ~LastBlocked
    <3>1. cpc = "last" => Len(list) = 2 /\ Cuts = {}
      BY <1>1 DEF IInv, QuietPop, Cuts
    <3> QED
      BY <3>1, TailOfList DEF LastBlocked
  <2> QED
    BY <2>1, <2>2, <2>3, <2>4, <2>5 DEF Next, Loop
<1>3. Cuts = {}
  BY <1>1, <1>2 DEF Cuts, PopEmpty
<1>4. Len(list) = 1 /\ list[1] = Stub
  BY <1>1, <1>2, <1>3, TailOfList DEF PopEmpty
<1>5. StubsTo(list, Len(list)) = 1
  BY <1>4 DEF StubsTo
<1>6. Len(ran) = Len(order)
  <2>1. Len(order) = Len(ran) + 1 - 1 /\ Len(ran) \in Nat
    BY <1>4, <1>5, LenProperties DEF IInv, ListIsRest, TypeOK
  <2> QED
    BY <2>1
<1> QED
  BY <1>6, SameTasks DEF IInv

(* A pop that no push overlaps returns NULL only when every task posted has *)
(* been run: it never gives up at a gap that is not there.                  *)
THEOREM QuietPopSucceeds == Spec => QuietPopFindsTask
<1>1. IInv /\ [Next]_vars => [cpc # "rest" /\ cpc' = "rest" /\ ~overlap => ran = order]_vars
  BY QuietReturn
<1> QED
  BY <1>1, Invariance, PTL DEF Spec, QuietPopFindsTask
=================================================================================
