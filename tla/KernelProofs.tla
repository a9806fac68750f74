------------------------------ MODULE KernelProofs ------------------------------
(***************************************************************************)
(* Proofs about the parts of silvercore-kernel in the composition that the *)
(* run of MCKernel checks, one section each: the bump allocator, the posts *)
(* of tasks, the graphics context, the slab pool, the scene of the Python  *)
(* binding, the scene, and the links and places of the layout.  Each holds *)
(* for every value of the constants and every order of its calls; a step   *)
(* of one part leaves the others alone.                                    *)
(***************************************************************************)
EXTENDS MCKernel, SequenceTheorems, FiniteSetTheorems, WellFoundedInduction, TLAPS

(* The elements of a sequence, over its domain.                             *)
LEMMA Elements ==
    ASSUME NEW S, NEW t \in Seq(S)
    PROVE  /\ Len(t) \in Nat /\ DOMAIN t = 1 .. Len(t)
           /\ \A d \in DOMAIN t : t[d] \in S
BY ElementOfSeq, LenProperties

(* A number divided without a remainder is a multiple.                      *)
LEMMA Multiple == ASSUME NEW m \in Nat, NEW a \in Nat \ {0}, m % a = 0
                  PROVE  m = (m \div a) * a /\ m \div a \in Nat
BY SMTT(30)

USE ArenaAssumption

-----------------------------------------------------------------------------
(* The arithmetic of a request. *)

(* Rounding up to a multiple: the quotient is the least that reaches y. *)
LEMMA RoundUp == ASSUME NEW y \in Nat, NEW a \in Nat \ {0}, NEW k \in Nat, y <= k * a
                 PROVE  /\ ((y + a - 1) \div a) * a \in Nat
                        /\ y <= ((y + a - 1) \div a) * a
                        /\ ((y + a - 1) \div a) * a <= k * a
<1> DEFINE q == (y + a - 1) \div a
<1>1. q \in Nat /\ q * a <= y + a - 1 /\ y + a - 1 < q * a + a
  BY SMTT(30)
<1>2. q <= k
  <2> SUFFICES ASSUME k < q PROVE FALSE
    BY <1>1
  <2>1. (k + 1) * a <= q * a
    BY <1>1
  <2> QED
    BY <1>1, <2>1
<1>3. q * a <= k * a
  BY <1>1, <1>2
<1> HIDE DEF q
<1>4. q * a \in Nat /\ y <= q * a /\ q * a <= k * a
  BY <1>1, <1>3
<1> QED
  BY <1>4 DEF q

(* A request that passes both tests of sc_arena_push_aligned lies between   *)
(* the offset and the end, although the sums are taken in machine integers. *)
LEMMA FitsInArena ==
    ASSUME NEW x \in 0 .. Size, NEW a \in Aligns, NEW n \in Sizes,
           AlignUp(x, a) >= x, n <= Room(AlignUp(x, a))
    PROVE  /\ AlignUp(x, a) \in x .. Size
           /\ AlignUp(x, a) + n <= Size
           /\ (AlignUp(x, a) + n) % Word = AlignUp(x, a) + n
<1>1. /\ Word \in Nat /\ Size \in Nat /\ Size < Word /\ x \in Nat /\ x <= Size
      /\ a \in Nat \ {0} /\ a < Word /\ n \in Nat
  OBVIOUS
<1>2. PICK k \in Nat : Size = k * a
  <2>1. Size % a = 0
    BY SizeIsAligned
  <2> QED
    BY <1>1, <2>1, Multiple
<1>3. AlignUp(x, a) \in x .. Size
  <2>1. CASE x + a - 1 < Word
    <3>1. AlignUp(x, a) = ((x + a - 1) \div a) * a
      BY <1>1, <2>1 DEF AlignUp
    <3> DEFINE up == ((x + a - 1) \div a) * a
    <3>2. up \in Nat /\ x <= up /\ up <= k * a
      <4>1. x <= k * a
        BY <1>1, <1>2
      <4> QED
        BY <1>1, <4>1, RoundUp
    <3>3. AlignUp(x, a) = up
      BY <3>1
    <3> HIDE DEF up
    <3> QED
      BY <1>1, <1>2, <3>2, <3>3
  <2>2. CASE x + a - 1 >= Word          \* the sum wraps, and the test sees it
    <3> DEFINE y == (x + a - 1) % Word
    <3>1. y = x + a - 1 - Word /\ y \in Nat /\ y < a
      BY <1>1, <2>2
    <3> HIDE DEF y
    <3>2. y \div a = 0
      BY <1>1, <3>1
    <3>3. AlignUp(x, a) = 0
      BY <1>1, <3>2 DEF AlignUp, y
    <3> QED
      BY <1>1, <2>2, <3>3
  <2> QED
    BY <1>1, <2>1, <2>2
<1>4. Room(AlignUp(x, a)) = Size - AlignUp(x, a)
  BY <1>1, <1>3 DEF Room
<1> QED
  BY <1>1, <1>3, <1>4

-----------------------------------------------------------------------------
(* The inductive strengthening: a pop returns to an offset above everything *)
(* but the last allocation, and every offset to return to is in the arena.  *)
PopKeepsOlder == /\ prev_off <= Size
                 /\ \A x \in live : x.n < pushes => x.end <= prev_off
SavedInArena == \A d \in DOMAIN temps : temps[d].off <= Size

IInv == LiveIsIntact /\ PopKeepsOlder /\ SavedInArena

(* An empty arena is sound. *)
LEMMA InitInv == Init => IInv
BY DEF Init, IInv, LiveIsIntact, TypeOK, InBounds, Disjoint, SectionsKeepOlder,
       PopKeepsOlder, SavedInArena

(* A push puts its allocation above everything in use.                      *)
LEMMA PushKeeps == ASSUME IInv, NEW nbytes \in Sizes, NEW a \in Aligns, Push(nbytes, a)
                   PROVE  IInv'
<1> USE DEF IInv, LiveIsIntact
<1> DEFINE aligned == AlignUp(offset, a)
           new == [n |-> pushes + 1, at |-> aligned, end |-> aligned + nbytes]
<1>1. offset \in 0 .. Size
  BY DEF TypeOK, InBounds
<1>2. /\ aligned \in offset .. Size /\ aligned + nbytes <= Size
      /\ offset' = aligned + nbytes
  BY <1>1, FitsInArena DEF Push, Fits
<1>3. /\ prev_off' = offset /\ pushes' = pushes + 1 /\ temps' = temps
      /\ live' = live \cup {new}
  BY DEF Push
<1>4. pushes \in Nat /\ nbytes \in Nat /\ Size < Word /\ Size \in Nat
  BY DEF TypeOK
<1> HIDE DEF aligned
<1>5. TypeOK'
  <2>1. live' \subseteq [n : 1 .. pushes', at : Nat, end : Nat]
    BY <1>1, <1>2, <1>3, <1>4 DEF TypeOK
  <2>2. temps' \in Seq([off : 0 .. (Word - 1), before : 0 .. pushes'])
    <3> DEFINE S == [off : 0 .. (Word - 1), before : 0 .. pushes]
               T == [off : 0 .. (Word - 1), before : 0 .. pushes']
    <3>1. S \subseteq T /\ temps \in Seq(S)
      BY <1>3, <1>4 DEF TypeOK
    <3> HIDE DEF S, T
    <3>2. temps \in Seq(T)
      BY <3>1, SeqMonotonic
    <3> QED
      BY <1>3, <3>2 DEF T
  <2> QED
    BY <1>1, <1>2, <1>3, <1>4, <2>1, <2>2 DEF TypeOK
<1>6. \A x \in live : x.n \in 1 .. pushes /\ x.end \in Nat /\ x.end <= offset
  BY DEF TypeOK, InBounds
<1>7. InBounds'
  BY <1>1, <1>2, <1>3, <1>4, <1>6 DEF InBounds
<1>8. Disjoint'
  BY <1>1, <1>2, <1>3, <1>4, <1>6 DEF Disjoint
<1>9. SectionsKeepOlder'
  <2>1. temps \in Seq([off : 0 .. (Word - 1), before : 0 .. pushes])
    BY DEF TypeOK
  <2>2. \A d \in DOMAIN temps : temps[d].before \in 0 .. pushes
    <3> DEFINE S == [off : 0 .. (Word - 1), before : 0 .. pushes]
    <3>1. temps \in Seq(S)
      BY <2>1
    <3>2. \A r \in S : r.before \in 0 .. pushes
      OBVIOUS
    <3> HIDE DEF S
    <3> QED
      BY <3>1, <3>2, Elements
  <2> QED
    BY <1>3, <1>4, <2>2 DEF SectionsKeepOlder
<1>10. PopKeepsOlder' /\ SavedInArena'
  BY <1>1, <1>3, <1>4, <1>6 DEF PopKeepsOlder, SavedInArena
<1> QED
  BY <1>5, <1>7, <1>8, <1>9, <1>10

(* A pop and a reset give memory back and keep what the rest of the program *)
(* uses below the offset.                                                   *)
LEMMA PopKeeps == ASSUME IInv, Pop PROVE IInv'
<1> USE DEF IInv, LiveIsIntact, Pop
<1>1. live' \subseteq live
  OBVIOUS
<1>2. TypeOK'
  BY <1>1 DEF TypeOK
<1>3. InBounds'
  <2>1. \A x \in live' : x.n \in 1 .. pushes /\ x.n # pushes /\ x \in live
    BY DEF TypeOK
  <2>2. \A x \in live' : x.n < pushes
    BY <2>1 DEF TypeOK
  <2> QED
    BY <2>1, <2>2 DEF InBounds, PopKeepsOlder
<1>4. Disjoint' /\ SectionsKeepOlder' /\ PopKeepsOlder' /\ SavedInArena'
  BY <1>1 DEF Disjoint, SectionsKeepOlder, PopKeepsOlder, SavedInArena
<1> QED
  BY <1>2, <1>3, <1>4

LEMMA ResetKeeps == ASSUME IInv, Reset PROVE IInv'
BY DEF IInv, LiveIsIntact, Reset, TypeOK, InBounds, Disjoint, SectionsKeepOlder,
       PopKeepsOlder, SavedInArena

(* A section remembers an offset above everything in use ...                *)
LEMMA TempBeginKeeps == ASSUME IInv, TempBegin PROVE IInv'
<1> USE DEF IInv, LiveIsIntact, TempBegin
<1> DEFINE opened == [off |-> offset, before |-> pushes]
<1>1. temps \in Seq([off : 0 .. (Word - 1), before : 0 .. pushes])
      /\ opened \in [off : 0 .. (Word - 1), before : 0 .. pushes]
  BY DEF TypeOK
<1>2. /\ temps' \in Seq([off : 0 .. (Word - 1), before : 0 .. pushes])
      /\ Len(temps') = Len(temps) + 1
      /\ \A d \in 1 .. Len(temps) : temps'[d] = temps[d]
      /\ temps'[Len(temps) + 1] = opened
  BY <1>1, AppendProperties
<1>3. Len(temps) \in Nat /\ DOMAIN temps = 1 .. Len(temps)
      /\ DOMAIN temps' = 1 .. (Len(temps) + 1)
  BY <1>1, <1>2, Elements
<1>4. \A d \in DOMAIN temps' : \/ d \in DOMAIN temps /\ temps'[d] = temps[d]
                              \/ temps'[d] = opened
  BY <1>2, <1>3
<1>5. TypeOK'
  BY <1>2 DEF TypeOK
<1>6. InBounds' /\ Disjoint' /\ PopKeepsOlder'
  BY DEF InBounds, Disjoint, PopKeepsOlder
<1>7. opened.off = offset /\ live' = live
  OBVIOUS
<1>8. SavedInArena'
  BY <1>4, <1>7 DEF SavedInArena, InBounds
<1>9. SectionsKeepOlder'
  BY <1>4, <1>7 DEF SectionsKeepOlder, InBounds
<1> QED
  BY <1>5, <1>6, <1>8, <1>9

(* ... and its end gives back what was pushed since.                        *)
LEMMA TempEndKeeps == ASSUME IInv, TempEnd PROVE IInv'
<1> USE DEF IInv, LiveIsIntact, TempEnd
<1> DEFINE last == Len(temps)
<1>1. /\ temps \in Seq([off : 0 .. (Word - 1), before : 0 .. pushes])
      /\ last \in Nat \ {0} /\ DOMAIN temps = 1 .. last /\ Innermost = temps[last]
      /\ \A d \in DOMAIN temps : temps[d] \in [off : 0 .. (Word - 1), before : 0 .. pushes]
  BY Elements, EmptySeq DEF TypeOK, Innermost
<1>2. /\ temps' \in Seq([off : 0 .. (Word - 1), before : 0 .. pushes])
      /\ \A d \in DOMAIN temps' : d \in DOMAIN temps /\ temps'[d] = temps[d]
  <2> HIDE DEF last
  <2>1. temps' = SubSeq(temps, 1, last - 1) /\ \A d \in 1 .. last - 1 : d \in DOMAIN temps
    BY <1>1 DEF last
  <2>2. /\ temps' \in Seq([off : 0 .. (Word - 1), before : 0 .. pushes])
        /\ Len(temps') = last - 1 /\ \A d \in 1 .. last - 1 : temps'[d] = temps[d]
    <3> DEFINE S == [off : 0 .. (Word - 1), before : 0 .. pushes]
    <3>1. \A d \in 1 .. last - 1 : temps[d] \in S
      BY <1>1, <2>1
    <3>2. 1 \in Int /\ last - 1 \in Int /\ last - 1 >= 0
      BY <1>1
    <3> HIDE DEF S
    <3>3. /\ SubSeq(temps, 1, last - 1) \in Seq(S)
          /\ Len(SubSeq(temps, 1, last - 1)) = IF 1 <= last - 1 THEN last - 1 - 1 + 1 ELSE 0
          /\ \A d \in 1 .. (last - 1 - 1 + 1) : SubSeq(temps, 1, last - 1)[d] = temps[1 + d - 1]
      BY <3>1, <3>2, SubSeqProperties
    <3>4. \A d \in 1 .. last - 1 : 1 + d - 1 = d /\ d \in 1 .. (last - 1 - 1 + 1)
      BY <3>2
    <3> QED
      BY <2>1, <3>2, <3>3, <3>4 DEF S
  <2>3. DOMAIN temps' = 1 .. last - 1
    BY <2>2, Elements
  <2> QED
    BY <2>1, <2>2, <2>3
<1>3. live' \subseteq live /\ \A x \in live' : x.n <= temps[last].before
  BY <1>1
<1>4. offset' = temps[last].off /\ temps[last].off \in 0 .. (Word - 1)
  BY <1>1
<1>5. TypeOK'
  BY <1>2, <1>3, <1>4 DEF TypeOK
<1>6. InBounds'
  BY <1>1, <1>3, <1>4 DEF InBounds, SectionsKeepOlder, SavedInArena
<1>7. Disjoint' /\ PopKeepsOlder'
  BY <1>3 DEF Disjoint, PopKeepsOlder
<1>8. SectionsKeepOlder' /\ SavedInArena'
  BY <1>2, <1>3 DEF SectionsKeepOlder, SavedInArena
<1> QED
  BY <1>5, <1>6, <1>7, <1>8

(* In every reachable state every allocation that may be used lies in the   *)
(* arena, apart from every other, below the offset the next push starts     *)
(* from and below every offset a pop or the end of a section goes back to.  *)
THEOREM AllocationsStayIntact == KernelSpec => []LiveIsIntact
<1>1. KernelInit => IInv
  BY InitInv DEF KernelInit
<1>2. IInv /\ [KernelNext]_kernelVars => IInv'
  <2> SUFFICES ASSUME IInv, [KernelNext]_kernelVars PROVE IInv'
    OBVIOUS
  <2>1. CASE UNCHANGED vars
    BY <2>1 DEF vars, IInv, LiveIsIntact, TypeOK, InBounds, Disjoint, SectionsKeepOlder,
                PopKeepsOlder, SavedInArena
  <2>2. CASE Next
    BY <2>2, PushKeeps, PopKeeps, ResetKeeps, TempBeginKeeps, TempEndKeeps DEF Next
  <2> QED
    BY <2>1, <2>2 DEF KernelNext, kernelVars
<1>3. IInv => LiveIsIntact
  BY DEF IInv
<1> QED
  BY <1>1, <1>2, <1>3, PTL DEF KernelSpec

HIDE ArenaAssumption

-----------------------------------------------------------------------------
(* sc_task_post, for every number of threads that post one at a time, every *)
(* number of posts and every capacity of the loop's arena. *)

Work == Posters \X (1 .. PostsEach)

PostTypes ==
  /\ post_offset \in 0 .. PostCapacity /\ mem \in [1 .. PostCapacity -> {NoTask} \cup Work]
  /\ list \in Seq(1 .. PostCapacity) /\ places \in Seq(1 .. PostCapacity)
  /\ post_pc \in [Posters -> {"idle", "load", "store", "fill", "push"}]
  /\ my \in [Posters -> 0 .. (PostCapacity - 1)] /\ posts \in [Posters -> 0 .. PostsEach]
  /\ accepted \in Seq(Work) /\ ran \in Seq(Work)

(* The tasks lie in the arena in their order; those that have not run are   *)
(* in the list, and what lies in the arena is what was posted.              *)
PlacesInOrder ==
  /\ Len(places) = Len(accepted) /\ \A i \in 1 .. Len(places) : places[i] = i
  /\ Len(ran) + Len(list) = Len(accepted)
  /\ \A i \in 1 .. Len(ran) : ran[i] = accepted[i]
  /\ \A i \in 1 .. Len(list) : list[i] = Len(ran) + i
  /\ Len(accepted) <= post_offset
  /\ \A i \in 1 .. Len(accepted) : mem[i] = accepted[i]

(* The one thread that posts works on the place after the last one.         *)
OnePosts ==
  /\ \A t, u \in Posters : post_pc[t] # "idle" /\ post_pc[u] # "idle" => t = u
  /\ \A t \in Posters : post_pc[t] # "idle" => posts[t] >= 1
  /\ \A t \in Posters : post_pc[t] \in {"store", "fill", "push"} => my[t] = Len(accepted)
  /\ \A t \in Posters : post_pc[t] = "push" => mem[my[t] + 1] = <<t, posts[t]>>
  /\ post_offset = Len(accepted)
                   + IF \E t \in Posters : post_pc[t] \in {"fill", "push"} THEN 1 ELSE 0

DroppedWhenFull == dropped # {} => Len(accepted) = PostCapacity

PostInv == PostTypes /\ PlacesInOrder /\ OnePosts /\ DroppedWhenFull

LEMMA PostConstants == PostCapacity \in Nat \ {0} /\ PostsEach \in Nat
BY KernelAssumption DEF Post!PostAssumption

LEMMA PostBegins == Post!Init => PostInv
<1> SUFFICES ASSUME Post!Init PROVE PostInv
  OBVIOUS
<1>1. PostTypes
  BY PostConstants DEF Post!Init, PostTypes
<1>2. PlacesInOrder
  BY DEF Post!Init, PlacesInOrder
<1>3. OnePosts
  BY DEF Post!Init, OnePosts
<1> QED
  BY <1>1, <1>2, <1>3 DEF Post!Init, PostInv, DroppedWhenFull

(* What the numbers and sequences of a state are. *)
LEMMA PostNumbers ==
    ASSUME PostInv
    PROVE  /\ PostTypes /\ PlacesInOrder /\ OnePosts /\ DroppedWhenFull
           /\ Len(accepted) \in Nat /\ Len(ran) \in Nat /\ Len(list) \in Nat
           /\ post_offset \in Nat /\ PostCapacity \in Nat /\ post_offset <= PostCapacity
           /\ \A t \in Posters : my[t] \in Nat /\ my[t] < PostCapacity /\ posts[t] \in Nat
<1>1. /\ PostTypes /\ PlacesInOrder /\ OnePosts /\ DroppedWhenFull
  BY DEF PostInv
<1>2. Len(accepted) \in Nat /\ Len(ran) \in Nat /\ Len(list) \in Nat
  BY <1>1 DEF PostTypes
<1> QED
  BY <1>1, <1>2, PostConstants DEF PostTypes

LEMMA EnterKeeps == ASSUME PostInv, NEW t \in Posters, Post!Enter(t) PROVE PostInv'
<1>1. /\ post_pc[t] = "idle" /\ posts[t] < PostsEach /\ \A u \in Posters : post_pc[u] = "idle"
      /\ posts' = [posts EXCEPT ![t] = @ + 1] /\ post_pc' = [post_pc EXCEPT ![t] = "load"]
      /\ post_offset' = post_offset /\ mem' = mem /\ list' = list /\ my' = my
      /\ accepted' = accepted /\ places' = places /\ dropped' = dropped /\ ran' = ran
  BY DEF Post!Enter, Post!Goto
<1>2. PostTypes'
  BY <1>1, PostNumbers, PostConstants DEF PostTypes
<1>3. PlacesInOrder' /\ DroppedWhenFull'
  BY <1>1, PostNumbers DEF PlacesInOrder, DroppedWhenFull
<1>4. OnePosts'
  BY <1>1, PostNumbers DEF OnePosts, PostTypes
<1> QED
  BY <1>2, <1>3, <1>4 DEF PostInv

LEMMA NoMemoryKeeps == ASSUME PostInv, NEW t \in Posters, Post!NoMemory(t) PROVE PostInv'
<1>1. /\ post_pc[t] = "load" /\ post_offset >= PostCapacity
      /\ posts' = posts /\ post_pc' = [post_pc EXCEPT ![t] = "idle"]
      /\ post_offset' = post_offset /\ mem' = mem /\ list' = list /\ my' = my
      /\ accepted' = accepted /\ places' = places /\ ran' = ran
  BY DEF Post!NoMemory, Post!Goto
<1>2. PostTypes'
  BY <1>1, PostNumbers, PostConstants DEF PostTypes
<1>3. PlacesInOrder'
  BY <1>1, PostNumbers DEF PlacesInOrder
<1>4. \A u \in Posters : post_pc[u] # "idle" => u = t
  BY <1>1, PostNumbers DEF OnePosts
<1>5. Len(accepted) = PostCapacity
  BY <1>1, <1>4, PostNumbers DEF OnePosts
<1>6. \A u \in Posters : post_pc'[u] = "idle"
  BY <1>1, <1>4, PostNumbers DEF PostTypes
<1>7. OnePosts'
  BY <1>1, <1>4, <1>6, PostNumbers DEF OnePosts
<1>8. DroppedWhenFull'
  BY <1>1, <1>5 DEF DroppedWhenFull
<1> QED
  BY <1>2, <1>3, <1>7, <1>8 DEF PostInv

LEMMA LoadKeeps == ASSUME PostInv, NEW t \in Posters, Post!LoadOffset(t) PROVE PostInv'
<1>1. /\ post_pc[t] = "load" /\ post_offset < PostCapacity
      /\ posts' = posts /\ post_pc' = [post_pc EXCEPT ![t] = "store"]
      /\ my' = [my EXCEPT ![t] = post_offset]
      /\ post_offset' = post_offset /\ mem' = mem /\ list' = list /\ dropped' = dropped
      /\ accepted' = accepted /\ places' = places /\ ran' = ran
  BY DEF Post!LoadOffset, Post!Goto
<1>2. PostTypes'
  BY <1>1, PostNumbers, PostConstants DEF PostTypes
<1>3. PlacesInOrder' /\ DroppedWhenFull'
  BY <1>1, PostNumbers DEF PlacesInOrder, DroppedWhenFull
<1>4. \A u \in Posters : post_pc[u] # "idle" => u = t
  BY <1>1, PostNumbers DEF OnePosts
<1>5. post_offset = Len(accepted)
  BY <1>1, <1>4, PostNumbers DEF OnePosts
<1>6. /\ post_pc'[t] = "store" /\ my'[t] = post_offset
      /\ \A u \in Posters : u # t => post_pc'[u] = "idle"
  BY <1>1, <1>4, PostNumbers DEF PostTypes
<1>7. OnePosts'
  BY <1>1, <1>4, <1>5, <1>6, PostNumbers DEF OnePosts
<1> QED
  BY <1>2, <1>3, <1>7 DEF PostInv

LEMMA StoreKeeps == ASSUME PostInv, NEW t \in Posters, Post!StoreOffset(t) PROVE PostInv'
<1>1. /\ post_pc[t] = "store" /\ post_offset' = my[t] + 1
      /\ mem' = [mem EXCEPT ![my[t] + 1] = NoTask] /\ post_pc' = [post_pc EXCEPT ![t] = "fill"]
      /\ posts' = posts /\ my' = my /\ list' = list /\ dropped' = dropped
      /\ accepted' = accepted /\ places' = places /\ ran' = ran
  BY DEF Post!StoreOffset, Post!Goto
<1>2. PostTypes'
  BY <1>1, PostNumbers, PostConstants DEF PostTypes
<1>3. my[t] = Len(accepted) /\ \A u \in Posters : post_pc[u] # "idle" => u = t
  BY <1>1, PostNumbers DEF OnePosts
<1>4. PlacesInOrder' /\ DroppedWhenFull'
  BY <1>1, <1>3, PostNumbers DEF PlacesInOrder, DroppedWhenFull, PostTypes
<1>5. /\ post_pc'[t] = "fill" /\ \A u \in Posters : u # t => post_pc'[u] = "idle"
  BY <1>1, <1>3, PostNumbers DEF PostTypes
<1>6. OnePosts'
  BY <1>1, <1>3, <1>5, PostNumbers DEF OnePosts
<1> QED
  BY <1>2, <1>4, <1>6 DEF PostInv

LEMMA FillKeeps == ASSUME PostInv, NEW t \in Posters, Post!Fill(t) PROVE PostInv'
<1>1. /\ post_pc[t] = "fill" /\ post_offset' = post_offset
      /\ mem' = [mem EXCEPT ![my[t] + 1] = <<t, posts[t]>>]
      /\ post_pc' = [post_pc EXCEPT ![t] = "push"]
      /\ posts' = posts /\ my' = my /\ list' = list /\ dropped' = dropped
      /\ accepted' = accepted /\ places' = places /\ ran' = ran
  BY DEF Post!Fill, Post!Goto, Post!Task
<1>2. posts[t] \in 1 .. PostsEach /\ <<t, posts[t]>> \in Work
  BY <1>1, PostNumbers, PostConstants DEF OnePosts, PostTypes, Work
<1>3. PostTypes'
  BY <1>1, <1>2, PostNumbers, PostConstants DEF PostTypes
<1>4. my[t] = Len(accepted) /\ \A u \in Posters : post_pc[u] # "idle" => u = t
  BY <1>1, PostNumbers DEF OnePosts
<1>5. PlacesInOrder' /\ DroppedWhenFull'
  BY <1>1, <1>4, PostNumbers DEF PlacesInOrder, DroppedWhenFull, PostTypes
<1>6. /\ post_pc'[t] = "push" /\ \A u \in Posters : u # t => post_pc'[u] = "idle"
      /\ mem'[my[t] + 1] = <<t, posts[t]>>
  BY <1>1, <1>4, PostNumbers DEF PostTypes
<1>7. OnePosts'
  BY <1>1, <1>4, <1>6, PostNumbers DEF OnePosts
<1> QED
  BY <1>3, <1>5, <1>7 DEF PostInv

LEMMA LinkKeeps == ASSUME PostInv, NEW t \in Posters, Post!Push(t) PROVE PostInv'
<1>1. /\ post_pc[t] = "push" /\ post_offset' = post_offset /\ mem' = mem
      /\ list' = Append(list, my[t] + 1) /\ post_pc' = [post_pc EXCEPT ![t] = "idle"]
      /\ accepted' = Append(accepted, <<t, posts[t]>>) /\ places' = Append(places, my[t] + 1)
      /\ posts' = posts /\ my' = my /\ dropped' = dropped /\ ran' = ran
  BY DEF Post!Push, Post!Goto, Post!Task
<1>2. posts[t] \in 1 .. PostsEach /\ <<t, posts[t]>> \in Work
  BY <1>1, PostNumbers, PostConstants DEF OnePosts, PostTypes, Work
<1>3. my[t] + 1 \in 1 .. PostCapacity
  BY PostNumbers
<1>4. /\ my[t] = Len(accepted) /\ mem[my[t] + 1] = <<t, posts[t]>>
      /\ \A u \in Posters : post_pc[u] # "idle" => u = t
  BY <1>1, PostNumbers DEF OnePosts
<1>5. post_offset = Len(accepted) + 1
  BY <1>1, PostNumbers DEF OnePosts
<1>6. /\ list' \in Seq(1 .. PostCapacity) /\ Len(list') = Len(list) + 1
      /\ list'[Len(list) + 1] = my[t] + 1 /\ \A i \in 1 .. Len(list) : list'[i] = list[i]
  BY <1>1, <1>3, PostNumbers, AppendProperties DEF PostTypes
<1>7. /\ places' \in Seq(1 .. PostCapacity) /\ Len(places') = Len(places) + 1
      /\ places'[Len(places) + 1] = my[t] + 1 /\ \A i \in 1 .. Len(places) : places'[i] = places[i]
  BY <1>1, <1>3, PostNumbers, AppendProperties DEF PostTypes
<1>8. /\ accepted' \in Seq(Work) /\ Len(accepted') = Len(accepted) + 1
      /\ accepted'[Len(accepted) + 1] = <<t, posts[t]>>
      /\ \A i \in 1 .. Len(accepted) : accepted'[i] = accepted[i]
  BY <1>1, <1>2, PostNumbers, AppendProperties DEF PostTypes
<1>9. PostTypes'
  BY <1>1, <1>6, <1>7, <1>8, PostNumbers DEF PostTypes
<1>10. PlacesInOrder'
  <2> DEFINE n == Len(accepted) m == Len(list)
  <2>0. /\ n \in Nat /\ m \in Nat /\ Len(ran) \in Nat /\ Len(places) = n /\ Len(ran) + m = n
        /\ my[t] = n /\ Len(accepted') = n + 1 /\ Len(places') = n + 1 /\ Len(list') = m + 1
    BY <1>4, <1>6, <1>7, <1>8, PostNumbers DEF PlacesInOrder
  <2>1. /\ \A i \in 1 .. n : places[i] = i /\ mem[i] = accepted[i]
        /\ \A i \in 1 .. Len(ran) : ran[i] = accepted[i]
        /\ \A i \in 1 .. m : list[i] = Len(ran) + i
    BY <2>0, PostNumbers DEF PlacesInOrder
  <2> HIDE DEF n, m
  <2>2. ASSUME NEW i \in 1 .. n + 1
        PROVE  places'[i] = i /\ mem'[i] = accepted'[i]
    <3>1. CASE i = n + 1
      BY <1>1, <1>4, <1>7, <1>8, <2>0, <3>1 DEF n
    <3>2. CASE i \in 1 .. n
      BY <1>1, <1>7, <1>8, <2>0, <2>1, <3>2 DEF n
    <3> QED
      BY <2>0, <3>1, <3>2
  <2>3. ASSUME NEW i \in 1 .. m + 1 PROVE list'[i] = Len(ran) + i
    <3>1. CASE i = m + 1
      <4>1. list'[i] = n + 1
        BY <1>6, <2>0, <3>1 DEF m
      <4> QED
        BY <2>0, <3>1, <4>1
    <3>2. CASE i \in 1 .. m
      <4>1. list'[i] = list[i]
        BY <1>6, <3>2 DEF m
      <4> QED
        BY <2>1, <3>2, <4>1
    <3> QED
      BY <2>0, <3>1, <3>2
  <2>4. \A i \in 1 .. Len(ran) : ran[i] = accepted'[i]
    <3>1. \A i \in 1 .. Len(ran) : i \in 1 .. n
      BY <2>0
    <3> QED
      BY <1>8, <2>1, <3>1 DEF n
  <2>5. n + 1 <= post_offset /\ Len(ran) + (m + 1) = n + 1
    BY <1>5, <2>0 DEF n
  <2> QED
    BY <1>1, <2>0, <2>2, <2>3, <2>4, <2>5 DEF PlacesInOrder
<1>11. \A u \in Posters : post_pc'[u] = "idle"
  BY <1>1, <1>4, PostNumbers DEF PostTypes
<1>12. OnePosts'
  BY <1>1, <1>5, <1>8, <1>11 DEF OnePosts
<1>13. DroppedWhenFull'
  BY <1>1, <1>5, PostNumbers DEF DroppedWhenFull
<1> QED
  BY <1>9, <1>10, <1>12, <1>13 DEF PostInv

(* The loop runs the first task that has not run.                           *)
LEMMA RunKeeps == ASSUME PostInv, Post!Run PROVE PostInv'
<1>1. /\ list # <<>> /\ ran' = Append(ran, mem[Head(list)]) /\ list' = Tail(list)
      /\ post_offset' = post_offset /\ mem' = mem /\ post_pc' = post_pc /\ my' = my
      /\ posts' = posts /\ accepted' = accepted /\ places' = places /\ dropped' = dropped
  BY DEF Post!Run
<1>2. list \in Seq(1 .. PostCapacity) /\ Len(list) > 0 /\ Head(list) = list[1]
  BY <1>1, PostNumbers, EmptySeq DEF PostTypes
<1>3. /\ list' \in Seq(1 .. PostCapacity) /\ Len(list') = Len(list) - 1
      /\ \A i \in 1 .. Len(list') : list'[i] = list[i + 1]
  BY <1>1, <1>2, HeadTailProperties
<1>4. Head(list) = Len(ran) + 1 /\ Len(ran) + 1 \in 1 .. Len(accepted)
  BY <1>2, PostNumbers DEF PlacesInOrder
<1>5. mem[Head(list)] = accepted[Len(ran) + 1] /\ accepted[Len(ran) + 1] \in Work
  BY <1>4, PostNumbers, ElementOfSeq DEF PlacesInOrder, PostTypes
<1>6. /\ ran' \in Seq(Work) /\ Len(ran') = Len(ran) + 1
      /\ ran'[Len(ran) + 1] = accepted[Len(ran) + 1]
      /\ \A i \in 1 .. Len(ran) : ran'[i] = ran[i]
  BY <1>1, <1>5, PostNumbers, AppendProperties DEF PostTypes
<1>7. PostTypes'
  BY <1>1, <1>3, <1>6, PostNumbers DEF PostTypes
<1>8. PlacesInOrder'
  <2> DEFINE r == Len(ran) m == Len(list)
  <2>1. /\ r \in Nat /\ m \in Nat /\ m > 0 /\ r + m = Len(accepted)
        /\ Len(ran') = r + 1 /\ Len(list') = m - 1
        /\ \A i \in 1 .. r : ran[i] = accepted[i]
        /\ \A i \in 1 .. m : list[i] = r + i
    BY <1>2, <1>3, <1>6, PostNumbers DEF PlacesInOrder
  <2> HIDE DEF r, m
  <2>2. ASSUME NEW i \in 1 .. r + 1 PROVE ran'[i] = accepted[i]
    <3>1. CASE i = r + 1
      BY <1>6, <3>1 DEF r
    <3>2. CASE i \in 1 .. r
      BY <1>6, <2>1, <3>2 DEF r
    <3> QED
      BY <2>1, <3>1, <3>2
  <2>3. ASSUME NEW i \in 1 .. m - 1 PROVE list'[i] = (r + 1) + i
    <3>1. i \in 1 .. Len(list') /\ i + 1 \in 1 .. m /\ i \in Nat
      BY <2>1
    <3>2. list'[i] = list[i + 1] /\ list[i + 1] = r + (i + 1)
      BY <1>3, <2>1, <3>1
    <3> QED
      BY <2>1, <3>1, <3>2
  <2>4. (r + 1) + (m - 1) = Len(accepted)
    BY <2>1
  <2> QED
    BY <1>1, <2>1, <2>2, <2>3, <2>4, PostNumbers DEF PlacesInOrder
<1>9. OnePosts' /\ DroppedWhenFull'
  BY <1>1, PostNumbers DEF OnePosts, DroppedWhenFull
<1> QED
  BY <1>7, <1>8, <1>9 DEF PostInv

LEMMA PostHolds == KernelSpec => []PostInv
<1>1. KernelInit => PostInv
  BY PostBegins DEF KernelInit
<1>2. PostInv /\ [KernelNext]_kernelVars => PostInv'
  <2> SUFFICES ASSUME PostInv, [KernelNext]_kernelVars PROVE PostInv'
    OBVIOUS
  <2>1. CASE UNCHANGED postVars
    BY <2>1 DEF postVars, PostInv, PostTypes, PlacesInOrder, OnePosts, DroppedWhenFull
  <2>2. CASE Post!Next
    <3>1. ASSUME NEW t \in Posters, Post!Post(t) PROVE PostInv'
      BY <3>1, EnterKeeps, NoMemoryKeeps, LoadKeeps, StoreKeeps, FillKeeps, LinkKeeps
         DEF Post!Post
    <3> QED
      BY <2>2, <3>1, RunKeeps DEF Post!Next
  <2> QED
    BY <2>1, <2>2 DEF KernelNext, kernelVars
<1> QED
  BY <1>1, <1>2, PTL DEF KernelSpec

(* Where the program lets one thread post at a time, what is run is what was *)
(* posted, in the order of the posts, and a task is dropped only when the    *)
(* arena is used up.                                                         *)
THEOREM PostedTasksAreRun == KernelSpec => []PostsAreRun
<1>1. PostInv => PostsAreRun
  <2> SUFFICES ASSUME PostInv PROVE PostsAreRun
    OBVIOUS
  <2>1. Post!TypeOK
    BY PostNumbers DEF PostTypes, Work, Post!TypeOK
  <2>2. Post!RunsWhatWasPosted
    <3>1. Len(ran) <= Len(accepted) /\ Len(ran) + Len(list) = Len(accepted)
      BY PostNumbers DEF PlacesInOrder
    <3>2. SubSeq(ran, 1, Len(ran)) = SubSeq(accepted, 1, Len(ran))
      <4>1. /\ SubSeq(ran, 1, Len(ran)) \in Seq(Work) /\ Len(SubSeq(ran, 1, Len(ran))) = Len(ran)
            /\ \A i \in 1 .. Len(ran) : SubSeq(ran, 1, Len(ran))[i] = ran[i]
        BY PostNumbers, SubSeqFull DEF PostTypes
      <4>2. \A i \in 1 .. Len(ran) : accepted[i] \in Work
        BY <3>1, PostNumbers, ElementOfSeq DEF PostTypes
      <4>3. /\ SubSeq(accepted, 1, Len(ran)) \in Seq(Work)
            /\ Len(SubSeq(accepted, 1, Len(ran))) = Len(ran)
            /\ \A i \in 1 .. Len(ran) : SubSeq(accepted, 1, Len(ran))[i] = accepted[i]
        BY <4>2, PostNumbers, SubSeqProperties
      <4>4. \A i \in 1 .. Len(ran) : ran[i] = accepted[i]
        BY PostNumbers DEF PlacesInOrder
      <4> QED
        BY <4>1, <4>3, <4>4, SeqEqual
    <3> QED
      BY <3>1, <3>2 DEF Post!RunsWhatWasPosted, Post!IsPrefix
  <2>3. Post!DropsOnlyWhenUsedUp
    BY PostNumbers DEF PlacesInOrder, DroppedWhenFull, Post!DropsOnlyWhenUsedUp
  <2> QED
    BY <2>1, <2>2, <2>3 DEF PostsAreRun, Post!PostsAreRun
<1> QED
  BY <1>1, PostHolds, PTL

(* And no two tasks lie at one place: what the documentation says of any     *)
(* thread is so of a program whose threads take turns.                       *)
THEOREM PostedTasksApart == KernelSpec => []Post!NoSharedTask
<1>1. PostInv => Post!NoSharedTask
  <2> SUFFICES ASSUME PostInv PROVE Post!NoSharedTask
    OBVIOUS
  <2>1. DOMAIN places = 1 .. Len(places)
    BY PostNumbers DEF PostTypes
  <2> QED
    BY <2>1, PostNumbers DEF PlacesInOrder, Post!NoSharedTask
<1> QED
  BY <1>1, PostHolds, PTL

-----------------------------------------------------------------------------
(* The graphics context, for every size of a machine word, every size of a  *)
(* window, every table and batch. *)

Resource == [kind : Kinds, id : 1 .. (MaxSlots - 1), gone : BOOLEAN]
Figures  == [kept : Nat, dropped : Nat, cmds : Nat, verts : Nat]

GfxTypes ==
  /\ ctx \in [state : {"none", "ready", "gone"}, w : Nat, h : Nat, bytes : 0 .. (GfxWord - 1)]
  /\ slots \in [Kinds -> SUBSET (1 .. (MaxSlots - 1))] /\ objects \in Seq(Resource)
  /\ vcount \in 0 .. MaxVerts /\ calls \in Nat /\ verts \in Nat /\ frame \in Figures

(* A slot is taken by exactly one resource in use.                          *)
SlotsNamed ==
  /\ \A o, p \in 1 .. Len(objects) :
       ~ objects[o].gone /\ ~ objects[p].gone
       /\ objects[o].kind = objects[p].kind /\ objects[o].id = objects[p].id => o = p
  /\ \A k \in Kinds : \A id \in 1 .. (MaxSlots - 1) :
       id \in slots[k] <=> \E o \in 1 .. Len(objects) :
                             ~ objects[o].gone /\ objects[o].kind = k /\ objects[o].id = id

GfxInv == GfxTypes /\ Context!FramebufferHoldsFrame /\ SlotsNamed /\ Context!StatsTellFrame

LEMMA GfxConstants ==
    /\ GfxWord \in Nat \ {0} /\ MaxSlots \in Nat \ {0} /\ MaxVerts \in Nat \ {0}
    /\ Dims \subseteq 1 .. (GfxWord - 1) /\ CmdCounts \subseteq Nat
BY KernelAssumption DEF Context!GfxAssumption

(* The least number of a set is one of it. *)
LEMMA LeastOfSet == ASSUME NEW T, T \subseteq Nat, T # {}
                    PROVE  \E x \in T : \A y \in T : x <= y
<1> DEFINE R == OpToRel(<, Nat)
<1>1. \A x, y \in Nat : <<y, x>> \in R <=> y < x
  BY DEF OpToRel
<1>2. IsWellFoundedOn(R, Nat)
  BY NatLessThanWellFounded
<1> HIDE DEF R
<1>3. PICK x \in T : \A y \in T : ~ (<<y, x>> \in R)
  BY <1>2, WFMin
<1>4. \A y \in T : x <= y
  <2> SUFFICES ASSUME NEW y \in T PROVE x <= y
    OBVIOUS
  <2>1. x \in Nat /\ y \in Nat /\ ~ (y < x)
    BY <1>1, <1>3
  <2> QED
    BY <2>1
<1> QED
  BY <1>4

LEMMA LowestFree ==
    ASSUME NEW k \in Kinds, GfxTypes, Context!FreeIds(k) # {}
    PROVE  /\ Context!Min(Context!FreeIds(k)) \in 1 .. (MaxSlots - 1)
           /\ Context!Min(Context!FreeIds(k)) \notin slots[k]
<1>1. Context!FreeIds(k) \subseteq Nat
  BY GfxConstants DEF Context!FreeIds
<1>2. \E x \in Context!FreeIds(k) : \A y \in Context!FreeIds(k) : x <= y
  BY <1>1, LeastOfSet
<1>3. Context!Min(Context!FreeIds(k)) \in Context!FreeIds(k)
  BY <1>2 DEF Context!Min
<1> QED
  BY <1>3 DEF Context!FreeIds

(* A number that fits in the quotient fits when multiplied.                 *)
LEMMA FitsInQuotient ==
    ASSUME NEW a \in Nat, NEW w \in Nat \ {0}, NEW h \in Nat, h <= a \div w
    PROVE  w * h <= a
<1> DEFINE q == a \div w
<1>1. q \in Nat /\ w * q <= a
  BY SMTT(30)
<1> HIDE DEF q
<1>2. h <= q
  BY DEF q
<1>3. w * h <= w * q
  BY <1>1, <1>2
<1>4. w * h \in Nat /\ w * q \in Nat
  BY <1>1
<1> QED
  BY <1>1, <1>3, <1>4

(* The product that sc_gfx_init allocates does not wrap.                    *)
LEMMA BytesOfFrame ==
    ASSUME NEW w \in Dims, NEW h \in Dims, ~ Context!TooLarge(w, h)
    PROVE  /\ (((w * h) % GfxWord) * 4) % GfxWord = w * h * 4
           /\ w * h * 4 \in 0 .. (GfxWord - 1)
<1> DEFINE a == (GfxWord - 1) \div 4  n == w * h
<1>1. w \in Nat \ {0} /\ h \in Nat \ {0} /\ GfxWord \in Nat \ {0}
  BY GfxConstants
<1>2. a \in Nat /\ 4 * a <= GfxWord - 1
  BY <1>1
<1>3. h <= a \div w
  <2>1. a \div w \in Int
    BY <1>1, <1>2
  <2> QED
    BY <1>1, <2>1 DEF Context!TooLarge
<1> HIDE DEF a
<1>4. n \in Nat /\ n <= a
  BY <1>1, <1>2, <1>3, FitsInQuotient
<1> HIDE DEF n
<1>5. n * 4 \in 0 .. (GfxWord - 1) /\ n \in 0 .. (GfxWord - 1)
  BY <1>1, <1>2, <1>4
<1>6. n % GfxWord = n
  BY <1>1, <1>5
<1>7. (n * 4) % GfxWord = n * 4
  BY <1>1, <1>5
<1> QED
  BY <1>5, <1>6, <1>7 DEF n

LEMMA ContextBegins == Context!Init => GfxInv
<1> SUFFICES ASSUME Context!Init PROVE GfxInv
  OBVIOUS
<1>1. /\ ctx = [state |-> "none", w |-> 0, h |-> 0, bytes |-> 0] /\ slots = [k \in Kinds |-> {}]
      /\ objects = <<>> /\ vcount = 0 /\ calls = 0 /\ verts = 0
      /\ frame = [kept |-> 0, dropped |-> 0, cmds |-> 0, verts |-> 0]
  BY DEF Context!Init, Context!NoFrame
<1>2. GfxTypes
  BY <1>1, GfxConstants DEF GfxTypes, Figures
<1>3. Context!FramebufferHoldsFrame /\ Context!StatsTellFrame
  BY <1>1 DEF Context!FramebufferHoldsFrame, Context!StatsTellFrame, Context!Ready
<1>4. SlotsNamed
  BY <1>1 DEF SlotsNamed
<1> QED
  BY <1>2, <1>3, <1>4 DEF GfxInv

LEMMA ContextOpens == ASSUME GfxInv, NEW w \in Dims, NEW h \in Dims, Context!InitContext(w, h)
                      PROVE  GfxInv'
<1>1. /\ slots' = slots /\ objects' = objects /\ vcount' = vcount /\ calls' = calls
      /\ verts' = verts /\ frame' = frame
  BY DEF Context!InitContext, Context!tableVars, Context!batchVars
<1>2. \/ ctx' = [ctx EXCEPT !.state = "gone"]
      \/ ctx' = [state |-> "ready", w |-> w, h |-> h, bytes |-> w * h * 4]
         /\ w * h * 4 \in 0 .. (GfxWord - 1)
  BY BytesOfFrame DEF Context!InitContext
<1>3. w \in Nat /\ h \in Nat
  BY GfxConstants
<1>4. GfxTypes' /\ Context!FramebufferHoldsFrame'
  BY <1>1, <1>2, <1>3 DEF GfxInv, GfxTypes, Context!FramebufferHoldsFrame, Context!Ready
<1>5. SlotsNamed' /\ Context!StatsTellFrame'
  BY <1>1 DEF GfxInv, SlotsNamed, Context!StatsTellFrame
<1> QED
  BY <1>4, <1>5 DEF GfxInv

LEMMA ContextCloses == ASSUME GfxInv, Context!Shutdown PROVE GfxInv'
<1>1. /\ slots' = slots /\ objects' = objects /\ vcount' = vcount /\ calls' = calls
      /\ verts' = verts /\ frame' = frame /\ ctx' = [ctx EXCEPT !.state = "gone"]
  BY DEF Context!Shutdown, Context!tableVars, Context!batchVars
<1>2. GfxTypes' /\ Context!FramebufferHoldsFrame'
  BY <1>1 DEF GfxInv, GfxTypes, Context!FramebufferHoldsFrame, Context!Ready
<1>3. SlotsNamed' /\ Context!StatsTellFrame'
  BY <1>1 DEF GfxInv, SlotsNamed, Context!StatsTellFrame
<1> QED
  BY <1>2, <1>3 DEF GfxInv

(* A frame begins, a quad is drawn or a command submitted. *)
LEMMA ContextDraws ==
    ASSUME GfxInv,
           Context!BeginFrame \/ Context!DrawQuad \/ \E n \in CmdCounts : Context!Submit(n)
    PROVE  GfxInv'
<1>1. ctx' = ctx /\ slots' = slots /\ objects' = objects
  BY DEF Context!BeginFrame, Context!DrawQuad, Context!Submit, Context!tableVars
<1>2. /\ vcount \in Nat /\ vcount <= MaxVerts /\ calls \in Nat /\ verts \in Nat /\ frame \in Figures
      /\ MaxVerts \in Nat /\ Context!StatsTellFrame
  BY GfxConstants DEF GfxInv, GfxTypes
<1>3. /\ vcount' \in 0 .. MaxVerts /\ calls' \in Nat /\ verts' \in Nat /\ frame' \in Figures
      /\ Context!StatsTellFrame'
  <2>1. CASE Context!BeginFrame
    BY <1>2, <2>1 DEF Context!BeginFrame, Context!NoFrame, Context!StatsTellFrame, Figures
  <2>2. CASE Context!DrawQuad /\ vcount + 6 > MaxVerts
    BY <1>2, <2>2 DEF Context!DrawQuad, Context!StatsTellFrame, Figures
  <2>3. CASE Context!DrawQuad /\ ~ (vcount + 6 > MaxVerts)
    BY <1>2, <2>3 DEF Context!DrawQuad, Context!StatsTellFrame, Figures
  <2>4. ASSUME NEW n \in CmdCounts, Context!Submit(n)
        PROVE  /\ vcount' \in 0 .. MaxVerts /\ calls' \in Nat /\ verts' \in Nat
               /\ frame' \in Figures /\ Context!StatsTellFrame'
    <3>1. n \in Nat
      BY GfxConstants
    <3>2. /\ calls' = calls + 1 /\ verts' = verts + n /\ vcount' = vcount
          /\ frame' = [frame EXCEPT !.cmds = @ + 1, !.verts = @ + n]
      BY <2>4 DEF Context!Submit
    <3>3. /\ frame.kept \in Nat /\ frame.dropped \in Nat /\ frame.cmds \in Nat /\ frame.verts \in Nat
          /\ frame'.kept = frame.kept /\ frame'.dropped = frame.dropped
          /\ frame'.cmds = frame.cmds + 1 /\ frame'.verts = frame.verts + n
      BY <1>2, <3>1, <3>2 DEF Figures
    <3>4. frame' \in Figures
      <4> DEFINE f == [frame EXCEPT !.cmds = @ + 1]
      <4>1. f \in Figures
        BY <1>2 DEF Figures
      <4>2. frame' = [f EXCEPT !.verts = @ + n]
        BY <3>2
      <4> HIDE DEF f
      <4> QED
        BY <3>1, <4>1, <4>2 DEF Figures
    <3>5. Context!StatsTellFrame'
      BY <1>2, <3>1, <3>2, <3>3 DEF Context!StatsTellFrame
    <3> QED
      BY <1>2, <3>1, <3>2, <3>4, <3>5
  <2> QED
    BY <2>1, <2>2, <2>3, <2>4
<1>4. GfxTypes'
  BY <1>1, <1>3 DEF GfxInv, GfxTypes
<1>5. SlotsNamed' /\ Context!FramebufferHoldsFrame'
  BY <1>1 DEF GfxInv, SlotsNamed, Context!FramebufferHoldsFrame, Context!Ready
<1> QED
  BY <1>3, <1>4, <1>5 DEF GfxInv

(* A new resource takes a slot that none in use names. *)
LEMMA ContextMakes == ASSUME GfxInv, NEW k \in Kinds, Context!Make(k) PROVE GfxInv'
<1> DEFINE id == Context!Min(Context!FreeIds(k))
           new == [kind |-> k, id |-> id, gone |-> FALSE]
           n == Len(objects)
<1>1. id \in 1 .. (MaxSlots - 1) /\ id \notin slots[k]
  BY LowestFree DEF GfxInv, Context!Make
<1>2. /\ slots' = [slots EXCEPT ![k] = @ \cup {id}] /\ objects' = Append(objects, new)
      /\ ctx' = ctx /\ vcount' = vcount /\ calls' = calls /\ verts' = verts /\ frame' = frame
  BY DEF Context!Make, Context!batchVars
<1> HIDE DEF id
<1>3. GfxTypes /\ objects \in Seq(Resource) /\ new \in Resource /\ n \in Nat
  BY <1>1 DEF GfxInv, GfxTypes, Resource
<1>4. /\ objects' \in Seq(Resource) /\ Len(objects') = n + 1 /\ objects'[n + 1] = new
      /\ \A o \in 1 .. n : objects'[o] = objects[o]
  BY <1>2, <1>3, AppendProperties
<1> HIDE DEF n
<1>5. GfxTypes'
  BY <1>1, <1>2, <1>3, <1>4 DEF GfxTypes
<1>6. Context!FramebufferHoldsFrame' /\ Context!StatsTellFrame'
  BY <1>2 DEF GfxInv, Context!FramebufferHoldsFrame, Context!Ready, Context!StatsTellFrame
<1>7. \A o \in 1 .. n : ~ (~ objects[o].gone /\ objects[o].kind = k /\ objects[o].id = id)
  BY <1>1 DEF GfxInv, SlotsNamed, n
<1>8. SlotsNamed'
  <2>1. ASSUME NEW o \in 1 .. n + 1, NEW p \in 1 .. n + 1,
               ~ objects'[o].gone, ~ objects'[p].gone,
               objects'[o].kind = objects'[p].kind, objects'[o].id = objects'[p].id
        PROVE  o = p
    <3>1. CASE o \in 1 .. n /\ p \in 1 .. n
      BY <1>4, <2>1, <3>1 DEF GfxInv, SlotsNamed, n
    <3>2. CASE o \in 1 .. n /\ p = n + 1
      BY <1>4, <1>7, <2>1, <3>2
    <3>3. CASE o = n + 1 /\ p \in 1 .. n
      BY <1>4, <1>7, <2>1, <3>3
    <3> QED
      BY <1>3, <3>1, <3>2, <3>3
  <2>2. ASSUME NEW c \in Kinds, NEW i \in 1 .. (MaxSlots - 1)
        PROVE  i \in slots'[c] <=> \E o \in 1 .. n + 1 : ~ objects'[o].gone
                                      /\ objects'[o].kind = c /\ objects'[o].id = i
    <3>1. i \in slots[c] <=> \E o \in 1 .. n : ~ objects[o].gone
                                /\ objects[o].kind = c /\ objects[o].id = i
      BY DEF GfxInv, SlotsNamed, n
    <3>2. i \in slots'[c] <=> i \in slots[c] \/ (c = k /\ i = id)
      BY <1>2, <1>3 DEF GfxTypes
    <3>3. \A o \in 1 .. n + 1 : o \in 1 .. n \/ o = n + 1
      BY <1>3
    <3>4. \A o \in 1 .. n : o \in 1 .. n + 1 /\ n + 1 \in 1 .. n + 1
      BY <1>3
    <3>5. n + 1 \in 1 .. n + 1
      BY <1>3
    <3> QED
      BY <1>4, <3>1, <3>2, <3>3, <3>4, <3>5
  <2> QED
    BY <1>4, <2>1, <2>2 DEF SlotsNamed
<1> QED
  BY <1>5, <1>6, <1>8 DEF GfxInv

(* What is destroyed frees its slot and no other's. *)
LEMMA ContextDestroys ==
    ASSUME GfxInv, NEW o \in DOMAIN objects, Context!Destroy(o) PROVE GfxInv'
<1> DEFINE n == Len(objects)
<1>1. /\ ~ objects[o].gone
      /\ slots' = [slots EXCEPT ![objects[o].kind] = @ \ {objects[o].id}]
      /\ objects' = [objects EXCEPT ![o].gone = TRUE]
      /\ ctx' = ctx /\ vcount' = vcount /\ calls' = calls /\ verts' = verts /\ frame' = frame
  BY DEF Context!Destroy, Context!batchVars
<1>2. GfxTypes /\ objects \in Seq(Resource) /\ o \in 1 .. n /\ n \in Nat /\ objects[o] \in Resource
  BY LenProperties, ElementOfSeq DEF GfxInv, GfxTypes
<1>3. [objects[o] EXCEPT !.gone = TRUE] \in Resource
  BY <1>2 DEF Resource
<1>4. objects' = [objects EXCEPT ![o] = [objects[o] EXCEPT !.gone = TRUE]]
  BY <1>1
<1>5. /\ objects' \in Seq(Resource) /\ Len(objects') = n
      /\ \A p \in 1 .. n : objects'[p] = IF p = o THEN [objects[o] EXCEPT !.gone = TRUE] ELSE objects[p]
  BY <1>2, <1>3, <1>4, ExceptSeq
<1> HIDE DEF n
<1>6. /\ \A p \in 1 .. n : objects'[p].kind = objects[p].kind /\ objects'[p].id = objects[p].id
      /\ objects'[o].gone /\ \A p \in 1 .. n : p # o => objects'[p].gone = objects[p].gone
  BY <1>2, <1>5 DEF Resource
<1>7. GfxTypes'
  BY <1>1, <1>2, <1>5 DEF GfxTypes, Resource
<1>8. Context!FramebufferHoldsFrame' /\ Context!StatsTellFrame'
  BY <1>1 DEF GfxInv, Context!FramebufferHoldsFrame, Context!Ready, Context!StatsTellFrame
<1>9. SlotsNamed'
  <2>1. \A p, q \in 1 .. n :
          ~ objects[p].gone /\ ~ objects[q].gone
          /\ objects[p].kind = objects[q].kind /\ objects[p].id = objects[q].id => p = q
    BY DEF GfxInv, SlotsNamed, n
  <2>2. \A p, q \in 1 .. n :
          ~ objects'[p].gone /\ ~ objects'[q].gone
          /\ objects'[p].kind = objects'[q].kind /\ objects'[p].id = objects'[q].id => p = q
    BY <1>2, <1>6, <2>1
  <2>3. ASSUME NEW c \in Kinds, NEW i \in 1 .. (MaxSlots - 1)
        PROVE  i \in slots'[c] <=> \E p \in 1 .. n : ~ objects'[p].gone
                                      /\ objects'[p].kind = c /\ objects'[p].id = i
    <3>1. i \in slots[c] <=> \E p \in 1 .. n : ~ objects[p].gone
                                /\ objects[p].kind = c /\ objects[p].id = i
      BY DEF GfxInv, SlotsNamed, n
    <3>2. i \in slots'[c] <=> i \in slots[c] /\ ~ (c = objects[o].kind /\ i = objects[o].id)
      BY <1>1, <1>2 DEF GfxTypes
    <3> QED
      BY <1>1, <1>2, <1>6, <2>1, <3>1, <3>2
  <2> QED
    BY <1>5, <2>2, <2>3 DEF SlotsNamed
<1> QED
  BY <1>7, <1>8, <1>9 DEF GfxInv

LEMMA ContextHolds == KernelSpec => []GfxInv
<1>1. KernelInit => GfxInv
  BY ContextBegins DEF KernelInit
<1>2. GfxInv /\ [KernelNext]_kernelVars => GfxInv'
  <2> SUFFICES ASSUME GfxInv, [KernelNext]_kernelVars PROVE GfxInv'
    OBVIOUS
  <2>1. CASE UNCHANGED gfxVars
    <3>1. /\ ctx' = ctx /\ slots' = slots /\ objects' = objects /\ vcount' = vcount
          /\ calls' = calls /\ verts' = verts /\ frame' = frame
      BY <2>1 DEF gfxVars
    <3> QED
      BY <3>1 DEF GfxInv, GfxTypes, SlotsNamed, Context!FramebufferHoldsFrame,
                  Context!StatsTellFrame, Context!Ready
  <2>2. CASE Context!Next
    <3>1. CASE UNCHANGED Context!vars
      BY <2>1, <3>1 DEF Context!vars, Context!tableVars, Context!batchVars, gfxVars
    <3> QED
      BY <2>2, <3>1, ContextOpens, ContextCloses, ContextDraws, ContextMakes, ContextDestroys
         DEF Context!Next, Context!MakeFails
  <2> QED
    BY <2>1, <2>2 DEF KernelNext, kernelVars
<1> QED
  BY <1>1, <1>2, PTL DEF KernelSpec

(* The framebuffer has room for every pixel, for every size of a word and of *)
(* a window that sc_gfx_init accepts; resources in use have slots of their   *)
(* own; and the statistics tell what the frame has accepted.                 *)
THEOREM ContextStaysSound == KernelSpec => []ContextIsSound
<1>1. GfxInv => ContextIsSound
  <2> SUFFICES ASSUME GfxInv PROVE ContextIsSound
    OBVIOUS
  <2>1. DOMAIN objects = 1 .. Len(objects) /\ \A o \in DOMAIN objects : objects[o] \in Resource
    BY LenProperties, ElementOfSeq DEF GfxInv, GfxTypes
  <2>2. Context!TypeOK
    BY <2>1 DEF GfxInv, GfxTypes, Resource, Context!TypeOK
  <2>3. Context!HandlesDistinct
    <3>1. ASSUME NEW k \in Kinds
          PROVE  /\ \A o, p \in Context!InUse(k) : objects[o].id = objects[p].id => o = p
                 /\ slots[k] = {objects[o].id : o \in Context!InUse(k)}
      <4>1. \A o, p \in Context!InUse(k) : objects[o].id = objects[p].id => o = p
        BY <2>1 DEF GfxInv, SlotsNamed, Context!InUse
      <4>2. slots[k] \subseteq 1 .. (MaxSlots - 1)
        BY DEF GfxInv, GfxTypes
      <4>3. \A o \in Context!InUse(k) : objects[o].id \in slots[k]
        BY <2>1 DEF GfxInv, SlotsNamed, Context!InUse, Resource
      <4>4. \A id \in slots[k] : \E o \in Context!InUse(k) : objects[o].id = id
        BY <2>1, <4>2 DEF GfxInv, SlotsNamed, Context!InUse
      <4> QED
        BY <4>1, <4>3, <4>4
    <3> QED
      BY <3>1 DEF Context!HandlesDistinct
  <2> QED
    BY <2>2, <2>3 DEF GfxInv, ContextIsSound, Context!ContextIsSound
<1> QED
  BY <1>1, ContextHolds, PTL

-----------------------------------------------------------------------------
(* The slab pool, for every capacity and whatever the program writes into   *)
(* the slots it holds. *)

SlabInv == Slab!PoolIsWhole /\ held \in [1 .. Capacity -> {0, 1}]

(* A sequence over a set, and what it has at its places.                    *)
LEMMA OverSet ==
    ASSUME NEW S, NEW c \in Seq(S)
    PROVE  /\ Len(c) \in Nat /\ (c = <<>> <=> Len(c) = 0)
           /\ \A i \in 1 .. Len(c) : c[i] \in S
<1>1. \A i \in 1 .. Len(c) : c[i] \in S
  BY ElementOfSeq
<1>2. Len(c) \in Nat
  BY LenProperties
<1>3. c # <<>> => Len(c) \in Nat \ {0}
  BY EmptySeq
<1>4. c = <<>> => Len(c) = 0
  OBVIOUS
<1> QED
  BY <1>1, <1>2, <1>3, <1>4

LEMMA PartOfSlots ==
    ASSUME NEW H \in SUBSET (1 .. Capacity)
    PROVE  /\ IsFiniteSet(H) /\ Cardinality(H) \in 0 .. Capacity
           /\ Cardinality(H) = Capacity => H = 1 .. Capacity
           /\ H = 1 .. Capacity => Cardinality(H) = Capacity
<1>1. Capacity \in Nat \ {0}
  BY KernelAssumption DEF Slab!CapacityAssumption
<1>2. IsFiniteSet(1 .. Capacity) /\ Cardinality(1 .. Capacity) = Capacity
  BY <1>1, FS_Interval
<1> DEFINE S == 1 .. Capacity
<1> HIDE DEF S
<1>3. IsFiniteSet(S) /\ H \in SUBSET S /\ Cardinality(S) = Capacity
  BY <1>2 DEF S
<1>4. /\ IsFiniteSet(H) /\ Cardinality(H) <= Cardinality(S)
      /\ Cardinality(S) = Cardinality(H) => S = H
  BY <1>3, FS_Subset
<1>5. Cardinality(H) \in Nat
  BY <1>4, FS_CardinalityType
<1>6. Cardinality(H) = Capacity => H = 1 .. Capacity
  BY <1>3, <1>4 DEF S
<1>7. H = 1 .. Capacity => Cardinality(H) = Capacity
  BY <1>2
<1>8. Cardinality(H) \in 0 .. Capacity
  BY <1>1, <1>3, <1>4, <1>5
<1> QED
  BY <1>4, <1>6, <1>7, <1>8

LEMMA SlabFacts ==
    ASSUME SlabInv
    PROVE  /\ Capacity \in Nat \ {0} /\ held \in [1 .. Capacity -> {0, 1}]
           /\ next \in [1 .. Capacity -> 0 .. Capacity] /\ free_list \in 0 .. Capacity
           /\ count \in 0 .. Capacity /\ chain \in Seq(1 .. Capacity) /\ Len(chain) \in Nat
           /\ \A i \in 1 .. Len(chain) : chain[i] \in 1 .. Capacity
           /\ (chain = <<>> <=> Len(chain) = 0)
           /\ free_list = IF Len(chain) = 0 THEN 0 ELSE chain[1]
           /\ \A i \in 1 .. Len(chain) :
                next[chain[i]] = IF i = Len(chain) THEN 0 ELSE chain[i + 1]
           /\ \A i, j \in 1 .. Len(chain) : chain[i] = chain[j] => i = j
           /\ \A s \in 1 .. Capacity : (held[s] > 0) <=> (\A i \in 1 .. Len(chain) : chain[i] # s)
           /\ count = Cardinality({s \in 1 .. Capacity : held[s] > 0})
<1>1. Slab!TypeOK /\ Slab!ChainIsFreeSlots /\ Slab!CountIsLive
  BY DEF SlabInv, Slab!PoolIsWhole
<1>2. Capacity \in Nat \ {0}
  BY KernelAssumption DEF Slab!CapacityAssumption
<1>3. chain \in Seq(1 .. Capacity)
  BY <1>1 DEF Slab!TypeOK, Slab!Slots
<1>4. /\ Len(chain) \in Nat /\ \A i \in 1 .. Len(chain) : chain[i] \in 1 .. Capacity
      /\ (chain = <<>> <=> Len(chain) = 0)
  BY <1>3, OverSet
<1>5. /\ next \in [1 .. Capacity -> 0 .. Capacity] /\ free_list \in 0 .. Capacity
      /\ count \in 0 .. Capacity
  BY <1>1, <1>2 DEF Slab!TypeOK, Slab!Slots, Slab!NULL
<1>6. free_list = IF Len(chain) = 0 THEN 0 ELSE chain[1]
  BY <1>1, <1>4 DEF Slab!ChainIsFreeSlots, Slab!NULL
<1>7. /\ \A i \in 1 .. Len(chain) :
           next[chain[i]] = IF i = Len(chain) THEN 0 ELSE chain[i + 1]
      /\ \A i, j \in 1 .. Len(chain) : chain[i] = chain[j] => i = j
      /\ \A s \in 1 .. Capacity : (held[s] > 0) <=> (\A i \in 1 .. Len(chain) : chain[i] # s)
  BY <1>1 DEF Slab!ChainIsFreeSlots, Slab!NULL, Slab!Slots
<1>8. count = Cardinality({s \in 1 .. Capacity : held[s] > 0})
  BY <1>1 DEF Slab!CountIsLive, Slab!Slots, Slab!Cardinality, Slab!IsFiniteSet, Cardinality, IsFiniteSet
<1> QED
  BY <1>2, <1>3, <1>4, <1>5, <1>6, <1>7, <1>8 DEF SlabInv

(* Where the list is whole, the pool is full exactly when its count says so. *)
LEMMA CountFollows ==
    ASSUME NEW h \in [1 .. Capacity -> {0, 1}], NEW c \in Seq(1 .. Capacity),
           \A s \in 1 .. Capacity : (h[s] > 0) <=> (\A i \in 1 .. Len(c) : c[i] # s)
    PROVE  /\ Cardinality({s \in 1 .. Capacity : h[s] > 0}) \in 0 .. Capacity
           /\ (c = <<>> <=> Cardinality({s \in 1 .. Capacity : h[s] > 0}) = Capacity)
<1> DEFINE H == {s \in 1 .. Capacity : h[s] > 0}
<1>1. H \in SUBSET (1 .. Capacity)
  OBVIOUS
<1>2. c = <<>> => H = 1 .. Capacity
  <2>1. c = <<>> => \A s \in 1 .. Capacity : h[s] > 0
    BY OverSet
  <2> QED
    BY <2>1
<1>3. ASSUME c # <<>> PROVE H # 1 .. Capacity
  <2>1. Len(c) \in Nat \ {0}
    BY <1>3, OverSet
  <2>2. 1 \in 1 .. Len(c)
    BY <2>1
  <2>3. c[1] \in 1 .. Capacity
    BY <2>2, OverSet
  <2>4. ~ (h[c[1]] > 0)
    BY <2>2, <2>3
  <2> QED
    BY <2>3, <2>4
<1> HIDE DEF H
<1>4. /\ Cardinality(H) \in 0 .. Capacity
      /\ Cardinality(H) = Capacity => H = 1 .. Capacity
      /\ H = 1 .. Capacity => Cardinality(H) = Capacity
  BY <1>1, PartOfSlots
<1>5. Cardinality(H) \in 0 .. Capacity /\ (c = <<>> <=> Cardinality(H) = Capacity)
  BY <1>2, <1>3, <1>4
<1> QED
  BY <1>5 DEF H

(* The parts of the invariant, collected for the state after a step.        *)
LEMMA SlabFrom ==
    ASSUME next' \in [1 .. Capacity -> 0 .. Capacity], held' \in [1 .. Capacity -> {0, 1}],
           chain' \in Seq(1 .. Capacity),
           free_list' = IF Len(chain') = 0 THEN 0 ELSE chain'[1],
           \A i \in 1 .. Len(chain') :
             next'[chain'[i]] = IF i = Len(chain') THEN 0 ELSE chain'[i + 1],
           \A i, j \in 1 .. Len(chain') : chain'[i] = chain'[j] => i = j,
           \A s \in 1 .. Capacity : (held'[s] > 0) <=> (\A i \in 1 .. Len(chain') : chain'[i] # s),
           count' = Cardinality({s \in 1 .. Capacity : held'[s] > 0})
    PROVE  SlabInv'
<1>1. Capacity \in Nat \ {0}
  BY KernelAssumption DEF Slab!CapacityAssumption
<1>2. /\ Len(chain') \in Nat /\ (chain' = <<>> <=> Len(chain') = 0)
      /\ \A i \in 1 .. Len(chain') : chain'[i] \in 1 .. Capacity
  BY OverSet
<1>3. count' \in 0 .. Capacity /\ (chain' = <<>> <=> count' = Capacity)
  BY CountFollows
<1>4. free_list' \in 0 .. Capacity /\ (free_list' = 0 <=> Len(chain') = 0)
  BY <1>1, <1>2
<1>5. Slab!TypeOK'
  <2>1. held' \in [1 .. Capacity -> Nat]
    OBVIOUS
  <2>2. 0 .. Capacity = (1 .. Capacity) \cup {0}
    BY <1>1
  <2>3. /\ next' \in [1 .. Capacity -> (1 .. Capacity) \cup {0}]
        /\ free_list' \in (1 .. Capacity) \cup {0}
    BY <1>4, <2>2
  <2> QED
    BY <1>3, <2>1, <2>3 DEF Slab!TypeOK, Slab!Slots, Slab!NULL
<1>6. Slab!ChainIsFreeSlots'
  BY <1>2 DEF Slab!ChainIsFreeSlots, Slab!NULL, Slab!Slots
<1>7. Slab!CountIsLive'
  BY <1>2, <1>3, <1>4
     DEF Slab!CountIsLive, Slab!Slots, Slab!NULL, Slab!Cardinality, Slab!IsFiniteSet,
         Cardinality, IsFiniteSet
<1> QED
  BY <1>5, <1>6, <1>7 DEF SlabInv, Slab!PoolIsWhole

(* The head of the list leaves it; every other slot keeps its link.         *)
LEMMA SlabAllocKeeps == ASSUME SlabInv, Slab!Alloc
                        PROVE  SlabInv' /\ Slab!Store!Next
<1> DEFINE f == free_list  n == Len(chain)
<1>1. /\ f # 0 /\ free_list' = next[f] /\ next' = [next EXCEPT ![f] = 0]
      /\ count' = count + 1 /\ held' = [held EXCEPT ![f] = @ + 1] /\ chain' = Tail(chain)
  BY DEF Slab!Alloc, Slab!NULL
<1>2. /\ Capacity \in Nat \ {0} /\ held \in [1 .. Capacity -> {0, 1}] /\ n \in Nat /\ n > 0
      /\ next \in [1 .. Capacity -> 0 .. Capacity] /\ f = chain[1] /\ f \in 1 .. Capacity
      /\ chain \in Seq(1 .. Capacity) /\ chain # <<>>
  BY <1>1, SlabFacts
<1>3. /\ chain' \in Seq(1 .. Capacity) /\ Len(chain') = n - 1
      /\ \A i \in 1 .. n - 1 : chain'[i] = chain[i + 1]
  BY <1>1, <1>2, HeadTailProperties
<1>4. /\ \A i \in 1 .. n : chain[i] \in 1 .. Capacity
                           /\ next[chain[i]] = IF i = n THEN 0 ELSE chain[i + 1]
      /\ \A i, j \in 1 .. n : chain[i] = chain[j] => i = j
      /\ \A s \in 1 .. Capacity : (held[s] > 0) <=> (\A i \in 1 .. n : chain[i] # s)
  BY SlabFacts
<1> HIDE DEF f, n
<1>5. held[f] = 0
  BY <1>2, <1>4
<1>6. held' = [held EXCEPT ![f] = 1]
  BY <1>1, <1>5
<1>7. /\ held' \in [1 .. Capacity -> {0, 1}] /\ next' \in [1 .. Capacity -> 0 .. Capacity]
  BY <1>1, <1>2, <1>6
<1>8. free_list' = IF Len(chain') = 0 THEN 0 ELSE chain'[1]
  <2>1. next[f] = IF n = 1 THEN 0 ELSE chain[2]
    BY <1>2, <1>4
  <2>2. n # 1 => chain'[1] = chain[2]
    BY <1>2, <1>3
  <2> QED
    <3>1. CASE n = 1
      BY <1>1, <1>3, <2>1, <3>1
    <3>2. CASE n # 1
      <4>1. Len(chain') # 0
        BY <1>2, <1>3, <3>2
      <4> QED
        BY <1>1, <2>1, <2>2, <3>2, <4>1
    <3> QED
      BY <3>1, <3>2
<1>9. ASSUME NEW i \in 1 .. n - 1
      PROVE  next'[chain'[i]] = IF i = n - 1 THEN 0 ELSE chain'[i + 1]
  <2>1. i + 1 \in 1 .. n /\ i \in Int /\ 1 \in 1 .. n /\ i + 1 # 1
    BY <1>2
  <2>2. chain[i + 1] # f /\ chain[i + 1] \in 1 .. Capacity
    BY <1>2, <1>4, <2>1
  <2>3. next'[chain[i + 1]] = next[chain[i + 1]]
    BY <1>1, <1>2, <2>2
  <2>4. next[chain[i + 1]] = IF i + 1 = n THEN 0 ELSE chain[(i + 1) + 1]
    BY <1>4, <2>1
  <2>5. i # n - 1 => chain'[i + 1] = chain[(i + 1) + 1]
    BY <1>2, <1>3, <2>1
  <2>6. chain'[i] = chain[i + 1] /\ (i = n - 1 <=> i + 1 = n)
    BY <1>2, <1>3, <2>1
  <2> QED
    BY <2>3, <2>4, <2>5, <2>6
<1>10. \A i, j \in 1 .. n - 1 : chain'[i] = chain'[j] => i = j
  <2> SUFFICES ASSUME NEW i \in 1 .. n - 1, NEW j \in 1 .. n - 1, chain'[i] = chain'[j] PROVE i = j
    OBVIOUS
  <2>1. i + 1 \in 1 .. n /\ j + 1 \in 1 .. n /\ chain[i + 1] = chain[j + 1]
    BY <1>2, <1>3
  <2>2. i + 1 = j + 1
    BY <1>4, <2>1
  <2> QED
    BY <1>2, <2>2
<1>11. ASSUME NEW s \in 1 .. Capacity
       PROVE  (held'[s] > 0) <=> (\A i \in 1 .. n - 1 : chain'[i] # s)
  <2>1. CASE s = f
    <3>1. held'[s] = 1
      BY <1>2, <1>6, <2>1
    <3>2. \A i \in 1 .. n - 1 : chain'[i] # f
      <4> SUFFICES ASSUME NEW i \in 1 .. n - 1, chain'[i] = f PROVE FALSE
        OBVIOUS
      <4>1. i + 1 \in 1 .. n /\ 1 \in 1 .. n /\ chain[i + 1] = chain[1] /\ i + 1 # 1
        BY <1>2, <1>3
      <4> QED
        BY <1>4, <4>1
    <3> QED
      BY <2>1, <3>1, <3>2
  <2>2. CASE s # f
    <3>1. held'[s] = held[s]
      BY <1>2, <1>6, <2>2
    <3>2. (\A i \in 1 .. n : chain[i] # s) => \A i \in 1 .. n - 1 : chain'[i] # s
      <4> SUFFICES ASSUME \A i \in 1 .. n : chain[i] # s, NEW i \in 1 .. n - 1 PROVE chain'[i] # s
        OBVIOUS
      <4>1. i + 1 \in 1 .. n
        BY <1>2
      <4> QED
        BY <1>3, <4>1
    <3>3. (\A i \in 1 .. n - 1 : chain'[i] # s) => \A i \in 1 .. n : chain[i] # s
      <4> SUFFICES ASSUME \A i \in 1 .. n - 1 : chain'[i] # s, NEW i \in 1 .. n PROVE chain[i] # s
        OBVIOUS
      <4>1. CASE i = 1
        BY <1>2, <2>2, <4>1
      <4>2. CASE i # 1
        <5>1. i - 1 \in 1 .. n - 1 /\ (i - 1) + 1 = i
          BY <1>2, <4>2
        <5> QED
          BY <1>3, <5>1
      <4> QED
        BY <4>1, <4>2
    <3> QED
      BY <1>4, <3>1, <3>2, <3>3
  <2> QED
    BY <2>1, <2>2
<1>12. count' = Cardinality({s \in 1 .. Capacity : held'[s] > 0})
  <2> DEFINE H == {s \in 1 .. Capacity : held[s] > 0}
  <2>1. {s \in 1 .. Capacity : held'[s] > 0} = H \cup {f} /\ f \notin H
    BY <1>2, <1>5, <1>6
  <2>2. IsFiniteSet(H)
    <3>1. H \in SUBSET (1 .. Capacity)
      OBVIOUS
    <3> HIDE DEF H
    <3> QED
      BY <3>1, PartOfSlots
  <2>3. Cardinality(H \cup {f}) = Cardinality(H) + 1
    BY <2>1, <2>2, FS_AddElement
  <2> QED
    BY <1>1, <2>1, <2>3, SlabFacts
<1>13. SlabInv'
  BY <1>3, <1>7, <1>8, <1>9, <1>10, <1>11, <1>12, SlabFrom
<1>14. Slab!Store!Next
  BY <1>2, <1>5, <1>6 DEF Slab!Store!Next, Slab!Store!Alloc, Slab!Slots
<1> QED
  BY <1>13, <1>14

(* A slot that is given back heads the list.                                *)
LEMMA SlabFreeKeeps == ASSUME SlabInv, NEW f \in 1 .. Capacity, Slab!Free(f)
                       PROVE  SlabInv' /\ Slab!Store!Next
<1> DEFINE n == Len(chain)
<1>1. /\ held[f] > 0 /\ free_list' = f /\ next' = [next EXCEPT ![f] = free_list]
      /\ count' = count - 1 /\ held' = [held EXCEPT ![f] = @ - 1] /\ chain' = <<f>> \o chain
  BY DEF Slab!Free
<1>2. /\ Capacity \in Nat \ {0} /\ held \in [1 .. Capacity -> {0, 1}] /\ n \in Nat
      /\ next \in [1 .. Capacity -> 0 .. Capacity] /\ free_list \in 0 .. Capacity
      /\ free_list = IF n = 0 THEN 0 ELSE chain[1]
      /\ chain \in Seq(1 .. Capacity)
  BY SlabFacts
<1>3. /\ chain' \in Seq(1 .. Capacity) /\ Len(chain') = n + 1 /\ chain'[1] = f
      /\ \A i \in 2 .. n + 1 : chain'[i] = chain[i - 1]
  <2>1. <<f>> \in Seq(1 .. Capacity) /\ Len(<<f>>) = 1 /\ <<f>>[1] = f
    OBVIOUS
  <2>2. /\ chain' \in Seq(1 .. Capacity) /\ Len(chain') = 1 + n
        /\ \A i \in 1 .. 1 + n : chain'[i] = IF i <= 1 THEN <<f>>[i] ELSE chain[i - 1]
    BY <1>1, <1>2, <2>1, ConcatProperties
  <2>3. chain'[1] = f /\ Len(chain') = n + 1
    BY <1>2, <2>1, <2>2
  <2>4. ASSUME NEW i \in 2 .. n + 1 PROVE chain'[i] = chain[i - 1]
    <3>1. i \in 1 .. 1 + n /\ ~ (i <= 1)
      BY <1>2
    <3> QED
      BY <2>2, <3>1
  <2> QED
    BY <2>2, <2>3, <2>4
<1>4. /\ \A i \in 1 .. n : chain[i] \in 1 .. Capacity
                           /\ next[chain[i]] = IF i = n THEN 0 ELSE chain[i + 1]
      /\ \A i, j \in 1 .. n : chain[i] = chain[j] => i = j
      /\ \A s \in 1 .. Capacity : (held[s] > 0) <=> (\A i \in 1 .. n : chain[i] # s)
  BY SlabFacts
<1> HIDE DEF n
<1>5. held[f] = 1 /\ \A i \in 1 .. n : chain[i] # f
  BY <1>1, <1>2, <1>4
<1>6. held' = [held EXCEPT ![f] = 0]
  BY <1>1, <1>5
<1>7. /\ held' \in [1 .. Capacity -> {0, 1}] /\ next' \in [1 .. Capacity -> 0 .. Capacity]
  BY <1>1, <1>2, <1>6
<1>8. free_list' = IF Len(chain') = 0 THEN 0 ELSE chain'[1]
  BY <1>1, <1>2, <1>3
<1>9. ASSUME NEW i \in 1 .. n + 1
      PROVE  next'[chain'[i]] = IF i = n + 1 THEN 0 ELSE chain'[i + 1]
  <2>1. CASE i = 1
    <3>1. next'[f] = free_list
      BY <1>1, <1>2
    <3>2. n # 0 => chain'[2] = chain[1]
      BY <1>2, <1>3
    <3> QED
      BY <1>2, <1>3, <2>1, <3>1, <3>2
  <2>2. CASE i # 1
    <3>1. i - 1 \in 1 .. n /\ i \in 2 .. n + 1 /\ (i - 1) + 1 = i
      BY <1>2, <2>2
    <3>2. chain'[i] = chain[i - 1] /\ chain[i - 1] # f /\ chain[i - 1] \in 1 .. Capacity
      BY <1>3, <1>4, <1>5, <3>1
    <3>3. next'[chain'[i]] = IF i - 1 = n THEN 0 ELSE chain[i]
      <4>1. next'[chain[i - 1]] = next[chain[i - 1]]
        BY <1>1, <1>2, <3>2
      <4>2. next[chain[i - 1]] = IF i - 1 = n THEN 0 ELSE chain[i]
        BY <1>4, <3>1
      <4> QED
        BY <3>2, <4>1, <4>2
    <3>4. i # n + 1 => chain'[i + 1] = chain[i]
      BY <1>2, <1>3, <3>1
    <3> QED
      BY <1>2, <3>1, <3>3, <3>4
  <2> QED
    BY <2>1, <2>2
<1>10. \A i, j \in 1 .. n + 1 : chain'[i] = chain'[j] => i = j
  <2>1. \A i \in 1 .. n + 1 : i = 1 \/ (i \in 2 .. n + 1 /\ i - 1 \in 1 .. n)
    BY <1>2
  <2>2. ASSUME NEW i \in 2 .. n + 1, NEW j \in 2 .. n + 1, chain'[i] = chain'[j] PROVE i = j
    <3>1. i - 1 \in 1 .. n /\ j - 1 \in 1 .. n /\ chain[i - 1] = chain[j - 1]
      BY <1>2, <1>3, <2>2
    <3>2. i - 1 = j - 1
      BY <1>4, <3>1
    <3> QED
      BY <1>2, <3>2
  <2>3. \A i \in 2 .. n + 1 : chain'[i] # chain'[1]
    <3> SUFFICES ASSUME NEW i \in 2 .. n + 1 PROVE chain'[i] # chain'[1]
      OBVIOUS
    <3>1. i - 1 \in 1 .. n
      BY <1>2
    <3>2. chain'[i] = chain[i - 1] /\ chain[i - 1] # f
      BY <1>3, <1>5, <3>1
    <3> QED
      BY <1>3, <3>2
  <2> QED
    BY <2>1, <2>2, <2>3
<1>11. ASSUME NEW s \in 1 .. Capacity
       PROVE  (held'[s] > 0) <=> (\A i \in 1 .. n + 1 : chain'[i] # s)
  <2>1. CASE s = f
    BY <1>2, <1>3, <1>6, <2>1
  <2>2. CASE s # f
    <3>1. held'[s] = held[s]
      BY <1>2, <1>6, <2>2
    <3>2. (\A i \in 1 .. n : chain[i] # s) => \A i \in 1 .. n + 1 : chain'[i] # s
      <4> SUFFICES ASSUME \A i \in 1 .. n : chain[i] # s, NEW i \in 1 .. n + 1 PROVE chain'[i] # s
        OBVIOUS
      <4>1. i = 1 \/ (i \in 2 .. n + 1 /\ i - 1 \in 1 .. n)
        BY <1>2
      <4> QED
        BY <1>3, <2>2, <4>1
    <3>3. (\A i \in 1 .. n + 1 : chain'[i] # s) => \A i \in 1 .. n : chain[i] # s
      <4> SUFFICES ASSUME \A i \in 1 .. n + 1 : chain'[i] # s, NEW i \in 1 .. n PROVE chain[i] # s
        OBVIOUS
      <4>1. i + 1 \in 2 .. n + 1 /\ i + 1 \in 1 .. n + 1 /\ (i + 1) - 1 = i
        BY <1>2
      <4> QED
        BY <1>3, <4>1
    <3> QED
      BY <1>4, <3>1, <3>2, <3>3
  <2> QED
    BY <2>1, <2>2
<1>12. count' = Cardinality({s \in 1 .. Capacity : held'[s] > 0})
  <2> DEFINE H == {s \in 1 .. Capacity : held[s] > 0}
  <2>1. {s \in 1 .. Capacity : held'[s] > 0} = H \ {f} /\ f \in H
    BY <1>2, <1>5, <1>6
  <2>2. IsFiniteSet(H)
    <3>1. H \in SUBSET (1 .. Capacity)
      OBVIOUS
    <3> HIDE DEF H
    <3> QED
      BY <3>1, PartOfSlots
  <2>3. Cardinality(H \ {f}) = Cardinality(H) - 1
    BY <2>1, <2>2, FS_RemoveElement
  <2> QED
    BY <1>1, <2>1, <2>3, SlabFacts
<1>13. SlabInv'
  BY <1>3, <1>7, <1>8, <1>9, <1>10, <1>11, <1>12, SlabFrom
<1>14. Slab!Store!Next
  BY <1>2, <1>5, <1>6 DEF Slab!Store!Next, Slab!Store!Free, Slab!Slots
<1> QED
  BY <1>13, <1>14

(* What the program writes into a slot it holds touches no link of the list. *)
LEMMA SlabWriteKeeps ==
    ASSUME SlabInv, NEW s \in 1 .. Capacity, NEW w \in 0 .. Capacity, Slab!Write(s, w)
    PROVE  SlabInv' /\ held' = held
<1>1. /\ held[s] > 0 /\ next' = [next EXCEPT ![s] = w] /\ free_list' = free_list
      /\ count' = count /\ held' = held /\ chain' = chain
  BY DEF Slab!Write
<1>2. \A i \in 1 .. Len(chain) : chain[i] # s
  BY <1>1, SlabFacts
<1>3. \A i \in 1 .. Len(chain) : next'[chain[i]] = next[chain[i]]
  BY <1>1, <1>2, SlabFacts
<1>4. next' \in [1 .. Capacity -> 0 .. Capacity]
  BY <1>1, SlabFacts
<1>5. SlabInv'
  BY <1>1, <1>3, <1>4, SlabFacts, SlabFrom
<1> QED
  BY <1>1, <1>5

LEMMA SlabBegins == Slab!Init => SlabInv /\ Slab!Store!Init
<1> SUFFICES ASSUME Slab!Init PROVE SlabInv /\ Slab!Store!Init
  OBVIOUS
<1>1. /\ next = [s \in 1 .. Capacity |-> IF s = Capacity THEN 0 ELSE s + 1]
      /\ free_list = 1 /\ count = 0 /\ held = [s \in 1 .. Capacity |-> 0]
      /\ chain = [i \in 1 .. Capacity |-> i]
  BY DEF Slab!Init, Slab!Slots, Slab!NULL
<1>2. Capacity \in Nat \ {0}
  BY KernelAssumption DEF Slab!CapacityAssumption
<1>3. chain \in Seq(1 .. Capacity) /\ Len(chain) = Capacity /\ chain # <<>>
  <2>1. chain \in Seq(1 .. Capacity)
    BY <1>1, <1>2, IsASeq
  <2>2. Len(chain) = Capacity
    BY <1>1, <1>2, <2>1, LenProperties
  <2> QED
    BY <1>2, <2>1, <2>2, OverSet
<1>4. Slab!TypeOK
  BY <1>1, <1>2, <1>3 DEF Slab!TypeOK, Slab!Slots, Slab!NULL
<1>5. Slab!ChainIsFreeSlots
  BY <1>1, <1>2, <1>3 DEF Slab!ChainIsFreeSlots, Slab!Slots, Slab!NULL
<1>6. Slab!CountIsLive
  <2>1. {s \in 1 .. Capacity : held[s] > 0} = {}
    BY <1>1
  <2>2. Cardinality({s \in 1 .. Capacity : held[s] > 0}) = 0
    BY <2>1, FS_EmptySet
  <2>3. Slab!Cardinality({s \in 1 .. Capacity : held[s] > 0}) = 0
    BY <2>2 DEF Slab!Cardinality, Slab!IsFiniteSet, Cardinality, IsFiniteSet
  <2> QED
    BY <1>1, <1>2, <2>3 DEF Slab!CountIsLive, Slab!Slots, Slab!NULL
<1>7. held \in [1 .. Capacity -> {0, 1}]
  BY <1>1
<1> QED
  BY <1>1, <1>4, <1>5, <1>6, <1>7 DEF SlabInv, Slab!PoolIsWhole, Slab!Store!Init, Slab!Slots

LEMMA SlabStep == SlabInv /\ [KernelNext]_kernelVars
                  => SlabInv' /\ [Slab!Store!Next]_held
<1> SUFFICES ASSUME SlabInv, [KernelNext]_kernelVars
             PROVE  SlabInv' /\ [Slab!Store!Next]_held
  OBVIOUS
<1>1. CASE UNCHANGED slabVars
  <2>1. next' = next /\ free_list' = free_list /\ count' = count /\ held' = held /\ chain' = chain
    BY <1>1 DEF slabVars
  <2>2. SlabInv'
    BY <2>1, SlabFacts, SlabFrom
  <2> QED
    BY <2>1, <2>2
<1>2. CASE Slab!Next
  <2>1. CASE Slab!AllocFails
    BY <1>1, <2>1 DEF Slab!AllocFails, Slab!vars, slabVars
  <2>2. ASSUME NEW s \in 1 .. Capacity, Slab!Free(s) \/ \E w \in 0 .. Capacity : Slab!Write(s, w)
        PROVE  SlabInv' /\ [Slab!Store!Next]_held
    BY <2>2, SlabFreeKeeps, SlabWriteKeeps
  <2>3. Capacity \in Nat \ {0}
    BY KernelAssumption DEF Slab!CapacityAssumption
  <2>4. Slab!Slots \cup {Slab!NULL} = 0 .. Capacity
    BY <2>3 DEF Slab!Slots, Slab!NULL
  <2> QED
    BY <1>2, <2>1, <2>2, <2>4, SlabAllocKeeps DEF Slab!Next, Slab!Slots
<1> QED
  BY <1>1, <1>2 DEF KernelNext, kernelVars

(* The pool hands out slots that nobody holds, for every capacity and every *)
(* order of the calls, and its list is whole after every step.              *)
THEOREM PoolImplementsStore == KernelSpec => PoolIsStore
<1>1. KernelInit => SlabInv /\ Slab!Store!Init
  BY SlabBegins DEF KernelInit
<1>2. SlabInv' => Slab!PoolIsWhole'
  BY DEF SlabInv
<1>3. SlabInv /\ [KernelNext]_kernelVars
      => SlabInv' /\ [Slab!Store!Next]_held /\ [Slab!PoolIsWhole']_(Slab!vars)
  BY <1>2, SlabStep
<1> QED
  BY <1>1, <1>3, PTL DEF KernelSpec, PoolIsStore, Slab!PoolIsStore, Slab!StoreSpec, Slab!Store!Spec

-----------------------------------------------------------------------------
(* The scene of the Python binding, for every number of widgets, any        *)
(* parents and heights. *)

(* Induction over the numbers, for a set of them. *)
LEMMA Induction == ASSUME NEW S, 0 \in S, \A n \in Nat : n \in S => n + 1 \in S
                   PROVE  Nat \subseteq S
<1>1. SUFFICES ASSUME Nat \ S # {} PROVE FALSE
  OBVIOUS
<1>2. PICK m \in Nat \ S : \A y \in Nat \ S : m <= y
  BY <1>1, LeastOfSet
<1>3. m # 0 /\ m - 1 \in Nat
  BY <1>2
<1>4. m - 1 \in S
  BY <1>2, <1>3
<1> QED
  BY <1>2, <1>3, <1>4

(* Sums taken one by one: the equation has a solution. *)
LEMMA PartialSums ==
    ASSUME NEW n \in Nat, NEW g \in [0 .. n -> Nat]
    PROVE  \E f \in [0 .. n -> Nat] :
              \A w \in 0 .. n : f[w] = IF w = 0 THEN 0 ELSE f[w - 1] + g[w - 1]
<1> DEFINE Sums(f, m) ==
             \A w \in 0 .. m : f[w] = IF w = 0 THEN 0 ELSE f[w - 1] + g[w - 1]
           S == {m \in Nat : m <= n => \E f \in [0 .. m -> Nat] : Sums(f, m)}
<1>1. 0 \in S
  <2>1. [w \in 0 .. 0 |-> 0] \in [0 .. 0 -> Nat] /\ Sums([w \in 0 .. 0 |-> 0], 0)
    OBVIOUS
  <2> QED
    BY <2>1
<1>2. ASSUME NEW m \in Nat, m \in S PROVE m + 1 \in S
  <2> SUFFICES ASSUME m + 1 <= n PROVE \E f \in [0 .. m + 1 -> Nat] : Sums(f, m + 1)
    OBVIOUS
  <2>1. PICK f \in [0 .. m -> Nat] : Sums(f, m)
    BY <1>2
  <2> DEFINE h == [w \in 0 .. m + 1 |-> IF w = m + 1 THEN f[m] + g[m] ELSE f[w]]
  <2>2. f[m] \in Nat /\ g[m] \in Nat
    OBVIOUS
  <2>3. h \in [0 .. m + 1 -> Nat]
    BY <2>2
  <2>4. h[m + 1] = f[m] + g[m] /\ \A w \in 0 .. m : h[w] = f[w]
    OBVIOUS
  <2> HIDE DEF h
  <2>5. ASSUME NEW w \in 0 .. m + 1
        PROVE  h[w] = IF w = 0 THEN 0 ELSE h[w - 1] + g[w - 1]
    <3>1. CASE w = m + 1
      <4>1. w # 0 /\ w - 1 = m /\ m \in 0 .. m
        BY <3>1
      <4> QED
        BY <2>4, <3>1, <4>1
    <3>2. CASE w # m + 1
      <4>1. w \in 0 .. m /\ (w # 0 => w - 1 \in 0 .. m)
        BY <3>2
      <4>2. f[w] = IF w = 0 THEN 0 ELSE f[w - 1] + g[w - 1]
        BY <2>1, <4>1
      <4> QED
        BY <2>4, <4>1, <4>2
    <3> QED
      BY <3>1, <3>2
  <2> QED
    BY <2>3, <2>5
<1>3. n \in S
  <2> HIDE DEF S
  <2> QED
    BY <1>1, <1>2, Induction
<1>4. \E f \in [0 .. n -> Nat] : Sums(f, n)
  <2> HIDE DEF Sums
  <2>1. n <= n => \E f \in [0 .. n -> Nat] : Sums(f, n)
    BY <1>3
  <2> QED
    BY <2>1
<1> QED
  BY <1>4

Widget == [parent : Int, children : Seq(Nat), height : Nat, y : Nat, h : Nat \ {0}]

Last == Len(py_widgets) - 1        \* the number of the last widget

PyTypes == /\ py_widgets \in Seq(Widget) /\ Len(py_widgets) <= PyWidgets
           /\ laid \in Nat /\ laid <= Len(py_widgets)
           /\ \A i \in 1 .. Len(py_widgets) : py_widgets[i].parent < i - 1

(* The children of a widget are those who name it, each once.               *)
LinkedOnce ==
  \A i \in 1 .. Len(py_widgets) :
    /\ Python!ToSet(py_widgets[i].children)
         = {w \in 0 .. Last : py_widgets[w + 1].parent = i - 1}
    /\ Len(py_widgets[i].children) = Cardinality(Python!ToSet(py_widgets[i].children))

PyInv == PyTypes /\ LinkedOnce /\ Python!RootsStacked

LEMMA PyConstants == /\ PyWidgets \in Nat /\ Heights \subseteq Nat /\ DefaultHeight \in Nat \ {0}
                     /\ (-2 .. (PyWidgets - 1)) \subseteq Int
BY KernelAssumption DEF Python!PyAssumption

LEMMA PyFacts ==
    ASSUME PyTypes
    PROVE  /\ Len(py_widgets) \in Nat /\ DOMAIN py_widgets = 1 .. Len(py_widgets)
           /\ \A i \in 1 .. Len(py_widgets) : py_widgets[i] \in Widget
BY LenProperties, ElementOfSeq DEF PyTypes

LEMMA PythonBegins == Python!Init => PyInv
<1> SUFFICES ASSUME Python!Init PROVE PyInv
  OBVIOUS
<1>1. py_widgets = <<>> /\ laid = 0 /\ Len(py_widgets) = 0
  BY DEF Python!Init
<1>2. PyTypes /\ LinkedOnce
  BY <1>1, PyConstants DEF PyTypes, LinkedOnce
<1>3. Python!RootsStacked
  BY <1>1 DEF Python!RootsStacked, Python!Ids
<1> QED
  BY <1>2, <1>3 DEF PyInv

(* What is appended is new to the set of a sequence. *)
LEMMA OneMoreChild ==
    ASSUME NEW s \in Seq(Nat), NEW n \in Nat, Python!ToSet(s) \subseteq 0 .. n - 1,
           Len(s) = Cardinality(Python!ToSet(s))
    PROVE  /\ Append(s, n) \in Seq(Nat)
           /\ Python!ToSet(Append(s, n)) = Python!ToSet(s) \cup {n}
           /\ Len(Append(s, n)) = Cardinality(Python!ToSet(Append(s, n)))
<1>1. /\ Append(s, n) \in Seq(Nat) /\ Len(Append(s, n)) = Len(s) + 1 /\ Len(s) \in Nat
      /\ Append(s, n)[Len(s) + 1] = n /\ \A i \in 1 .. Len(s) : Append(s, n)[i] = s[i]
  BY AppendProperties, LenProperties
<1>2. DOMAIN s = 1 .. Len(s) /\ DOMAIN Append(s, n) = 1 .. Len(s) + 1
  BY <1>1, LenProperties
<1> DEFINE t == Append(s, n)
<1> HIDE DEF t
<1>3. \A i \in 1 .. Len(s) + 1 : i \in 1 .. Len(s) \/ i = Len(s) + 1
  BY <1>1
<1>4. Len(s) + 1 \in 1 .. Len(s) + 1 /\ \A i \in 1 .. Len(s) : i \in 1 .. Len(s) + 1
  BY <1>1
<1>5. Python!ToSet(t) = Python!ToSet(s) \cup {n}
  BY <1>1, <1>2, <1>3, <1>4 DEF Python!ToSet, t
<1>6. IsFiniteSet(Python!ToSet(s))
  <2>1. IsFiniteSet(0 .. n - 1)
    BY FS_Interval
  <2> QED
    BY <2>1, FS_Subset
<1>7. Cardinality(Python!ToSet(s) \cup {n}) = Cardinality(Python!ToSet(s)) + 1
  <2>1. n \notin Python!ToSet(s)
    OBVIOUS
  <2> QED
    BY <1>6, <2>1, FS_AddElement
<1> QED
  BY <1>1, <1>5, <1>7 DEF t

(* _add: the new widget is the last child of its parent, if it has one.     *)
LEMMA PythonAdds ==
    ASSUME PyInv, NEW p \in -2 .. (PyWidgets - 1), NEW h \in Heights, Python!Add(p, h)
    PROVE  PyInv'
<1> DEFINE n == Len(py_widgets)
           new == [parent |-> p, children |-> <<>>, height |-> h, y |-> 0, h |-> DefaultHeight]
           linked(i) == IF p >= 0 /\ i = p + 1
                        THEN [py_widgets[i] EXCEPT !.children = Append(@, n)] ELSE py_widgets[i]
           old == [i \in 1 .. n |-> linked(i)]
<1>1. /\ PyTypes /\ LinkedOnce /\ n \in Nat /\ DOMAIN py_widgets = 1 .. n
      /\ \A i \in 1 .. n : py_widgets[i] \in Widget
  BY PyFacts DEF PyInv
<1>2. /\ n < PyWidgets /\ p < n /\ py_widgets' = Append(old, new) /\ laid' = laid
  BY <1>1 DEF Python!Add
<1>3. p \in Int /\ h \in Nat /\ new \in Widget
  BY PyConstants DEF Widget
<1> HIDE DEF n
<1>4. ASSUME NEW i \in 1 .. n
      PROVE  /\ linked(i) \in Widget /\ linked(i).parent = py_widgets[i].parent
             /\ linked(i).children = IF i = p + 1 THEN Append(py_widgets[i].children, n)
                                     ELSE py_widgets[i].children
  <2>1. Append(py_widgets[i].children, n) \in Seq(Nat)
    BY <1>1, AppendProperties DEF Widget
  <2>2. i = p + 1 => p >= 0
    BY <1>3
  <2> QED
    BY <1>1, <2>1, <2>2 DEF Widget
<1> HIDE DEF linked
<1>5. old \in Seq(Widget) /\ Len(old) = n /\ \A i \in 1 .. n : old[i] = linked(i)
  <2>1. old \in Seq(Widget)
    BY <1>1, <1>4, IsASeq
  <2>2. Len(old) = n
    BY <1>1, <2>1, LenProperties
  <2> QED
    BY <2>1, <2>2
<1> HIDE DEF new, old
<1>6. /\ py_widgets' \in Seq(Widget) /\ Len(py_widgets') = n + 1 /\ py_widgets'[n + 1] = new
      /\ \A i \in 1 .. n : py_widgets'[i] = linked(i)
  BY <1>2, <1>3, <1>5, AppendProperties
<1>7. new.parent = p /\ new.children = <<>>
  BY DEF new
<1>8. ASSUME NEW i \in 1 .. n + 1
      PROVE  /\ py_widgets'[i].parent = IF i = n + 1 THEN p ELSE py_widgets[i].parent
             /\ py_widgets'[i].children = IF i = n + 1 THEN <<>>
                                          ELSE IF i = p + 1 THEN Append(py_widgets[i].children, n)
                                          ELSE py_widgets[i].children
  <2>1. CASE i = n + 1
    BY <1>6, <1>7, <2>1
  <2>2. CASE i # n + 1
    <3>1. i \in 1 .. n
      BY <1>1, <2>2
    <3> QED
      BY <1>4, <1>6, <2>2, <3>1
  <2> QED
    BY <2>1, <2>2
<1>9. PyTypes'
  <2>1. ASSUME NEW i \in 1 .. n + 1 PROVE py_widgets'[i].parent < i - 1
    <3>1. CASE i = n + 1
      <4>1. py_widgets'[i].parent = p
        BY <1>6, <1>7, <3>1
      <4>2. i - 1 = n
        BY <1>1, <3>1
      <4> QED
        BY <1>2, <4>1, <4>2
    <3>2. CASE i # n + 1
      <4>1. i \in 1 .. n
        BY <1>1, <3>2
      <4>2. py_widgets[i].parent < i - 1
        BY <1>1, <4>1 DEF PyTypes, n
      <4> QED
        BY <1>8, <3>2, <4>2
    <3> QED
      BY <3>1, <3>2
  <2>2. laid \in Nat /\ laid <= n
    BY <1>1 DEF PyTypes, n
  <2>3. n + 1 <= PyWidgets /\ laid <= n + 1
    BY <1>1, <1>2, <2>2, PyConstants
  <2> QED
    BY <1>2, <1>6, <2>1, <2>2, <2>3 DEF PyTypes
<1>10. LinkedOnce'
  <2> DEFINE named(i) == {w \in 0 .. n - 1 : py_widgets[w + 1].parent = i - 1}
             namedNow(i) == {w \in 0 .. n : py_widgets'[w + 1].parent = i - 1}
  <2>1. ASSUME NEW i \in 1 .. n + 1
        PROVE  namedNow(i) = named(i) \cup (IF i = p + 1 THEN {n} ELSE {})
    <3>1. py_widgets'[n + 1].parent = p
      BY <1>6, <1>7
    <3>2. \A w \in 0 .. n - 1 : py_widgets'[w + 1].parent = py_widgets[w + 1].parent
      <4> SUFFICES ASSUME NEW w \in 0 .. n - 1
                   PROVE  py_widgets'[w + 1].parent = py_widgets[w + 1].parent
        OBVIOUS
      <4>1. w + 1 \in 1 .. n + 1 /\ w + 1 # n + 1
        BY <1>1
      <4> QED
        BY <1>8, <4>1
    <3>3. \A w \in 0 .. n : w \in 0 .. n - 1 \/ w = n
      BY <1>1
    <3>4. n \in 0 .. n /\ \A w \in 0 .. n - 1 : w \in 0 .. n
      BY <1>1
    <3>5. p = i - 1 <=> i = p + 1
      BY <1>1, <1>3
    <3> QED
      BY <3>1, <3>2, <3>3, <3>4, <3>5
  <2>2. ASSUME NEW i \in 1 .. n + 1
        PROVE  /\ Python!ToSet(py_widgets'[i].children) = namedNow(i)
               /\ Len(py_widgets'[i].children)
                    = Cardinality(Python!ToSet(py_widgets'[i].children))
    <3>1. CASE i = n + 1
      <4>1. py_widgets'[i].children = <<>>
        BY <1>8, <3>1
      <4>2. Python!ToSet(<<>>) = {}
        BY DEF Python!ToSet
      <4>3. named(i) = {}
        <5> SUFFICES ASSUME NEW w \in 0 .. n - 1, py_widgets[w + 1].parent = i - 1 PROVE FALSE
          OBVIOUS
        <5>1. w + 1 \in 1 .. n
          BY <1>1
        <5>2. py_widgets[w + 1].parent < w
          BY <1>1, <5>1 DEF PyTypes, n
        <5> QED
          BY <1>1, <3>1, <5>2
      <4>4. i # p + 1
        BY <1>1, <1>2, <1>3, <3>1
      <4>5. Len(<<>>) = 0 /\ Cardinality({}) = 0
        BY FS_EmptySet
      <4>6. namedNow(i) = {}
        BY <2>1, <4>3, <4>4
      <4> HIDE DEF named, namedNow
      <4> QED
        BY <4>1, <4>2, <4>5, <4>6
    <3>2. CASE i \in 1 .. n
      <4> DEFINE s == py_widgets[i].children
      <4>1. s \in Seq(Nat)
        BY <1>1, <3>2 DEF Widget
      <4>2. Python!ToSet(s) = named(i) /\ Len(s) = Cardinality(Python!ToSet(s))
        BY <1>1, <3>2 DEF LinkedOnce, Last, n
      <4>3. named(i) \subseteq 0 .. n - 1
        OBVIOUS
      <4>4. i # n + 1
        BY <1>1, <3>2
      <4>5. py_widgets'[i].children = IF i = p + 1 THEN Append(s, n) ELSE s
        BY <1>8, <4>4
      <4> HIDE DEF named, namedNow, s
      <4>6. CASE i = p + 1
        <5>1. /\ Python!ToSet(Append(s, n)) = Python!ToSet(s) \cup {n}
              /\ Len(Append(s, n)) = Cardinality(Python!ToSet(Append(s, n)))
          BY <1>1, <4>1, <4>2, <4>3, OneMoreChild
        <5> QED
          BY <2>1, <4>2, <4>5, <4>6, <5>1
      <4>7. CASE i # p + 1
        BY <2>1, <4>2, <4>5, <4>7
      <4> QED
        BY <4>6, <4>7
    <3> QED
      BY <1>1, <3>1, <3>2
  <2>3. Last' = n
    BY <1>1, <1>6 DEF Last
  <2> QED
    BY <1>6, <2>2, <2>3 DEF LinkedOnce
<1>11. Python!RootsStacked'
  <2>1. laid \in Nat /\ laid <= n
    BY <1>1 DEF PyTypes, n
  <2>2. laid' # Len(py_widgets')
    BY <1>1, <1>2, <1>6, <2>1
  <2> QED
    BY <2>2 DEF Python!RootsStacked
<1> QED
  BY <1>9, <1>10, <1>11 DEF PyInv

(* _layout: the cursor is the sum of the heights of the roots before.       *)
LEMMA CursorSums ==
    ASSUME PyTypes
    PROVE  \A w \in 0 .. Len(py_widgets) :
             /\ Python!Cursor[w] \in Nat
             /\ Python!Cursor[w]
                  = IF w = 0 THEN 0
                    ELSE Python!Cursor[w - 1]
                         + IF Python!IsRoot(w - 1) THEN Python!HeightOf(w - 1) ELSE 0
<1> DEFINE n == Len(py_widgets)
           taken(w) == IF Python!IsRoot(w) THEN Python!HeightOf(w) ELSE 0
           g == [w \in 0 .. n |-> IF w = n THEN 0 ELSE taken(w)]
<1>1. n \in Nat /\ \A i \in 1 .. n : py_widgets[i] \in Widget
  BY PyFacts
<1>2. ASSUME NEW w \in 0 .. n - 1 PROVE taken(w) \in Nat
  <2>1. w + 1 \in 1 .. n
    BY <1>1
  <2>2. py_widgets[w + 1].height \in Nat
    BY <1>1, <2>1 DEF Widget
  <2> QED
    BY <2>2, PyConstants DEF Python!HeightOf, Python!At
<1> HIDE DEF n, taken
<1>3. g \in [0 .. n -> Nat]
  BY <1>1, <1>2
<1>4. PICK f \in [0 .. n -> Nat] :
         \A w \in 0 .. n : f[w] = IF w = 0 THEN 0 ELSE f[w - 1] + g[w - 1]
  <2> HIDE DEF g
  <2> QED
    BY <1>1, <1>3, PartialSums
<1>5. \A w \in 0 .. n : w # 0 => w - 1 \in 0 .. n /\ g[w - 1] = taken(w - 1)
  BY <1>1
<1> HIDE DEF g
<1>6. \A w \in 0 .. n : f[w] = IF w = 0 THEN 0 ELSE f[w - 1] + taken(w - 1)
  BY <1>4, <1>5
<1> DEFINE E == CHOOSE e : e = [w \in 0 .. n |-> IF w = 0 THEN 0 ELSE e[w - 1] + taken(w - 1)]
<1>7. f = [w \in 0 .. n |-> IF w = 0 THEN 0 ELSE f[w - 1] + taken(w - 1)]
  BY <1>6
<1>8. E = [w \in 0 .. n |-> IF w = 0 THEN 0 ELSE E[w - 1] + taken(w - 1)]
  BY <1>7
<1>9. E = Python!Cursor
  BY DEF Python!Cursor, taken, n
<1> HIDE DEF E
<1>10. \A w \in 0 .. n : E[w] = IF w = 0 THEN 0 ELSE E[w - 1] + taken(w - 1)
  BY <1>8
<1>11. \A w \in 0 .. n : E[w] \in Nat
  <2> DEFINE S == {m \in Nat : m <= n => E[m] \in Nat}
  <2>1. 0 \in S
    BY <1>1, <1>10
  <2>2. ASSUME NEW m \in Nat, m \in S PROVE m + 1 \in S
    <3> SUFFICES ASSUME m + 1 <= n PROVE E[m + 1] \in Nat
      OBVIOUS
    <3>1. E[m] \in Nat /\ m \in 0 .. n - 1 /\ m + 1 \in 0 .. n /\ m + 1 # 0 /\ (m + 1) - 1 = m
      BY <1>1, <2>2
    <3>2. E[m + 1] = E[m] + taken(m)
      BY <1>10, <3>1
    <3> QED
      BY <1>2, <3>1, <3>2
  <2> HIDE DEF S
  <2>3. Nat \subseteq S
    BY <2>1, <2>2, Induction
  <2> QED
    BY <1>1, <2>3 DEF S
<1> QED
  BY <1>9, <1>10, <1>11 DEF n, taken

(* update changes places and heights only, and stacks the roots.            *)
LEMMA PythonUpdates == ASSUME PyInv, Python!Update PROVE PyInv'
<1> DEFINE n == Len(py_widgets)
           placed(i) == IF Python!IsRoot(i - 1)
                        THEN [py_widgets[i] EXCEPT !.y = Python!Cursor[i - 1],
                                                   !.h = Python!HeightOf(i - 1)]
                        ELSE py_widgets[i]
<1>1. /\ PyTypes /\ LinkedOnce /\ n \in Nat /\ DOMAIN py_widgets = 1 .. n
      /\ \A i \in 1 .. n : py_widgets[i] \in Widget
  BY PyFacts DEF PyInv
<1>2. py_widgets' = [i \in 1 .. n |-> placed(i)] /\ laid' = n
  BY <1>1 DEF Python!Update
<1>3. \A w \in 0 .. n :
        /\ Python!Cursor[w] \in Nat
        /\ Python!Cursor[w] = IF w = 0 THEN 0
                              ELSE Python!Cursor[w - 1]
                                   + IF Python!IsRoot(w - 1) THEN Python!HeightOf(w - 1) ELSE 0
  BY <1>1, CursorSums
<1> HIDE DEF n
<1>4. ASSUME NEW i \in 1 .. n
      PROVE  /\ placed(i) \in Widget /\ placed(i).parent = py_widgets[i].parent
             /\ placed(i).children = py_widgets[i].children
             /\ Python!IsRoot(i - 1) => /\ placed(i).y = Python!Cursor[i - 1]
                                        /\ placed(i).h = Python!HeightOf(i - 1)
  <2>1. i - 1 \in 0 .. n /\ (i - 1) + 1 = i
    BY <1>1
  <2>2. Python!Cursor[i - 1] \in Nat
    BY <1>3, <2>1
  <2>3. Python!HeightOf(i - 1) \in Nat \ {0}
    <3>1. py_widgets[i].height \in Nat
      BY <1>1 DEF Widget
    <3> QED
      BY <2>1, <3>1, PyConstants DEF Python!HeightOf, Python!At
  <2> DEFINE half == [py_widgets[i] EXCEPT !.y = Python!Cursor[i - 1]]
             both == [half EXCEPT !.h = Python!HeightOf(i - 1)]
  <2>4. /\ half \in Widget /\ half.parent = py_widgets[i].parent
        /\ half.children = py_widgets[i].children /\ half.y = Python!Cursor[i - 1]
    BY <1>1, <2>2 DEF Widget
  <2>5. placed(i) = IF Python!IsRoot(i - 1) THEN both ELSE py_widgets[i]
    OBVIOUS
  <2> HIDE DEF half, placed
  <2>6. /\ both \in Widget /\ both.parent = half.parent /\ both.children = half.children
        /\ both.y = half.y /\ both.h = Python!HeightOf(i - 1)
    BY <2>3, <2>4 DEF Widget
  <2> HIDE DEF both
  <2> QED
    BY <1>1, <2>4, <2>5, <2>6
<1> HIDE DEF placed
<1>5. py_widgets' \in Seq(Widget)
  BY <1>1, <1>2, <1>4, IsASeq
<1>6. Len(py_widgets') = n /\ \A i \in 1 .. n : py_widgets'[i] = placed(i)
  <2>1. DOMAIN py_widgets' = 1 .. n /\ Len(py_widgets') \in Nat
        /\ DOMAIN py_widgets' = 1 .. Len(py_widgets')
    BY <1>2, <1>5, LenProperties
  <2> QED
    BY <1>1, <1>2, <2>1
<1>7. \A i \in 1 .. n : /\ py_widgets'[i].parent = py_widgets[i].parent
                        /\ py_widgets'[i].children = py_widgets[i].children
  BY <1>4, <1>6
<1>8. PyTypes'
  BY <1>1, <1>2, <1>5, <1>6, <1>7 DEF PyTypes, n
<1>9. LinkedOnce'
  <2>1. Last' = n - 1 /\ Last = n - 1
    BY <1>6 DEF Last, n
  <2>2. \A w \in 0 .. n - 1 : py_widgets'[w + 1].parent = py_widgets[w + 1].parent
    <3> SUFFICES ASSUME NEW w \in 0 .. n - 1
                 PROVE  py_widgets'[w + 1].parent = py_widgets[w + 1].parent
      OBVIOUS
    <3>1. w + 1 \in 1 .. n
      BY <1>1
    <3> QED
      BY <1>7, <3>1
  <2>3. ASSUME NEW i \in 1 .. n
        PROVE  /\ Python!ToSet(py_widgets'[i].children)
                    = {w \in 0 .. n - 1 : py_widgets'[w + 1].parent = i - 1}
               /\ Len(py_widgets'[i].children)
                    = Cardinality(Python!ToSet(py_widgets'[i].children))
    <3>1. /\ Python!ToSet(py_widgets[i].children)
               = {w \in 0 .. n - 1 : py_widgets[w + 1].parent = i - 1}
          /\ Len(py_widgets[i].children) = Cardinality(Python!ToSet(py_widgets[i].children))
      BY <1>1, <2>1 DEF LinkedOnce, n
    <3>2. {w \in 0 .. n - 1 : py_widgets[w + 1].parent = i - 1}
            = {w \in 0 .. n - 1 : py_widgets'[w + 1].parent = i - 1}
      BY <2>2
    <3>3. py_widgets'[i].children = py_widgets[i].children
      BY <1>7
    <3> QED
      BY <3>1, <3>2, <3>3
  <2> QED
    BY <1>6, <2>1, <2>3 DEF LinkedOnce
<1>10. Python!RootsStacked'
  <2> DEFINE root(w) == Python!IsRoot(w)
  <2>1. \A w \in 0 .. n - 1 :
          /\ py_widgets'[w + 1].parent = -1 <=> root(w)
          /\ root(w) => /\ py_widgets'[w + 1].y = Python!Cursor[w]
                        /\ py_widgets'[w + 1].h = Python!HeightOf(w)
    <3> SUFFICES ASSUME NEW w \in 0 .. n - 1
                 PROVE  /\ py_widgets'[w + 1].parent = -1 <=> root(w)
                        /\ root(w) => /\ py_widgets'[w + 1].y = Python!Cursor[w]
                                      /\ py_widgets'[w + 1].h = Python!HeightOf(w)
      OBVIOUS
    <3>1. w + 1 \in 1 .. n /\ (w + 1) - 1 = w
      BY <1>1
    <3>2. py_widgets'[w + 1].parent = -1 <=> root(w)
      BY <1>7, <3>1 DEF Python!IsRoot, Python!At
    <3>3. root(w) => /\ py_widgets'[w + 1].y = Python!Cursor[w]
                     /\ py_widgets'[w + 1].h = Python!HeightOf(w)
      BY <1>4, <1>6, <3>1
    <3> QED
      BY <3>2, <3>3
  <2>2. ASSUME NEW v \in 0 .. n - 1, NEW w \in 0 .. n - 1, root(v), v < w,
               \A u \in (v + 1) .. (w - 1) : ~ root(u)
        PROVE  Python!Cursor[w] = Python!Cursor[v] + Python!HeightOf(v)
    <3> DEFINE S == {m \in Nat : v + 1 + m <= w =>
                       Python!Cursor[v + 1 + m] = Python!Cursor[v] + Python!HeightOf(v)}
    <3>1. 0 \in S
      <4>1. v + 1 \in 0 .. n /\ v + 1 # 0 /\ (v + 1) - 1 = v /\ v + 1 + 0 = v + 1
        BY <1>1
      <4>2. Python!Cursor[v + 1] = Python!Cursor[v] + Python!HeightOf(v)
        BY <1>3, <2>2, <4>1
      <4> QED
        BY <4>1, <4>2
    <3>2. ASSUME NEW m \in Nat, m \in S PROVE m + 1 \in S
      <4> SUFFICES ASSUME v + 1 + (m + 1) <= w
                   PROVE  Python!Cursor[v + 1 + (m + 1)] = Python!Cursor[v] + Python!HeightOf(v)
        OBVIOUS
      <4> DEFINE u == v + 1 + m
      <4>1. /\ u \in (v + 1) .. (w - 1) /\ u + 1 \in 0 .. n /\ u + 1 # 0 /\ (u + 1) - 1 = u
            /\ u \in 0 .. n /\ v + 1 + (m + 1) = u + 1 /\ u <= w
        BY <1>1
      <4>2. Python!Cursor[u] = Python!Cursor[v] + Python!HeightOf(v)
        BY <3>2, <4>1
      <4>3. ~ root(u) /\ Python!Cursor[u] \in Nat
        BY <1>3, <2>2, <4>1
      <4> HIDE DEF u
      <4>4. Python!Cursor[u + 1] = Python!Cursor[u] + 0
        BY <1>3, <4>1, <4>3
      <4> QED
        BY <4>1, <4>2, <4>3, <4>4
    <3> HIDE DEF S
    <3>3. Nat \subseteq S
      BY <3>1, <3>2, Induction
    <3>4. w - v - 1 \in Nat /\ v + 1 + (w - v - 1) = w
      BY <1>1, <2>2
    <3>5. w - v - 1 \in S
      BY <3>3, <3>4
    <3>6. w <= w
      BY <1>1
    <3> QED
      BY <3>4, <3>5, <3>6 DEF S
  <2> HIDE DEF root
  <2>3. ASSUME NEW v \in 0 .. n - 1, NEW w \in 0 .. n - 1,
               py_widgets'[v + 1].parent = -1, py_widgets'[w + 1].parent = -1, v < w,
               \A u \in (v + 1) .. (w - 1) : py_widgets'[u + 1].parent # -1
        PROVE  py_widgets'[w + 1].y = py_widgets'[v + 1].y + py_widgets'[v + 1].h
    <3>1. root(v) /\ root(w)
      BY <2>1, <2>3
    <3>2. \A u \in (v + 1) .. (w - 1) : ~ root(u)
      <4> SUFFICES ASSUME NEW u \in (v + 1) .. (w - 1) PROVE ~ root(u)
        OBVIOUS
      <4>1. u \in 0 .. n - 1
        BY <1>1
      <4> QED
        BY <2>1, <2>3, <4>1
    <3>3. Python!Cursor[w] = Python!Cursor[v] + Python!HeightOf(v)
      BY <2>2, <2>3, <3>1, <3>2
    <3> QED
      BY <2>1, <3>1, <3>3
  <2> QED
    BY <1>6, <2>3 DEF Python!RootsStacked, Python!Ids, Python!IsRoot, Python!At
<1> QED
  BY <1>8, <1>9, <1>10 DEF PyInv

LEMMA PythonHolds == KernelSpec => []PyInv
<1>1. KernelInit => PyInv
  BY PythonBegins DEF KernelInit
<1>2. PyInv /\ [KernelNext]_kernelVars => PyInv'
  <2> SUFFICES ASSUME PyInv, [KernelNext]_kernelVars PROVE PyInv'
    OBVIOUS
  <2>1. CASE UNCHANGED pyVars
    <3>1. py_widgets' = py_widgets /\ laid' = laid
      BY <2>1 DEF pyVars
    <3>2. PyTypes' /\ LinkedOnce'
      BY <3>1 DEF PyInv, PyTypes, LinkedOnce, Last
    <3>3. Python!RootsStacked'
      BY <3>1 DEF PyInv, Python!RootsStacked, Python!Ids, Python!IsRoot, Python!At
    <3> QED
      BY <3>2, <3>3 DEF PyInv
  <2>2. CASE Python!Next
    BY <2>2, PythonAdds, PythonUpdates DEF Python!Next
  <2> QED
    BY <2>1, <2>2 DEF KernelNext, kernelVars
<1> QED
  BY <1>1, <1>2, PTL DEF KernelSpec

(* Parents know their children and children their parents, and an update    *)
(* puts the roots below one another, for any number of widgets.             *)
THEOREM PythonStaysSound == KernelSpec => []PySceneIsSound
<1>1. PyInv => PySceneIsSound
  <2> SUFFICES ASSUME PyInv PROVE PySceneIsSound
    OBVIOUS
  <2>1. /\ PyTypes /\ LinkedOnce /\ Len(py_widgets) \in Nat
        /\ \A i \in 1 .. Len(py_widgets) : py_widgets[i] \in Widget
    BY PyFacts DEF PyInv
  <2>2. \A w \in 0 .. Last : w + 1 \in 1 .. Len(py_widgets) /\ (w + 1) - 1 = w
    BY <2>1 DEF Last
  <2>3. Python!TypeOK
    <3>1. Len(py_widgets) <= PyWidgets
      BY <2>1 DEF PyTypes
    <3>2. ASSUME NEW w \in 0 .. Last
          PROVE  py_widgets[w + 1].parent < w /\ py_widgets[w + 1].h > 0
      <4>1. py_widgets[w + 1].parent < (w + 1) - 1
        BY <2>1, <2>2 DEF PyTypes
      <4>2. py_widgets[w + 1].h \in Nat \ {0}
        BY <2>1, <2>2 DEF Widget
      <4> QED
        BY <2>2, <4>1, <4>2
    <3> QED
      BY <3>1, <3>2 DEF Python!TypeOK, Python!Ids, Python!At, Last
  <2>4. Python!LinksAgree
    <3>1. ASSUME NEW p \in 0 .. Last
          PROVE  /\ Python!ToSet(py_widgets[p + 1].children)
                      = {w \in 0 .. Last : py_widgets[w + 1].parent = p}
                 /\ Len(py_widgets[p + 1].children)
                      = Cardinality(Python!ToSet(py_widgets[p + 1].children))
      BY <2>1, <2>2 DEF LinkedOnce
    <3>2. \A T : Python!Cardinality(T) = Cardinality(T)
      BY DEF Python!Cardinality, Python!IsFiniteSet, Cardinality, IsFiniteSet
    <3> QED
      BY <3>1, <3>2 DEF Python!LinksAgree, Python!Ids, Python!At, Last
  <2> QED
    BY <2>3, <2>4 DEF PyInv, PySceneIsSound, Python!PySceneIsSound
<1> QED
  BY <1>1, PythonHolds, PTL

-----------------------------------------------------------------------------
(* The scene, for any number of widgets, any batch and any callbacks. *)

(* Sequences put together one after the other: the equation has a solution. *)
Joined(f, n, g) ==
  /\ f \in [0 .. n -> Seq(Nat)]
  /\ \A w \in 0 .. n : f[w] = IF w = 0 THEN <<>> ELSE f[w - 1] \o g[w]

LEMMA Concatenations ==
    ASSUME NEW n \in Nat, NEW g \in [1 .. n -> Seq(Nat)]
    PROVE  \E f : Joined(f, n, g)
<1> DEFINE S == Nat
<1>0. g \in [1 .. n -> Seq(S)]
  OBVIOUS
<1> HIDE DEF S
<1> DEFINE Follows(f, m) ==
             \A w \in 0 .. m : f[w] = IF w = 0 THEN <<>> ELSE f[w - 1] \o g[w]
           T == {m \in Nat : m <= n => \E f \in [0 .. m -> Seq(S)] : Follows(f, m)}
<1>1. 0 \in T
  <2>1. <<>> \in Seq(S)
    BY EmptySeq
  <2>2. [w \in 0 .. 0 |-> <<>>] \in [0 .. 0 -> Seq(S)] /\ Follows([w \in 0 .. 0 |-> <<>>], 0)
    BY <2>1
  <2> QED
    BY <2>2
<1>2. ASSUME NEW m \in Nat, m \in T PROVE m + 1 \in T
  <2> HIDE DEF Follows
  <2> SUFFICES ASSUME m + 1 <= n PROVE \E f \in [0 .. m + 1 -> Seq(S)] : Follows(f, m + 1)
    OBVIOUS
  <2>1. PICK f \in [0 .. m -> Seq(S)] : Follows(f, m)
    <3>1. m <= n
      OBVIOUS
    <3> QED
      BY <1>2, <3>1
  <2> USE DEF Follows
  <2> DEFINE h == [w \in 0 .. m + 1 |-> IF w = m + 1 THEN f[m] \o g[m + 1] ELSE f[w]]
  <2>2. f[m] \in Seq(S) /\ g[m + 1] \in Seq(S)
    BY <1>0
  <2>3. f[m] \o g[m + 1] \in Seq(S)
    BY <2>2, ConcatProperties
  <2>4. h \in [0 .. m + 1 -> Seq(S)]
    BY <2>3
  <2>5. h[m + 1] = f[m] \o g[m + 1] /\ \A w \in 0 .. m : h[w] = f[w]
    OBVIOUS
  <2> HIDE DEF h
  <2>6. ASSUME NEW w \in 0 .. m + 1
        PROVE  h[w] = IF w = 0 THEN <<>> ELSE h[w - 1] \o g[w]
    <3>1. CASE w = m + 1
      <4>1. w # 0 /\ w - 1 = m /\ m \in 0 .. m
        BY <3>1
      <4> QED
        BY <2>5, <3>1, <4>1
    <3>2. CASE w # m + 1
      <4>1. w \in 0 .. m /\ (w # 0 => w - 1 \in 0 .. m)
        BY <3>2
      <4>2. f[w] = IF w = 0 THEN <<>> ELSE f[w - 1] \o g[w]
        BY <2>1, <4>1
      <4> QED
        BY <2>5, <4>1, <4>2
    <3> QED
      BY <3>1, <3>2
  <2> QED
    BY <2>4, <2>6
<1>3. n \in T
  <2> HIDE DEF T
  <2> QED
    BY <1>1, <1>2, Induction
<1>4. \E f \in [0 .. n -> Seq(S)] : Follows(f, n)
  <2> HIDE DEF Follows
  <2>1. n <= n => \E f \in [0 .. n -> Seq(S)] : Follows(f, n)
    BY <1>3
  <2> QED
    BY <2>1
<1> QED
  BY <1>4 DEF Joined, S

(* Where each number gives a sequence of itself, the sequences together are *)
(* in order and have the numbers that give one.                             *)
Climbs(s, m, V) ==
  /\ \A q \in 1 .. Len(s) : s[q] \in 1 .. m /\ s[q] \in V
  /\ \A p, q \in 1 .. Len(s) : p < q => s[p] <= s[q]
  /\ \A w \in 1 .. m : w \in V => \E q \in 1 .. Len(s) : s[q] = w

LEMMA OneMoreStep ==
    ASSUME NEW m \in Nat, NEW s \in Seq(Nat), NEW t \in Seq(Nat), NEW V, Climbs(s, m, V),
           \A q \in 1 .. Len(t) : t[q] = m + 1, Len(t) # 0 <=> m + 1 \in V
    PROVE  Climbs(s \o t, m + 1, V)
<1>1. /\ Len(s) \in Nat /\ Len(t) \in Nat /\ Len(s \o t) = Len(s) + Len(t)
      /\ \A q \in 1 .. Len(s) + Len(t) :
           (s \o t)[q] = IF q <= Len(s) THEN s[q] ELSE t[q - Len(s)]
  BY ConcatProperties, LenProperties
<1> DEFINE u == s \o t
           a == Len(s)
           b == Len(t)
<1>2. \A q \in 1 .. a : q \in 1 .. a + b /\ u[q] = s[q]
  BY <1>1
<1>3. \A q \in 1 .. a + b : q \notin 1 .. a => u[q] = m + 1 /\ b # 0
  <2> SUFFICES ASSUME NEW q \in 1 .. a + b, q \notin 1 .. a PROVE u[q] = m + 1 /\ b # 0
    OBVIOUS
  <2>1. ~ (q <= a) /\ q - a \in 1 .. b /\ b # 0
    BY <1>1
  <2> QED
    BY <1>1, <2>1
<1>4. Len(u) = a + b /\ a \in Nat /\ b \in Nat
  BY <1>1
<1>5. b # 0 => m + 1 \in V
  OBVIOUS
<1>6. m + 1 \in V => \E q \in 1 .. a + b : u[q] = m + 1
  <2>1. m + 1 \in V => a + b \in 1 .. a + b /\ a + b \notin 1 .. a
    BY <1>4
  <2> QED
    BY <1>3, <2>1
<1> HIDE DEF u, a, b
<1>7. \A q \in 1 .. a + b : u[q] \in 1 .. m + 1 /\ u[q] \in V
  <2> SUFFICES ASSUME NEW q \in 1 .. a + b PROVE u[q] \in 1 .. m + 1 /\ u[q] \in V
    OBVIOUS
  <2>1. CASE q \in 1 .. a
    <3>1. s[q] \in 1 .. m /\ s[q] \in V
      BY <2>1 DEF Climbs, a
    <3> QED
      BY <1>2, <2>1, <3>1
  <2>2. CASE q \notin 1 .. a
    BY <1>3, <1>5, <2>2
  <2> QED
    BY <2>1, <2>2
<1>8. ASSUME NEW p \in 1 .. a + b, NEW q \in 1 .. a + b, p < q PROVE u[p] <= u[q]
  <2>1. CASE q \in 1 .. a
    <3>1. p \in 1 .. a
      BY <1>4, <1>8, <2>1
    <3>2. s[p] <= s[q]
      BY <1>8, <2>1, <3>1 DEF Climbs, a
    <3> QED
      BY <1>2, <2>1, <3>1, <3>2
  <2>2. CASE q \notin 1 .. a
    <3>1. u[q] = m + 1 /\ u[p] \in 1 .. m + 1
      BY <1>3, <1>7, <2>2
    <3> QED
      BY <3>1
  <2> QED
    BY <2>1, <2>2
<1>9. ASSUME NEW w \in 1 .. m + 1, w \in V PROVE \E q \in 1 .. a + b : u[q] = w
  <2>1. CASE w = m + 1
    BY <1>6, <1>9, <2>1
  <2>2. CASE w # m + 1
    <3>1. w \in 1 .. m
      BY <2>2
    <3>2. PICK q \in 1 .. a : s[q] = w
      BY <1>9, <3>1 DEF Climbs, a
    <3> QED
      BY <1>2, <3>2
  <2> QED
    BY <2>1, <2>2
<1>10. Climbs(u, m + 1, V)
  BY <1>4, <1>7, <1>8, <1>9 DEF Climbs
<1> QED
  BY <1>10 DEF u

(* A beginning of such a sequence has the first of its numbers.             *)
Begins(t, k, s, V) ==
  /\ Len(t) = k /\ DOMAIN t = 1 .. k
  /\ \A q \in 1 .. k : t[q] \in V
  /\ \A p, q \in 1 .. k : p < q => t[p] <= t[q]
  /\ k # 0 => \A w \in V : w <= t[k] => \E q \in 1 .. k : t[q] = w
  /\ k = Len(s) => \A w \in V : \E q \in 1 .. k : t[q] = w

LEMMA Beginning ==
    ASSUME NEW n \in Nat, NEW V \in SUBSET (1 .. n), NEW s \in Seq(Nat), Climbs(s, n, V),
           NEW k \in 0 .. Len(s), NEW t, t = SubSeq(s, 1, k)
    PROVE  Begins(t, k, s, V)
<1>1. Len(s) \in Nat
  BY LenProperties
<1>2. /\ Len(t) = k /\ DOMAIN t = 1 .. k
      /\ \A q \in 1 .. k : t[q] = s[q]
  BY <1>1
<1>3. \A q \in 1 .. k : q \in 1 .. Len(s)
  BY <1>1
<1>4. \A q \in 1 .. k : t[q] \in V
  BY <1>2, <1>3 DEF Climbs
<1>5. \A p, q \in 1 .. k : p < q => t[p] <= t[q]
  BY <1>2, <1>3 DEF Climbs
<1>6. ASSUME NEW w \in V
      PROVE  /\ k # 0 /\ w <= t[k] => \E q \in 1 .. k : t[q] = w
             /\ k = Len(s) => \E q \in 1 .. k : t[q] = w
  <2>1. PICK q \in 1 .. Len(s) : s[q] = w
    BY DEF Climbs
  <2>2. CASE q \in 1 .. k
    BY <1>2, <2>1, <2>2
  <2>3. CASE q \notin 1 .. k
    <3>1. k < q /\ k # Len(s)
      BY <1>1, <2>3
    <3>2. k # 0 => s[k] <= s[q] /\ k \in 1 .. k /\ t[k] = s[k] /\ s[k] \in 1 .. n
      BY <1>1, <1>2, <3>1 DEF Climbs
    <3>3. k # 0 /\ w <= t[k] => t[k] = w
      BY <2>1, <3>2
    <3> QED
      BY <3>1, <3>2, <3>3
  <2> QED
    BY <2>2, <2>3
<1> QED
  BY <1>2, <1>4, <1>5, <1>6 DEF Begins

(* What a widget, an event in dispatch and a call are. *)
Spot == {Widgets!Unset} \cup [by : {"layout"}, viewport : Viewports, count : Nat]
Shape == [interactive : BOOLEAN, border : BOOLEAN, visible : BOOLEAN, alpha : 0 .. 12, pos : Spot]
Dispatched == [kind : {"mouse", "resize"}, origin : BOOLEAN, under : SUBSET (1 .. MaxWidgets),
               next : Nat, count : Nat]

SceneTypes ==
  /\ widgets \in Seq(Shape) /\ Len(widgets) <= MaxWidgets /\ anims = <<>>
  /\ viewport \in Viewports /\ called \in Seq([w : Nat, was : Shape])
  /\ event = Widgets!NoEvent
     \/ /\ event \in Dispatched /\ event.next \in 1 .. Len(widgets) + 1
        /\ event.count <= Len(widgets)

(* The dispatch has called shown widgets before the next one.               *)
CalledBehind ==
  /\ Widgets!CalledOnceInOrder
  /\ event # Widgets!NoEvent => \A i \in 1 .. Len(called) : called[i].w < event.next

(* Nothing places a widget while an event is in dispatch.                   *)
NewcomersUnset ==
  event # Widgets!NoEvent =>
    \A w \in 1 .. Len(widgets) : w > event.count => widgets[w].pos = Widgets!Unset

SceneInv == SceneTypes /\ CalledBehind /\ NewcomersUnset /\ Widgets!NewcomersNotCalled

LEMMA SceneConstants == MaxWidgets \in Nat /\ MaxQuads \in Nat
BY KernelAssumption DEF Widgets!SceneAssumption

LEMMA SceneFacts ==
    ASSUME SceneTypes
    PROVE  /\ Len(widgets) \in Nat /\ DOMAIN widgets = 1 .. Len(widgets)
           /\ \A w \in 1 .. Len(widgets) : widgets[w] \in Shape
           /\ Len(called) \in Nat /\ DOMAIN called = 1 .. Len(called)
           /\ \A i \in 1 .. Len(called) : called[i] \in [w : Nat, was : Shape]
BY LenProperties, ElementOfSeq DEF SceneTypes

(* The quads of the widgets, in order. *)
Visible == {w \in 1 .. Len(widgets) : widgets[w].visible}

LEMMA QuadsInOrder ==
    ASSUME SceneTypes
    PROVE  /\ Widgets!QuadsOf[Len(widgets)] \in Seq(Nat)
           /\ Climbs(Widgets!QuadsOf[Len(widgets)], Len(widgets), Visible)
<1> DEFINE n == Len(widgets)
           g == [w \in 1 .. n |-> Widgets!Wanted(w)]
<1>1. n \in Nat
  BY SceneFacts
<1>2. ASSUME NEW w \in 1 .. n
      PROVE  /\ Widgets!Wanted(w) \in Seq(Nat) /\ \A q \in 1 .. Len(Widgets!Wanted(w)) : Widgets!Wanted(w)[q] = w
             /\ Len(Widgets!Wanted(w)) # 0 <=> w \in Visible
  <2>1. w \in Nat
    BY <1>1
  <2>2. CASE ~ widgets[w].visible
    <3>1. Widgets!Wanted(w) = <<>>
      BY <2>2 DEF Widgets!Wanted
    <3>2. <<>> \in Seq(Nat) /\ Len(<<>>) = 0
      BY EmptySeq
    <3> QED
      BY <2>2, <3>1, <3>2 DEF Visible
  <2>3. CASE widgets[w].visible
    <3> DEFINE k == IF widgets[w].border THEN 5 ELSE 1
    <3>1. k \in Nat /\ k # 0
      OBVIOUS
    <3> HIDE DEF k
    <3>2. Widgets!Wanted(w) = [q \in 1 .. k |-> w]
      BY <2>3 DEF Widgets!Wanted, k
    <3>3. [q \in 1 .. k |-> w] \in Seq(Nat) /\ Len([q \in 1 .. k |-> w]) = k
      BY <2>1, <3>1
    <3> QED
      BY <2>3, <3>1, <3>2, <3>3 DEF Visible
  <2> QED
    BY <2>2, <2>3
<1> HIDE DEF n
<1>3. g \in [1 .. n -> Seq(Nat)] /\ \A w \in 1 .. n : g[w] = Widgets!Wanted(w)
  BY <1>2
<1> HIDE DEF g
<1>4. PICK f \in [0 .. n -> Seq(Nat)] :
         \A w \in 0 .. n : f[w] = IF w = 0 THEN <<>> ELSE f[w - 1] \o g[w]
  <2>1. \E f : Joined(f, n, g)
    BY <1>1, <1>3, Concatenations
  <2> QED
    BY <2>1 DEF Joined
<1>5. \A w \in 0 .. n : f[w] = IF w = 0 THEN <<>> ELSE f[w - 1] \o Widgets!Wanted(w)
  <2>1. \A w \in 0 .. n : w # 0 => g[w] = Widgets!Wanted(w)
    BY <1>3
  <2> QED
    BY <1>4, <2>1
<1> DEFINE E == CHOOSE e : e = [w \in 0 .. n |-> IF w = 0 THEN <<>> ELSE e[w - 1] \o Widgets!Wanted(w)]
<1>6. f = [w \in 0 .. n |-> IF w = 0 THEN <<>> ELSE f[w - 1] \o Widgets!Wanted(w)]
  BY <1>5
<1>7. E = [w \in 0 .. n |-> IF w = 0 THEN <<>> ELSE E[w - 1] \o Widgets!Wanted(w)]
  BY <1>6
<1>8. E = Widgets!QuadsOf
  BY DEF Widgets!QuadsOf, n
<1> HIDE DEF E
<1>9. \A w \in 0 .. n : E[w] = IF w = 0 THEN <<>> ELSE E[w - 1] \o Widgets!Wanted(w)
  BY <1>7
<1> DEFINE S == {m \in Nat : m <= n => E[m] \in Seq(Nat) /\ Climbs(E[m], m, Visible)}
<1>10. 0 \in S
  <2>1. E[0] = <<>> /\ <<>> \in Seq(Nat) /\ Len(<<>>) = 0
    BY <1>1, <1>9, EmptySeq
  <2>2. Climbs(<<>>, 0, Visible)
    BY DEF Climbs
  <2> QED
    BY <2>1, <2>2
<1>11. ASSUME NEW m \in Nat, m \in S PROVE m + 1 \in S
  <2> SUFFICES ASSUME m + 1 <= n
               PROVE  E[m + 1] \in Seq(Nat) /\ Climbs(E[m + 1], m + 1, Visible)
    OBVIOUS
  <2>1. /\ E[m] \in Seq(Nat) /\ Climbs(E[m], m, Visible)
        /\ m + 1 \in 0 .. n /\ m + 1 \in 1 .. n /\ m + 1 # 0 /\ (m + 1) - 1 = m
    BY <1>1, <1>11
  <2>2. E[m + 1] = E[m] \o Widgets!Wanted(m + 1)
    BY <1>9, <2>1
  <2>3. Climbs(E[m] \o Widgets!Wanted(m + 1), m + 1, Visible)
    <3>1. /\ Widgets!Wanted(m + 1) \in Seq(Nat)
          /\ \A q \in 1 .. Len(Widgets!Wanted(m + 1)) : Widgets!Wanted(m + 1)[q] = m + 1
          /\ Len(Widgets!Wanted(m + 1)) # 0 <=> m + 1 \in Visible
      BY <1>2, <2>1
    <3> QED
      BY <2>1, <3>1, OneMoreStep
  <2>4. E[m] \o Widgets!Wanted(m + 1) \in Seq(Nat)
    BY <1>2, <2>1, ConcatProperties
  <2> QED
    BY <2>2, <2>3, <2>4
<1> HIDE DEF S
<1>12. n \in S
  BY <1>1, <1>10, <1>11, Induction
<1> QED
  BY <1>8, <1>12 DEF S, n

(* A frame shows the visible widgets in their order, up to where the batch  *)
(* is full.                                                                 *)
LEMMA FrameShowsPrefix ==
    ASSUME SceneTypes, Widgets!Render
    PROVE  Widgets!ShowsVisiblePrefix(drawn')
<1> DEFINE n == Len(widgets)
           s == Widgets!QuadsOf[Len(widgets)]
           k == Widgets!Min({MaxQuads, Len(s)})
           t == drawn'
<1>1. s \in Seq(Nat) /\ Climbs(s, n, Visible) /\ Visible \in SUBSET (1 .. n) /\ n \in Nat
  BY QuadsInOrder, SceneFacts DEF Visible
<1>2. t = SubSeq(s, 1, k)
  BY DEF Widgets!Render
<1> HIDE DEF n, s, t
<1>3. /\ k \in {MaxQuads, Len(s)} /\ k <= MaxQuads /\ k <= Len(s)
      /\ Len(s) \in Nat
  <2>1. Len(s) \in Nat /\ MaxQuads \in Nat
    BY <1>1, LenProperties, SceneConstants
  <2>2. \E x \in {MaxQuads, Len(s)} : \A y \in {MaxQuads, Len(s)} : x <= y
    BY <2>1
  <2>3. k \in {MaxQuads, Len(s)} /\ \A y \in {MaxQuads, Len(s)} : k <= y
    BY <2>2 DEF Widgets!Min
  <2> QED
    BY <2>1, <2>3
<1> HIDE DEF k
<1>4. k \in 0 .. Len(s)
  BY <1>3, SceneConstants
<1>5. /\ Len(t) = k /\ DOMAIN t = 1 .. k
      /\ \A q \in 1 .. k : t[q] \in Visible
      /\ \A p, q \in 1 .. k : p < q => t[p] <= t[q]
      /\ k # 0 => \A w \in Visible : w <= t[k] => \E q \in 1 .. k : t[q] = w
      /\ k = Len(s) => \A w \in Visible : \E q \in 1 .. k : t[q] = w
  <2> DEFINE V == Visible
  <2>1. /\ s \in Seq(Nat) /\ Climbs(s, n, V) /\ V \in SUBSET (1 .. n) /\ n \in Nat
        /\ k \in 0 .. Len(s) /\ t = SubSeq(s, 1, k)
    BY <1>1, <1>2, <1>4
  <2> HIDE DEF V
  <2>2. Begins(t, k, s, V)
    BY <2>1, Beginning
  <2> QED
    BY <2>2 DEF V, Begins
<1> DEFINE seen == {t[q] : q \in DOMAIN t}
           cut == IF seen = {} THEN 0 ELSE Widgets!Max(seen)
<1>6. k \in Nat /\ \A w \in Visible : w \in Nat /\ w >= 1
  BY <1>1, <1>4
<1>7. seen = {w \in Visible : w <= cut}
  <2>1. CASE k = 0
    <3>1. seen = {}
      BY <1>5, <2>1
    <3> QED
      BY <1>6, <3>1
  <2>2. CASE k # 0
    <3>1. k \in 1 .. k /\ t[k] \in seen /\ t[k] \in Nat
      BY <1>5, <1>6, <2>2
    <3>2. \A x \in seen : x <= t[k] /\ x \in Nat
      BY <1>5, <1>6, <3>1
    <3> HIDE DEF seen
    <3>3. Widgets!Max(seen) = t[k]
      <4>1. \E x \in seen : \A y \in seen : x >= y
        BY <3>1, <3>2
      <4>2. Widgets!Max(seen) \in seen /\ \A y \in seen : Widgets!Max(seen) >= y
        BY <4>1 DEF Widgets!Max
      <4> QED
        BY <3>1, <3>2, <4>2
    <3>4. cut = t[k]
      BY <3>1, <3>3
    <3> HIDE DEF cut
    <3>5. \A w \in Visible : w <= cut => w \in seen
      BY <1>5, <2>2, <3>4 DEF seen
    <3>6. \A w \in seen : w \in Visible
      BY <1>5 DEF seen
    <3> QED
      BY <3>2, <3>4, <3>5, <3>6
  <2> QED
    BY <2>1, <2>2
<1>8. seen # Visible => k = MaxQuads
  <2>1. CASE k = Len(s)
    <3>1. \A w \in Visible : w \in seen
      BY <1>5, <2>1
    <3>2. \A w \in seen : w \in Visible
      BY <1>5
    <3> QED
      BY <3>1, <3>2
  <2> QED
    BY <1>3, <2>1
<1>9. Visible = {w \in Widgets!Ids : widgets[w].visible}
  BY SceneFacts DEF Visible, Widgets!Ids
<1> HIDE DEF Visible
<1> QED
  BY <1>5, <1>7, <1>8, <1>9 DEF Widgets!ShowsVisiblePrefix, t

(* A call of the program, between frames or from a callback: widgets stay   *)
(* where they are, and a new one has no place.                              *)
LEMMA CallKeeps ==
    ASSUME SceneTypes, Widgets!Call
    PROVE  /\ widgets' \in Seq(Shape) /\ Len(widgets') <= MaxWidgets /\ Len(widgets) <= Len(widgets')
           /\ anims' = <<>> /\ viewport' = viewport
           /\ \A w \in 1 .. Len(widgets) : widgets'[w].pos = widgets[w].pos
           /\ \A w \in 1 .. Len(widgets') : w > Len(widgets) => widgets'[w].pos = Widgets!Unset
<1>1. /\ Len(widgets) \in Nat /\ DOMAIN widgets = 1 .. Len(widgets) /\ widgets \in Seq(Shape)
      /\ \A w \in 1 .. Len(widgets) : widgets[w] \in Shape
      /\ anims = <<>> /\ DOMAIN anims = {} /\ MaxWidgets \in Nat
  BY SceneFacts, SceneConstants DEF SceneTypes
<1>2. ASSUME NEW look \in {Look(TRUE, FALSE), Look(FALSE, TRUE)}, Widgets!AddWidget(look)
      PROVE  /\ widgets' \in Seq(Shape) /\ Len(widgets') <= MaxWidgets /\ Len(widgets) <= Len(widgets')
             /\ anims' = <<>> /\ viewport' = viewport
             /\ \A w \in 1 .. Len(widgets) : widgets'[w].pos = widgets[w].pos
             /\ \A w \in 1 .. Len(widgets') : w > Len(widgets) => widgets'[w].pos = Widgets!Unset
  <2> DEFINE new == Widgets!New(look, Widgets!Unset)
  <2>1. new \in Shape /\ new.pos = Widgets!Unset
    <3>1. Widgets!Unset \in Spot
      BY DEF Spot
    <3>2. look.interactive \in BOOLEAN /\ look.border \in BOOLEAN
      <4>1. CASE look = Look(TRUE, FALSE)
        BY <4>1 DEF Look
      <4>2. CASE look = Look(FALSE, TRUE)
        BY <4>2 DEF Look
      <4> QED
        BY <4>1, <4>2
    <3>3. new = [interactive |-> look.interactive, border |-> look.border,
                 visible |-> TRUE, alpha |-> 12, pos |-> Widgets!Unset]
      BY DEF Widgets!New
    <3> HIDE DEF new
    <3>4. new.pos = Widgets!Unset
      BY <3>3
    <3> QED
      BY <3>1, <3>2, <3>3, <3>4 DEF Shape
  <2>2. /\ widgets' = Append(widgets, new) /\ Len(widgets) < MaxWidgets
        /\ anims' = <<>> /\ viewport' = viewport
    BY <1>1, <1>2 DEF Widgets!AddWidget
  <2> HIDE DEF new
  <2>3. /\ Append(widgets, new) \in Seq(Shape)
        /\ Len(Append(widgets, new)) = Len(widgets) + 1
        /\ \A w \in 1 .. Len(widgets) : Append(widgets, new)[w] = widgets[w]
        /\ Append(widgets, new)[Len(widgets) + 1] = new
    BY <1>1, <2>1, AppendProperties
  <2>4. \A w \in 1 .. Len(widgets) + 1 : w > Len(widgets) => w = Len(widgets) + 1
    BY <1>1
  <2>5. Len(widgets) + 1 <= MaxWidgets
    BY <1>1, <2>2
  <2> QED
    BY <1>1, <2>1, <2>2, <2>3, <2>4, <2>5
<1>3. ASSUME NEW w \in 1 .. Len(widgets), NEW v \in BOOLEAN, Widgets!SetVisible(w, v)
      PROVE  /\ widgets' \in Seq(Shape) /\ Len(widgets') = Len(widgets)
             /\ anims' = <<>> /\ viewport' = viewport
             /\ \A u \in 1 .. Len(widgets) : widgets'[u].pos = widgets[u].pos
  <2> DEFINE new == [widgets[w] EXCEPT !.visible = v]
  <2>1. new \in Shape /\ new.pos = widgets[w].pos
    <3>1. widgets[w] \in Shape
      BY <1>1
    <3> QED
      BY <3>1 DEF Shape
  <2>2. widgets' = [widgets EXCEPT ![w] = new] /\ anims' = <<>> /\ viewport' = viewport
    BY <1>1, <1>3 DEF Widgets!SetVisible
  <2> HIDE DEF new
  <2>3. /\ widgets' \in Seq(Shape) /\ Len(widgets') = Len(widgets)
        /\ \A u \in 1 .. Len(widgets) : widgets'[u] = IF u = w THEN new ELSE widgets[u]
    BY <1>1, <2>1, <2>2, ExceptSeq
  <2> QED
    BY <2>1, <2>2, <2>3
<1>4. ASSUME NEW w \in 1 .. Len(widgets), NEW v \in BOOLEAN, Widgets!SetVisible(w, v)
      PROVE  /\ widgets' \in Seq(Shape) /\ Len(widgets') <= MaxWidgets /\ Len(widgets) <= Len(widgets')
             /\ anims' = <<>> /\ viewport' = viewport
             /\ \A u \in 1 .. Len(widgets) : widgets'[u].pos = widgets[u].pos
             /\ \A u \in 1 .. Len(widgets') : u > Len(widgets) => widgets'[u].pos = Widgets!Unset
  BY <1>1, <1>3, <1>4 DEF SceneTypes
<1> QED
  BY <1>1, <1>2, <1>4 DEF Widgets!Call, Widgets!Ids

LEMMA SceneBegins == Widgets!Init => SceneInv
<1> SUFFICES ASSUME Widgets!Init PROVE SceneInv
  OBVIOUS
<1>1. /\ widgets = <<>> /\ anims = <<>> /\ viewport \in Viewports /\ event = Widgets!NoEvent
      /\ called = <<>>
  BY DEF Widgets!Init
<1>2. /\ <<>> \in Seq(Shape) /\ <<>> \in Seq([w : Nat, was : Shape]) /\ Len(<<>>) = 0
  BY EmptySeq
<1>3. SceneTypes
  BY <1>1, <1>2, SceneConstants DEF SceneTypes
<1>4. CalledBehind /\ NewcomersUnset /\ Widgets!NewcomersNotCalled
  BY <1>1 DEF CalledBehind, NewcomersUnset, Widgets!CalledOnceInOrder, Widgets!NewcomersNotCalled,
              Widgets!Idle
<1> QED
  BY <1>3, <1>4 DEF SceneInv

(* Between events nothing is in dispatch; a call or an update keeps what    *)
(* widgets are.                                                             *)
LEMMA IdleKeeps ==
    ASSUME SceneInv, event = Widgets!NoEvent, UNCHANGED <<event, called>>, anims' = <<>>,
           widgets' \in Seq(Shape), Len(widgets') <= MaxWidgets, viewport' \in Viewports
    PROVE  SceneInv'
<1>1. SceneTypes'
  BY DEF SceneInv, SceneTypes
<1>2. event' = Widgets!NoEvent
  OBVIOUS
<1>3. (CalledBehind /\ NewcomersUnset /\ Widgets!NewcomersNotCalled)'
  BY <1>2 DEF SceneInv, CalledBehind, NewcomersUnset, Widgets!CalledOnceInOrder,
              Widgets!NewcomersNotCalled, Widgets!Idle, Widgets!NoEvent
<1> QED
  BY <1>1, <1>3 DEF SceneInv

LEMMA UpdateKeeps == ASSUME SceneInv, event = Widgets!NoEvent, NEW dt, Widgets!Update(dt)
                     PROVE  SceneInv'
<1>1. /\ Len(widgets) \in Nat /\ DOMAIN widgets = 1 .. Len(widgets)
      /\ \A w \in 1 .. Len(widgets) : widgets[w] \in Shape
      /\ anims = <<>> /\ DOMAIN anims = {} /\ viewport \in Viewports
      /\ Len(widgets) <= MaxWidgets
  BY SceneFacts DEF SceneInv, SceneTypes
<1>2. \A w : Widgets!Driver(w, "alpha") = 0 /\ Widgets!Driver(w, "x") = 0
  BY <1>1 DEF Widgets!Driver, Widgets!Driving
<1> DEFINE at == [by |-> "layout", viewport |-> viewport, count |-> Len(widgets)]
           moved(w) == [widgets[w] EXCEPT !.pos = at]
<1>3. at \in Spot
  BY <1>1 DEF Spot
<1>4. /\ UNCHANGED <<event, called>> /\ viewport' = viewport
      /\ anims' = [m \in DOMAIN anims |-> Widgets!Ticked(anims[m], dt)]
  BY DEF Widgets!Update, Widgets!eventVars
<1>5. anims' = <<>>
  BY <1>1, <1>4
<1>6. /\ widgets' = [w \in 1 .. Len(widgets) |->
            [[widgets[w] EXCEPT !.alpha = widgets[w].alpha, !.pos = widgets[w].pos]
               EXCEPT !.pos = at]]
  BY <1>1, <1>2 DEF Widgets!Update, Widgets!Ids, Widgets!Tweened, Widgets!Placed
<1> HIDE DEF at
<1>7. \A w \in 1 .. Len(widgets) :
        [[widgets[w] EXCEPT !.alpha = widgets[w].alpha, !.pos = widgets[w].pos]
               EXCEPT !.pos = at] \in Shape
  BY <1>1, <1>3 DEF Shape
<1> DEFINE new(w) == [[widgets[w] EXCEPT !.alpha = widgets[w].alpha, !.pos = widgets[w].pos]
                        EXCEPT !.pos = at]
           n == Len(widgets)
<1>8. widgets' \in Seq(Shape) /\ Len(widgets') = Len(widgets)
  <2>1. widgets' = [w \in 1 .. n |-> new(w)] /\ n \in Nat /\ \A w \in 1 .. n : new(w) \in Shape
    BY <1>1, <1>6, <1>7
  <2> HIDE DEF new, n
  <2>2. widgets' \in [1 .. n -> Shape]
    BY <2>1
  <2>3. widgets' \in Seq(Shape) /\ Len(widgets') = n
    BY <2>1, <2>2
  <2> QED
    BY <2>3 DEF n
<1> QED
  BY <1>1, <1>4, <1>5, <1>8, IdleKeeps

(* An event begins before all widgets.                                      *)
LEMMA BeginKeeps ==
    ASSUME SceneInv, event = Widgets!NoEvent, NEW origin \in BOOLEAN,
           NEW under \in SUBSET (1 .. MaxWidgets), NEW kind \in {"mouse", "resize"},
           Widgets!BeginDispatch(kind, origin, under)
    PROVE  SceneInv'
<1> DEFINE new == [kind |-> kind, origin |-> origin, under |-> under, next |-> 1,
                   count |-> Len(widgets)]
<1>1. /\ widgets \in Seq(Shape) /\ Len(widgets) \in Nat /\ Len(widgets) <= MaxWidgets
      /\ anims = <<>> /\ viewport \in Viewports
  BY SceneFacts DEF SceneInv, SceneTypes
<1>2. /\ widgets' = widgets /\ anims' = anims /\ viewport' = viewport /\ called' = <<>>
      /\ event' = new
  BY DEF Widgets!BeginDispatch, Widgets!sceneVars
<1>3. new \in Dispatched /\ new.next = 1 /\ new.count = Len(widgets)
  BY <1>1 DEF Dispatched
<1> HIDE DEF new
<1>4. <<>> \in Seq([w : Nat, was : Shape]) /\ Len(<<>>) = 0 /\ DOMAIN <<>> = {}
  BY EmptySeq
<1>5. SceneTypes'
  BY <1>1, <1>2, <1>3, <1>4 DEF SceneTypes
<1>6. CalledBehind'
  BY <1>2, <1>4 DEF CalledBehind, Widgets!CalledOnceInOrder
<1>7. NewcomersUnset'
  BY <1>1, <1>2, <1>3 DEF NewcomersUnset
<1>8. (Widgets!NewcomersNotCalled)'
  BY <1>2, <1>4 DEF Widgets!NewcomersNotCalled
<1> QED
  BY <1>5, <1>6, <1>7, <1>8 DEF SceneInv

(* What the dispatch of an event relies on. *)
LEMMA InDispatch ==
    ASSUME SceneInv, event # Widgets!NoEvent
    PROVE  /\ event \in Dispatched /\ event.next \in 1 .. Len(widgets) + 1
           /\ event.count \in Nat /\ event.count <= Len(widgets) /\ event.next \in Nat
           /\ \A i \in 1 .. Len(called) : called[i].w < event.next
           /\ \A i, j \in 1 .. Len(called) : i < j => called[i].w < called[j].w
           /\ \A i \in 1 .. Len(called) : called[i].was.visible /\ called[i].was.interactive
           /\ ~ event.origin => \A i \in 1 .. Len(called) : called[i].w <= event.count
           /\ \A w \in 1 .. Len(widgets) : w > event.count => widgets[w].pos = Widgets!Unset
<1>1. DOMAIN called = 1 .. Len(called)
  BY SceneFacts DEF SceneInv
<1>2. /\ event \in Dispatched /\ event.next \in 1 .. Len(widgets) + 1
      /\ event.count <= Len(widgets)
  BY DEF SceneInv, SceneTypes
<1>3. event.count \in Nat /\ event.next \in Nat
  BY <1>2 DEF Dispatched
<1>4. /\ \A i \in 1 .. Len(called) : called[i].w < event.next
      /\ Widgets!CalledOnceInOrder /\ Widgets!NewcomersNotCalled /\ NewcomersUnset
  BY DEF SceneInv, CalledBehind
<1>5. /\ \A i, j \in 1 .. Len(called) : i < j => called[i].w < called[j].w
      /\ \A i \in 1 .. Len(called) : called[i].was.visible /\ called[i].was.interactive
  BY <1>1, <1>4 DEF Widgets!CalledOnceInOrder
<1>6. ~ event.origin => \A i \in 1 .. Len(called) : called[i].w <= event.count
  BY <1>1, <1>4 DEF Widgets!NewcomersNotCalled, Widgets!Idle
<1> QED
  BY <1>2, <1>3, <1>4, <1>5, <1>6 DEF NewcomersUnset

(* The next widget is passed over ...                                       *)
LEMMA PassKeeps == ASSUME SceneInv, event # Widgets!NoEvent, Widgets!PassWidget PROVE SceneInv'
<1>1. /\ widgets \in Seq(Shape) /\ Len(widgets) \in Nat /\ Len(widgets) <= MaxWidgets
      /\ anims = <<>> /\ viewport \in Viewports /\ called \in Seq([w : Nat, was : Shape])
      /\ DOMAIN called = 1 .. Len(called)
      /\ \A i \in 1 .. Len(called) : called[i] \in [w : Nat, was : Shape]
  BY SceneFacts DEF SceneInv, SceneTypes
<1>2. /\ widgets' = widgets /\ anims' = anims /\ viewport' = viewport /\ called' = called
      /\ event' = [event EXCEPT !.next = event.next + 1] /\ event.next <= Len(widgets)
  BY DEF Widgets!PassWidget, Widgets!sceneVars
<1>3. /\ event' \in Dispatched /\ event'.next = event.next + 1 /\ event'.count = event.count
      /\ event'.origin = event.origin
  BY <1>2, InDispatch DEF Dispatched
<1>4. SceneTypes'
  BY <1>1, <1>2, <1>3, InDispatch DEF SceneTypes
<1>5. CalledBehind'
  <2>1. \A i \in 1 .. Len(called) : called[i].w < event.next + 1
    BY <1>1, InDispatch
  <2> QED
    BY <1>2, <1>3, <2>1 DEF SceneInv, CalledBehind, Widgets!CalledOnceInOrder
<1>6. NewcomersUnset'
  BY <1>2, <1>3, InDispatch DEF NewcomersUnset
<1>7. (Widgets!NewcomersNotCalled)'
  BY <1>1, <1>2, <1>3, InDispatch DEF Widgets!NewcomersNotCalled
<1> QED
  BY <1>4, <1>5, <1>6, <1>7 DEF SceneInv

(* ... or called: it is shown, and a newcomer is not reached but at the     *)
(* origin, as it has no place; then the callback does what it does.         *)
LEMMA CallbackKeeps == ASSUME SceneInv, event # Widgets!NoEvent, Widgets!CallWidget PROVE SceneInv'
<1> DEFINE x == event.next
           new == [w |-> event.next, was |-> widgets[event.next]]
           n == Len(called)
<1>1. /\ widgets \in Seq(Shape) /\ Len(widgets) \in Nat /\ Len(widgets) <= MaxWidgets
      /\ anims = <<>> /\ viewport \in Viewports /\ called \in Seq([w : Nat, was : Shape])
      /\ n \in Nat /\ DOMAIN called = 1 .. n
      /\ \A i \in 1 .. n : called[i] \in [w : Nat, was : Shape]
      /\ \A w \in 1 .. Len(widgets) : widgets[w] \in Shape
  BY SceneFacts DEF SceneInv, SceneTypes
<1>2. /\ event' = [event EXCEPT !.next = x + 1] /\ x <= Len(widgets)
      /\ called' = Append(called, new)
      /\ Widgets!Receives(x)
  BY DEF Widgets!CallWidget
<1>3. x \in 1 .. Len(widgets) /\ x \in Nat
  BY <1>1, <1>2, InDispatch
<1>4. /\ event' \in Dispatched /\ event'.next = x + 1 /\ event'.count = event.count
      /\ event'.origin = event.origin /\ event' # Widgets!NoEvent
  <2>1. /\ event' \in Dispatched /\ event'.next = x + 1 /\ event'.count = event.count
        /\ event'.origin = event.origin
    BY <1>2, <1>3, InDispatch DEF Dispatched
  <2> QED
    BY <2>1 DEF Dispatched, Widgets!NoEvent
<1>5. new \in [w : Nat, was : Shape] /\ new.w = x /\ new.was.visible /\ new.was.interactive
  BY <1>1, <1>2, <1>3 DEF Widgets!Receives
<1>6. ~ event.origin => x <= event.count
  <2>1. widgets[x].pos = Widgets!Unset => event.origin
    BY <1>2 DEF Widgets!Receives, Widgets!Hit
  <2> QED
    BY <1>3, <2>1, InDispatch
<1>7. /\ widgets' \in Seq(Shape) /\ Len(widgets') \in Nat /\ Len(widgets') <= MaxWidgets
      /\ Len(widgets) <= Len(widgets') /\ anims' = <<>> /\ viewport' = viewport
      /\ \A w \in 1 .. Len(widgets) : widgets'[w].pos = widgets[w].pos
      /\ \A w \in 1 .. Len(widgets') : w > Len(widgets) => widgets'[w].pos = Widgets!Unset
  <2>1. CASE Widgets!Call
    BY <2>1, CallKeeps, LenProperties DEF SceneInv
  <2>2. CASE UNCHANGED Widgets!sceneVars
    BY <1>1, <2>2 DEF Widgets!sceneVars
  <2> QED
    BY <2>1, <2>2 DEF Widgets!CallWidget
<1> HIDE DEF new, x, n
<1>8. /\ called' \in Seq([w : Nat, was : Shape]) /\ Len(called') = n + 1
      /\ \A i \in 1 .. n : called'[i] = called[i]
      /\ called'[n + 1] = new
  BY <1>1, <1>2, <1>5, AppendProperties DEF n
<1>9. DOMAIN called' = 1 .. n + 1
  BY <1>8, LenProperties
<1>10. SceneTypes'
  <2>1. event'.next \in 1 .. Len(widgets') + 1 /\ event'.count <= Len(widgets')
    BY <1>1, <1>3, <1>4, <1>7, InDispatch
  <2> QED
    BY <1>1, <1>4, <1>7, <1>8, <2>1 DEF SceneTypes
<1>11. \A i \in 1 .. n + 1 : i \in 1 .. n \/ i = n + 1
  BY <1>1
<1>12. \A i \in 1 .. n : called[i].w < x /\ called[i].w \in Nat
  BY <1>1, InDispatch DEF n, x
<1>13. \A i, j \in 1 .. n + 1 : i < j => called'[i].w < called'[j].w
  <2> SUFFICES ASSUME NEW i \in 1 .. n + 1, NEW j \in 1 .. n + 1, i < j
               PROVE  called'[i].w < called'[j].w
    OBVIOUS
  <2>1. i \in 1 .. n
    BY <1>1
  <2>2. CASE j \in 1 .. n
    <3>1. called[i].w < called[j].w
      BY <2>1, <2>2, InDispatch DEF n
    <3> QED
      BY <1>8, <2>1, <2>2, <3>1
  <2>3. CASE j = n + 1
    BY <1>5, <1>8, <1>12, <2>1, <2>3
  <2> QED
    BY <1>11, <2>2, <2>3
<1>14. \A i \in 1 .. n + 1 : called'[i].was.visible /\ called'[i].was.interactive
  <2>1. \A i \in 1 .. n : called[i].was.visible /\ called[i].was.interactive
    BY InDispatch DEF n
  <2> QED
    BY <1>5, <1>8, <1>11, <2>1
<1>15. CalledBehind'
  <2>1. (Widgets!CalledOnceInOrder)'
    BY <1>9, <1>13, <1>14 DEF Widgets!CalledOnceInOrder
  <2>2. \A i \in 1 .. n + 1 : called'[i].w < x + 1
    BY <1>3, <1>5, <1>8, <1>11, <1>12
  <2> QED
    BY <1>4, <1>8, <2>1, <2>2 DEF CalledBehind
<1>16. NewcomersUnset'
  <2> SUFFICES ASSUME NEW w \in 1 .. Len(widgets'), w > event.count
               PROVE  widgets'[w].pos = Widgets!Unset
    BY <1>4 DEF NewcomersUnset
  <2>1. CASE w > Len(widgets)
    BY <1>7, <2>1
  <2>2. CASE ~ (w > Len(widgets))
    <3>1. w \in 1 .. Len(widgets)
      BY <1>1, <1>7, <2>2
    <3>2. widgets[w].pos = Widgets!Unset
      BY <3>1, InDispatch
    <3> QED
      BY <1>7, <3>1, <3>2
  <2> QED
    BY <2>1, <2>2
<1>17. (Widgets!NewcomersNotCalled)'
  <2>1. ~ event.origin => \A i \in 1 .. n : called[i].w <= event.count
    BY InDispatch DEF n
  <2>2. ~ event.origin => \A i \in 1 .. n + 1 : called'[i].w <= event.count
    BY <1>5, <1>6, <1>8, <1>11, <2>1
  <2> QED
    BY <1>4, <1>9, <2>2 DEF Widgets!NewcomersNotCalled
<1> QED
  BY <1>10, <1>15, <1>16, <1>17 DEF SceneInv

LEMMA EndKeeps == ASSUME SceneInv, event # Widgets!NoEvent, Widgets!EndDispatch PROVE SceneInv'
<1>1. /\ widgets \in Seq(Shape) /\ Len(widgets) <= MaxWidgets
      /\ anims = <<>> /\ viewport \in Viewports /\ called \in Seq([w : Nat, was : Shape])
  BY DEF SceneInv, SceneTypes
<1>2. event' = Widgets!NoEvent /\ called' = called
  BY DEF Widgets!EndDispatch
<1>3. widgets' = widgets /\ anims' = anims /\ viewport' \in Viewports
  <2>1. CASE event.kind = "resize"
    BY <2>1 DEF Widgets!EndDispatch, Widgets!Resize
  <2>2. CASE event.kind # "resize"
    BY <1>1, <2>2 DEF Widgets!EndDispatch, Widgets!sceneVars
  <2> QED
    BY <2>1, <2>2
<1>4. SceneTypes'
  BY <1>1, <1>2, <1>3 DEF SceneTypes
<1>5. (Widgets!CalledOnceInOrder)'
  BY <1>2 DEF SceneInv, CalledBehind, Widgets!CalledOnceInOrder
<1>6. CalledBehind' /\ NewcomersUnset' /\ (Widgets!NewcomersNotCalled)'
  BY <1>2, <1>5 DEF CalledBehind, NewcomersUnset, Widgets!NewcomersNotCalled, Widgets!Idle
<1> QED
  BY <1>4, <1>6 DEF SceneInv

LEMMA SceneStep == SceneInv /\ [KernelNext]_kernelVars => SceneInv'
<1> SUFFICES ASSUME SceneInv, [KernelNext]_kernelVars PROVE SceneInv'
  OBVIOUS
<1>1. CASE UNCHANGED sceneVars
  <2>1. /\ widgets' = widgets /\ anims' = anims /\ viewport' = viewport /\ event' = event
        /\ called' = called
    BY <1>1 DEF sceneVars
  <2> QED
    BY <2>1 DEF SceneInv, SceneTypes, CalledBehind, NewcomersUnset, Widgets!CalledOnceInOrder,
                Widgets!NewcomersNotCalled, Widgets!Idle
<1>2. CASE Widgets!Next
  <2>1. /\ widgets \in Seq(Shape) /\ Len(widgets) <= MaxWidgets /\ anims = <<>>
        /\ viewport \in Viewports
    BY DEF SceneInv, SceneTypes
  <2>2. CASE event = Widgets!NoEvent
    <3>1. CASE Widgets!Call /\ UNCHANGED <<drawn, Widgets!eventVars>>
      <4>1. UNCHANGED <<event, called>>
        BY <3>1 DEF Widgets!eventVars
      <4> QED
        BY <2>1, <2>2, <3>1, <4>1, CallKeeps, IdleKeeps DEF SceneInv
    <3>2. CASE Widgets!UpdateNow
      BY <2>2, <3>2, UpdateKeeps DEF Widgets!UpdateNow
    <3>3. CASE Widgets!Render
      <4>1. /\ UNCHANGED <<event, called>> /\ widgets' = widgets /\ anims' = anims
            /\ viewport' = viewport
        BY <3>3 DEF Widgets!Render, Widgets!eventVars, Widgets!sceneVars
      <4> QED
        BY <2>1, <2>2, <4>1, IdleKeeps
    <3>4. CASE \E origin \in BOOLEAN, under \in SUBSET (1 .. MaxWidgets), kind \in {"mouse", "resize"} :
                  Widgets!BeginDispatch(kind, origin, under)
      BY <2>2, <3>4, BeginKeeps
    <3> QED
      BY <1>2, <2>2, <3>1, <3>2, <3>3, <3>4 DEF Widgets!Next, Widgets!Idle
  <2>3. CASE event # Widgets!NoEvent
    BY <1>2, <2>3, PassKeeps, CallbackKeeps, EndKeeps
       DEF Widgets!Next, Widgets!Dispatch, Widgets!Idle
  <2> QED
    BY <2>2, <2>3
<1> QED
  BY <1>1, <1>2 DEF KernelNext, kernelVars

(* After every step of a scene: an event has called shown widgets, each once *)
(* and in order, whatever the callbacks added or hid, and none that has no   *)
(* place; and a frame just drawn shows the visible widgets in order, up to   *)
(* where the batch was full.                                                 *)
THEOREM SceneIsWalkedInOrder == KernelSpec => WalkedInOrder
<1> DEFINE Good ==
      /\ (Widgets!TypeOK)' /\ (Widgets!CalledOnceInOrder)' /\ (Widgets!NewcomersNotCalled)'
      /\ drawn' # drawn => Widgets!ShowsVisiblePrefix(drawn')
<1>1. KernelInit => SceneInv
  BY SceneBegins DEF KernelInit
<1>2. SceneInv => Widgets!TypeOK /\ Widgets!CalledOnceInOrder /\ Widgets!NewcomersNotCalled
  <2> SUFFICES ASSUME SceneInv PROVE Widgets!TypeOK
    BY DEF SceneInv, CalledBehind
  <2>1. /\ Len(widgets) \in Nat /\ DOMAIN widgets = 1 .. Len(widgets)
        /\ \A w \in 1 .. Len(widgets) : widgets[w] \in Shape
        /\ Len(widgets) <= MaxWidgets /\ anims = <<>> /\ viewport \in Viewports
        /\ MaxWidgets \in Nat
    BY SceneFacts, SceneConstants DEF SceneInv, SceneTypes
  <2>2. DOMAIN anims = {} /\ Len(anims) = 0
    BY <2>1
  <2>3. \A w \in 1 .. Len(widgets) : widgets[w].alpha \in 0 .. 12
    BY <2>1 DEF Shape
  <2>4. event = Widgets!NoEvent \/ event.next \in 1 .. MaxWidgets + 1
    BY <2>1, InDispatch
  <2> QED
    BY <2>1, <2>2, <2>3, <2>4 DEF Widgets!TypeOK, Widgets!Ids, Widgets!Idle
<1>3. SceneInv /\ SceneInv' /\ [KernelNext]_kernelVars => [Good]_(Widgets!vars)
  <2> SUFFICES ASSUME SceneInv, SceneInv', [KernelNext]_kernelVars
               PROVE  Good \/ UNCHANGED Widgets!vars
    OBVIOUS
  <2>1. (Widgets!TypeOK /\ Widgets!CalledOnceInOrder /\ Widgets!NewcomersNotCalled)'
    BY <1>2, PTL
  <2>2. CASE UNCHANGED sceneVars
    BY <2>2 DEF sceneVars, Widgets!vars, Widgets!sceneVars, Widgets!eventVars
  <2>3. CASE Widgets!Next
    <3>1. drawn' = drawn \/ Widgets!Render
      BY <2>3 DEF Widgets!Next, Widgets!UpdateNow, Widgets!Update, Widgets!BeginDispatch,
                  Widgets!Dispatch, Widgets!PassWidget, Widgets!CallWidget, Widgets!EndDispatch
    <3>2. Widgets!Render => Widgets!ShowsVisiblePrefix(drawn')
      BY FrameShowsPrefix DEF SceneInv
    <3> QED
      BY <2>1, <3>1, <3>2
  <2> QED
    BY <2>2, <2>3 DEF KernelNext, kernelVars
<1>4. KernelSpec => [][Good]_(Widgets!vars)
  <2> HIDE DEF Good
  <2> QED
    BY <1>1, <1>3, SceneStep, PTL DEF KernelSpec
<1> QED
  BY <1>4 DEF WalkedInOrder, Widgets!WalkedInOrder

-----------------------------------------------------------------------------
(* The layout's links, for any number of nodes. *)

(* Links that go up lead to an end: the chain from each node exists, and    *)
(* follows the equation.                                                    *)
Follows(f, n, link) ==
  f = [i \in (0 .. n - 1) \cup {-1} |-> IF i = -1 THEN <<>> ELSE <<i>> \o f[link[i]]]

LEMMA ChainsEnd ==
    ASSUME NEW n \in Nat, NEW link,
           \A i \in 0 .. n - 1 : link[i] = -1 \/ (link[i] \in 0 .. n - 1 /\ link[i] > i)
    PROVE  \E f : Follows(f, n, link)
<1> DEFINE T == Seq(Nat)
           Upper(m) == ((n - m) .. (n - 1)) \cup {-1}
           From(f, m) == /\ f \in [Upper(m) -> T] /\ f[-1] = <<>>
                         /\ \A i \in (n - m) .. (n - 1) : f[i] = <<i>> \o f[link[i]]
           S == {m \in Nat : m <= n => \E f : From(f, m)}
<1>0. <<>> \in T /\ \A i \in Nat, t \in T : <<i>> \o t \in T
  <2>1. \A i \in Nat : <<i>> \in Seq(Nat)
    OBVIOUS
  <2> QED
    BY <2>1, EmptySeq, ConcatProperties
<1> HIDE DEF T
<1>1. 0 \in S
  <2> DEFINE h == [i \in Upper(0) |-> <<>>]
  <2>1. \A i : i \notin (n - 0) .. (n - 1)
    OBVIOUS
  <2>2. h \in [Upper(0) -> T] /\ h[-1] = <<>>
    BY <1>0
  <2>3. From(h, 0)
    BY <2>1, <2>2
  <2> QED
    BY <2>3
<1>2. ASSUME NEW m \in Nat, m \in S PROVE m + 1 \in S
  <2> HIDE DEF From
  <2> SUFFICES ASSUME m + 1 <= n PROVE \E f : From(f, m + 1)
    OBVIOUS
  <2>1. PICK f : From(f, m)
    <3>1. m <= n
      OBVIOUS
    <3> QED
      BY <1>2, <3>1
  <2> USE DEF From
  <2> DEFINE new == n - (m + 1)
             h == [i \in Upper(m + 1) |-> IF i = new THEN <<new>> \o f[link[new]] ELSE f[i]]
  <2>2. /\ new \in Nat /\ new \in 0 .. n - 1 /\ new \notin Upper(m) /\ new # -1
        /\ new \in Upper(m + 1) /\ -1 \in Upper(m) /\ -1 \in Upper(m + 1)
        /\ \A i : i \in Upper(m + 1) <=> i = new \/ i \in Upper(m)
        /\ \A i \in (n - (m + 1)) .. (n - 1) : i = new \/ i \in (n - m) .. (n - 1)
        /\ \A i \in (n - m) .. (n - 1) : i \in 0 .. n - 1
    OBVIOUS
  <2>3. \A i \in (n - (m + 1)) .. (n - 1) : link[i] \in Upper(m)
    <3> SUFFICES ASSUME NEW i \in (n - (m + 1)) .. (n - 1) PROVE link[i] \in Upper(m)
      OBVIOUS
    <3>1. i \in 0 .. n - 1
      OBVIOUS
    <3>2. link[i] = -1 \/ (link[i] \in 0 .. n - 1 /\ link[i] > i)
      BY <3>1
    <3> QED
      BY <3>1, <3>2
  <2>4. /\ f \in [Upper(m) -> T] /\ f[-1] = <<>>
        /\ \A i \in (n - m) .. (n - 1) : f[i] = <<i>> \o f[link[i]]
    BY <2>1
  <2> HIDE DEF new, Upper
  <2>5. new \in (n - (m + 1)) .. (n - 1)
    BY DEF new
  <2>6. <<new>> \o f[link[new]] \in T
    BY <1>0, <2>2, <2>3, <2>4, <2>5
  <2>7. /\ h \in [Upper(m + 1) -> T] /\ h[new] = <<new>> \o f[link[new]]
        /\ \A i \in Upper(m) : h[i] = f[i]
    BY <2>2, <2>4, <2>6
  <2> HIDE DEF h
  <2>8. h[-1] = <<>>
    BY <2>2, <2>4, <2>7
  <2>9. ASSUME NEW i \in (n - (m + 1)) .. (n - 1) PROVE h[i] = <<i>> \o h[link[i]]
    <3>1. h[link[i]] = f[link[i]]
      BY <2>3, <2>7
    <3>2. CASE i = new
      BY <2>7, <3>1, <3>2
    <3>3. CASE i \in (n - m) .. (n - 1)
      <4>1. i \in Upper(m)
        BY <3>3 DEF Upper
      <4> QED
        BY <2>4, <2>7, <3>1, <3>3, <4>1
    <3> QED
      BY <2>2, <3>2, <3>3
  <2> QED
    BY <2>7, <2>8, <2>9
<1>3. n \in S
  <2> HIDE DEF S
  <2> QED
    BY <1>1, <1>2, Induction
<1>4. \E f : From(f, n)
  <2> HIDE DEF From
  <2>1. n <= n => \E f : From(f, n)
    BY <1>3
  <2> QED
    BY <2>1
<1>5. Upper(n) = (0 .. n - 1) \cup {-1} /\ (n - n) .. (n - 1) = 0 .. n - 1
  BY SMT
<1> QED
  <2>1. PICK f : From(f, n)
    BY <1>4
  <2>2. /\ f \in [(0 .. n - 1) \cup {-1} -> T] /\ f[-1] = <<>>
        /\ \A i \in 0 .. n - 1 : f[i] = <<i>> \o f[link[i]]
    BY <1>5, <2>1
  <2>3. \A i \in (0 .. n - 1) \cup {-1} :
          f[i] = IF i = -1 THEN <<>> ELSE <<i>> \o f[link[i]]
    BY <2>2
  <2>4. Follows(f, n, link)
    BY <2>2, <2>3 DEF Follows
  <2> QED
    BY <2>4

(* The chain from i visits the nodes from i on that have i's parent, each   *)
(* once and in order.                                                       *)
Visits(c, i, n, par) ==
  /\ c \in Seq(0 .. n - 1) /\ Len(c) \in Nat \ {0} /\ c[1] = i
  /\ \A a, b \in 1 .. Len(c) : a < b => c[a] < c[b]
  /\ \A j \in 0 .. n - 1 : (\E a \in 1 .. Len(c) : c[a] = j) <=> par[j] = par[i] /\ j >= i

(* Each link leads to the next node of the same parent.                     *)
NextOf(i, k, n, par) ==
  \/ k = -1 /\ \A j \in 0 .. n - 1 : par[j] = par[i] => j <= i
  \/ /\ k \in 0 .. n - 1 /\ k > i /\ par[k] = par[i]
     /\ \A j \in 0 .. n - 1 : par[j] = par[i] /\ j > i => j >= k

LEMMA VisitsMore ==
    ASSUME NEW n \in Nat, NEW par, NEW i \in 0 .. n - 1, NEW k, NextOf(i, k, n, par),
           NEW c, IF k = -1 THEN c = <<>> ELSE Visits(c, k, n, par)
    PROVE  Visits(<<i>> \o c, i, n, par)
<1> DEFINE S == 0 .. n - 1
<1>1. i \in S /\ \A j \in S : j \in Int
  OBVIOUS
<1>2. CASE k = -1
  <2>1. <<i>> \o c = <<i>>
    BY <1>2
  <2> DEFINE u == <<i>>
  <2>2. u \in Seq(S) /\ Len(u) = 1 /\ u[1] = i
    OBVIOUS
  <2>3. \A a \in 1 .. Len(u) : a = 1
    BY <2>2
  <2> HIDE DEF u
  <2>4. \A j \in S : par[j] = par[i] /\ j >= i <=> j = i
    BY <1>2 DEF NextOf
  <2>5. Visits(u, i, n, par)
    <3>1. \A j \in S : (\E a \in 1 .. Len(u) : u[a] = j) <=> par[j] = par[i] /\ j >= i
      BY <2>2, <2>3, <2>4
    <3>2. \A a, b \in 1 .. Len(u) : ~ (a < b)
      BY <2>3
    <3> QED
      BY <2>2, <3>1, <3>2 DEF Visits
  <2> QED
    BY <2>1, <2>5 DEF u
<1>3. CASE k # -1
  <2>1. /\ k \in S /\ k > i /\ par[k] = par[i] /\ i \in Int /\ k \in Int
        /\ \A j \in S : par[j] = par[i] /\ j > i => j >= k
    BY <1>3 DEF NextOf
  <2>2. /\ c \in Seq(S) /\ Len(c) \in Nat \ {0} /\ c[1] = k
        /\ \A a, b \in 1 .. Len(c) : a < b => c[a] < c[b]
        /\ \A j \in S : (\E a \in 1 .. Len(c) : c[a] = j) <=> par[j] = par[k] /\ j >= k
    BY <1>3 DEF Visits
  <2> DEFINE u == <<i>> \o c
             l == Len(c)
  <2> HIDE DEF S
  <2>3. <<i>> \in Seq(S) /\ Len(<<i>>) = 1 /\ <<i>>[1] = i
    BY <1>1
  <2>4. u \in Seq(S) /\ Len(u) = l + 1
    BY <2>2, <2>3, ConcatProperties
  <2>5. /\ u[1] = i
        /\ \A a \in 1 .. l : u[a + 1] = c[a]
    <3>1. \A a \in 1 .. l + 1 : u[a] = IF a <= 1 THEN <<i>>[a] ELSE c[a - 1]
      BY <2>2, <2>3, ConcatProperties
    <3>2. u[1] = i
      BY <2>2, <2>3, <3>1
    <3>3. ASSUME NEW a \in 1 .. l PROVE u[a + 1] = c[a]
      <4>1. a + 1 \in 1 .. l + 1 /\ ~ (a + 1 <= 1) /\ (a + 1) - 1 = a
        BY <2>2
      <4> QED
        BY <3>1, <4>1
    <3> QED
      BY <3>2, <3>3
  <2>6. l \in Nat \ {0} /\ \A a \in 1 .. l : c[a] \in S /\ c[a] \in Int
    BY <1>1, <2>2, ElementOfSeq
  <2> HIDE DEF u, l
  <2>7. \A a \in 1 .. l + 1 : a = 1 \/ (a - 1 \in 1 .. l /\ u[a] = c[a - 1])
    <3> SUFFICES ASSUME NEW a \in 1 .. l + 1, a # 1 PROVE a - 1 \in 1 .. l /\ u[a] = c[a - 1]
      OBVIOUS
    <3>1. a - 1 \in 1 .. l /\ (a - 1) + 1 = a
      BY <2>6
    <3> QED
      BY <2>5, <3>1
  <2>8. \A a \in 1 .. l : c[a] > i
    <3> SUFFICES ASSUME NEW a \in 1 .. l PROVE c[a] > i
      OBVIOUS
    <3>1. c[a] >= k
      BY <2>2, <2>6 DEF l
    <3> QED
      BY <2>1, <2>6, <3>1
  <2>9. ASSUME NEW a \in 1 .. l + 1, NEW b \in 1 .. l + 1, a < b PROVE u[a] < u[b]
    <3>1. b # 1 /\ b - 1 \in 1 .. l /\ u[b] = c[b - 1]
      BY <2>6, <2>7, <2>9
    <3>2. CASE a = 1
      BY <2>1, <2>5, <2>6, <2>8, <3>1, <3>2
    <3>3. CASE a # 1
      <4>1. a - 1 \in 1 .. l /\ u[a] = c[a - 1] /\ a - 1 < b - 1
        BY <2>6, <2>7, <2>9, <3>3
      <4> QED
        BY <2>2, <3>1, <4>1 DEF l
    <3> QED
      BY <3>2, <3>3
  <2>10. ASSUME NEW j \in S
         PROVE  (\E a \in 1 .. l + 1 : u[a] = j) <=> par[j] = par[i] /\ j >= i
    <3>0. j \in Int
      BY <1>1
    <3>1. (\E a \in 1 .. l : c[a] = j) <=> par[j] = par[i] /\ j >= k
      BY <2>1, <2>2 DEF l
    <3>2. ASSUME NEW a \in 1 .. l + 1, u[a] = j PROVE par[j] = par[i] /\ j >= i
      <4>1. CASE a = 1
        BY <2>1, <2>5, <3>2, <4>1
      <4>2. CASE a # 1
        <5>1. a - 1 \in 1 .. l /\ c[a - 1] = j
          BY <2>7, <3>2, <4>2
        <5> QED
          BY <2>1, <3>0, <3>1, <5>1
      <4> QED
        BY <4>1, <4>2
    <3>3. ASSUME par[j] = par[i] /\ j >= i PROVE \E a \in 1 .. l + 1 : u[a] = j
      <4>1. CASE j = i
        <5>1. 1 \in 1 .. l + 1
          BY <2>6
        <5> QED
          BY <2>5, <4>1, <5>1
      <4>2. CASE j # i
        <5>1. j >= k
          BY <2>1, <3>0, <3>3, <4>2
        <5>2. PICK a \in 1 .. l : c[a] = j
          BY <3>1, <3>3, <5>1
        <5>3. a + 1 \in 1 .. l + 1
          BY <2>6
        <5> QED
          BY <2>5, <5>2, <5>3
      <4> QED
        BY <4>1, <4>2
    <3> QED
      BY <3>2, <3>3
  <2>11. Len(u) \in Nat \ {0} /\ Len(u) = l + 1
    BY <2>4, <2>6
  <2> QED
    BY <2>4, <2>5, <2>9, <2>10, <2>11 DEF Visits, S, u
<1> QED
  BY <1>2, <1>3

(* So every chain visits the rest of a parent's children.                   *)
LEMMA ChainVisits ==
    ASSUME NEW n \in Nat, NEW par, NEW link, NEW f, Follows(f, n, link),
           \A i \in 0 .. n - 1 : par[i] # -1 => NextOf(i, link[i], n, par)
    PROVE  \A i \in 0 .. n - 1 : par[i] # -1 => Visits(f[i], i, n, par)
<1> DEFINE S == {m \in Nat : m <= n => \A i \in (n - m) .. (n - 1) :
                                          par[i] # -1 => Visits(f[i], i, n, par)}
<1>1. 0 \in S
  OBVIOUS
<1>2. ASSUME NEW m \in Nat, m \in S PROVE m + 1 \in S
  <2> SUFFICES ASSUME m + 1 <= n, NEW i \in (n - (m + 1)) .. (n - 1), par[i] # -1
               PROVE  Visits(f[i], i, n, par)
    OBVIOUS
  <2>1. \A k \in (n - m) .. (n - 1) : par[k] # -1 => Visits(f[k], k, n, par)
    <3>1. m <= n
      OBVIOUS
    <3> QED
      BY <1>2, <3>1
  <2>2. i \in 0 .. n - 1
    OBVIOUS
  <2>3. NextOf(i, link[i], n, par)
    BY <2>2
  <2>4. link[i] = -1 \/ (link[i] \in (n - m) .. (n - 1) /\ par[link[i]] # -1)
    BY <2>2, <2>3 DEF NextOf
  <2>5. f[-1] = <<>> /\ f[i] = <<i>> \o f[link[i]]
    <3>1. i # -1 /\ i \in (0 .. n - 1) \cup {-1} /\ -1 \in (0 .. n - 1) \cup {-1}
      BY <2>2
    <3> QED
      BY <3>1 DEF Follows
  <2>6. IF link[i] = -1 THEN f[link[i]] = <<>> ELSE Visits(f[link[i]], link[i], n, par)
    BY <2>1, <2>4, <2>5
  <2> QED
    BY <2>2, <2>3, <2>5, <2>6, VisitsMore
<1>3. n \in S
  <2> HIDE DEF S
  <2> QED
    BY <1>1, <1>2, Induction
<1>4. (n - n) .. (n - 1) = 0 .. n - 1
  BY SMT
<1> QED
  BY <1>3, <1>4

(* The nodes are numbered; a parent comes before its children; the links    *)
(* lead from the first child to the next.                                   *)
Count == Cardinality(DOMAIN parent)
Kids(p) == {i \in 0 .. Count - 1 : parent[i] = p}

FlexTypes ==
  /\ Count \in Nat /\ Count <= MaxNodes /\ DOMAIN parent = 0 .. Count - 1
  /\ DOMAIN first_child = 0 .. Count - 1 /\ DOMAIN next_sibling = 0 .. Count - 1
  /\ DOMAIN child_count = 0 .. Count - 1 /\ DOMAIN style = 0 .. Count - 1
  /\ DOMAIN rect = 0 .. Count - 1
  /\ \A i \in 0 .. Count - 1 : parent[i] \in -1 .. i - 1

FirstOf(p, k) ==
  \/ k = -1 /\ \A j \in 0 .. Count - 1 : parent[j] # p
  \/ k \in 0 .. Count - 1 /\ parent[k] = p /\ \A j \in 0 .. Count - 1 : parent[j] = p => j >= k

FlexLinks ==
  /\ \A p \in 0 .. Count - 1 : FirstOf(p, first_child[p])
  /\ \A i \in 0 .. Count - 1 :
       IF parent[i] = -1 THEN next_sibling[i] = -1 ELSE NextOf(i, next_sibling[i], Count, parent)
  /\ \A p \in 0 .. Count - 1 : child_count[p] = Cardinality(Kids(p))

FlexInv == FlexTypes /\ FlexLinks

LEMMA FlexBasics ==
    ASSUME FlexTypes
    PROVE  /\ Count \in Nat /\ MaxNodes \in Nat /\ Flex!Nodes = 0 .. Count - 1
           /\ Flex!Cardinality(Flex!Nodes) = Count
           /\ \A i \in 0 .. Count - 1 : i \in Int /\ parent[i] \in Int /\ parent[i] >= -1 /\ parent[i] < i
<1>1. Flex!Cardinality(Flex!Nodes) = Count
  BY DEF Flex!Nodes, Count, Flex!Cardinality, Flex!IsFiniteSet, Cardinality, IsFiniteSet
<1>2. MaxNodes \in Nat
  BY KernelAssumption DEF Flex!LayoutAssumption
<1>3. Flex!Nodes = 0 .. Count - 1 /\ Count \in Nat
  BY DEF FlexTypes, Flex!Nodes
<1>4. \A i \in 0 .. Count - 1 : i \in Int /\ parent[i] \in Int /\ parent[i] >= -1 /\ parent[i] < i
  BY <1>3 DEF FlexTypes
<1> QED
  BY <1>1, <1>2, <1>3, <1>4

(* The children that a walk from the first child finds are the nodes of     *)
(* that parent, in the order in which they were added.                      *)
LEMMA ChildrenFound ==
    ASSUME FlexInv, NEW p \in 0 .. Count - 1
    PROVE  \/ first_child[p] = -1 /\ Flex!Children(p) = <<>> /\ \A j \in 0 .. Count - 1 : parent[j] # p
           \/ /\ first_child[p] \in 0 .. Count - 1 /\ parent[first_child[p]] = p
              /\ \A j \in 0 .. Count - 1 : parent[j] = p => j >= first_child[p]
              /\ Visits(Flex!Children(p), first_child[p], Count, parent)
<1> DEFINE n == Count
           link == next_sibling
<1>1. n \in Nat /\ Flex!Nodes = 0 .. n - 1
  BY FlexBasics DEF FlexInv
<1>2. \A i \in 0 .. n - 1 : parent[i] # -1 => NextOf(i, link[i], n, parent)
  BY DEF FlexInv, FlexLinks
<1>3. \A i \in 0 .. n - 1 : parent[i] = -1 => link[i] = -1
  BY DEF FlexInv, FlexLinks
<1> HIDE DEF n, link
<1>4. \A i \in 0 .. n - 1 : link[i] = -1 \/ (link[i] \in 0 .. n - 1 /\ link[i] > i)
  BY <1>2, <1>3 DEF NextOf
<1>5. PICK f : Follows(f, n, link)
  BY <1>1, <1>4, ChainsEnd
<1> DEFINE D == (0 .. n - 1) \cup {-1}
           E == CHOOSE e : e = [i \in D |-> IF i = -1 THEN <<>> ELSE <<i>> \o e[link[i]]]
<1>7. Follows(E, n, link)
  BY <1>5 DEF Follows
<1>8. E = Flex!Chain
  BY <1>1 DEF Flex!Chain, Flex!None, link
<1>9. \A i \in 0 .. n - 1 : parent[i] # -1 => Visits(E[i], i, n, parent)
  BY <1>1, <1>2, <1>7, ChainVisits
<1>10. E[-1] = <<>>
  <2>1. -1 \in D
    OBVIOUS
  <2> QED
    BY <1>7, <2>1 DEF Follows
<1> HIDE DEF E
<1>11. Flex!Children(p) = E[first_child[p]]
  BY <1>8 DEF Flex!Children
<1>12. FirstOf(p, first_child[p])
  BY DEF FlexInv, FlexLinks
<1>13. p # -1
  OBVIOUS
<1> QED
  BY <1>9, <1>10, <1>11, <1>12, <1>13 DEF FirstOf, n
(* The last child, where a new one is linked.                               *)
LastIs(p, l) ==
  \/ l = -1 /\ \A j \in 0 .. Count - 1 : parent[j] # p
  \/ l \in 0 .. Count - 1 /\ parent[l] = p /\ \A j \in 0 .. Count - 1 : parent[j] = p => j <= l

LEMMA LastChildIsLast ==
    ASSUME FlexInv, NEW p \in 0 .. Count - 1
    PROVE  LastIs(p, Flex!LastChild(p))
<1> DEFINE c == Flex!Children(p)
           S == 0 .. Count - 1
<1>1. p # -1 /\ Flex!LastChild(p) = IF c = <<>> THEN -1 ELSE c[Len(c)]
  BY DEF Flex!LastChild, Flex!None
<1>2. CASE c = <<>> /\ \A j \in S : parent[j] # p
  BY <1>1, <1>2 DEF LastIs
<1>3. ASSUME NEW k \in S, parent[k] = p, \A j \in S : parent[j] = p => j >= k,
             Visits(c, k, Count, parent)
      PROVE  LastIs(p, Flex!LastChild(p))
  <2> HIDE DEF c
  <2>1. /\ c \in Seq(S) /\ Len(c) \in Nat \ {0}
        /\ \A a, b \in 1 .. Len(c) : a < b => c[a] < c[b]
        /\ \A j \in S : (\E a \in 1 .. Len(c) : c[a] = j) <=> parent[j] = p /\ j >= k
    BY <1>3 DEF Visits
  <2> DEFINE l == Len(c)
  <2>2. c # <<>> /\ l \in 1 .. l
    BY <2>1
  <2>3. \A a \in 1 .. l : c[a] \in S
    BY <2>1, ElementOfSeq
  <2>4. \A j \in S : j \in Int
    OBVIOUS
  <2> HIDE DEF S
  <2>5. c[l] \in S /\ parent[c[l]] = p
    BY <2>1, <2>2, <2>3
  <2>6. ASSUME NEW j \in S, parent[j] = p PROVE j <= c[l]
    <3>1. j >= k
      BY <1>3, <2>6
    <3>2. PICK a \in 1 .. l : c[a] = j
      BY <2>1, <2>6, <3>1
    <3>3. a = l \/ a < l
      BY <2>1
    <3> QED
      BY <2>1, <2>2, <2>4, <2>5, <3>2, <3>3
  <2> QED
    BY <1>1, <2>2, <2>5, <2>6 DEF LastIs, S
<1> QED
  BY <1>2, <1>3, ChildrenFound

(* A new node is the last child of its parent.                              *)
LEMMA AddKeepsLinks ==
    ASSUME FlexInv, NEW p \in Flex!Nodes \cup {Flex!None}, NEW s, Flex!AddNode(p, s)
    PROVE  FlexInv'
<1> DEFINE n == Count
           l == Flex!LastChild(p)
           Ext(f, v) == [i \in (0 .. n - 1) \cup {n} |-> IF i \in 0 .. n - 1 THEN f[i] ELSE v]
<1>1. /\ n \in Nat /\ MaxNodes \in Nat /\ Flex!Nodes = 0 .. n - 1
      /\ Flex!Cardinality(Flex!Nodes) = n
      /\ \A i \in 0 .. n - 1 : i \in Int /\ parent[i] \in Int /\ parent[i] >= -1 /\ parent[i] < i
  BY FlexBasics DEF FlexInv
<1>2. p \in -1 .. n - 1 /\ p \in Int /\ n < MaxNodes
  BY <1>1 DEF Flex!None, Flex!AddNode
<1>3. (p = -1 /\ l = -1) \/ (p # -1 /\ LastIs(p, l))
  <2>1. CASE p = -1
    BY <2>1 DEF Flex!LastChild, Flex!None
  <2>2. CASE p # -1
    BY <1>2, <2>2, LastChildIsLast
  <2> QED
    BY <2>1, <2>2
<1> HIDE DEF l
<1>4. /\ parent' = Ext(parent, p) /\ style' = Ext(style, s) /\ rect' = Ext(rect, Flex!NoRect)
      /\ first_child' = Ext([i \in 0 .. n - 1 |->
                               IF i = p /\ l = -1 THEN n ELSE first_child[i]], -1)
      /\ next_sibling' = Ext([i \in 0 .. n - 1 |-> IF i = l THEN n ELSE next_sibling[i]], -1)
      /\ child_count' = Ext([i \in 0 .. n - 1 |->
                               IF i = p THEN child_count[i] + 1 ELSE child_count[i]], 0)
  BY <1>1 DEF Flex!AddNode, Flex!Extended, Flex!None, l
<1>5. (0 .. n - 1) \cup {n} = 0 .. n /\ n \in 0 .. n /\ n \notin 0 .. n - 1
      /\ \A i \in 0 .. n - 1 : i \in 0 .. n
  BY <1>1
<1>6. DOMAIN parent' = 0 .. n /\ Count' = n + 1 /\ (n + 1) - 1 = n
  <2>1. DOMAIN parent' = 0 .. n
    BY <1>4, <1>5
  <2>2. Cardinality(0 .. n) = n + 1
    BY <1>1, FS_Interval
  <2> QED
    BY <1>1, <2>1, <2>2 DEF Count
<1>7. \A i \in 0 .. n : i \in 0 .. n - 1 \/ i = n
  BY <1>1
<1>8. /\ \A i \in 0 .. n - 1 :
           /\ parent'[i] = parent[i]
           /\ first_child'[i] = IF i = p /\ l = -1 THEN n ELSE first_child[i]
           /\ next_sibling'[i] = IF i = l THEN n ELSE next_sibling[i]
           /\ child_count'[i] = IF i = p THEN child_count[i] + 1 ELSE child_count[i]
      /\ parent'[n] = p /\ first_child'[n] = -1 /\ next_sibling'[n] = -1 /\ child_count'[n] = 0
  BY <1>4, <1>5
<1>9. /\ DOMAIN first_child' = 0 .. n /\ DOMAIN next_sibling' = 0 .. n
      /\ DOMAIN child_count' = 0 .. n /\ DOMAIN style' = 0 .. n /\ DOMAIN rect' = 0 .. n
  BY <1>4, <1>5
<1> HIDE DEF n, Ext
<1>10. \A i \in 0 .. n : parent'[i] \in Int /\ parent'[i] >= -1 /\ parent'[i] < i
  BY <1>1, <1>2, <1>7, <1>8
<1>11. FlexTypes'
  <2>1. \A i \in 0 .. n : parent'[i] \in -1 .. i - 1
    BY <1>1, <1>10
  <2>2. Count' \in Nat /\ Count' <= MaxNodes
    BY <1>1, <1>2, <1>6
  <2> QED
    BY <1>6, <1>9, <2>1, <2>2 DEF FlexTypes
<1>12. ASSUME NEW q \in 0 .. n PROVE FirstOf(q, first_child[q])'
  <2>1. CASE q = n
    <3>1. \A j \in 0 .. n : parent'[j] # n
      BY <1>1, <1>10
    <3> QED
      BY <1>6, <1>8, <2>1, <3>1 DEF FirstOf
  <2>2. CASE q \in 0 .. n - 1 /\ q = p
    <3>1. FirstOf(p, first_child[p]) /\ p # -1
      BY <1>1, <2>2 DEF FlexInv, FlexLinks, n
    <3>2. CASE l = -1
      <4>1. \A j \in 0 .. n - 1 : parent[j] # p
        BY <1>1, <1>3, <2>2, <3>1, <3>2 DEF LastIs, n
      <4>2. \A j \in 0 .. n : parent'[j] = p => j >= n
        BY <1>1, <1>7, <1>8, <4>1
      <4> QED
        BY <1>5, <1>6, <1>8, <2>2, <3>2, <4>2 DEF FirstOf
    <3>3. CASE l # -1
      <4>1. l \in 0 .. n - 1 /\ parent[l] = p
        BY <1>3, <3>3 DEF LastIs, n
      <4> DEFINE k == first_child[p]
      <4>2. k \in 0 .. n - 1 /\ parent[k] = p /\ \A j \in 0 .. n - 1 : parent[j] = p => j >= k
        BY <3>1, <4>1 DEF FirstOf, n
      <4>3. first_child'[p] = k
        BY <1>8, <2>2, <3>3
      <4> HIDE DEF k
      <4>4. \A j \in 0 .. n : parent'[j] = p => j >= k
        BY <1>1, <1>7, <1>8, <4>2
      <4> QED
        BY <1>5, <1>6, <1>8, <2>2, <4>2, <4>3, <4>4 DEF FirstOf
    <3> QED
      BY <3>2, <3>3
  <2>3. CASE q \in 0 .. n - 1 /\ q # p
    <3> DEFINE k == first_child[q]
    <3>1. FirstOf(q, k) /\ first_child'[q] = k
      BY <1>8, <2>3 DEF FlexInv, FlexLinks, n
    <3> HIDE DEF k
    <3>2. CASE k = -1 /\ \A j \in 0 .. n - 1 : parent[j] # q
      <4>1. \A j \in 0 .. n : parent'[j] # q
        BY <1>7, <1>8, <2>3, <3>2
      <4> QED
        BY <1>6, <3>1, <3>2, <4>1 DEF FirstOf
    <3>3. CASE k \in 0 .. n - 1 /\ parent[k] = q /\ \A j \in 0 .. n - 1 : parent[j] = q => j >= k
      <4>1. \A j \in 0 .. n : parent'[j] = q => j >= k
        BY <1>7, <1>8, <2>3, <3>3
      <4>2. k \in 0 .. n /\ parent'[k] = q
        BY <1>5, <1>8, <3>3
      <4> QED
        BY <1>6, <3>1, <4>1, <4>2 DEF FirstOf
    <3> QED
      BY <3>1, <3>2, <3>3 DEF FirstOf, n
  <2> QED
    BY <1>7, <2>1, <2>2, <2>3
<1>13. ASSUME NEW i \in 0 .. n
       PROVE  (IF parent[i] = -1 THEN next_sibling[i] = -1
               ELSE NextOf(i, next_sibling[i], Count, parent))'
  <2>1. CASE i = n
    <3>1. \A j \in 0 .. n : j <= n
      BY <1>1
    <3>2. NextOf(n, -1, n + 1, parent')
      BY <1>6, <3>1 DEF NextOf
    <3> QED
      BY <1>6, <1>8, <2>1, <3>2
  <2>2. CASE i \in 0 .. n - 1 /\ i = l
    <3>1. parent[i] = p /\ (\A j \in 0 .. n - 1 : parent[j] = p => j <= i) /\ i \in Int
      BY <1>1, <1>3, <2>2 DEF LastIs, n
    <3>2. n > i /\ p # -1
      <4>1. n > i /\ i # -1
        BY <1>1, <2>2, <3>1
      <4> QED
        BY <1>3, <2>2, <4>1
    <3>3. \A j \in 0 .. n : parent'[j] = p /\ j > i => j >= n
      BY <1>1, <1>7, <1>8, <3>1
    <3>4. next_sibling'[i] = n /\ parent'[i] = p
      BY <1>8, <2>2, <3>1
    <3>5. NextOf(i, n, n + 1, parent')
      BY <1>5, <1>6, <1>8, <3>2, <3>3, <3>4 DEF NextOf
    <3> QED
      BY <1>6, <3>2, <3>4, <3>5
  <2>3. CASE i \in 0 .. n - 1 /\ i # l
    <3> DEFINE k == next_sibling[i]
    <3>1. /\ next_sibling'[i] = k /\ parent'[i] = parent[i]
          /\ IF parent[i] = -1 THEN k = -1 ELSE NextOf(i, k, n, parent)
      BY <1>8, <2>3 DEF FlexInv, FlexLinks, n
    <3> HIDE DEF k
    <3>2. CASE parent[i] = -1
      BY <3>1, <3>2
    <3>3. CASE parent[i] # -1
      <4>1. CASE k = -1 /\ \A j \in 0 .. n - 1 : parent[j] = parent[i] => j <= i
        <5>1. parent[i] # p
          <6>1. SUFFICES ASSUME parent[i] = p PROVE FALSE
            OBVIOUS
          <6>2. l \in 0 .. n - 1 /\ parent[l] = p /\ \A j \in 0 .. n - 1 : parent[j] = p => j <= l
            BY <1>3, <2>3, <3>3, <6>1 DEF LastIs, n
          <6>3. l <= i /\ i <= l
            BY <2>3, <4>1, <6>1, <6>2
          <6> QED
            BY <1>1, <2>3, <6>2, <6>3
        <5>2. \A j \in 0 .. n : parent'[j] = parent'[i] => j <= i
          BY <1>7, <1>8, <3>1, <4>1, <5>1
        <5>3. NextOf(i, k, n + 1, parent')
          BY <1>6, <4>1, <5>2 DEF NextOf
        <5> QED
          BY <1>6, <3>1, <3>3, <5>3
      <4>2. CASE /\ k \in 0 .. n - 1 /\ k > i /\ parent[k] = parent[i]
                 /\ \A j \in 0 .. n - 1 : parent[j] = parent[i] /\ j > i => j >= k
        <5>1. \A j \in 0 .. n : parent'[j] = parent'[i] /\ j > i => j >= k
          BY <1>1, <1>7, <1>8, <3>1, <4>2
        <5>2. k \in 0 .. n /\ parent'[k] = parent'[i]
          BY <1>5, <1>8, <3>1, <4>2
        <5>3. NextOf(i, k, n + 1, parent')
          BY <1>6, <4>2, <5>1, <5>2 DEF NextOf
        <5> QED
          BY <1>6, <3>1, <3>3, <5>3
      <4> QED
        BY <3>1, <3>3, <4>1, <4>2 DEF NextOf
    <3> QED
      BY <3>2, <3>3
  <2> QED
    BY <1>7, <2>1, <2>2, <2>3
<1>14. ASSUME NEW q \in 0 .. n PROVE child_count'[q] = Cardinality(Kids(q)')
  <2> DEFINE new == {i \in 0 .. n : parent'[i] = q}
             old == {i \in 0 .. n - 1 : parent[i] = q}
  <2>1. Kids(q)' = new /\ Kids(q) = old
    BY <1>6 DEF Kids, n
  <2>2. CASE q = n
    <3>1. \A j \in 0 .. n : parent'[j] # n
      BY <1>1, <1>10
    <3>2. new = {}
      BY <2>2, <3>1
    <3> QED
      BY <1>8, <2>1, <2>2, <3>2, FS_EmptySet
  <2>3. CASE q \in 0 .. n - 1
    <3>1. IsFiniteSet(old) /\ child_count[q] = Cardinality(old)
      <4>1. IsFiniteSet(0 .. n - 1)
        BY <1>1, FS_Interval
      <4>2. child_count[q] = Cardinality(Kids(q))
        BY <2>3 DEF FlexInv, FlexLinks, n
      <4> QED
        BY <2>1, <4>1, <4>2, FS_Subset
    <3>2. CASE q = p
      <4>1. new = old \cup {n} /\ n \notin old
        BY <1>5, <1>7, <1>8, <3>2
      <4> HIDE DEF new, old
      <4>2. Cardinality(new) = Cardinality(old) + 1
        BY <3>1, <4>1, FS_AddElement
      <4> QED
        BY <1>8, <2>1, <2>3, <3>1, <3>2, <4>2
    <3>3. CASE q # p
      <4>1. new = old
        BY <1>5, <1>7, <1>8, <3>3
      <4> QED
        BY <1>8, <2>1, <2>3, <3>1, <3>3, <4>1
    <3> QED
      BY <3>2, <3>3
  <2> QED
    BY <1>7, <2>2, <2>3
<1>15. FlexLinks'
  BY <1>6, <1>12, <1>13, <1>14 DEF FlexLinks
<1> QED
  BY <1>11, <1>15 DEF FlexInv
(* A sequence that names every member of a set once is as long as the set.  *)
LEMMA LengthIsCardinality ==
    ASSUME NEW T, NEW l \in Nat, NEW c,
           \A a \in 1 .. l : c[a] \in T,
           \A a, b \in 1 .. l : c[a] = c[b] => a = b,
           \A t \in T : \E a \in 1 .. l : c[a] = t
    PROVE  Cardinality(T) = l
<1> DEFINE S == 1 .. l
           g == [a \in S |-> c[a]]
<1>1. IsFiniteSet(S) /\ Cardinality(S) = l
  BY FS_Interval
<1> HIDE DEF S
<1>2. \A a \in S : c[a] \in T
  BY DEF S
<1>3. \A a, b \in S : g[a] = g[b] => a = b
  BY DEF S
<1>4. \A t \in T : \E a \in S : g[a] = t
  BY DEF S
<1>5. g \in [S -> T]
  BY <1>2
<1> HIDE DEF g
<1>6. g \in Bijection(S, T)
  BY <1>3, <1>4, <1>5 DEF Bijection, Injection, Surjection, IsInjective
<1> QED
  BY <1>1, <1>6, FS_Bijection DEF ExistsBijection

LEMMA FlexBegins == Flex!Init => FlexInv
<1> SUFFICES ASSUME Flex!Init PROVE FlexInv
  OBVIOUS
<1>1. DOMAIN parent = {} /\ DOMAIN style = {} /\ DOMAIN rect = {}
      /\ DOMAIN first_child = {} /\ DOMAIN next_sibling = {} /\ DOMAIN child_count = {}
  BY DEF Flex!Init
<1>2. Count = 0 /\ 0 .. 0 - 1 = {} /\ MaxNodes \in Nat
  BY <1>1, FS_EmptySet, KernelAssumption DEF Count, Flex!LayoutAssumption
<1>3. FlexTypes
  BY <1>1, <1>2 DEF FlexTypes
<1>4. FlexLinks
  BY <1>2 DEF FlexLinks
<1> QED
  BY <1>3, <1>4 DEF FlexInv

(* Computing the layout leaves the links alone.                             *)
LEMMA FlexStep == FlexInv /\ [KernelNext]_kernelVars => FlexInv'
<1> SUFFICES ASSUME FlexInv, [KernelNext]_kernelVars PROVE FlexInv'
  OBVIOUS
<1>1. ASSUME UNCHANGED Flex!topology, DOMAIN rect' = DOMAIN rect PROVE FlexInv'
  <2>1. /\ parent' = parent /\ first_child' = first_child /\ next_sibling' = next_sibling
        /\ child_count' = child_count /\ style' = style
    BY <1>1 DEF Flex!topology
  <2>2. Count' = Count
    BY <2>1 DEF Count
  <2>3. FlexTypes'
    BY <1>1, <2>1, <2>2 DEF FlexInv, FlexTypes
  <2>4. FlexLinks'
    BY <2>1, <2>2 DEF FlexInv, FlexLinks, FirstOf, NextOf, Kids
  <2> QED
    BY <2>3, <2>4 DEF FlexInv
<1>2. CASE UNCHANGED flexVars
  BY <1>1, <1>2 DEF flexVars, Flex!topology
<1>3. ASSUME NEW space, Flex!Compute(space) PROVE FlexInv'
  <2>1. DOMAIN rect' = Flex!Nodes
    BY <1>3 DEF Flex!Compute
  <2>2. Flex!Nodes = DOMAIN rect
    BY FlexBasics DEF FlexInv, FlexTypes
  <2> QED
    BY <1>1, <1>3, <2>1, <2>2 DEF Flex!Compute
<1>4. CASE Flex!Next
  BY <1>3, <1>4, AddKeepsLinks DEF Flex!Next
<1> QED
  BY <1>2, <1>4 DEF KernelNext, kernelVars

LEMMA LinksFromInv == FlexInv => Flex!TypeOK /\ Flex!LinksAreTree
<1> SUFFICES ASSUME FlexInv PROVE Flex!TypeOK /\ Flex!LinksAreTree
  OBVIOUS
<1> DEFINE n == Count
<1>1. /\ n \in Nat /\ MaxNodes \in Nat /\ Flex!Nodes = 0 .. n - 1
      /\ Flex!Cardinality(Flex!Nodes) = n
      /\ \A i \in 0 .. n - 1 : i \in Int /\ parent[i] \in Int /\ parent[i] >= -1 /\ parent[i] < i
  BY FlexBasics DEF FlexInv
<1>2. Flex!TypeOK
  <2>1. \A i \in 0 .. n - 1 : parent[i] \in (0 .. n - 1) \cup {-1}
    BY <1>1
  <2>2. \A i \in 0 .. n - 1 : first_child[i] \in (0 .. n - 1) \cup {-1}
    BY DEF FlexInv, FlexLinks, FirstOf
  <2>3. \A i \in 0 .. n - 1 : next_sibling[i] \in (0 .. n - 1) \cup {-1}
    BY DEF FlexInv, FlexLinks, NextOf
  <2> QED
    BY <1>1, <2>1, <2>2, <2>3 DEF FlexInv, FlexTypes, Flex!TypeOK, Flex!None
<1>3. ASSUME NEW p \in 0 .. n - 1
      PROVE  LET kids == Flex!Children(p)
             IN /\ {kids[a] : a \in DOMAIN kids} = {i \in Flex!Nodes : parent[i] = p}
                /\ \A a, b \in DOMAIN kids : a < b => kids[a] < kids[b]
                /\ child_count[p] = Len(kids) /\ \A i \in DOMAIN kids : kids[i] > p
  <2> DEFINE kids == Flex!Children(p)
             S == 0 .. n - 1
             own == {i \in S : parent[i] = p}
  <2>1. child_count[p] = Cardinality(own)
    BY DEF FlexInv, FlexLinks, Kids
  <2> HIDE DEF kids
  <2>2. CASE kids = <<>> /\ \A j \in S : parent[j] # p
    <3>1. own = {} /\ DOMAIN kids = {} /\ Len(kids) = 0
      BY <2>2
    <3>2. child_count[p] = 0
      BY <2>1, <3>1, FS_EmptySet
    <3> QED
      BY <1>1, <3>1, <3>2 DEF kids
  <2>3. ASSUME NEW k \in S, \A j \in S : parent[j] = p => j >= k, parent[k] = p,
               Visits(kids, k, n, parent)
        PROVE  /\ {kids[a] : a \in DOMAIN kids} = own
               /\ \A a, b \in DOMAIN kids : a < b => kids[a] < kids[b]
               /\ child_count[p] = Len(kids) /\ \A i \in DOMAIN kids : kids[i] > p
    <3> DEFINE l == Len(kids)
    <3>1. /\ kids \in Seq(S) /\ l \in Nat
          /\ \A a, b \in 1 .. l : a < b => kids[a] < kids[b]
          /\ \A j \in S : (\E a \in 1 .. l : kids[a] = j) <=> parent[j] = p /\ j >= k
      BY <2>3 DEF Visits
    <3>2. DOMAIN kids = 1 .. l /\ \A a \in 1 .. l : kids[a] \in S
      BY <3>1, ElementOfSeq, LenProperties
    <3> HIDE DEF l, S
    <3>3. \A j \in S : (\E a \in 1 .. l : kids[a] = j) <=> j \in own
      BY <2>3, <3>1
    <3>4. \A a \in 1 .. l : kids[a] \in own
      BY <3>2, <3>3
    <3>5. \A a \in 1 .. l : kids[a] > p
      BY <1>1, <3>2, <3>4 DEF S
    <3>6. \A a, b \in 1 .. l : kids[a] = kids[b] => a = b
      <4> SUFFICES ASSUME NEW a \in 1 .. l, NEW b \in 1 .. l, kids[a] = kids[b], a # b
                   PROVE  FALSE
        OBVIOUS
      <4>1. a < b \/ b < a
        BY <3>1
      <4>2. kids[a] \in Int /\ kids[b] \in Int
        BY <3>2 DEF S
      <4> QED
        BY <3>1, <4>1, <4>2
    <3>7. Cardinality(own) = l
      <4>1. \A t \in own : \E a \in 1 .. l : kids[a] = t
        BY <3>3
      <4> HIDE DEF own
      <4> QED
        BY <3>1, <3>4, <3>6, <4>1, LengthIsCardinality
    <3>8. {kids[a] : a \in 1 .. l} = own
      BY <3>3, <3>4
    <3> QED
      BY <2>1, <3>1, <3>2, <3>5, <3>7, <3>8 DEF l
  <2>4. /\ {kids[a] : a \in DOMAIN kids} = own
        /\ \A a, b \in DOMAIN kids : a < b => kids[a] < kids[b]
        /\ child_count[p] = Len(kids) /\ \A i \in DOMAIN kids : kids[i] > p
    <3>1. CASE kids = <<>> /\ \A j \in S : parent[j] # p
      BY <1>1, <2>2, <3>1 DEF kids
    <3>2. CASE /\ first_child[p] \in S /\ parent[first_child[p]] = p
               /\ \A j \in S : parent[j] = p => j >= first_child[p]
               /\ Visits(kids, first_child[p], n, parent)
      BY <2>3, <3>2
    <3> QED
      BY <3>1, <3>2, ChildrenFound DEF kids
  <2> QED
    BY <1>1, <2>4 DEF kids
<1> QED
  BY <1>1, <1>2, <1>3 DEF Flex!LinksAreTree

-----------------------------------------------------------------------------
(* Sums over finite sets.  F has the sums of g over the parts of T.         *)
IsSum(F, g, T) ==
  /\ F \in [SUBSET T -> Int] /\ F[{}] = 0
  /\ \A s \in SUBSET T : \A x \in T \ s : F[s \cup {x}] = g[x] + F[s]

(* Every part of a finite set is reached from {} one element at a time.     *)
LEMMA SetInduction ==
    ASSUME NEW T, IsFiniteSet(T), NEW X, {} \in X,
           \A s \in SUBSET T : \A x \in T \ s : s \in X => s \cup {x} \in X
    PROVE  SUBSET T \subseteq X
<1> DEFINE S == {m \in Nat : \A s \in SUBSET T : Cardinality(s) = m => s \in X}
<1>1. \A s \in SUBSET T : IsFiniteSet(s) /\ Cardinality(s) \in Nat
  BY FS_Subset, FS_CardinalityType
<1>2. 0 \in S
  <2> SUFFICES ASSUME NEW s \in SUBSET T, Cardinality(s) = 0 PROVE s \in X
    OBVIOUS
  <2>1. s = {}
    BY <1>1, FS_EmptySet
  <2> QED
    BY <2>1
<1>3. ASSUME NEW m \in Nat, m \in S PROVE m + 1 \in S
  <2> SUFFICES ASSUME NEW s \in SUBSET T, Cardinality(s) = m + 1 PROVE s \in X
    OBVIOUS
  <2>1. s # {}
    <3>1. SUFFICES ASSUME s = {} PROVE FALSE
      OBVIOUS
    <3>2. m + 1 = 0
      BY <3>1, FS_EmptySet
    <3> QED
      BY <3>2
  <2>2. PICK x : x \in s
    BY <2>1
  <2>3. Cardinality(s \ {x}) = m
    <3>1. IsFiniteSet(s) /\ x \in s
      BY <1>1, <2>2
    <3>2. Cardinality(s \ {x}) = Cardinality(s) - 1
      BY <3>1, FS_RemoveElement
    <3> QED
      BY <3>2
  <2>4. s \ {x} \in SUBSET T /\ x \in T \ (s \ {x}) /\ (s \ {x}) \cup {x} = s
    BY <2>2
  <2>5. s \ {x} \in X
    BY <1>3, <2>3, <2>4
  <2> QED
    BY <2>4, <2>5
<1>4. Nat \subseteq S
  <2> HIDE DEF S
  <2> QED
    BY <1>2, <1>3, Induction
<1> QED
  BY <1>1, <1>4

(* Every function with integer values has sums.                             *)
LEMMA SumsExist ==
    ASSUME NEW T, IsFiniteSet(T), NEW g, \A x \in T : g[x] \in Int
    PROVE  \E F : IsSum(F, g, T)
<1> DEFINE X == {s \in SUBSET T : \E F : IsSum(F, g, s)}
<1>1. {} \in X
  <2> DEFINE F == [s \in SUBSET {} |-> 0]
  <2>1. F \in [SUBSET {} -> Int] /\ F[{}] = 0
    OBVIOUS
  <2>2. \A s \in SUBSET {} : \A x \in s : FALSE
    OBVIOUS
  <2>3. IsSum(F, g, {})
    BY <2>1, <2>2 DEF IsSum
  <2> QED
    BY <2>3
<1>2. ASSUME NEW s \in SUBSET T, NEW x \in T \ s, s \in X PROVE s \cup {x} \in X
  <2>1. PICK F : IsSum(F, g, s)
    BY <1>2
  <2> DEFINE u == s \cup {x}
             H == [t \in SUBSET u |-> IF x \in t THEN g[x] + F[t \ {x}] ELSE F[t]]
  <2>2. /\ F \in [SUBSET s -> Int] /\ F[{}] = 0 /\ g[x] \in Int /\ x \notin s
        /\ \A t \in SUBSET s : F[t] \in Int
        /\ \A t \in SUBSET s : \A y \in s \ t : F[t \cup {y}] = g[y] + F[t]
    BY <2>1 DEF IsSum
  <2>3. ASSUME NEW t \in SUBSET s, NEW y \in t PROVE F[t] = g[y] + F[t \ {y}]
    <3>1. t \ {y} \in SUBSET s /\ y \in s \ (t \ {y}) /\ (t \ {y}) \cup {y} = t
      OBVIOUS
    <3>2. F[(t \ {y}) \cup {y}] = g[y] + F[t \ {y}]
      BY <2>2, <3>1
    <3> QED
      BY <3>1, <3>2
  <2>4. \A t \in SUBSET u : t \ {x} \in SUBSET s /\ (x \notin t => t \in SUBSET s)
    OBVIOUS
  <2>5. \A t \in SUBSET u : H[t] = IF x \in t THEN g[x] + F[t \ {x}] ELSE F[t]
    OBVIOUS
  <2>6. \A t \in SUBSET u : (IF x \in t THEN g[x] + F[t \ {x}] ELSE F[t]) \in Int
    BY <2>2, <2>4
  <2>7. H \in [SUBSET u -> Int] /\ H[{}] = 0
    BY <2>2, <2>5, <2>6
  <2> HIDE DEF H
  <2>8. ASSUME NEW t \in SUBSET u, NEW y \in t PROVE H[t] = g[y] + H[t \ {y}]
    <3>1. t \ {y} \in SUBSET u /\ (t \ {y}) \ {x} = (t \ {x}) \ {y}
      OBVIOUS
    <3>2. CASE y = x
      <4>1. x \in t /\ x \notin t \ {y} /\ t \ {y} = t \ {x}
        BY <3>2
      <4> QED
        BY <2>5, <3>1, <3>2, <4>1
    <3>3. CASE y # x /\ x \in t
      <4>1. y \in t \ {x} /\ x \in t \ {y}
        BY <3>3
      <4>2. F[t \ {x}] = g[y] + F[(t \ {x}) \ {y}]
        BY <2>3, <2>4, <4>1
      <4>3. H[t \ {y}] = g[x] + F[(t \ {x}) \ {y}]
        BY <2>5, <3>1, <4>1
      <4>4. H[t] = g[x] + F[t \ {x}]
        BY <2>5, <3>3
      <4>5. g[y] \in Int /\ (t \ {x}) \ {y} \in SUBSET s
        BY <2>4
      <4>6. F[(t \ {x}) \ {y}] \in Int
        BY <2>2, <4>5
      <4> QED
        BY <2>2, <4>2, <4>3, <4>4, <4>5, <4>6
    <3>4. CASE x \notin t
      <4>1. t \in SUBSET s /\ x \notin t \ {y}
        BY <2>4, <3>4
      <4>2. F[t] = g[y] + F[t \ {y}]
        BY <2>3, <4>1
      <4> QED
        BY <2>5, <3>1, <3>4, <4>1, <4>2
    <3> QED
      BY <3>2, <3>3, <3>4
  <2>9. ASSUME NEW t \in SUBSET u, NEW y \in u \ t PROVE H[t \cup {y}] = g[y] + H[t]
    <3>1. t \cup {y} \in SUBSET u /\ y \in t \cup {y} /\ (t \cup {y}) \ {y} = t
      OBVIOUS
    <3>2. H[t \cup {y}] = g[y] + H[(t \cup {y}) \ {y}]
      BY <2>8, <3>1
    <3> QED
      BY <3>1, <3>2
  <2>10. IsSum(H, g, u)
    BY <2>7, <2>9 DEF IsSum
  <2> QED
    BY <2>10
<1>3. SUBSET T \subseteq X
  <2> HIDE DEF X
  <2> QED
    BY <1>1, <1>2, SetInduction
<1>4. T \in X
  BY <1>3
<1> QED
  BY <1>4

(* The fold of the model, which takes some element after the other, is that *)
(* sum, whichever it takes.                                                 *)
LEMMA TotalIs ==
    ASSUME NEW T, IsFiniteSet(T), NEW g, NEW F, IsSum(F, g, T),
           NEW S \in SUBSET T, NEW h, DOMAIN h = S, \A x \in S : h[x] = g[x]
    PROVE  Flex!Total(h) = F[S]
<1> DEFINE c(s) == CHOOSE x \in s : TRUE
           It(f) == f = [s \in SUBSET S |-> IF s = {} THEN 0 ELSE h[c(s)] + f[s \ {c(s)}]]
           D == CHOOSE f : It(f)
           K == [s \in SUBSET S |-> F[s]]
<1>1. Flex!Total(h) = D[S]
  BY DEF Flex!Total, Flex!FoldFunction, Flex!FoldFunctionOnSet, Flex!MapThenFoldSet
<1>2. K \in [SUBSET S -> Int] /\ K[{}] = 0 /\ \A s \in SUBSET S : K[s] = F[s]
  BY DEF IsSum
<1>3. ASSUME NEW s \in SUBSET S, NEW x \in s PROVE K[s] = h[x] + K[s \ {x}]
  <2>1. /\ s \in SUBSET T /\ s \ {x} \in SUBSET S /\ h[x] = g[x]
        /\ s \ {x} \in SUBSET T /\ x \in T \ (s \ {x}) /\ (s \ {x}) \cup {x} = s
    OBVIOUS
  <2>2. F[(s \ {x}) \cup {x}] = g[x] + F[s \ {x}]
    BY <2>1 DEF IsSum
  <2> QED
    BY <1>2, <2>1, <2>2
<1> HIDE DEF K
<1>4. \A s \in SUBSET S : s # {} => c(s) \in s
  OBVIOUS
<1> HIDE DEF c
<1>5. It(K)
  <2>1. \A s \in SUBSET S : K[s] = IF s = {} THEN 0 ELSE h[c(s)] + K[s \ {c(s)}]
    BY <1>2, <1>3, <1>4
  <2> QED
    BY <1>2, <2>1
<1>6. It(D)
  <2> HIDE DEF It
  <2> QED
    BY <1>5
<1> HIDE DEF D
<1>7. \A s \in SUBSET S : D[s] = IF s = {} THEN 0 ELSE h[c(s)] + D[s \ {c(s)}]
  BY <1>6
<1> HIDE DEF It
<1> DEFINE N == {m \in Nat : \A s \in SUBSET S : Cardinality(s) = m => D[s] = K[s]}
<1>8. \A s \in SUBSET S : IsFiniteSet(s) /\ Cardinality(s) \in Nat
  BY FS_Subset, FS_CardinalityType
<1>9. 0 \in N
  <2> SUFFICES ASSUME NEW s \in SUBSET S, Cardinality(s) = 0 PROVE D[s] = K[s]
    OBVIOUS
  <2>1. s = {}
    BY <1>8, FS_EmptySet
  <2> QED
    BY <1>2, <1>7, <2>1
<1>10. ASSUME NEW m \in Nat, m \in N PROVE m + 1 \in N
  <2> SUFFICES ASSUME NEW s \in SUBSET S, Cardinality(s) = m + 1 PROVE D[s] = K[s]
    OBVIOUS
  <2>1. CASE s = {}
    BY <1>2, <1>7, <2>1
  <2>2. CASE s # {}
    <3>1. PICK y : y = c(s)
      OBVIOUS
    <3>2. y \in s /\ IsFiniteSet(s) /\ s \ {y} \in SUBSET S
      BY <1>4, <1>8, <2>2, <3>1
    <3>3. Cardinality(s \ {y}) = Cardinality(s) - 1
      BY <3>2, FS_RemoveElement
    <3>4. Cardinality(s \ {y}) = m
      BY <3>3
    <3>5. D[s \ {y}] = K[s \ {y}]
      BY <1>10, <3>2, <3>4
    <3>6. D[s] = h[y] + D[s \ {y}]
      BY <1>7, <2>2, <3>1
    <3> QED
      BY <1>3, <3>2, <3>5, <3>6
  <2> QED
    BY <2>1, <2>2
<1>11. Nat \subseteq N
  <2> HIDE DEF N
  <2> QED
    BY <1>9, <1>10, Induction
<1>12. D[S] = K[S]
  BY <1>8, <1>11
<1> QED
  BY <1>1, <1>2, <1>12

(* A larger part has the larger sum, if nothing is negative.                *)
LEMMA SumGrows ==
    ASSUME NEW T, IsFiniteSet(T), NEW g, NEW F, IsSum(F, g, T),
           \A x \in T : g[x] \in Int /\ g[x] >= 0, NEW t \in SUBSET T, NEW s \in SUBSET t
    PROVE  F[s] <= F[t]
<1> DEFINE X == {u \in SUBSET T : F[s] <= F[s \cup u]}
<1>1. /\ F \in [SUBSET T -> Int] /\ s \in SUBSET T
      /\ \A u \in SUBSET T : \A x \in T \ u : F[u \cup {x}] = g[x] + F[u]
  BY DEF IsSum
<1>2. {} \in X
  <2>1. s \cup {} = s /\ F[s] \in Int
    BY <1>1
  <2> QED
    BY <2>1
<1>3. ASSUME NEW u \in SUBSET T, NEW x \in T \ u, u \in X PROVE u \cup {x} \in X
  <2>1. s \cup (u \cup {x}) = (s \cup u) \cup {x} /\ s \cup u \in SUBSET T
    OBVIOUS
  <2>2. F[s] <= F[s \cup u] /\ F[s] \in Int /\ F[s \cup u] \in Int
    BY <1>1, <1>3, <2>1
  <2>3. CASE x \in s
    <3>1. (s \cup u) \cup {x} = s \cup u
      BY <2>3
    <3> QED
      BY <2>1, <2>2, <3>1
  <2>4. CASE x \notin s
    <3>1. x \in T \ (s \cup u)
      BY <2>4
    <3>2. F[(s \cup u) \cup {x}] = g[x] + F[s \cup u] /\ g[x] \in Int /\ g[x] >= 0
      BY <1>1, <2>1, <3>1
    <3>3. F[s] <= g[x] + F[s \cup u]
      BY <2>2, <3>2
    <3>4. F[s] <= F[s \cup (u \cup {x})]
      BY <2>1, <3>2, <3>3
    <3> QED
      BY <3>4
  <2> QED
    BY <2>3, <2>4
<1>4. SUBSET T \subseteq X
  <2> HIDE DEF X
  <2> QED
    BY <1>2, <1>3, SetInduction
<1>5. t \in X /\ s \cup t = t
  BY <1>4
<1> QED
  BY <1>5

(* The sums of a sum are the sums of its terms.                             *)
LEMMA SumsAdd ==
    ASSUME NEW T, IsFiniteSet(T), NEW a, NEW b, NEW c, NEW A, NEW B, NEW C,
           IsSum(A, a, T), IsSum(B, b, T), IsSum(C, c, T),
           \A x \in T : a[x] \in Int /\ b[x] \in Int /\ c[x] = a[x] + b[x]
    PROVE  \A s \in SUBSET T : C[s] = A[s] + B[s]
<1> DEFINE X == {s \in SUBSET T : C[s] = A[s] + B[s]}
<1>1. \A s \in SUBSET T : \A x \in T \ s :
        /\ A[s \cup {x}] = a[x] + A[s] /\ A[s] \in Int
        /\ B[s \cup {x}] = b[x] + B[s] /\ B[s] \in Int
        /\ C[s \cup {x}] = c[x] + C[s]
  <2>1. \A s \in SUBSET T : \A x \in T \ s : A[s \cup {x}] = a[x] + A[s] /\ A[s] \in Int
    BY DEF IsSum
  <2>2. \A s \in SUBSET T : \A x \in T \ s : B[s \cup {x}] = b[x] + B[s] /\ B[s] \in Int
    BY DEF IsSum
  <2>3. \A s \in SUBSET T : \A x \in T \ s : C[s \cup {x}] = c[x] + C[s]
    BY DEF IsSum
  <2> QED
    BY <2>1, <2>2, <2>3
<1>2. {} \in X
  BY DEF IsSum
<1>3. ASSUME NEW s \in SUBSET T, NEW x \in T \ s, s \in X PROVE s \cup {x} \in X
  <2>1. A[s \cup {x}] = a[x] + A[s] /\ A[s] \in Int
    BY <1>1
  <2>2. B[s \cup {x}] = b[x] + B[s] /\ B[s] \in Int
    BY <1>1
  <2>3. C[s \cup {x}] = c[x] + C[s] /\ C[s] = A[s] + B[s]
    BY <1>1, <1>3
  <2>4. a[x] \in Int /\ b[x] \in Int /\ c[x] = a[x] + b[x]
    OBVIOUS
  <2>5. C[s \cup {x}] = A[s \cup {x}] + B[s \cup {x}]
    BY <2>1, <2>2, <2>3, <2>4
  <2> QED
    BY <2>5
<1>4. SUBSET T \subseteq X
  <2> HIDE DEF X
  <2> QED
    BY <1>2, <1>3, SetInduction
<1> QED
  BY <1>4

(* The sum of the same value for each element.                              *)
LEMMA SumOfSame ==
    ASSUME NEW T, IsFiniteSet(T), NEW c, NEW C, IsSum(C, c, T), NEW v \in Int,
           \A x \in T : c[x] = v
    PROVE  \A s \in SUBSET T : C[s] = v * Cardinality(s) /\ Cardinality(s) \in Nat
<1> DEFINE X == {s \in SUBSET T : C[s] = v * Cardinality(s)}
<1>1. \A s \in SUBSET T : IsFiniteSet(s) /\ Cardinality(s) \in Nat
  BY FS_Subset, FS_CardinalityType
<1> DEFINE Step == \A s \in SUBSET T : \A x \in T \ s : C[s \cup {x}] = c[x] + C[s]
<1>2. Step
  BY DEF IsSum
<1>3. {} \in X
  BY FS_EmptySet DEF IsSum
<1>4. ASSUME NEW s \in SUBSET T, NEW x \in T \ s, s \in X PROVE s \cup {x} \in X
  <2>1. C[s \cup {x}] = v + C[s] /\ C[s] = v * Cardinality(s)
    BY <1>4, <1>2
  <2>2. Cardinality(s \cup {x}) = Cardinality(s) + 1
    BY <1>1, FS_AddElement
  <2> DEFINE n == Cardinality(s)
  <2>3. n \in Nat
    BY <1>1
  <2> HIDE DEF n
  <2>4. v + v * n = v * (n + 1)
    BY <2>3
  <2>5. C[s \cup {x}] = v * Cardinality(s \cup {x})
    BY <2>1, <2>2, <2>4 DEF n
  <2> QED
    BY <2>5
<1>5. SUBSET T \subseteq X
  <2> HIDE DEF X
  <2> QED
    BY <1>3, <1>4, SetInduction
<1> QED
  BY <1>1, <1>5

(* Shares that are rounded down give away no more than there is, and all of *)
(* it if they are whole.                                                    *)
LEMMA ShareOf ==
    ASSUME NEW a \in Nat, NEW f \in Nat, NEW t \in Nat \ {0}
    PROVE  LET q == (a * f) \div t
           IN q \in Nat /\ t * q <= a * f /\ ((a * f) % t = 0 => t * q = a * f)
<1>1. PICK m \in Nat : m = a * f
  OBVIOUS
<1>2. m \div t \in Nat /\ t * (m \div t) <= m /\ (m % t = 0 => t * (m \div t) = m)
  BY SMTT(30)
<1> QED
  BY <1>1, <1>2

AreShares(q, a, f, t, T) == \A x \in T : a[x] \in Nat /\ q[x] = (a[x] * f) \div t
AreWhole(a, f, t, T) == \A x \in T : (a[x] * f) % t = 0

(* The same for all the shares together.                                    *)
LEMMA SumOfShares ==
    ASSUME NEW T, IsFiniteSet(T), NEW a, NEW A, NEW q, NEW Q, IsSum(A, a, T), IsSum(Q, q, T),
           NEW f \in Nat, NEW t \in Nat \ {0}, AreShares(q, a, f, t, T)
    PROVE  /\ \A s \in SUBSET T : t * Q[s] <= A[s] * f
           /\ AreWhole(a, f, t, T) => \A s \in SUBSET T : t * Q[s] = A[s] * f
<1> DEFINE X == {s \in SUBSET T : t * Q[s] <= A[s] * f}
           Y == {s \in SUBSET T : A[s] * f <= t * Q[s]}
<1>1. \A x \in T : /\ q[x] \in Nat /\ t * q[x] <= a[x] * f
                   /\ (a[x] * f) % t = 0 => t * q[x] = a[x] * f
  <2> SUFFICES ASSUME NEW x \in T
               PROVE  /\ q[x] \in Nat /\ t * q[x] <= a[x] * f
                      /\ (a[x] * f) % t = 0 => t * q[x] = a[x] * f
    OBVIOUS
  <2>1. a[x] \in Nat /\ q[x] = (a[x] * f) \div t
    BY DEF AreShares
  <2>2. PICK m \in Nat : m = a[x]
    BY <2>1
  <2> DEFINE r == (m * f) \div t
  <2>3. r \in Nat /\ t * r <= m * f /\ ((m * f) % t = 0 => t * r = m * f)
    BY ShareOf
  <2>4. q[x] = r
    BY <2>2, <2>1
  <2> HIDE DEF r
  <2> QED
    BY <2>2, <2>3, <2>4
<1>2. {} \in X /\ {} \in Y
  BY DEF IsSum
<1>3. \A s \in SUBSET T : A[s] \in Int /\ Q[s] \in Int
  BY DEF IsSum
<1>4. \A b, c, d, e \in Int : t * b <= d * f /\ t * c <= e * f => t * (b + c) <= (d + e) * f
  BY SMTT(30)
<1>5. \A b, c, d, e \in Int : d * f <= t * b /\ e * f <= t * c => (d + e) * f <= t * (b + c)
  BY SMTT(30)
<1>6. ASSUME NEW s \in SUBSET T, NEW x \in T \ s
      PROVE  A[s \cup {x}] = a[x] + A[s] /\ Q[s \cup {x}] = q[x] + Q[s]
  <2>1. \A u \in SUBSET T : \A y \in T \ u : A[u \cup {y}] = a[y] + A[u]
    BY DEF IsSum
  <2>2. \A u \in SUBSET T : \A y \in T \ u : Q[u \cup {y}] = q[y] + Q[u]
    BY DEF IsSum
  <2> QED
    BY <2>1, <2>2
<1>7. ASSUME NEW s \in SUBSET T, NEW x \in T \ s, s \in X PROVE s \cup {x} \in X
  <2>1. q[x] \in Int /\ Q[s] \in Int /\ a[x] \in Int /\ A[s] \in Int
    BY <1>1, <1>3 DEF AreShares
  <2>2. t * (q[x] + Q[s]) <= (a[x] + A[s]) * f
    BY <1>1, <1>4, <1>7, <2>1
  <2> QED
    BY <1>6, <2>2
<1>8. SUBSET T \subseteq X
  <2> HIDE DEF X
  <2> QED
    BY <1>2, <1>7, SetInduction
<1>9. ASSUME AreWhole(a, f, t, T) PROVE SUBSET T \subseteq Y
  <2>1. ASSUME NEW s \in SUBSET T, NEW x \in T \ s, s \in Y PROVE s \cup {x} \in Y
    <3>1. q[x] \in Int /\ Q[s] \in Int /\ a[x] \in Int /\ A[s] \in Int
      BY <1>1, <1>3 DEF AreShares
    <3>2. a[x] * f <= t * q[x]
      <4>1. (a[x] * f) % t = 0 /\ a[x] \in Nat
        BY <1>9 DEF AreWhole, AreShares
      <4>2. t * q[x] = a[x] * f /\ a[x] * f \in Int
        BY <1>1, <4>1
      <4> QED
        BY <4>2
    <3>3. A[s] * f <= t * Q[s]
      BY <2>1
    <3>4. (a[x] + A[s]) * f <= t * (q[x] + Q[s])
      BY <1>5, <3>1, <3>2, <3>3
    <3> QED
      BY <1>6, <3>4
  <2> HIDE DEF Y
  <2> QED
    BY <1>2, <2>1, SetInduction
<1>10. \A b, d \in Int : t * b <= d * f /\ d * f <= t * b => t * b = d * f
  BY SMTT(30)
<1> QED
  BY <1>3, <1>8, <1>9, <1>10

(* The total of a function with a finite domain.                            *)
LEMMA TotalType ==
    ASSUME NEW S, IsFiniteSet(S), NEW h, DOMAIN h = S, \A x \in S : h[x] \in Int
    PROVE  /\ Flex!Total(h) \in Int
           /\ (\A x \in S : h[x] >= 0) => Flex!Total(h) \in Nat
<1>1. PICK F : IsSum(F, h, S)
  BY SumsExist
<1>2. Flex!Total(h) = F[S]
  BY <1>1, TotalIs
<1>3. F[S] \in Int /\ F[{}] = 0
  BY <1>1 DEF IsSum
<1>4. ASSUME \A x \in S : h[x] >= 0 PROVE F[S] \in Nat
  <2>1. \A x \in S : h[x] \in Int /\ h[x] >= 0
    BY <1>4
  <2>2. F[{}] <= F[S]
    BY <1>1, <2>1, SumGrows
  <2> QED
    BY <1>3, <2>2
<1> QED
  BY <1>2, <1>3, <1>4

(* The lengths of a style.                                                  *)
LEMMA StyleFacts ==
    ASSUME NEW s \in Flex!Style
    PROVE  /\ s.dir \in Flex!Axes /\ Flex!Other(s.dir) \in Flex!Axes /\ s.grow \in Nat
           /\ \A a \in Flex!Axes :
                /\ Flex!Padding(s, a) \in Nat /\ Flex!Margin(s, a) \in Nat
                /\ s.mStart[a] \in Nat /\ s.mEnd[a] \in Nat /\ s.pStart[a] \in Nat /\ s.pEnd[a] \in Nat
                /\ s.size[a] \in Nat \cup {-1} /\ Flex!Other(a) \in Flex!Axes
           /\ Flex!LeafBase(s) \in Nat /\ Flex!LeafBase(s) >= s.size[s.dir]
<1>1. /\ s.dir \in Flex!Axes /\ s.grow \in Nat
      /\ \A a \in Flex!Axes :
           /\ s.mStart[a] \in Nat /\ s.mEnd[a] \in Nat /\ s.pStart[a] \in Nat /\ s.pEnd[a] \in Nat
           /\ s.size[a] \in Nat \cup {-1} /\ s.min[a] \in Nat \cup {-1}
  BY DEF Flex!Style, Flex!Undefined
<1>2. \A a \in Flex!Axes : Flex!Padding(s, a) \in Nat /\ Flex!Margin(s, a) \in Nat
  BY <1>1 DEF Flex!Padding, Flex!Margin
<1>3. \A a \in Flex!Axes : Flex!Other(a) \in Flex!Axes
  BY DEF Flex!Other, Flex!Axes
<1>4. Flex!LeafBase(s) \in Nat /\ Flex!LeafBase(s) >= s.size[s.dir]
  <2> DEFINE g == IF s.size[s.dir] = -1 THEN 0 ELSE s.size[s.dir]
             m == s.min[s.dir]
  <2>1. g \in Nat /\ g >= s.size[s.dir] /\ m \in Nat \cup {-1}
    BY <1>1
  <2>2. Flex!LeafBase(s) = IF m = -1 THEN g ELSE Flex!Max({g, m})
    BY DEF Flex!LeafBase, Flex!Undefined
  <2>3. s.size[s.dir] \in Int
    BY <1>1
  <2> HIDE DEF g, m
  <2>4. m # -1 => Flex!Max({g, m}) \in Nat /\ Flex!Max({g, m}) >= g
    <3> SUFFICES ASSUME m # -1 PROVE Flex!Max({g, m}) \in Nat /\ Flex!Max({g, m}) >= g
      OBVIOUS
    <3>1. m \in Nat
      BY <2>1
    <3>2. \E x \in {g, m} : \A y \in {g, m} : x >= y
      BY <2>1, <3>1
    <3>3. Flex!Max({g, m}) \in {g, m} /\ \A y \in {g, m} : Flex!Max({g, m}) >= y
      BY <3>2 DEF Flex!Max
    <3> QED
      BY <2>1, <3>1, <3>3
  <2> QED
    BY <2>1, <2>2, <2>3, <2>4
<1> QED
  BY <1>1, <1>2, <1>3, <1>4

(* Every node has a style. *)
FlexStyles == \A i \in 0 .. Count - 1 : style[i] \in Flex!Style

(* The children of a node.                                                  *)
LEMMA KidsAre ==
    ASSUME FlexInv, NEW p \in 0 .. Count - 1
    PROVE  /\ Flex!Kids(p) = {i \in 0 .. Count - 1 : parent[i] = p}
           /\ IsFiniteSet(Flex!Kids(p)) /\ child_count[p] = Cardinality(Flex!Kids(p))
           /\ \A i \in Flex!Kids(p) : i \in 0 .. Count - 1 /\ i > p
           /\ first_child[p] = -1 => Flex!Kids(p) = {}
           /\ Flex!Children(p) # <<>> =>
                LET l == Flex!Children(p)[Len(Flex!Children(p))]
                IN l \in Flex!Kids(p) /\ \A j \in Flex!Kids(p) : j <= l
<1> DEFINE S == 0 .. Count - 1
           K == {i \in S : parent[i] = p}
<1>1. Flex!Nodes = S /\ Count \in Nat /\ p \in Flex!Nodes
      /\ \A i \in S : i \in Int /\ parent[i] < i
  BY FlexBasics DEF FlexInv
<1>2. Flex!Kids(p) = K
  BY <1>1, LinksFromInv DEF Flex!LinksAreTree, Flex!Kids
<1>3. IsFiniteSet(S)
  BY <1>1, FS_Interval
<1>4. IsFiniteSet(K)
  BY <1>3, FS_Subset
<1>5. child_count[p] = Cardinality(K)
  BY DEF FlexInv, FlexLinks, Kids
<1>6. FirstOf(p, first_child[p])
  BY DEF FlexInv, FlexLinks
<1>7. first_child[p] = -1 => K = {}
  BY <1>6 DEF FirstOf
<1>8. \A i \in K : i \in S /\ i > p
  BY <1>1
<1>9. ASSUME Flex!Children(p) # <<>>
      PROVE  LET l == Flex!Children(p)[Len(Flex!Children(p))]
             IN l \in K /\ \A j \in K : j <= l
  <2>1. Flex!LastChild(p) = Flex!Children(p)[Len(Flex!Children(p))]
    <3>1. p # -1
      OBVIOUS
    <3> QED
      BY <1>9, <3>1 DEF Flex!LastChild, Flex!None
  <2>2. K # {}
    BY <1>9, ChildrenFound
  <2>3. LastIs(p, Flex!LastChild(p))
    BY LastChildIsLast
  <2> QED
    BY <2>1, <2>2, <2>3 DEF LastIs
<1> QED
  BY <1>2, <1>4, <1>5, <1>7, <1>8, <1>9

(* Pass 1: the equation for the measured sizes has a solution, since a node *)
(* comes before its children, and no size is negative.                      *)
LEMMA SizesMeasured ==
    ASSUME FlexInv, FlexStyles
    PROVE  \A i \in 0 .. Count - 1 :
             /\ Flex!BaseSize[i] \in Nat
             /\ first_child[i] = -1 => Flex!BaseSize[i] = Flex!LeafBase(style[i])
<1> DEFINE n == Count
           Upper(m) == (n - m) .. (n - 1)
           Val(i, f) == IF first_child[i] = -1 THEN Flex!LeafBase(style[i])
                        ELSE Flex!Padding(style[i], style[i].dir)
                             + Flex!Total([k \in Flex!Kids(i) |->
                                             f[k] + Flex!Margin(style[k], style[k].dir)])
           From(f, m) == f \in [Upper(m) -> Nat] /\ \A i \in Upper(m) : f[i] = Val(i, f)
           S == {m \in Nat : m <= n => \E f : From(f, m)}
<1>1. n \in Nat /\ Flex!Nodes = 0 .. n - 1
  BY FlexBasics DEF FlexInv
<1>2. \A i \in 0 .. n - 1 : /\ IsFiniteSet(Flex!Kids(i))
                            /\ \A k \in Flex!Kids(i) : k \in 0 .. n - 1 /\ k > i
  BY KidsAre
<1>3. \A i \in 0 .. n - 1 : /\ Flex!LeafBase(style[i]) \in Nat
                            /\ Flex!Padding(style[i], style[i].dir) \in Nat
                            /\ Flex!Margin(style[i], style[i].dir) \in Nat
  BY StyleFacts DEF FlexStyles
<1> HIDE DEF n
<1>4. 0 \in S
  <2>1. Upper(0) = {}
    BY <1>1
  <2>2. From([i \in Upper(0) |-> 0], 0)
    BY <2>1
  <2> QED
    BY <2>2
<1>5. ASSUME NEW m \in Nat, m \in S PROVE m + 1 \in S
  <2> HIDE DEF From
  <2> SUFFICES ASSUME m + 1 <= n PROVE \E f : From(f, m + 1)
    OBVIOUS
  <2>1. PICK f : From(f, m)
    <3>1. m <= n
      BY <1>1
    <3> QED
      BY <1>5, <3>1
  <2> DEFINE new == n - (m + 1)
             h == [i \in Upper(m + 1) |-> IF i = new THEN Val(new, f) ELSE f[i]]
  <2>2. /\ new \in 0 .. n - 1 /\ new \in Upper(m + 1) /\ new \notin Upper(m)
        /\ \A i : i \in Upper(m + 1) <=> i = new \/ i \in Upper(m)
        /\ \A i \in Upper(m + 1) : i \in 0 .. n - 1
        /\ \A i \in Upper(m + 1), k \in 0 .. n - 1 : k > i => k \in Upper(m)
    BY <1>1
  <2>3. f \in [Upper(m) -> Nat] /\ \A i \in Upper(m) : f[i] = Val(i, f)
    BY <2>1 DEF From
  <2> HIDE DEF new, Upper, Val
  <2>4. \A i \in Upper(m + 1) : \A k \in Flex!Kids(i) : k \in Upper(m) /\ f[k] \in Nat
    BY <1>2, <2>2, <2>3
  <2>5. Val(new, f) \in Nat
    <3> DEFINE g == [k \in Flex!Kids(new) |-> f[k] + Flex!Margin(style[k], style[k].dir)]
    <3>1. DOMAIN g = Flex!Kids(new)
          /\ \A k \in Flex!Kids(new) : g[k] \in Int /\ g[k] >= 0
      BY <1>2, <1>3, <2>2, <2>4
    <3> HIDE DEF g
    <3>2. Flex!Total(g) \in Nat
      BY <1>2, <2>2, <3>1, TotalType
    <3> QED
      BY <1>3, <2>2, <3>2 DEF Val, g
  <2>6. /\ h \in [Upper(m + 1) -> Nat] /\ h[new] = Val(new, f)
        /\ \A i \in Upper(m) : h[i] = f[i]
    BY <2>2, <2>3, <2>5
  <2> HIDE DEF h
  <2>7. ASSUME NEW i \in Upper(m + 1) PROVE Val(i, h) = Val(i, f)
    <3>1. \A k \in Flex!Kids(i) : h[k] = f[k]
      BY <2>4, <2>6
    <3>2. [k \in Flex!Kids(i) |-> h[k] + Flex!Margin(style[k], style[k].dir)]
          = [k \in Flex!Kids(i) |-> f[k] + Flex!Margin(style[k], style[k].dir)]
      BY <3>1
    <3> QED
      BY <3>2 DEF Val
  <2>8. \A i \in Upper(m + 1) : h[i] = Val(i, h)
    BY <2>2, <2>3, <2>6, <2>7
  <2> QED
    BY <2>6, <2>8 DEF From
<1>6. n \in S
  <2> HIDE DEF S
  <2> QED
    BY <1>1, <1>4, <1>5, Induction
<1>7. \E f : From(f, n)
  <2> HIDE DEF From
  <2>1. n <= n => \E f : From(f, n)
    BY <1>6
  <2> QED
    BY <1>1, <2>1
<1>8. Upper(n) = 0 .. n - 1
  BY <1>1
<1> DEFINE Eq(f) == f = [i \in 0 .. n - 1 |-> Val(i, f)]
           B == CHOOSE f : Eq(f)
<1>9. PICK f : From(f, n)
  BY <1>7
<1> HIDE DEF Upper
<1> HIDE DEF Val
<1>10. Eq(f)
  BY <1>8, <1>9
<1>11. B = Flex!BaseSize
  BY <1>1 DEF Flex!BaseSize, Flex!None, Val
<1>12. Eq(B)
  <2> HIDE DEF Eq
  <2> QED
    BY <1>10
<1> HIDE DEF B
<1>13. \A i \in 0 .. n - 1 : B[i] = Val(i, B)
  BY <1>12
<1>14. ASSUME NEW i \in 0 .. n - 1, \A k \in Flex!Kids(i) : B[k] \in Nat
       PROVE  B[i] \in Nat
  <2> DEFINE g == [k \in Flex!Kids(i) |-> B[k] + Flex!Margin(style[k], style[k].dir)]
  <2>1. DOMAIN g = Flex!Kids(i) /\ \A k \in Flex!Kids(i) : g[k] \in Int /\ g[k] >= 0
    BY <1>2, <1>3, <1>14
  <2> HIDE DEF g
  <2>2. Flex!Total(g) \in Nat
    BY <1>2, <2>1, TotalType
  <2> QED
    BY <1>3, <1>13, <2>2 DEF Val, g
<1> DEFINE M == {m \in Nat : \A i \in 0 .. n - 1 : i >= n - m => B[i] \in Nat}
<1>15. 0 \in M
  BY <1>1
<1>16. ASSUME NEW m \in Nat, m \in M PROVE m + 1 \in M
  <2> SUFFICES ASSUME NEW i \in 0 .. n - 1, i >= n - (m + 1) PROVE B[i] \in Nat
    OBVIOUS
  <2>1. \A k \in 0 .. n - 1 : k > i => k >= n - m
    BY <1>1
  <2>2. \A k \in Flex!Kids(i) : B[k] \in Nat
    BY <1>2, <1>16, <2>1
  <2> QED
    BY <1>14, <2>2
<1>17. Nat \subseteq M
  <2> HIDE DEF M
  <2> QED
    BY <1>15, <1>16, Induction
<1>18. \A i \in 0 .. n - 1 : B[i] \in Nat
  <2>1. n \in M /\ \A i \in 0 .. n - 1 : i >= n - n
    BY <1>1, <1>17
  <2> QED
    BY <2>1
<1>19. \A i \in 0 .. n - 1 : first_child[i] = -1 => B[i] = Flex!LeafBase(style[i])
  BY <1>13 DEF Val
<1> QED
  BY <1>11, <1>18, <1>19 DEF n

(* The nodes of the tree of node 0: the equation of the model has a         *)
(* solution, since a parent comes before its children.                      *)
LEMMA InTreeIs ==
    ASSUME FlexInv
    PROVE  /\ Flex!Tree \subseteq 0 .. Count - 1
           /\ \A i \in 0 .. Count - 1 : /\ i \in Flex!Tree <=> Flex!InTree[i]
                                        /\ i \in Flex!Tree <=> i = 0 \/ parent[i] \in Flex!Tree
<1> DEFINE n == Count
           Up(T, m) == /\ T \subseteq 0 .. m - 1
                       /\ \A i \in 0 .. m - 1 : i \in T <=> i = 0 \/ parent[i] \in T
           S == {m \in Nat : m <= n => \E T : Up(T, m)}
<1>1. n \in Nat /\ Flex!Nodes = 0 .. n - 1
      /\ \A i \in 0 .. n - 1 : i \in Int /\ parent[i] \in Int /\ parent[i] >= -1 /\ parent[i] < i
  BY FlexBasics DEF FlexInv
<1> HIDE DEF n
<1>2. 0 \in S
  <2>1. Up({}, 0)
    OBVIOUS
  <2> HIDE DEF Up
  <2> QED
    BY <2>1
<1>3. ASSUME NEW m \in Nat, m \in S PROVE m + 1 \in S
  <2> HIDE DEF Up
  <2> SUFFICES ASSUME m + 1 <= n PROVE \E T : Up(T, m + 1)
    OBVIOUS
  <2>1. PICK T : Up(T, m)
    <3>1. m <= n
      BY <1>1
    <3> QED
      BY <1>3, <3>1
  <2> DEFINE U == IF m = 0 \/ parent[m] \in T THEN T \cup {m} ELSE T
  <2>2. /\ T \subseteq 0 .. m - 1 /\ \A i \in 0 .. m - 1 : i \in T <=> i = 0 \/ parent[i] \in T
    BY <2>1 DEF Up
  <2>3. /\ m \in 0 .. n - 1 /\ \A i \in 0 .. m : i \in 0 .. n - 1 /\ (i = m \/ i \in 0 .. m - 1)
        /\ m \notin 0 .. m - 1 /\ 0 .. (m + 1) - 1 = (0 .. m - 1) \cup {m}
        /\ \A i \in 0 .. m - 1 : i \in Int
    BY <1>1
  <2>4. \A i \in 0 .. m : parent[i] # m
    BY <1>1, <2>3
  <2>5. U \subseteq 0 .. (m + 1) - 1 /\ \A i : i # m => (i \in U <=> i \in T)
    BY <2>2, <2>3
  <2>6. m \in U <=> m = 0 \/ parent[m] \in T
    BY <2>2, <2>3
  <2> HIDE DEF U
  <2>7. ASSUME NEW i \in 0 .. (m + 1) - 1 PROVE i \in U <=> i = 0 \/ parent[i] \in U
    <3>1. parent[i] # m
      BY <2>4
    <3>2. parent[i] \in U <=> parent[i] \in T
      BY <2>5, <3>1
    <3>3. CASE i = m
      BY <2>6, <3>2, <3>3
    <3>4. CASE i # m
      <4>1. i \in 0 .. m - 1
        BY <2>3, <3>4
      <4> QED
        BY <2>2, <2>5, <3>2, <3>4, <4>1
    <3> QED
      BY <3>3, <3>4
  <2>8. Up(U, m + 1)
    BY <2>5, <2>7 DEF Up
  <2> QED
    BY <2>8
<1>4. n \in S
  <2> HIDE DEF S
  <2> QED
    BY <1>1, <1>2, <1>3, Induction
<1>5. PICK T : Up(T, n)
  <2> HIDE DEF Up
  <2>1. n <= n => \E T : Up(T, n)
    BY <1>4
  <2> QED
    BY <1>1, <2>1
<1> DEFINE Val(i, f) == i = 0 \/ (parent[i] # -1 /\ f[parent[i]])
           Eq(f) == f = [i \in 0 .. n - 1 |-> Val(i, f)]
           B == CHOOSE f : Eq(f)
           F == [i \in 0 .. n - 1 |-> i \in T]
<1>6. \A i \in 0 .. n - 1 : F[i] = (i \in T)
  OBVIOUS
<1>7. \A i \in 0 .. n - 1 : parent[i] # -1 => parent[i] \in 0 .. n - 1
  BY <1>1
<1>8. -1 \notin T /\ T \subseteq 0 .. n - 1 /\ \A i \in 0 .. n - 1 : i \in T <=> i = 0 \/ parent[i] \in T
  BY <1>5
<1>9. ASSUME NEW i \in 0 .. n - 1 PROVE (i \in T) = Val(i, F)
  <2>1. i \in T <=> i = 0 \/ (parent[i] # -1 /\ parent[i] \in T)
    BY <1>8, Zenon
  <2>2. parent[i] # -1 => F[parent[i]] = (parent[i] \in T)
    BY <1>6, <1>7, Zenon
  <2> HIDE DEF F
  <2>3. (i \in T) <=> Val(i, F)
    BY <2>1, <2>2, Zenon
  <2> HIDE DEF Val
  <2>4. Val(i, F) \in BOOLEAN
    BY DEF Val
  <2> QED
    BY <2>3, <2>4
<1>10. Eq(F)
  <2> HIDE DEF Val
  <2> QED
    BY <1>9, Zenon
<1>11. Eq(B)
  <2> HIDE DEF Eq
  <2> QED
    BY <1>10, Zenon
<1>12. B = Flex!InTree
  BY <1>1 DEF Flex!InTree, Flex!None
<1> HIDE DEF B
<1>13. \A i \in 0 .. n - 1 : B[i] = Val(i, B)
  BY <1>11, Zenon
<1>14. \A i : i \in Flex!Tree <=> i \in 0 .. n - 1 /\ B[i]
  BY <1>1, <1>12, Zenon DEF Flex!Tree
<1>15. -1 \notin 0 .. n - 1
  BY <1>1
<1>16. ASSUME NEW i \in 0 .. n - 1
       PROVE i \in Flex!Tree <=> i = 0 \/ parent[i] \in Flex!Tree
  <2>1. i \in Flex!Tree <=> Val(i, B)
    BY <1>13, <1>14, Zenon
  <2>2. parent[i] \in Flex!Tree <=> parent[i] # -1 /\ B[parent[i]]
    BY <1>7, <1>14, <1>15, Zenon
  <2> QED
    BY <2>1, <2>2, Zenon
<1>17. \A i \in 0 .. n - 1 : i \in Flex!Tree <=> Flex!InTree[i]
  BY <1>12, <1>14, Zenon
<1> QED
  BY <1>14, <1>16, <1>17, Zenon DEF n

(* Pass 2: what a child gets from a parent at r.                            *)
Rects == [pos : [Flex!Axes -> Int], ext : [Flex!Axes -> Int]]

(* The content of a parent, and what its children need and ask for.         *)
LEMMA SpaceOf ==
    ASSUME FlexInv, FlexStyles, NEW p \in 0 .. Count - 1, NEW r \in Rects
    PROVE  /\ \A a \in Flex!Axes : /\ Flex!Content(style[p], r, a) \in Int
                                   /\ Flex!Content(style[p], r, a) = r.ext[a] - Flex!Padding(style[p], a)
           /\ Flex!KidsBase(p) \in Nat /\ Flex!KidsGrow(p) \in Nat
           /\ Flex!Free(p, r) \in Int
           /\ Flex!Free(p, r) = Flex!Content(style[p], r, style[p].dir) - Flex!KidsBase(p)
           /\ Flex!Kids(p) # {} => child_count[p] \in Nat \ {0}
<1>1. style[p] \in Flex!Style /\ \A a \in Flex!Axes : r.ext[a] \in Int
  BY DEF FlexStyles, Rects
<1>2. \A a \in Flex!Axes : /\ Flex!Content(style[p], r, a) \in Int
                           /\ Flex!Content(style[p], r, a) = r.ext[a] - Flex!Padding(style[p], a)
  BY <1>1, StyleFacts DEF Flex!Content
<1>3. /\ IsFiniteSet(Flex!Kids(p)) /\ child_count[p] = Cardinality(Flex!Kids(p))
      /\ \A k \in Flex!Kids(p) : k \in 0 .. Count - 1
  BY KidsAre
<1>4. \A k \in Flex!Kids(p) : Flex!BaseSize[k] \in Nat /\ style[k].grow \in Nat
  BY <1>3, SizesMeasured, StyleFacts DEF FlexStyles
<1>5. Flex!KidsBase(p) \in Nat
  <2> DEFINE g == [k \in Flex!Kids(p) |-> Flex!BaseSize[k]]
  <2>1. DOMAIN g = Flex!Kids(p) /\ \A k \in Flex!Kids(p) : g[k] \in Int /\ g[k] >= 0
    BY <1>4
  <2> HIDE DEF g
  <2>2. Flex!Total(g) \in Nat
    BY <1>3, <2>1, TotalType
  <2> QED
    BY <2>2 DEF g, Flex!KidsBase
<1>6. Flex!KidsGrow(p) \in Nat
  <2> DEFINE g == [k \in Flex!Kids(p) |-> style[k].grow]
  <2>1. DOMAIN g = Flex!Kids(p) /\ \A k \in Flex!Kids(p) : g[k] \in Int /\ g[k] >= 0
    BY <1>4
  <2> HIDE DEF g
  <2>2. Flex!Total(g) \in Nat
    BY <1>3, <2>1, TotalType
  <2> QED
    BY <2>2 DEF g, Flex!KidsGrow
<1>7. Flex!Free(p, r) = Flex!Content(style[p], r, style[p].dir) - Flex!KidsBase(p)
      /\ Flex!Free(p, r) \in Int
  BY <1>1, <1>2, <1>5, StyleFacts DEF Flex!Free
<1>8. ASSUME Flex!Kids(p) # {} PROVE child_count[p] \in Nat \ {0}
  BY <1>3, <1>8, FS_CardinalityType, FS_EmptySet
<1> QED
  BY <1>2, <1>5, <1>6, <1>7, <1>8

(* The gaps between children and before the first take no more than the     *)
(* free space.                                                              *)
LEMMA GapStart ==
    ASSUME FlexInv, FlexStyles, NEW p \in 0 .. Count - 1, NEW r \in Rects, Flex!Kids(p) # {}
    PROVE  LET f  == Flex!Free(p, r)
               g  == Flex!Gap(p, r)
               st == Flex!Start(p, r) - style[p].pStart[style[p].dir]
           IN /\ g \in Int /\ st \in Int /\ Flex!Start(p, r) \in Int
              /\ f >= 0 => g >= 0 /\ st >= 0 /\ st + (child_count[p] - 1) * g <= f
              /\ style[p].justify = "start" => g = 0 /\ st = 0
<1>1. PICK f \in Int : f = Flex!Free(p, r)
  BY SpaceOf
<1>2. PICK c \in Nat \ {0} : c = child_count[p]
  BY SpaceOf
<1>3. PICK s \in Flex!Style : s = style[p]
  BY DEF FlexStyles
<1>4. PICK b \in Nat : b = s.pStart[s.dir]
  BY StyleFacts
<1>5. s.justify \in {"start", "end", "center", "between", "around"}
  BY DEF Flex!Style
<1> DEFINE Gp == IF s.justify = "between" THEN IF c > 1 THEN f \div (c - 1) ELSE 0
                 ELSE IF s.justify = "around" THEN f \div c ELSE 0
<1>6. PICK g : g = Flex!Gap(p, r)
  OBVIOUS
<1>7. g = Gp
  BY <1>1, <1>2, <1>3, <1>5, <1>6 DEF Flex!Gap
<1>8. \A d \in Nat \ {0} : f \div d \in Int /\ (f >= 0 => f \div d >= 0 /\ d * (f \div d) <= f)
  BY SMTT(30)
<1>9. c > 1 => c - 1 \in Nat \ {0}
  OBVIOUS
<1>10. g \in Int /\ (s.justify \in {"start", "end", "center"} => g = 0)
       /\ (f >= 0 => g >= 0 /\ (c - 1) * g <= f)
       /\ (f >= 0 /\ s.justify = "around" => c * g <= f)
  <2>1. CASE s.justify = "between"
    <3>1. CASE c > 1
      <4>1. g = f \div (c - 1)
        BY <1>7, <2>1, <3>1
      <4> QED
        BY <1>8, <1>9, <2>1, <3>1, <4>1
    <3>2. CASE c = 1
      <4>1. g = 0 /\ (c - 1) * g = 0
        BY <1>7, <2>1, <3>2
      <4> QED
        BY <2>1, <4>1
    <3> QED
      BY <3>1, <3>2
  <2>2. CASE s.justify = "around"
    <3>1. g = f \div c
      BY <1>7, <2>2
    <3>2. g \in Int /\ (f >= 0 => g >= 0 /\ c * g <= f)
      BY <1>8, <3>1
    <3>3. \A x \in Int : x >= 0 => (c - 1) * x <= c * x /\ (c - 1) * x \in Int /\ c * x \in Int
      BY SMTT(30)
    <3>4. f >= 0 => (c - 1) * g <= f
      BY <3>2, <3>3
    <3> QED
      BY <2>2, <3>2, <3>4
  <2>3. CASE s.justify \in {"start", "end", "center"}
    <3>1. g = 0 /\ (c - 1) * g = 0
      BY <1>7, <2>3
    <3> QED
      BY <2>3, <3>1
  <2> QED
    BY <1>5, <2>1, <2>2, <2>3
<1> HIDE DEF Gp
<1> DEFINE Ex == IF s.justify = "end" THEN f ELSE IF s.justify = "center" THEN f \div 2
                 ELSE IF s.justify = "around" THEN g \div 2 ELSE 0
<1>11. PICK e : e = Ex
  OBVIOUS
<1>12. Flex!Start(p, r) = b + e
  BY <1>1, <1>3, <1>4, <1>5, <1>6, <1>11 DEF Flex!Start
<1>13. \A x \in Int : x \div 2 \in Int /\ (x >= 0 => x \div 2 >= 0 /\ x \div 2 <= x)
  BY SMTT(30)
<1>14. e \in Int /\ (s.justify = "start" => e = 0)
       /\ (f >= 0 => e >= 0 /\ e + (c - 1) * g <= f)
  <2>1. (c - 1) * g \in Int
    BY <1>10
  <2>2. CASE s.justify = "end"
    <3>1. e = f /\ g = 0 /\ (c - 1) * g = 0
      BY <1>10, <1>11, <2>2
    <3> QED
      BY <2>2, <3>1
  <2>3. CASE s.justify = "center"
    <3>1. e = f \div 2 /\ g = 0 /\ (c - 1) * g = 0
      BY <1>10, <1>11, <2>3
    <3> QED
      BY <1>13, <2>3, <3>1
  <2>4. CASE s.justify = "around"
    <3>1. e = g \div 2 /\ g \in Int
      BY <1>10, <1>11, <2>4
    <3>2. e \in Int /\ (g >= 0 => e >= 0 /\ e <= g)
      BY <1>13, <3>1
    <3>3. \A x \in Int : x + (c - 1) * x = c * x /\ (c - 1) * x \in Int
      BY SMTT(30)
    <3>4. f >= 0 => e >= 0 /\ e + (c - 1) * g <= f
      BY <1>10, <2>4, <3>1, <3>2, <3>3
    <3> QED
      BY <2>4, <3>2, <3>4
  <2>5. CASE s.justify \in {"start", "between"}
    <3>1. e = 0
      BY <1>11, <2>5
    <3> QED
      BY <1>10, <2>1, <3>1
  <2> QED
    BY <1>5, <2>2, <2>3, <2>4, <2>5
<1>15. Flex!Start(p, r) - style[p].pStart[style[p].dir] = e /\ Flex!Start(p, r) \in Int
  BY <1>3, <1>4, <1>12, <1>14
<1> QED
  BY <1>1, <1>2, <1>3, <1>6, <1>10, <1>14, <1>15

(* Its length along the parent: what was measured, and its share.           *)
LEMMA MainIs ==
    ASSUME FlexInv, FlexStyles, NEW i \in 0 .. Count - 1, NEW p \in 0 .. Count - 1,
           parent[i] = p, NEW r \in Rects
    PROVE  /\ Flex!MainOf(i, r) \in Int /\ Flex!MainOf(i, r) >= Flex!BaseSize[i]
           /\ Flex!MainOf(i, r) = Flex!BaseSize[i] +
                IF Flex!Free(p, r) > 0 /\ Flex!KidsGrow(p) > 0
                THEN (style[i].grow * Flex!Free(p, r)) \div Flex!KidsGrow(p) ELSE 0
<1>1. Flex!MainOf(i, r) = Flex!BaseSize[i] +
        IF Flex!Free(p, r) > 0 /\ Flex!KidsGrow(p) > 0
        THEN (style[i].grow * Flex!Free(p, r)) \div Flex!KidsGrow(p) ELSE 0
  BY DEF Flex!MainOf
<1>2. PICK f \in Int : f = Flex!Free(p, r)
  BY SpaceOf
<1>3. PICK t \in Nat : t = Flex!KidsGrow(p)
  BY SpaceOf
<1>4. PICK b \in Nat : b = Flex!BaseSize[i]
  BY SizesMeasured
<1>5. PICK a \in Nat : a = style[i].grow
  BY StyleFacts DEF FlexStyles
<1>6. f > 0 /\ t > 0 => (a * f) \div t \in Nat
  BY ShareOf
<1>7. Flex!MainOf(i, r) = b + IF f > 0 /\ t > 0 THEN (a * f) \div t ELSE 0
  BY <1>1, <1>2, <1>3, <1>4, <1>5
<1>8. Flex!MainOf(i, r) \in Int /\ Flex!MainOf(i, r) >= b
  BY <1>6, <1>7
<1> QED
  BY <1>1, <1>4, <1>8

(* Where it starts along the parent.                                        *)
LEMMA CursorIs ==
    ASSUME FlexInv, FlexStyles, NEW i \in 0 .. Count - 1, NEW p \in 0 .. Count - 1,
           parent[i] = p, NEW r \in Rects
    PROVE  /\ Flex!Cursor(i, r) \in Int
           /\ Flex!Cursor(i, r) = Flex!Start(p, r) +
                Flex!Total([j \in Flex!Before(i) |-> Flex!MainOf(j, r) + Flex!Gap(p, r)])
           /\ Flex!Before(i) = {j \in Flex!Kids(p) : j < i} /\ i \in Flex!Kids(p)
<1>1. /\ Flex!Kids(p) = {j \in 0 .. Count - 1 : parent[j] = p} /\ IsFiniteSet(Flex!Kids(p))
      /\ Flex!Nodes = 0 .. Count - 1
  BY KidsAre, FlexBasics DEF FlexInv
<1>2. Flex!Before(i) = {j \in Flex!Kids(p) : j < i} /\ i \in Flex!Kids(p)
  BY <1>1 DEF Flex!Before
<1>3. IsFiniteSet(Flex!Before(i))
  <2>1. Flex!Before(i) \subseteq Flex!Kids(p)
    BY <1>2
  <2> QED
    BY <1>1, <2>1, FS_Subset
<1>4. Flex!Gap(p, r) \in Int /\ Flex!Start(p, r) \in Int
  BY <1>2, GapStart
<1>5. Flex!Cursor(i, r) = Flex!Start(p, r) +
        Flex!Total([j \in Flex!Before(i) |-> Flex!MainOf(j, r) + Flex!Gap(p, r)])
  BY DEF Flex!Cursor
<1> DEFINE g == [j \in Flex!Before(i) |-> Flex!MainOf(j, r) + Flex!Gap(p, r)]
<1>6. DOMAIN g = Flex!Before(i) /\ \A j \in Flex!Before(i) : g[j] \in Int
  <2>1. \A j \in Flex!Before(i) : Flex!MainOf(j, r) \in Int
    BY <1>1, <1>2, MainIs
  <2> QED
    BY <1>4, <2>1
<1>7. Flex!Total(g) \in Int
  <2> HIDE DEF g
  <2> QED
    BY <1>3, <1>6, TotalType
<1> QED
  BY <1>2, <1>4, <1>5, <1>7

(* Its length and place across the parent's direction are numbers.          *)
LEMMA CrossType ==
    ASSUME FlexInv, FlexStyles, NEW i \in 0 .. Count - 1, NEW p \in 0 .. Count - 1,
           parent[i] = p, NEW r \in Rects
    PROVE  Flex!CrossOf(i, r) \in Int /\ Flex!CrossOffset(i, r) \in Int
<1>1. PICK s \in Flex!Style : s = style[p]
  BY DEF FlexStyles
<1>2. PICK q \in Flex!Style : q = style[i]
  BY DEF FlexStyles
<1>3. PICK c \in Flex!Axes : c = Flex!Other(s.dir)
  BY StyleFacts
<1>4. PICK v \in Int : v = Flex!Content(s, r, c)
  BY <1>1, SpaceOf
<1>5. Flex!Margin(q, c) \in Int /\ Flex!Padding(q, c) \in Int /\ q.size[c] \in Int /\ s.pStart[c] \in Int
  BY StyleFacts
<1>6. PICK w : w = Flex!CrossOf(i, r)
  OBVIOUS
<1>7. w = IF s.align = "stretch" THEN v - Flex!Margin(q, c) - Flex!Padding(q, c)
          ELSE IF q.size[c] = -1 THEN 0 ELSE q.size[c]
  BY <1>1, <1>2, <1>3, <1>4, <1>6 DEF Flex!CrossOf, Flex!Undefined
<1>8. w \in Int
  BY <1>5, <1>7
<1>9. PICK o \in Int : o = w + Flex!Margin(q, c)
  BY <1>5, <1>8
<1>10. s.align \in {"start", "end", "center", "stretch"}
  BY DEF Flex!Style
<1>11. Flex!CrossOffset(i, r) =
         s.pStart[c] + IF s.align = "center" THEN (v - o) \div 2 ELSE IF s.align = "end" THEN v - o ELSE 0
  BY <1>1, <1>2, <1>3, <1>4, <1>6, <1>9, <1>10 DEF Flex!CrossOffset
<1>12. (v - o) \div 2 \in Int /\ v - o \in Int
  OBVIOUS
<1> QED
  BY <1>5, <1>6, <1>8, <1>11, <1>12

(* A rectangle that the passes give has numbers for its sides.              *)
LEMMA RectType ==
    ASSUME NEW s \in Flex!Style, NEW m \in Int, NEW c \in Int, NEW o \in [Flex!Axes -> Int]
    PROVE  Flex!RectOf(s, m, c, o) \in Rects
<1>1. \A a \in Flex!Axes : s.size[a] \in Int /\ s.mStart[s.dir] \in Int /\ s.mStart[Flex!Other(s.dir)] \in Int
  BY StyleFacts
<1> DEFINE e == [a \in Flex!Axes |-> IF s.size[a] = -1 THEN IF a = s.dir THEN m ELSE c ELSE s.size[a]]
           q == [a \in Flex!Axes |-> o[a] + s.mStart[IF a = "x" THEN s.dir ELSE Flex!Other(s.dir)]]
<1>2. Flex!RectOf(s, m, c, o) = [ext |-> e, pos |-> q]
  BY DEF Flex!RectOf, Flex!Undefined
<1>3. e \in [Flex!Axes -> Int]
  BY <1>1
<1>4. q \in [Flex!Axes -> Int]
  BY <1>1
<1> HIDE DEF e, q
<1> QED
  BY <1>2, <1>3, <1>4 DEF Rects

(* So the rectangle that a parent's gives to its child is one.              *)
LEMMA PlacedType ==
    ASSUME FlexInv, FlexStyles, NEW i \in 0 .. Count - 1, parent[i] \in 0 .. Count - 1,
           NEW r \in Rects
    PROVE  Flex!PlacedFrom(r, i) \in Rects
<1>1. PICK p \in 0 .. Count - 1 : p = parent[i]
  OBVIOUS
<1> DEFINE d == style[p].dir
           o == [a \in Flex!Axes |-> r.pos[a] + IF a = d THEN Flex!Cursor(i, r) ELSE Flex!CrossOffset(i, r)]
<1>2. /\ Flex!MainOf(i, r) \in Int /\ Flex!CrossOf(i, r) \in Int
      /\ Flex!Cursor(i, r) \in Int /\ Flex!CrossOffset(i, r) \in Int
  BY <1>1, MainIs, CursorIs, CrossType
<1>3. o \in [Flex!Axes -> Int]
  BY <1>2 DEF Rects
<1>4. Flex!PlacedFrom(r, i) = IF d = "x" THEN Flex!RectOf(style[i], Flex!MainOf(i, r), Flex!CrossOf(i, r), o)
                              ELSE Flex!RectOf(style[i], Flex!CrossOf(i, r), Flex!MainOf(i, r), o)
  BY <1>1 DEF Flex!PlacedFrom
<1>5. style[i] \in Flex!Style
  BY DEF FlexStyles
<1> HIDE DEF o
<1> QED
  BY <1>2, <1>3, <1>4, <1>5, RectType

(* Pass 2 places a node from its parent's rectangle; the equation of the    *)
(* model has a solution, since a parent comes before its children.          *)
LEMMA PlacesExist ==
    ASSUME FlexInv, FlexStyles, NEW space \in [Flex!Axes -> Nat]
    PROVE  \A i \in Flex!Tree :
             /\ Flex!Placed(i, space) \in Rects
             /\ i # 0 => Flex!Placed(i, space) = Flex!PlacedFrom(Flex!Placed(parent[i], space), i)
<1> DEFINE n == Count
           T == Flex!Tree
           root == Flex!RootRect(space)
           Val(k, f) == IF k = 0 THEN root ELSE Flex!PlacedFrom(f[parent[k]], k)
           Low(m) == {k \in T : k < m}
           Up(f, m) == f \in [Low(m) -> Rects] /\ \A k \in Low(m) : f[k] = Val(k, f)
           S == {m \in Nat : \E f : Up(f, m)}
<1>1. /\ T \subseteq 0 .. n - 1 /\ \A i \in T : i # 0 => parent[i] \in T
      /\ \A i \in T : i \in Int /\ i >= 0 /\ i < n
      /\ \A i \in T : parent[i] \in Int /\ parent[i] < i
  BY InTreeIs, FlexBasics DEF FlexInv
<1>2. 0 \in T => root \in Rects
  <2> SUFFICES ASSUME 0 \in T PROVE root \in Rects
    OBVIOUS
  <2>1. PICK s \in Flex!Style : s = style[0]
    BY <1>1 DEF FlexStyles
  <2>2. s.dir \in Flex!Axes /\ Flex!Other(s.dir) \in Flex!Axes
    BY StyleFacts
  <2>3. space[s.dir] \in Int /\ space[Flex!Other(s.dir)] \in Int
    BY <2>2
  <2>4. [a \in Flex!Axes |-> 0] \in [Flex!Axes -> Int]
    OBVIOUS
  <2> QED
    BY <2>1, <2>3, <2>4, RectType DEF Flex!RootRect
<1>3. \A i \in T, r \in Rects : i # 0 => Flex!PlacedFrom(r, i) \in Rects
  BY <1>1, PlacedType
<1>4. n \in Nat
  BY FlexBasics DEF FlexInv
<1> HIDE DEF n, T, root
<1>5. 0 \in S
  <2>1. \A i \in T : ~ i < 0
    BY <1>1
  <2>2. Low(0) = {}
    BY <2>1
  <2>3. Up([k \in Low(0) |-> 0], 0)
    BY <2>2
  <2> HIDE DEF Up
  <2> QED
    BY <2>3
<1>6. ASSUME NEW m \in Nat, m \in S PROVE m + 1 \in S
  <2> HIDE DEF Up
  <2>1. PICK f : Up(f, m)
    BY <1>6
  <2>2. f \in [Low(m) -> Rects] /\ \A k \in Low(m) : f[k] = Val(k, f)
    BY <2>1 DEF Up
  <2>3. /\ \A k : k \in Low(m + 1) <=> k \in T /\ (k = m \/ k \in Low(m))
        /\ m \notin Low(m)
        /\ \A k \in Low(m + 1) : k \in T /\ (k # 0 => parent[k] \in T /\ parent[k] \in Low(m))
    <3>1. \A k \in T : k < m + 1 <=> k = m \/ k < m
      BY <1>1
    <3>2. ~ m < m
      OBVIOUS
    <3>3. \A k \in T : k < m + 1 /\ k # 0 => parent[k] \in T /\ parent[k] < m
      BY <1>1
    <3> QED
      BY <3>1, <3>2, <3>3, Zenon
  <2> DEFINE h == [k \in Low(m + 1) |-> IF k = m THEN Val(m, f) ELSE f[k]]
  <2> HIDE DEF Low
  <2>4. \A k \in Low(m + 1) : Val(k, f) \in Rects
    <3> SUFFICES ASSUME NEW k \in Low(m + 1) PROVE Val(k, f) \in Rects
      OBVIOUS
    <3>1. CASE k = 0
      BY <1>2, <2>3, <3>1
    <3>2. CASE k # 0
      <4>1. f[parent[k]] \in Rects
        BY <2>2, <2>3, <3>2
      <4> QED
        BY <1>3, <2>3, <3>2, <4>1
    <3> QED
      BY <3>1, <3>2
  <2> HIDE DEF Val
  <2>5. /\ h \in [Low(m + 1) -> Rects]
        /\ \A k \in Low(m + 1) : h[k] = Val(k, f) /\ (k \in Low(m) => h[k] = f[k])
    BY <2>2, <2>3, <2>4
  <2> HIDE DEF h
  <2>6. ASSUME NEW k \in Low(m + 1) PROVE Val(k, h) = Val(k, f)
    <3>1. CASE k = 0
      BY <3>1 DEF Val
    <3>2. CASE k # 0
      <4>1. parent[k] \in Low(m) /\ parent[k] \in Low(m + 1)
        BY <2>3, <3>2
      <4>2. h[parent[k]] = f[parent[k]]
        BY <2>5, <4>1
      <4> QED
        BY <3>2, <4>2 DEF Val
    <3> QED
      BY <3>1, <3>2
  <2>7. Up(h, m + 1)
    BY <2>5, <2>6 DEF Up
  <2> QED
    BY <2>7
<1>7. n \in S
  <2> HIDE DEF S
  <2> QED
    BY <1>4, <1>5, <1>6, Induction
<1>8. PICK g : Up(g, n)
  <2> HIDE DEF Up
  <2> QED
    BY <1>7
<1>9. Low(n) = T
  BY <1>1, <1>4
<1> HIDE DEF Low
<1>10. g \in [T -> Rects] /\ \A k \in T : g[k] = Val(k, g)
  BY <1>8, <1>9
<1> DEFINE Eq(f) == f = [k \in T |-> Val(k, f)]
           B == CHOOSE f : Eq(f)
<1>11. \A i : Flex!Placed(i, space) = B[i]
  BY DEF Flex!Placed, T, root
<1> HIDE DEF Val
<1>12. Eq(g)
  BY <1>10
<1>13. Eq(B)
  <2> HIDE DEF Eq
  <2> QED
    BY <1>12
<1> HIDE DEF B
<1>14. \A k \in T : B[k] = Val(k, B)
  BY <1>13
<1> HIDE DEF Eq
<1> DEFINE M == {m \in Nat : \A k \in T : k < m => B[k] \in Rects}
<1>15. 0 \in M
  BY <1>1
<1>16. ASSUME NEW m \in Nat, m \in M PROVE m + 1 \in M
  <2> SUFFICES ASSUME NEW k \in T, k < m + 1 PROVE B[k] \in Rects
    OBVIOUS
  <2>1. CASE k = 0
    BY <1>2, <1>14, <2>1 DEF Val
  <2>2. CASE k # 0
    <3>1. parent[k] \in T /\ parent[k] < m
      BY <1>1, <2>2
    <3>2. B[parent[k]] \in Rects
      BY <1>16, <3>1
    <3>3. B[k] = Flex!PlacedFrom(B[parent[k]], k)
      BY <1>14, <2>2 DEF Val
    <3> QED
      BY <1>3, <2>2, <3>2, <3>3
  <2> QED
    BY <2>1, <2>2
<1>17. Nat \subseteq M
  <2> HIDE DEF M
  <2> QED
    BY <1>15, <1>16, Induction
<1>18. \A k \in T : B[k] \in Rects
  BY <1>1, <1>4, <1>17
<1>19. \A k \in T : k # 0 => B[k] = Flex!PlacedFrom(B[parent[k]], k)
  BY <1>14 DEF Val
<1> QED
  BY <1>11, <1>18, <1>19 DEF T

(* A rectangle depends on the links and styles only.                        *)
LEMMA SamePlaces ==
    ASSUME UNCHANGED Flex!topology
    PROVE  /\ Count' = Count /\ Flex!Tree' = Flex!Tree
           /\ \A r, i : Flex!PlacedFrom(r, i)' = Flex!PlacedFrom(r, i)
<1>1. /\ parent' = parent /\ first_child' = first_child /\ next_sibling' = next_sibling
      /\ child_count' = child_count /\ style' = style
  BY DEF Flex!topology
<1>2. Flex!Nodes' = Flex!Nodes /\ Flex!Chain' = Flex!Chain
  BY <1>1 DEF Flex!Nodes, Flex!Chain
<1>3. \A p : Flex!Kids(p)' = Flex!Kids(p)
  BY <1>1, <1>2 DEF Flex!Kids, Flex!Children
<1>4. Flex!BaseSize' = Flex!BaseSize
  BY <1>1, <1>2 DEF Flex!BaseSize, Flex!Kids, Flex!Children
<1>5. \A p, q : Flex!Free(p, q)' = Flex!Free(p, q) /\ Flex!KidsGrow(p)' = Flex!KidsGrow(p)
  BY <1>1, <1>3, <1>4 DEF Flex!Free, Flex!KidsGrow, Flex!KidsBase
<1>6. \A k, q : Flex!MainOf(k, q)' = Flex!MainOf(k, q)
  BY <1>1, <1>4, <1>5 DEF Flex!MainOf
<1>7. \A p, q : Flex!Gap(p, q)' = Flex!Gap(p, q)
  BY <1>1, <1>5 DEF Flex!Gap
<1>8. \A p, q : Flex!Start(p, q)' = Flex!Start(p, q)
  BY <1>1, <1>5, <1>7 DEF Flex!Start
<1>9. \A k : Flex!Before(k)' = Flex!Before(k)
  BY <1>1, <1>2 DEF Flex!Before
<1>10. \A k, q : Flex!Cursor(k, q)' = Flex!Cursor(k, q)
  BY <1>1, <1>6, <1>7, <1>8, <1>9 DEF Flex!Cursor
<1>11. \A k, q : Flex!CrossOf(k, q)' = Flex!CrossOf(k, q)
  BY <1>1 DEF Flex!CrossOf
<1>12. \A k, q : Flex!CrossOffset(k, q)' = Flex!CrossOffset(k, q)
  BY <1>1, <1>11 DEF Flex!CrossOffset
<1>13. ASSUME NEW r, NEW i PROVE Flex!PlacedFrom(r, i)' = Flex!PlacedFrom(r, i)
  BY <1>1, <1>6, <1>10, <1>11, <1>12 DEF Flex!PlacedFrom
<1>14. Count' = Count /\ Flex!Tree' = Flex!Tree
  BY <1>1 DEF Count, Flex!Tree, Flex!InTree, Flex!Nodes
<1> QED
  BY <1>13, <1>14

(* After the layout is computed, and until it is changed, every node of the *)
(* tree has the rectangle that its parent's gives it.                       *)
FlexPlaced ==
  computed # {} =>
    \A i \in Flex!Tree : rect[i] \in Rects
                         /\ (i # 0 => rect[i] = Flex!PlacedFrom(rect[parent[i]], i))

(* sc_layout_compute makes it so.                                           *)
LEMMA ComputePlaces ==
    ASSUME FlexInv, FlexStyles, NEW space \in [Flex!Axes -> Nat], Flex!Compute(space)
    PROVE  FlexStyles' /\ FlexPlaced'
<1>1. /\ parent' = parent /\ first_child' = first_child /\ next_sibling' = next_sibling
      /\ child_count' = child_count /\ style' = style
      /\ rect' = [i \in Flex!Nodes |-> IF i \in Flex!Tree THEN Flex!Placed(i, space) ELSE rect[i]]
  BY DEF Flex!Compute, Flex!topology
<1>2. Flex!Nodes = 0 .. Count - 1 /\ Flex!Tree \subseteq 0 .. Count - 1
      /\ \A i \in Flex!Tree : i # 0 => parent[i] \in Flex!Tree
  BY FlexBasics, InTreeIs DEF FlexInv
<1>3. /\ Count' = Count /\ Flex!Tree' = Flex!Tree
      /\ \A r, i : Flex!PlacedFrom(r, i)' = Flex!PlacedFrom(r, i)
  BY SamePlaces DEF Flex!Compute
<1>4. \A i \in Flex!Tree : rect'[i] = Flex!Placed(i, space)
  BY <1>1, <1>2
<1> QED
  BY <1>1, <1>2, <1>3, <1>4, PlacesExist DEF FlexStyles, FlexPlaced

(* The invariant: links, styles, and places if they are up to date. *)
LayoutInv == FlexInv /\ FlexStyles /\ FlexPlaced

(* The sums of what the children get along their parent: they fit into what *)
(* was measured and what is free, and fill it if the shares are whole.      *)
LEMMA MainsFit ==
    ASSUME FlexInv, FlexStyles, NEW p \in 0 .. Count - 1, NEW r \in Rects,
           NEW m, \A k \in Flex!Kids(p) : m[k] = Flex!MainOf(k, r),
           NEW M, IsSum(M, m, Flex!Kids(p)), Flex!Free(p, r) >= 0
    PROVE  LET all == M[Flex!Kids(p)]
           IN /\ all \in Int /\ all <= Flex!KidsBase(p) + Flex!Free(p, r)
              /\ Flex!KidsGrow(p) = 0 => all = Flex!KidsBase(p)
              /\ (Flex!KidsGrow(p) > 0
                  /\ \A k \in Flex!Kids(p) : (style[k].grow * Flex!Free(p, r)) % Flex!KidsGrow(p) = 0)
                   => all = Flex!KidsBase(p) + Flex!Free(p, r)
<1> DEFINE K == Flex!Kids(p)
           b == [k \in K |-> Flex!BaseSize[k]]
           a == [k \in K |-> style[k].grow]
<1>1. /\ IsFiniteSet(K) /\ K = {i \in 0 .. Count - 1 : parent[i] = p}
  BY KidsAre
<1>2. PICK f \in Nat : f = Flex!Free(p, r)
  <2>1. Flex!Free(p, r) \in Int /\ Flex!Free(p, r) >= 0
    BY SpaceOf
  <2> QED
    BY <2>1
<1>3. PICK t \in Nat : t = Flex!KidsGrow(p)
  BY SpaceOf
<1>4. PICK base \in Nat : base = Flex!KidsBase(p)
  BY SpaceOf
<1> DEFINE q == [k \in K |-> IF f > 0 /\ t > 0 THEN (a[k] * f) \div t ELSE 0]
<1>5. \A k \in K : b[k] \in Nat /\ a[k] \in Nat
  BY <1>1, SizesMeasured, StyleFacts DEF FlexStyles
<1>6. \A k \in K : q[k] \in Nat /\ m[k] = b[k] + q[k]
  <2> SUFFICES ASSUME NEW k \in K PROVE q[k] \in Nat /\ m[k] = b[k] + q[k]
    OBVIOUS
  <2>1. PICK g \in Nat : g = a[k]
    BY <1>5
  <2>2. f > 0 /\ t > 0 => (g * f) \div t \in Nat
    BY ShareOf
  <2>3. q[k] = IF f > 0 /\ t > 0 THEN (g * f) \div t ELSE 0
    BY <2>1
  <2>4. m[k] = b[k] + IF f > 0 /\ t > 0 THEN (g * f) \div t ELSE 0
    BY <1>1, <1>2, <1>3, <2>1, MainIs
  <2> QED
    BY <2>2, <2>3, <2>4
<1>7. Flex!Total(b) = base /\ Flex!Total(a) = t
  BY <1>3, <1>4 DEF Flex!KidsBase, Flex!KidsGrow
<1>8. DOMAIN b = K /\ DOMAIN a = K
  OBVIOUS
<1>9. \A k \in K : f > 0 /\ t > 0 => q[k] = (a[k] * f) \div t
  OBVIOUS
<1>10. \A k \in K : ~ (f > 0 /\ t > 0) => q[k] = 0
  OBVIOUS
<1>11. \A k \in K : a[k] = style[k].grow
  OBVIOUS
<1> HIDE DEF a, b, q, K
<1>12. IsFiniteSet(K) /\ \A k \in K : a[k] \in Int /\ b[k] \in Int /\ q[k] \in Int
  BY <1>1, <1>5, <1>6
<1>13. PICK A : IsSum(A, a, K)
  <2>1. \A k \in K : a[k] \in Int
    BY <1>12
  <2> QED
    BY <1>12, <2>1, SumsExist
<1>14. PICK B : IsSum(B, b, K)
  <2>1. \A k \in K : b[k] \in Int
    BY <1>12
  <2> QED
    BY <1>12, <2>1, SumsExist
<1>15. PICK Q : IsSum(Q, q, K)
  <2>1. \A k \in K : q[k] \in Int
    BY <1>12
  <2> QED
    BY <1>12, <2>1, SumsExist
<1>16. A[K] = t /\ B[K] = base
  BY <1>7, <1>8, <1>12, <1>13, <1>14, TotalIs
<1>17. M[K] = B[K] + Q[K] /\ Q[K] \in Int
  <2>1. IsSum(M, m, K)
    BY DEF K
  <2>2. \A x \in K : b[x] \in Int /\ q[x] \in Int /\ m[x] = b[x] + q[x]
    BY <1>5, <1>6
  <2>3. \A s \in SUBSET K : M[s] = B[s] + Q[s]
    BY <1>12, <1>14, <1>15, <2>1, <2>2, SumsAdd
  <2>4. Q[K] \in Int
    BY <1>15 DEF IsSum
  <2> QED
    BY <2>3, <2>4
<1>18. CASE f > 0 /\ t > 0
  <2>1. AreShares(q, a, f, t, K)
    BY <1>5, <1>9, <1>18 DEF AreShares
  <2>2. t \in Nat \ {0}
    BY <1>18
  <2>3. /\ \A s \in SUBSET K : t * Q[s] <= A[s] * f
        /\ AreWhole(a, f, t, K) => \A s \in SUBSET K : t * Q[s] = A[s] * f
    BY <1>12, <1>13, <1>15, <2>1, <2>2, SumOfShares
  <2>4. t * Q[K] <= A[K] * f /\ (AreWhole(a, f, t, K) => t * Q[K] = A[K] * f)
    BY <2>3
  <2>5. \A x \in Int : /\ t * x <= t * f => x <= f
                       /\ t * x = t * f => x = f
    BY <1>18, SMTT(30)
  <2>6. Q[K] <= f /\ (AreWhole(a, f, t, K) => Q[K] = f)
    BY <1>16, <1>17, <2>4, <2>5
  <2> QED
    BY <1>2, <1>3, <1>4, <1>11, <1>16, <1>17, <1>18, <2>6 DEF K, AreWhole
<1>19. CASE ~ (f > 0 /\ t > 0)
  <2>1. PICK v \in Int : v = 0
    OBVIOUS
  <2>2. \A k \in K : q[k] = v
    BY <1>10, <1>19, <2>1
  <2>3. \A s \in SUBSET K : Q[s] = v * Cardinality(s) /\ Cardinality(s) \in Nat
    BY <1>12, <1>15, <2>2, SumOfSame
  <2>4. Q[K] = 0 * Cardinality(K) /\ Cardinality(K) \in Nat
    BY <2>1, <2>3
  <2>5. Q[K] = 0
    BY <2>4
  <2>6. f = 0 \/ t = 0
    BY <1>19
  <2> QED
    BY <1>2, <1>3, <1>4, <1>16, <1>17, <2>5, <2>6 DEF K
<1> QED
  BY <1>18, <1>19

(* Where a child without margins lies along its parent.                     *)
LEMMA ChildPlace ==
    ASSUME LayoutInv, computed # {}, Flex!RowLike, NEW i \in 0 .. Count - 1, Flex!IsChild(i),
           NEW p, p = parent[i], NEW d, d = style[p].dir, Flex!Bare(style[i])
    PROVE  /\ p \in 0 .. Count - 1 /\ rect[p] \in Rects /\ rect[i] \in Rects /\ d \in Flex!Axes
           /\ rect[i].pos[d] = rect[p].pos[d] + Flex!Cursor(i, rect[p])
           /\ Flex!Measured(i) => rect[i].ext[d] <= Flex!MainOf(i, rect[p])
           /\ style[i].size[d] = -1 => rect[i].ext[d] = Flex!MainOf(i, rect[p])
<1>1. FlexInv /\ FlexStyles /\ FlexPlaced
  BY DEF LayoutInv
<1>2. i # 0 /\ i \in Flex!Tree /\ p \in Flex!Tree /\ p \in 0 .. Count - 1
  BY <1>1, InTreeIs DEF Flex!IsChild
<1>3. PICK r \in Rects : r = rect[p]
  BY <1>1, <1>2 DEF FlexPlaced
<1>4. rect[i] = Flex!PlacedFrom(r, i) /\ rect[i] \in Rects
  BY <1>1, <1>2, <1>3 DEF FlexPlaced
<1>5. PICK s \in Flex!Style : s = style[i]
  BY <1>1 DEF FlexStyles
<1>6. d \in Flex!Axes
  BY <1>1, <1>2, StyleFacts DEF FlexStyles
<1>7. i \in Flex!Nodes
  BY <1>1, FlexBasics DEF FlexInv
<1>8. s.dir = "x"
  BY <1>2, <1>5, <1>7 DEF Flex!RowLike
<1>9. \A a \in Flex!Axes : s.mStart[a] = 0
  <2>1. \A a \in Flex!Axes : s.mStart[a] + s.mEnd[a] = 0
    BY <1>5 DEF Flex!Bare, Flex!Margin
  <2>2. \A a \in Flex!Axes : s.mStart[a] \in Nat /\ s.mEnd[a] \in Nat
    BY StyleFacts
  <2>3. \A x, y \in Nat : x + y = 0 => x = 0
    OBVIOUS
  <2> QED
    BY <2>1, <2>2, <2>3
<1>10. PICK mn \in Int : mn = Flex!MainOf(i, r)
  BY <1>1, <1>2, MainIs
<1>11. PICK cu \in Int : cu = Flex!Cursor(i, r)
  BY <1>1, <1>2, CursorIs
<1>12. PICK co \in Int : co = Flex!CrossOf(i, r)
  BY <1>1, <1>2, CrossType
<1>13. PICK cs : cs = Flex!CrossOffset(i, r)
  OBVIOUS
<1> DEFINE o == [a \in Flex!Axes |-> r.pos[a] + IF a = d THEN cu ELSE cs]
<1>14. Flex!PlacedFrom(r, i) = IF d = "x" THEN Flex!RectOf(s, mn, co, o) ELSE Flex!RectOf(s, co, mn, o)
  BY <1>5, <1>10, <1>11, <1>12, <1>13 DEF Flex!PlacedFrom
<1>15. o[d] = r.pos[d] + cu /\ r.pos[d] \in Int
  BY <1>6 DEF Rects
<1> HIDE DEF o
<1>16. \A u, v : /\ Flex!RectOf(s, u, v, o).pos[d] = o[d] + s.mStart[IF d = "x" THEN s.dir ELSE Flex!Other(s.dir)]
                 /\ Flex!RectOf(s, u, v, o).ext[d] =
                        IF s.size[d] = -1 THEN IF d = s.dir THEN u ELSE v ELSE s.size[d]
  BY <1>6 DEF Flex!RectOf, Flex!Undefined
<1>17. \A u, v : Flex!RectOf(s, u, v, o).pos[d] = o[d] + 0
  BY <1>6, <1>8, <1>9, <1>16 DEF Flex!Other, Flex!Axes
<1>18. rect[i].pos[d] = r.pos[d] + cu
  <2>1. rect[i].pos[d] = o[d] + 0
    BY <1>4, <1>14, <1>17
  <2> QED
    BY <1>15, <2>1
<1>19. rect[i].ext[d] = IF s.size[d] = -1 THEN mn ELSE s.size[d]
  BY <1>4, <1>6, <1>8, <1>14, <1>16 DEF Flex!Axes
<1>20. ASSUME Flex!Measured(i) PROVE rect[i].ext[d] <= mn
  <2>1. CASE s.size[d] = -1
    BY <1>19, <2>1
  <2>2. CASE s.size[d] # -1
    <3>1. first_child[i] = -1 /\ d = "x"
      BY <1>5, <1>20, <2>2 DEF Flex!Measured, Flex!Main, Flex!Undefined, Flex!None
    <3>2. PICK b \in Nat : b = Flex!BaseSize[i]
      BY <1>1, SizesMeasured
    <3>3. b = Flex!LeafBase(s)
      BY <1>1, <1>5, <3>1, <3>2, SizesMeasured
    <3>4. b >= s.size[d] /\ s.size[d] \in Int
      BY <1>6, <1>8, <3>1, <3>3, StyleFacts
    <3>5. mn >= b
      BY <1>1, <1>2, <1>10, <3>2, MainIs
    <3>6. rect[i].ext[d] = s.size[d]
      BY <1>19, <2>2
    <3> QED
      BY <3>4, <3>5, <3>6
  <2> QED
    BY <2>1, <2>2
<1> QED
  BY <1>2, <1>3, <1>4, <1>5, <1>6, <1>10, <1>11, <1>18, <1>19, <1>20

(* Where the children start, as sums: M of their lengths, F of those and    *)
(* the gaps.                                                                *)
CursorsAdd(p, r, m, M, g, F) ==
  /\ \A k \in Flex!Kids(p) : /\ m[k] = Flex!MainOf(k, r) /\ m[k] \in Int /\ m[k] >= 0
                             /\ g[k] = m[k] + Flex!Gap(p, r) /\ g[k] \in Int
  /\ IsSum(M, m, Flex!Kids(p)) /\ IsSum(F, g, Flex!Kids(p))
  /\ \A k \in Flex!Kids(p) : Flex!Cursor(k, r) = Flex!Start(p, r) + F[Flex!Before(k)]
  /\ \A s \in SUBSET Flex!Kids(p) :
       F[s] = M[s] + Flex!Gap(p, r) * Cardinality(s) /\ Cardinality(s) \in Nat

(* These sums exist.                                                        *)
LEMMA PlaceSums ==
    ASSUME FlexInv, FlexStyles, NEW p \in 0 .. Count - 1, NEW r \in Rects, Flex!Kids(p) # {}
    PROVE  \E m, M, g, F : CursorsAdd(p, r, m, M, g, F)
<1> DEFINE K == Flex!Kids(p)
<1>1. IsFiniteSet(K) /\ K = {i \in 0 .. Count - 1 : parent[i] = p}
  BY KidsAre
<1>2. PICK gap \in Int : gap = Flex!Gap(p, r)
  BY GapStart
<1>3. \A k \in K : Flex!MainOf(k, r) \in Int /\ Flex!MainOf(k, r) >= 0
  <2> SUFFICES ASSUME NEW k \in K PROVE Flex!MainOf(k, r) \in Int /\ Flex!MainOf(k, r) >= 0
    OBVIOUS
  <2>1. k \in 0 .. Count - 1 /\ parent[k] = p
    BY <1>1
  <2>2. PICK b \in Nat : b = Flex!BaseSize[k]
    BY <2>1, SizesMeasured
  <2>3. Flex!MainOf(k, r) \in Int /\ Flex!MainOf(k, r) >= b
    BY <2>1, <2>2, MainIs
  <2> QED
    BY <2>3
<1>4. \A k \in K : /\ Flex!Before(k) \subseteq K
                   /\ Flex!Cursor(k, r) = Flex!Start(p, r) +
                        Flex!Total([j \in Flex!Before(k) |-> Flex!MainOf(j, r) + gap])
  BY <1>1, <1>2, CursorIs
<1> DEFINE main == [k \in K |-> Flex!MainOf(k, r)]
           c == [k \in K |-> gap]
           step == [k \in K |-> main[k] + gap]
           h(k) == [j \in Flex!Before(k) |-> Flex!MainOf(j, r) + gap]
<1>5. /\ \A k \in K : main[k] = Flex!MainOf(k, r)
      /\ \A k \in K : main[k] \in Int /\ main[k] >= 0 /\ step[k] = main[k] + gap /\ step[k] \in Int
      /\ \A k \in K : c[k] = gap /\ step[k] = main[k] + c[k]
      /\ \A k \in K : DOMAIN h(k) = Flex!Before(k) /\ \A j \in Flex!Before(k) : h(k)[j] = step[j]
  <2>1. \A k \in K : main[k] = Flex!MainOf(k, r) /\ step[k] = main[k] + gap /\ c[k] = gap
    OBVIOUS
  <2>2. \A k \in K : main[k] \in Int /\ main[k] >= 0 /\ step[k] \in Int
    BY <1>2, <1>3, <2>1
  <2>3. \A k \in K : \A j \in Flex!Before(k) : h(k)[j] = step[j]
    <3>1. \A k \in K : \A j \in Flex!Before(k) : h(k)[j] = Flex!MainOf(j, r) + gap /\ j \in K
      BY <1>4
    <3> QED
      BY <2>1, <3>1
  <2>4. \A k \in K : DOMAIN h(k) = Flex!Before(k)
    OBVIOUS
  <2> HIDE DEF K, main, c, step, h
  <2> QED
    BY <2>1, <2>2, <2>3, <2>4
<1> HIDE DEF K, main, c, step
<1>6. PICK M : IsSum(M, main, K)
  BY <1>1, <1>5, SumsExist
<1>7. PICK C : IsSum(C, c, K)
  BY <1>1, <1>2, <1>5, SumsExist
<1>8. PICK F : IsSum(F, step, K)
  BY <1>1, <1>5, SumsExist
<1>9. \A s \in SUBSET K : F[s] = M[s] + C[s]
  <2>1. \A x \in K : main[x] \in Int /\ c[x] \in Int /\ step[x] = main[x] + c[x]
    BY <1>2, <1>5
  <2>2. IsFiniteSet(K)
    BY <1>1
  <2> QED
    BY <1>6, <1>7, <1>8, <2>1, <2>2, SumsAdd
<1>10. \A s \in SUBSET K : C[s] = gap * Cardinality(s) /\ Cardinality(s) \in Nat
  <2>1. IsFiniteSet(K) /\ \A x \in K : c[x] = gap
    BY <1>1, <1>5
  <2> QED
    BY <1>7, <2>1, SumOfSame
<1>11. ASSUME NEW k \in K PROVE Flex!Cursor(k, r) = Flex!Start(p, r) + F[Flex!Before(k)]
  <2>1. Flex!Before(k) \in SUBSET K
    BY <1>4
  <2> HIDE DEF h
  <2>2. PICK e : e = h(k)
    OBVIOUS
  <2>3. DOMAIN e = Flex!Before(k) /\ \A j \in Flex!Before(k) : e[j] = step[j]
    BY <1>5, <2>2
  <2>4. Flex!Total(e) = F[Flex!Before(k)]
    BY <1>1, <1>8, <2>1, <2>3, TotalIs
  <2>5. Flex!Cursor(k, r) = Flex!Start(p, r) + Flex!Total(e)
    BY <1>4, <2>2 DEF h
  <2> QED
    BY <2>4, <2>5
<1>12. \A s \in SUBSET K : F[s] = M[s] + gap * Cardinality(s) /\ Cardinality(s) \in Nat
  BY <1>9, <1>10
<1>13. CursorsAdd(p, r, main, M, step, F)
  BY <1>2, <1>5, <1>6, <1>8, <1>11, <1>12 DEF K, CursorsAdd
<1> QED
  BY <1>13

(* A sibling ends where the next one's lengths and gaps begin.              *)
LEMMA SiblingsApart == LayoutInv => Flex!SiblingsDisjoint
<1> SUFFICES ASSUME LayoutInv, computed # {}, Flex!RowLike,
                    NEW i \in Flex!Nodes, NEW j \in Flex!Nodes,
                    Flex!IsChild(i), Flex!IsChild(j), parent[i] = parent[j], i < j,
                    Flex!Bare(style[i]), Flex!Bare(style[j]), Flex!Measured(i),
                    Flex!FreeOf(parent[i]) >= 0
             PROVE  Flex!Side(i, Flex!Main(parent[i])) <= rect[j].pos[Flex!Main(parent[i])]
  BY DEF Flex!SiblingsDisjoint, Flex!Fresh
<1>1. FlexInv /\ FlexStyles
  BY DEF LayoutInv
<1>2. i \in 0 .. Count - 1 /\ j \in 0 .. Count - 1 /\ i \in Int /\ j \in Int
  BY <1>1, FlexBasics DEF FlexInv
<1>3. PICK p : p = parent[i] /\ p = parent[j]
  OBVIOUS
<1>4. PICK d : d = style[p].dir
  OBVIOUS
<1>5. /\ p \in 0 .. Count - 1 /\ rect[p] \in Rects /\ rect[i] \in Rects /\ d \in Flex!Axes
      /\ rect[i].pos[d] = rect[p].pos[d] + Flex!Cursor(i, rect[p])
      /\ rect[i].ext[d] <= Flex!MainOf(i, rect[p])
  BY <1>2, <1>3, <1>4, ChildPlace
<1>6. rect[j].pos[d] = rect[p].pos[d] + Flex!Cursor(j, rect[p])
  BY <1>2, <1>3, <1>4, ChildPlace
<1>7. PICK r \in Rects : r = rect[p]
  BY <1>5
<1>8. Flex!Before(i) = {x \in Flex!Kids(p) : x < i} /\ i \in Flex!Kids(p)
  BY <1>1, <1>2, <1>3, <1>5, <1>7, CursorIs
<1>9. Flex!Before(j) = {x \in Flex!Kids(p) : x < j} /\ j \in Flex!Kids(p)
  BY <1>1, <1>2, <1>3, <1>5, <1>7, CursorIs
<1>10. Flex!Kids(p) # {}
  BY <1>8
<1>11. Flex!Gap(p, r) \in Int /\ Flex!Gap(p, r) >= 0 /\ Flex!Start(p, r) \in Int
  BY <1>1, <1>3, <1>5, <1>7, <1>10, GapStart DEF Flex!FreeOf
<1>12. PICK m, M, g, F : CursorsAdd(p, r, m, M, g, F)
  BY <1>1, <1>5, <1>10, PlaceSums
<1>13. IsFiniteSet(Flex!Kids(p)) /\ \A k \in Flex!Kids(p) : k \in Int
  BY <1>1, <1>5, KidsAre
<1> DEFINE B == Flex!Before(i)
           K == Flex!Kids(p)
<1>14. B \in SUBSET K /\ i \in K \ B /\ B \cup {i} \in SUBSET Flex!Before(j) /\ Flex!Before(j) \in SUBSET K
  <2>1. B \in SUBSET K /\ i \in K \ B /\ Flex!Before(j) \in SUBSET K
    BY <1>2, <1>8, <1>9
  <2>2. \A x \in Flex!Kids(p) : x < i => x < j
    BY <1>2, <1>13
  <2>3. B \cup {i} \subseteq Flex!Before(j)
    BY <1>8, <1>9, <2>2
  <2> QED
    BY <2>1, <2>3
<1> HIDE DEF B, K
<1>15. \A k \in K : g[k] \in Int /\ g[k] >= 0
  BY <1>11, <1>12 DEF K, CursorsAdd
<1>16. IsSum(F, g, K) /\ IsFiniteSet(K)
  BY <1>12, <1>13 DEF K, CursorsAdd
<1>17. F[B \cup {i}] = g[i] + F[B] /\ F[B] \in Int /\ F[Flex!Before(j)] \in Int
  BY <1>14, <1>16 DEF IsSum
<1>18. F[B \cup {i}] <= F[Flex!Before(j)]
  BY <1>14, <1>15, <1>16, SumGrows
<1>19. /\ Flex!Cursor(i, r) = Flex!Start(p, r) + F[B]
       /\ Flex!Cursor(j, r) = Flex!Start(p, r) + F[Flex!Before(j)]
       /\ g[i] = Flex!MainOf(i, r) + Flex!Gap(p, r) /\ Flex!MainOf(i, r) \in Int
  BY <1>8, <1>9, <1>12 DEF B, CursorsAdd
<1>20. Flex!Cursor(i, r) + Flex!MainOf(i, r) <= Flex!Cursor(j, r)
       /\ Flex!Cursor(i, r) \in Int /\ Flex!Cursor(j, r) \in Int
  <2>1. g[i] + F[B] <= F[Flex!Before(j)] /\ g[i] \in Int
    BY <1>11, <1>17, <1>18, <1>19
  <2>2. \A st, a, b, c, e \in Int : e >= 0 /\ (c + e) + a <= b => (st + a) + c <= st + b
    OBVIOUS
  <2> QED
    BY <1>11, <1>17, <1>19, <2>1, <2>2
<1>21. rect[i].pos[d] \in Int /\ rect[i].ext[d] \in Int /\ r.pos[d] \in Int
  BY <1>5 DEF Rects
<1> QED
  BY <1>3, <1>4, <1>5, <1>6, <1>7, <1>19, <1>20, <1>21 DEF Flex!Side, Flex!Main

(* What lies before a child, with it, is at most what the parent has.       *)
LEMMA ChildrenFit == LayoutInv => Flex!ChildrenInside
<1> SUFFICES ASSUME LayoutInv, computed # {}, Flex!RowLike,
                    NEW i \in Flex!Nodes, Flex!IsChild(i),
                    \A j \in Flex!Nodes : parent[j] = parent[i] => Flex!Bare(style[j]),
                    Flex!Measured(i), Flex!FreeOf(parent[i]) >= 0,
                    style[parent[i]].justify = "start" \/ Flex!KidsGrow(parent[i]) = 0,
                    NEW p, p = parent[i], NEW d, d = style[p].dir
             PROVE  /\ rect[i].pos[d] >= rect[p].pos[d] + style[p].pStart[d]
                    /\ Flex!Side(i, d) <= Flex!Side(p, d) - style[p].pEnd[d]
  BY DEF Flex!ChildrenInside, Flex!Fresh
<1>1. FlexInv /\ FlexStyles
  BY DEF LayoutInv
<1>2. i \in 0 .. Count - 1 /\ i \in Int /\ Flex!Bare(style[i])
  BY <1>1, FlexBasics DEF FlexInv
<1>3. /\ p \in 0 .. Count - 1 /\ rect[p] \in Rects /\ rect[i] \in Rects /\ d \in Flex!Axes
      /\ rect[i].pos[d] = rect[p].pos[d] + Flex!Cursor(i, rect[p])
      /\ rect[i].ext[d] <= Flex!MainOf(i, rect[p])
  BY <1>2, ChildPlace
<1>4. PICK r \in Rects : r = rect[p]
  BY <1>3
<1>5. Flex!Before(i) = {x \in Flex!Kids(p) : x < i} /\ i \in Flex!Kids(p)
  BY <1>1, <1>2, <1>3, <1>4, CursorIs
<1>6. Flex!Kids(p) # {}
  BY <1>5
<1>7. Flex!Free(p, r) \in Int /\ Flex!Free(p, r) >= 0
  BY <1>1, <1>3, <1>4, SpaceOf DEF Flex!FreeOf
<1>8. PICK f \in Nat : f = Flex!Free(p, r)
  BY <1>7
<1>9. PICK gap \in Nat : gap = Flex!Gap(p, r)
  <2>1. Flex!Gap(p, r) \in Int /\ Flex!Gap(p, r) >= 0
    BY <1>1, <1>3, <1>6, <1>7, GapStart
  <2> QED
    BY <2>1
<1>10. PICK pad \in Nat : pad = style[p].pStart[d]
  BY <1>1, <1>3, StyleFacts DEF FlexStyles
<1>11. PICK start \in Int : start = Flex!Start(p, r)
  BY <1>1, <1>3, <1>6, GapStart
<1>12. PICK c \in Nat : c = child_count[p]
  BY <1>1, <1>3, <1>6, SpaceOf
<1>13. /\ start >= pad /\ start - pad + (c - 1) * gap <= f
       /\ style[p].justify = "start" => gap = 0 /\ start = pad
  <2>1. LET st == Flex!Start(p, r) - style[p].pStart[style[p].dir]
        IN /\ Flex!Free(p, r) >= 0 => st >= 0 /\ st + (child_count[p] - 1) * Flex!Gap(p, r) <= Flex!Free(p, r)
           /\ style[p].justify = "start" => Flex!Gap(p, r) = 0 /\ st = 0
    BY <1>1, <1>3, <1>6, GapStart
  <2> QED
    BY <1>7, <1>8, <1>9, <1>10, <1>11, <1>12, <2>1
<1>14. PICK m, M, g, F : CursorsAdd(p, r, m, M, g, F)
  BY <1>1, <1>3, <1>6, PlaceSums
<1>15. IsFiniteSet(Flex!Kids(p)) /\ c = Cardinality(Flex!Kids(p))
  BY <1>1, <1>3, <1>12, KidsAre
<1>16. PICK base \in Nat : base = Flex!KidsBase(p)
  BY <1>1, <1>3, <1>4, SpaceOf
<1> DEFINE K == Flex!Kids(p)
           B == Flex!Before(i)
<1>17. M[K] \in Int /\ M[K] <= base + f /\ (Flex!KidsGrow(p) = 0 => M[K] = base)
  <2>1. IsSum(M, m, Flex!Kids(p)) /\ \A k \in Flex!Kids(p) : m[k] = Flex!MainOf(k, r)
    BY <1>14 DEF CursorsAdd
  <2> QED
    BY <1>1, <1>3, <1>7, <1>8, <1>16, <2>1, MainsFit
<1>18. B \in SUBSET K /\ i \in K \ B /\ B \cup {i} \in SUBSET K
  BY <1>2, <1>5
<1>19. /\ IsSum(M, m, K) /\ IsSum(F, g, K) /\ \A k \in K : m[k] \in Int /\ m[k] >= 0
       /\ m[i] = Flex!MainOf(i, r) /\ Flex!Cursor(i, r) = start + F[B]
       /\ \A s \in SUBSET K : F[s] = M[s] + gap * Cardinality(s) /\ Cardinality(s) \in Nat
  BY <1>5, <1>9, <1>11, <1>14 DEF CursorsAdd
<1> HIDE DEF K, B
<1>20. IsFiniteSet(K) /\ c = Cardinality(K)
  BY <1>15 DEF K
<1>21. M[B \cup {i}] = m[i] + M[B] /\ M[B] \in Int /\ M[{}] = 0 /\ M[B \cup {i}] \in Int /\ m[i] \in Int
  BY <1>18, <1>19 DEF IsSum
<1>22. M[B \cup {i}] <= M[K] /\ M[{}] <= M[B]
  <2>1. \A k \in K : m[k] \in Int /\ m[k] >= 0
    BY <1>19
  <2>2. IsSum(M, m, K)
    BY <1>19
  <2>3. B \cup {i} \in SUBSET K /\ {} \in SUBSET B /\ K \in SUBSET K /\ B \in SUBSET K
    BY <1>18
  <2>4. M[B \cup {i}] <= M[K]
    BY <1>20, <2>1, <2>2, <2>3, SumGrows
  <2>5. M[{}] <= M[B]
    BY <1>20, <2>1, <2>2, <2>3, SumGrows
  <2> QED
    BY <2>4, <2>5
<1>23. PICK n \in Nat : n = Cardinality(B)
  BY <1>18, <1>19
<1>24. n + 1 <= c
  <2>1. IsFiniteSet(B)
    BY <1>18, <1>20, FS_Subset
  <2>2. Cardinality(B \cup {i}) = n + 1
    BY <1>18, <1>23, <2>1, FS_AddElement
  <2>3. Cardinality(B \cup {i}) <= Cardinality(K)
    BY <1>18, <1>20, FS_Subset
  <2> QED
    BY <1>20, <2>2, <2>3
<1>25. F[B] = M[B] + gap * n /\ gap * n \in Int /\ gap * n >= 0 /\ gap * n <= (c - 1) * gap
       /\ (c - 1) * gap \in Int
  <2>1. \A x, y \in Nat : x + 1 <= y => /\ gap * x \in Int /\ gap * x >= 0 /\ gap * x <= (y - 1) * gap
                                        /\ (y - 1) * gap \in Int
    BY SMTT(30)
  <2> QED
    BY <1>18, <1>19, <1>23, <1>24, <2>1
<1>26. /\ M[B] >= 0 /\ m[i] + M[B] <= base + f
       /\ Flex!KidsGrow(p) = 0 => m[i] + M[B] <= base
  BY <1>17, <1>21, <1>22
<1>27. start - pad + F[B] + m[i] <= base + f /\ F[B] >= 0 /\ F[B] \in Int
  <2>1. F[B] \in Int /\ F[B] >= 0
    BY <1>21, <1>25, <1>26
  <2>2. CASE style[p].justify = "start"
    <3>1. gap = 0 /\ start = pad
      BY <1>13, <2>2
    <3>2. gap * n = 0
      BY <3>1
    <3>3. F[B] = M[B]
      BY <1>21, <1>25, <3>2
    <3> QED
      BY <1>21, <1>26, <2>1, <3>1, <3>3
  <2>3. CASE Flex!KidsGrow(p) = 0
    <3>1. m[i] + M[B] <= base
      BY <1>26, <2>3
    <3>2. start - pad + gap * n <= f
      BY <1>13, <1>25
    <3> QED
      BY <1>21, <1>25, <2>1, <3>1, <3>2
  <2> QED
    BY <2>2, <2>3
<1>28. PICK e \in Int : e = rect[p].ext[d]
  BY <1>3 DEF Rects
<1>29. PICK q \in Int : q = rect[p].pos[d]
  BY <1>3 DEF Rects
<1>30. PICK pend \in Nat : pend = style[p].pEnd[d]
  BY <1>1, <1>3, StyleFacts DEF FlexStyles
<1>31. base + f = e - (pad + pend)
  <2>1. f = Flex!Content(style[p], r, d) - base
    BY <1>1, <1>3, <1>8, <1>16, SpaceOf
  <2>2. Flex!Content(style[p], r, d) = e - (pad + pend)
    BY <1>4, <1>10, <1>28, <1>30 DEF Flex!Content, Flex!Padding
  <2> QED
    BY <2>1, <2>2
<1>32. rect[i].pos[d] = q + (start + F[B]) /\ rect[i].ext[d] <= m[i] /\ rect[i].ext[d] \in Int
  BY <1>3, <1>4, <1>19, <1>29 DEF Rects
<1>33. rect[i].pos[d] >= q + pad
  BY <1>13, <1>27, <1>32
<1>34. rect[i].pos[d] + rect[i].ext[d] <= (q + e) - pend
  BY <1>21, <1>27, <1>31, <1>32
<1> QED
  BY <1>10, <1>28, <1>29, <1>30, <1>33, <1>34 DEF Flex!Side

(* Lengths that add up to the content reach its end.                        *)
LEMMA EndsMeet ==
    ASSUME NEW q \in Int, NEW x \in Int, NEW y \in Int, NEW e \in Int, NEW a \in Int, NEW b \in Int,
           x + y = e - (a + b)
    PROVE  (q + (a + y)) + x = (q + e) - b
OBVIOUS

(* The lengths of children with whole shares add up to the content.         *)
LEMMA SpaceIsFilled == LayoutInv => Flex!GrowthFills
<1> SUFFICES ASSUME LayoutInv, computed # {}, Flex!RowLike,
                    NEW p \in Flex!Nodes, Flex!InTree[p], Flex!Children(p) # <<>>,
                    Flex!FreeOf(p) >= 0, style[p].justify = "start",
                    \A k \in Flex!Nodes : parent[k] = p =>
                      /\ Flex!Bare(style[k]) /\ style[k].grow > 0
                      /\ style[k].size[Flex!Main(p)] = Flex!Undefined
                      /\ (style[k].grow * Flex!FreeOf(p)) % Flex!KidsGrow(p) = 0,
                    NEW d, d = style[p].dir,
                    NEW i, i = Flex!Children(p)[Len(Flex!Children(p))]
             PROVE  Flex!Side(i, d) = Flex!Side(p, d) - style[p].pEnd[d]
  BY DEF Flex!GrowthFills, Flex!Fresh, Flex!Main
<1>1. FlexInv /\ FlexStyles
  BY DEF LayoutInv
<1>2. Flex!Nodes = 0 .. Count - 1 /\ p \in 0 .. Count - 1
  BY <1>1, FlexBasics DEF FlexInv
<1> DEFINE K == Flex!Kids(p)
           B == Flex!Before(i)
<1>3. /\ K = {k \in 0 .. Count - 1 : parent[k] = p} /\ IsFiniteSet(K)
      /\ i \in K /\ \A k \in K : k <= i /\ k \in Int
  BY <1>1, <1>2, KidsAre
<1>4. \A k \in K : /\ Flex!Bare(style[k]) /\ style[k].grow > 0 /\ style[k].size[d] = -1
                   /\ (style[k].grow * Flex!FreeOf(p)) % Flex!KidsGrow(p) = 0
  BY <1>2, <1>3 DEF Flex!Main, Flex!Undefined
<1>5. i \in 0 .. Count - 1 /\ parent[i] = p
  BY <1>3
<1>6. Flex!IsChild(i)
  <2>1. p \in Flex!Tree
    BY <1>1, <1>2, InTreeIs
  <2>2. i \in Flex!Tree
    BY <1>1, <1>5, <2>1, InTreeIs
  <2>3. i # 0
    <3>1. i \in Int /\ parent[i] < i /\ p >= 0
      BY <1>1, <1>2, <1>5, FlexBasics DEF FlexInv
    <3> QED
      BY <1>2, <1>5, <3>1
  <2> QED
    BY <1>1, <1>5, <2>2, <2>3, InTreeIs DEF Flex!IsChild
<1>7. /\ rect[p] \in Rects /\ rect[i] \in Rects /\ d \in Flex!Axes
      /\ rect[i].pos[d] = rect[p].pos[d] + Flex!Cursor(i, rect[p])
      /\ rect[i].ext[d] = Flex!MainOf(i, rect[p])
  BY <1>3, <1>4, <1>5, <1>6, ChildPlace
<1>8. PICK r \in Rects : r = rect[p]
  BY <1>7
<1>9. Flex!Free(p, r) \in Int /\ Flex!Free(p, r) >= 0 /\ Flex!FreeOf(p) = Flex!Free(p, r)
  BY <1>1, <1>2, <1>8, SpaceOf DEF Flex!FreeOf
<1>10. K # {}
  BY <1>3
<1>11. PICK pad \in Nat : pad = style[p].pStart[d]
  BY <1>1, <1>2, <1>7, StyleFacts DEF FlexStyles
<1>12. Flex!Gap(p, r) = 0 /\ Flex!Start(p, r) = pad
  <2>1. LET st == Flex!Start(p, r) - style[p].pStart[style[p].dir]
        IN Flex!Start(p, r) \in Int /\ Flex!Gap(p, r) = 0 /\ st = 0
    BY <1>1, <1>2, <1>10, GapStart
  <2> QED
    BY <1>11, <2>1
<1>13. PICK m, M, g, F : CursorsAdd(p, r, m, M, g, F)
  BY <1>1, <1>2, <1>10, PlaceSums
<1>14. /\ IsSum(M, m, K) /\ \A k \in K : m[k] = Flex!MainOf(k, r)
       /\ \A k \in K : Flex!Cursor(k, r) = pad + F[Flex!Before(k)]
       /\ \A s \in SUBSET K : F[s] = M[s] + 0 * Cardinality(s) /\ Cardinality(s) \in Nat
  BY <1>12, <1>13 DEF CursorsAdd
<1>15. PICK base \in Nat : base = Flex!KidsBase(p)
  BY <1>1, <1>2, <1>8, SpaceOf
<1>16. Flex!KidsGrow(p) > 0
  <2> DEFINE a == [k \in K |-> style[k].grow]
  <2>1. Flex!KidsGrow(p) = Flex!Total(a)
    BY DEF Flex!KidsGrow
  <2>2. DOMAIN a = K /\ \A k \in K : a[k] \in Int /\ a[k] >= 0 /\ a[k] > 0
    BY <1>1, <1>3, <1>4, StyleFacts DEF FlexStyles
  <2> HIDE DEF a, K
  <2>3. PICK A : IsSum(A, a, K)
    BY <1>3, <2>2, SumsExist
  <2>4. Flex!Total(a) = A[K]
    BY <1>3, <2>2, <2>3, TotalIs
  <2>5. {i} \in SUBSET K /\ K \in SUBSET K
    BY <1>3
  <2>6. A[{i}] <= A[K]
    BY <1>3, <2>2, <2>3, <2>5, SumGrows
  <2>7. A[{} \cup {i}] = a[i] + A[{}] /\ A[{}] = 0 /\ A[K] \in Int
    BY <1>3, <2>3 DEF IsSum
  <2>8. A[{i}] = a[i]
    <3>1. {} \cup {i} = {i}
      OBVIOUS
    <3> QED
      BY <1>3, <2>2, <2>7, <3>1
  <2> QED
    BY <1>3, <2>1, <2>2, <2>4, <2>6, <2>7, <2>8
<1>17. M[K] = base + Flex!Free(p, r) /\ M[K] \in Int
  <2>1. IsSum(M, m, Flex!Kids(p)) /\ \A k \in Flex!Kids(p) : m[k] = Flex!MainOf(k, r)
    BY <1>14
  <2>2. \A k \in Flex!Kids(p) : (style[k].grow * Flex!Free(p, r)) % Flex!KidsGrow(p) = 0
    BY <1>4, <1>9
  <2> QED
    BY <1>1, <1>2, <1>9, <1>15, <1>16, <2>1, <2>2, MainsFit
<1>18. B \in SUBSET K /\ i \in K \ B /\ B \cup {i} = K
  <2>1. B = {x \in K : x < i}
    BY <1>1, <1>2, <1>5, <1>8, CursorIs
  <2>2. \A x \in K : x = i \/ x < i
    BY <1>3
  <2>3. ~ i < i
    BY <1>3
  <2> QED
    BY <1>3, <2>1, <2>2, <2>3
<1> HIDE DEF K, B
<1>19. M[B \cup {i}] = m[i] + M[B] /\ M[B] \in Int
  BY <1>14, <1>18 DEF IsSum
<1>20. F[B] = M[B]
  <2>1. F[B] = M[B] + 0 * Cardinality(B) /\ Cardinality(B) \in Nat
    BY <1>14, <1>18
  <2> QED
    BY <1>19, <2>1
<1>21. rect[i].pos[d] = rect[p].pos[d] + (pad + M[B]) /\ rect[i].ext[d] = m[i]
  BY <1>3, <1>7, <1>8, <1>14, <1>20 DEF B
<1>22. PICK e \in Int : e = rect[p].ext[d]
  BY <1>7 DEF Rects
<1>23. PICK q \in Int : q = rect[p].pos[d]
  BY <1>7 DEF Rects
<1>24. PICK pend \in Nat : pend = style[p].pEnd[d]
  BY <1>1, <1>2, <1>7, StyleFacts DEF FlexStyles
<1>25. base + Flex!Free(p, r) = e - (pad + pend)
  <2>1. Flex!Free(p, r) = Flex!Content(style[p], r, d) - base
    BY <1>1, <1>2, <1>15, SpaceOf
  <2>2. Flex!Content(style[p], r, d) = e - (pad + pend)
    BY <1>8, <1>11, <1>22, <1>24 DEF Flex!Content, Flex!Padding
  <2> QED
    BY <2>1, <2>2
<1>26. m[i] \in Int
  BY <1>7, <1>21 DEF Rects
<1>27. m[i] + M[B] = e - (pad + pend)
  BY <1>17, <1>18, <1>19, <1>25
<1>28. rect[i].pos[d] + rect[i].ext[d] = (q + e) - pend
  <2>1. (q + (pad + M[B])) + m[i] = (q + e) - pend
    BY <1>19, <1>26, <1>27, EndsMeet
  <2> QED
    BY <1>21, <1>23, <2>1
<1> QED
  BY <1>22, <1>23, <1>24, <1>28 DEF Flex!Side

LEMMA LayoutFromInv == LayoutInv => Flex!LayoutIsSound
<1>1. LayoutInv => Flex!TypeOK /\ Flex!LinksAreTree
  BY LinksFromInv DEF LayoutInv
<1> QED
  BY <1>1, SiblingsApart, ChildrenFit, SpaceIsFilled DEF Flex!LayoutIsSound

LEMMA LayoutBegins == Flex!Init => LayoutInv
<1> SUFFICES ASSUME Flex!Init PROVE LayoutInv
  OBVIOUS
<1>1. FlexInv
  BY FlexBegins
<1>2. DOMAIN parent = {} /\ computed = {}
  BY DEF Flex!Init
<1>3. Count = 0
  BY <1>2, FS_EmptySet DEF Count
<1> QED
  BY <1>1, <1>2, <1>3 DEF LayoutInv, FlexStyles, FlexPlaced

(* Adding a node makes the places out of date; computing them again puts    *)
(* every node in its place.                                                 *)
LEMMA LayoutStep == LayoutInv /\ [KernelNext]_kernelVars => LayoutInv'
<1> SUFFICES ASSUME LayoutInv, [KernelNext]_kernelVars PROVE LayoutInv'
  OBVIOUS
<1>1. FlexInv /\ FlexStyles /\ FlexPlaced /\ FlexInv'
  BY FlexStep DEF LayoutInv
<1>2. Flex!Axes = {"x", "y"} /\ SampleStyles \subseteq Flex!Style
      /\ {Both(432, 144)} \subseteq [Flex!Axes -> Nat]
  BY KernelAssumption DEF Flex!LayoutAssumption, Flex!Axes
<1>3. CASE UNCHANGED flexVars
  <2>1. UNCHANGED Flex!topology /\ style' = style /\ rect' = rect /\ parent' = parent
        /\ computed' = computed
    BY <1>3 DEF flexVars, Flex!topology
  <2>2. /\ Count' = Count /\ Flex!Tree' = Flex!Tree
        /\ \A r, i : Flex!PlacedFrom(r, i)' = Flex!PlacedFrom(r, i)
    BY <2>1, SamePlaces
  <2> QED
    BY <1>1, <2>1, <2>2 DEF LayoutInv, FlexStyles, FlexPlaced
<1>4. ASSUME NEW p \in Flex!Nodes \cup {Flex!None}, NEW s \in SampleStyles, Flex!AddNode(p, s)
      PROVE  LayoutInv'
  <2>1. computed' = {} /\ style' = Flex!Extended(style, s)
    BY <1>4 DEF Flex!AddNode
  <2>2. s \in Flex!Style
    BY <1>2
  <2>3. DOMAIN style' = 0 .. Count' - 1 /\ Flex!Nodes = 0 .. Count - 1
    BY <1>1, FlexBasics DEF FlexInv, FlexTypes
  <2>4. \A i \in DOMAIN style' : style'[i] \in Flex!Style
    BY <1>1, <2>1, <2>2, <2>3 DEF FlexStyles, Flex!Extended
  <2>5. FlexStyles'
    BY <2>3, <2>4 DEF FlexStyles
  <2> QED
    BY <1>1, <2>1, <2>5 DEF LayoutInv, FlexPlaced
<1>5. ASSUME NEW space \in {Both(432, 144)}, Flex!Compute(space) PROVE LayoutInv'
  <2>1. space \in [Flex!Axes -> Nat]
    BY <1>2
  <2> QED
    BY <1>1, <1>5, <2>1, ComputePlaces DEF LayoutInv
<1>6. CASE Flex!Next
  BY <1>4, <1>5, <1>6 DEF Flex!Next
<1> QED
  BY <1>3, <1>6 DEF KernelNext, kernelVars

(* However the nodes are added, styled and computed again, the links are a  *)
(* tree.  The geometry is claimed where every node but the root is a row    *)
(* and the children's measured sizes fit: of two siblings without margins   *)
(* the first, if it got the length pass 1 measured or grown from it, ends   *)
(* before the second begins; if no child has margins, and the parent puts   *)
(* its children at its start or none of them grows, they lie in its         *)
(* content; and if it puts them at its start and all grow, from no length   *)
(* of their own, by whole shares, the last one ends where the content does  *)
(* (sc_layout_add_node, sc_layout_compute).  Growth under another           *)
(* justification leaves the parent: see LabelsInHeader of StockLayout.      *)
THEOREM LayoutStaysSound == KernelSpec => []LayoutIsSound
<1>1. KernelInit => LayoutInv
  BY LayoutBegins DEF KernelInit
<1>2. LayoutInv => LayoutIsSound
  BY LayoutFromInv DEF LayoutIsSound
<1> QED
  BY <1>1, <1>2, LayoutStep, PTL DEF KernelSpec
=============================================================================
