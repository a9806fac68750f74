----------------------------- MODULE EventLoopProofs -----------------------------
(***************************************************************************)
(* Proofs about the event loop on its own thread: the sifts of the heap of *)
(* timers, what tick and callbacks keep true of the timers and the fibers, *)
(* for any clock, delays and numbers of calls.                             *)
(***************************************************************************)
EXTENDS EventLoop, SequenceTheorems, FiniteSetTheorems, WellFoundedInduction, TLAPS

(* The lead of the time given to a tick is no longer than any delay.  In    *)
(* sc_loop_run there is no lead at all.  Otherwise a callback might set a   *)
(* timer that is due before the one being fired, which would take its       *)
(* place: it, and not the one fired, would then be removed.                 *)
DelaysCoverLead == \A d \in Delays \cup Intervals : Lead <= d

-----------------------------------------------------------------------------
(* The inductive invariant, in parts.                                       *)
Timer == [id : Nat, key : Nat, active : BOOLEAN, repeat : BOOLEAN, at : Nat, ivl : Nat]

LoopInv == /\ pc \in {"init", "rest", "drain", "task", "fire", "timer", "fibers", "fiber",
                      "ended", "shut"}
           /\ clock \in 0 .. MaxClock /\ now \in 0 .. MaxClock + Lead
           /\ managed \in BOOLEAN /\ running \in BOOLEAN
           /\ posts \in 0 .. MaxPosts /\ tasks \in 0 .. posts
           /\ pc \in {"drain", "task", "fire", "timer"} => now <= clock + Lead /\ fi = 1

KeysDiffer(h) == \A i, j \in 1 .. Len(h) : h[i].key = h[j].key => i = j

(* The timers in the heap are some of those set, each once.                 *)
TableInv == /\ heap \in Seq(Timer) /\ handle \in Seq(Nat) /\ fires \in Seq(Nat)
            /\ Len(fires) = Len(handle) /\ Len(heap) <= Len(handle)
            /\ \A i \in 1 .. Len(heap) :
                   heap[i].key \in 1 .. Len(handle) /\ heap[i].id < Len(handle)
            /\ KeysDiffer(heap)
            /\ clears \subseteq 1 .. Len(handle)

(* The timer that has fired is at the top until its callback returns.       *)
FiredIsTop == pc = "timer" => Len(heap) > 0 /\ heap[1].at <= now

FiresTell ==
    /\ \A k \in 1 .. Len(handle) : fires[k] = 1 \/ \E i \in 1 .. Len(heap) : heap[i].key = k
    /\ \A i \in 1 .. Len(heap) :
           heap[i].repeat \/ fires[heap[i].key] = IF pc = "timer" /\ i = 1 THEN 1 ELSE 0

(* The fibers the tick has come past are dead, and only the one it is in is *)
(* neither dead nor fresh.                                                  *)
FiberInv ==
    /\ fibers \in Seq({"IDLE", "RUNNING", "WAITING", "DEAD"}) /\ entries \in Seq(Nat)
    /\ Len(entries) = Len(fibers)
    /\ fi \in Nat \ {0}
    /\ current = IF pc = "fiber" THEN fi ELSE 0
    /\ pc = "fiber" => fi <= Len(fibers) /\ entries[fi] = 1
    /\ \A f \in 1 .. Len(fibers) :
           f # current => \/ fibers[f] = "DEAD" /\ entries[f] = 1
                          \/ fibers[f] = "IDLE" /\ entries[f] = 0
    /\ pc \in {"fibers", "fiber"} => \A f \in 1 .. Len(fibers) : f < fi => fibers[f] = "DEAD"

HeapInv  == TableInv /\ HeapOrder /\ (pc = "timer" => Len(heap) > 0)
FiredInv == FiredIsTop /\ FiresTell /\ OnlyClearedBlocks

IInv == LoopInv /\ HeapInv /\ FiredInv /\ FiberInv

-----------------------------------------------------------------------------
(* Induction over the numbers, for a set of them.                           *)
LEMMA LeastNumber == ASSUME NEW T, T \subseteq Nat, T # {}
                     PROVE  \E m \in T : \A y \in T : m <= y
<1> DEFINE R == OpToRel(<, Nat)
<1>1. \A x, y \in Nat : <<y, x>> \in R <=> y < x
  BY DEF OpToRel
<1>2. IsWellFoundedOn(R, Nat)
  BY NatLessThanWellFounded
<1> HIDE DEF R
<1>3. PICK x \in T : \A y \in T : ~ (<<y, x>> \in R)
  BY <1>2, WFMin
<1>4. ASSUME NEW y \in T PROVE x <= y
  <2>1. x \in Nat /\ y \in Nat /\ ~ (y < x)
    BY <1>1, <1>3
  <2> QED
    BY <2>1
<1> QED
  BY <1>4

LEMMA Induction == ASSUME NEW S, 0 \in S, \A n \in Nat : n \in S => n + 1 \in S
                   PROVE  Nat \subseteq S
<1>1. SUFFICES ASSUME Nat \ S # {} PROVE FALSE
  OBVIOUS
<1>2. PICK m \in Nat \ S : \A y \in Nat \ S : m <= y
  BY <1>1, LeastNumber
<1>3. m # 0 /\ m - 1 \in Nat
  BY <1>2
<1>4. m - 1 \in S
  BY <1>2, <1>3
<1> QED
  BY <1>2, <1>3, <1>4

(* The parent of a place of the heap.                                       *)
LEMMA Parent ==
    ASSUME NEW i \in Nat, i >= 2
    PROVE  /\ i \div 2 \in Nat /\ 1 <= i \div 2 /\ i \div 2 < i
           /\ i = 2 * (i \div 2) \/ i = 2 * (i \div 2) + 1
OBVIOUS

LEMMA Children ==
    ASSUME NEW i \in Nat
    PROVE  \A j \in Nat : j \div 2 = i <=> j \in {2 * i, 2 * i + 1}
OBVIOUS

-----------------------------------------------------------------------------
(* Heaps.  A sift goes through heaps in which one place only may be out of  *)
(* order: less than its parent, or more than one of its children.           *)
Ordered(h) == \A i \in 2 .. Len(h) : h[i \div 2].at <= h[i].at

OrderedAbove(h, i) ==
    /\ \A j \in 2 .. Len(h) : j # i => h[j \div 2].at <= h[j].at
    /\ i > 1 => \A j \in 2 .. Len(h) : j \div 2 = i => h[i \div 2].at <= h[j].at

OrderedBelow(h, i) ==
    /\ \A j \in 2 .. Len(h) : j \div 2 # i => h[j \div 2].at <= h[j].at
    /\ i > 1 => \A j \in 2 .. Len(h) : j \div 2 = i => h[i \div 2].at <= h[j].at

(* Heap `g` holds the timers of `h`, each as often.                         *)
SameTimers(g, h) ==
    /\ g \in Seq(Timer) /\ Len(g) = Len(h)
    /\ \A i \in 1 .. Len(h) : \E j \in 1 .. Len(h) : g[j] = h[i]
    /\ \A j \in 1 .. Len(h) : \E i \in 1 .. Len(h) : g[j] = h[i]
    /\ KeysDiffer(h) => KeysDiffer(g)

LEMMA TimersOfHeap ==
    ASSUME NEW h \in Seq(Timer)
    PROVE  /\ Len(h) \in Nat /\ DOMAIN h = 1 .. Len(h)
           /\ \A i \in 1 .. Len(h) : h[i] \in Timer /\ h[i].at \in Nat /\ h[i].id \in Nat
<1>1. Len(h) \in Nat /\ DOMAIN h = 1 .. Len(h) /\ \A i \in 1 .. Len(h) : h[i] \in Timer
  BY LenProperties, ElementOfSeq
<1> QED
  BY <1>1 DEF Timer

LEMMA Exchanged ==
    ASSUME NEW h \in Seq(Timer), NEW i \in 1 .. Len(h), NEW j \in 1 .. Len(h)
    PROVE  /\ Exchange(h, i, j) \in Seq(Timer) /\ Len(Exchange(h, i, j)) = Len(h)
           /\ Exchange(h, i, j)[i] = h[j] /\ Exchange(h, i, j)[j] = h[i]
           /\ \A k \in 1 .. Len(h) : k # i /\ k # j => Exchange(h, i, j)[k] = h[k]
<1> DEFINE n == Len(h)
           g == Exchange(h, i, j)
<1>1. n \in Nat /\ h \in [1 .. n -> Timer]
  BY LenProperties
<1>2. h[i] \in Timer /\ h[j] \in Timer
  BY <1>1
<1>3. g \in [1 .. n -> Timer]
  BY <1>1, <1>2 DEF Exchange
<1>4. g[i] = h[j] /\ g[j] = h[i] /\ \A k \in 1 .. n : k # i /\ k # j => g[k] = h[k]
  BY <1>1 DEF Exchange
<1> HIDE DEF g
<1>5. g \in Seq(Timer) /\ Len(g) = n
  <2>1. g \in Seq(Timer)
    BY <1>1, <1>3, IsASeq
  <2> QED
    BY <1>1, <1>3, <2>1, LenProperties
<1> QED
  BY <1>4, <1>5 DEF g

LEMMA ExchangeSame ==
    ASSUME NEW h \in Seq(Timer), NEW i \in 1 .. Len(h), NEW j \in 1 .. Len(h)
    PROVE  SameTimers(Exchange(h, i, j), h)
<1> DEFINE n == Len(h)
           g == Exchange(h, i, j)
<1>1. /\ g \in Seq(Timer) /\ Len(g) = n
      /\ g[i] = h[j] /\ g[j] = h[i]
      /\ \A k \in 1 .. n : k # i /\ k # j => g[k] = h[k]
  BY Exchanged
<1> HIDE DEF g
<1>2. \A x \in 1 .. n : \E y \in 1 .. n : g[y] = h[x]
  BY <1>1
<1>3. \A y \in 1 .. n : \E x \in 1 .. n : g[y] = h[x]
  BY <1>1
<1>4. ASSUME KeysDiffer(h), NEW x \in 1 .. n, NEW y \in 1 .. n, g[x].key = g[y].key
      PROVE  x = y
  BY <1>1, <1>4 DEF KeysDiffer
<1> QED
  BY <1>1, <1>2, <1>3, <1>4 DEF SameTimers, KeysDiffer, g

LEMMA SameTransitive ==
    ASSUME NEW f, NEW g, NEW h, SameTimers(f, g), SameTimers(g, h)
    PROVE  SameTimers(f, h)
BY DEF SameTimers

LEMMA SameItself == ASSUME NEW h \in Seq(Timer) PROVE SameTimers(h, h)
BY DEF SameTimers

(* One turn of _sc_timer_sift_up.                                           *)
LEMMA UpTurn ==
    ASSUME NEW h \in Seq(Timer), NEW i \in 1 .. Len(h), OrderedAbove(h, i)
    PROVE  \/ Above(h, i) = i /\ Ordered(h)
           \/ /\ i > 1 /\ Above(h, i) = i \div 2 /\ i \div 2 \in 1 .. i - 1
              /\ h[i].at < h[i \div 2].at
              /\ OrderedAbove(Exchange(h, i \div 2, i), i \div 2)
<1> DEFINE n == Len(h)
           p == i \div 2
           g == Exchange(h, p, i)
<1>1. n \in Nat /\ i \in Nat /\ \A k \in 1 .. n : h[k].at \in Nat
  BY TimersOfHeap
<1>2. CASE i = 1
  BY <1>2 DEF Above, OrderedAbove, Ordered
<1>3. CASE i > 1
  <2>1. p \in 1 .. i - 1 /\ p \in 1 .. n /\ (i = 2 * p \/ i = 2 * p + 1)
    BY <1>1, <1>3, Parent
  <2>2. CASE h[p].at <= h[i].at
    BY <1>3, <2>2 DEF Above, OrderedAbove, Ordered
  <2>3. CASE h[i].at < h[p].at
    <3>1. Above(h, i) = p
      BY <1>1, <1>3, <2>1, <2>3 DEF Above
    <3>2. /\ Len(g) = n /\ g[p] = h[i] /\ g[i] = h[p]
          /\ \A k \in 1 .. n : k # p /\ k # i => g[k] = h[k]
      BY <2>1, Exchanged
    <3> HIDE DEF g, p
    <3>3. ASSUME NEW j \in 2 .. n
          PROVE  j \div 2 \in 1 .. n /\ j \div 2 < j /\ h[j].at \in Nat /\ h[j \div 2].at \in Nat
                 /\ (j # i => h[j \div 2].at <= h[j].at)
      <4>1. j \div 2 \in 1 .. n /\ j \div 2 < j
        BY <1>1, Parent
      <4> QED
        BY <1>1, <4>1 DEF OrderedAbove
    <3>4. \A j \in 2 .. n : j \div 2 = i => h[p].at <= h[j].at
      BY <1>3 DEF OrderedAbove, p
    <3>5. ASSUME NEW j \in 2 .. n, j # p PROVE g[j \div 2].at <= g[j].at
      <4>1. CASE j = i
        <5>1. j \div 2 = p
          BY <4>1 DEF p
        <5> QED
          BY <1>1, <2>1, <2>3, <3>2, <4>1, <5>1
      <4>2. CASE j # i /\ j \div 2 = i
        BY <3>2, <3>3, <3>4, <3>5, <4>2
      <4>3. CASE j # i /\ j \div 2 = p
        <5>1. h[i].at <= h[j].at
          BY <1>1, <2>1, <2>3, <3>3, <4>3
        <5> QED
          BY <3>2, <3>5, <4>3, <5>1
      <4>4. CASE j # i /\ j \div 2 # i /\ j \div 2 # p
        BY <3>2, <3>3, <3>5, <4>4
      <4> QED
        BY <4>1, <4>2, <4>3, <4>4
    <3>6. ASSUME p > 1, NEW j \in 2 .. n, j \div 2 = p PROVE g[p \div 2].at <= g[j].at
      <4>1. p \in 2 .. n /\ p # i
        BY <1>1, <2>1, <3>6
      <4>2. p \div 2 \in 1 .. n /\ p \div 2 < p /\ h[p \div 2].at <= h[p].at
            /\ h[p \div 2].at \in Nat /\ h[p].at \in Nat
        BY <3>3, <4>1
      <4>3. p \div 2 # p /\ p \div 2 # i
        BY <2>1, <4>2
      <4>4. g[p \div 2] = h[p \div 2]
        BY <3>2, <4>2, <4>3
      <4>5. CASE j = i
        BY <3>2, <4>2, <4>4, <4>5
      <4>6. CASE j # i
        <5>1. j # p /\ h[p].at <= h[j].at /\ h[j].at \in Nat
          BY <2>1, <3>3, <3>6, <4>6
        <5>2. g[j] = h[j]
          BY <3>2, <4>6, <5>1
        <5> QED
          BY <4>2, <4>4, <5>1, <5>2
      <4> QED
        BY <4>5, <4>6
    <3>7. OrderedAbove(g, p)
      BY <3>2, <3>5, <3>6 DEF OrderedAbove
    <3> QED
      BY <1>3, <2>1, <2>3, <3>1, <3>7 DEF g, p
  <2> QED
    BY <1>1, <2>1, <2>2, <2>3
<1> QED
  BY <1>1, <1>2, <1>3

(* One turn of _sc_timer_sift_down.                                         *)
Less(h, i) == {c \in {2 * i, 2 * i + 1} : c <= Len(h) /\ h[c].at < h[i].at}

LEMMA LeastChild ==
    ASSUME NEW h \in Seq(Timer), NEW i \in 1 .. Len(h)
    PROVE  \/ Below(h, i) = i /\ Less(h, i) = {}
           \/ /\ Below(h, i) \in Less(h, i)
              /\ \A d \in Less(h, i) : h[Below(h, i)].at <= h[d].at
<1> DEFINE L == Less(h, i)
           Best(c) == \A d \in L : h[c].at < h[d].at \/ (h[c].at = h[d].at /\ c <= d)
<1>1. /\ Len(h) \in Nat /\ i \in Nat /\ L \subseteq {2 * i, 2 * i + 1} /\ L \subseteq 1 .. Len(h)
      /\ \A k \in 1 .. Len(h) : h[k].at \in Nat
  BY TimersOfHeap DEF Less
<1>2. Below(h, i) = IF L = {} THEN i ELSE CHOOSE c \in L : Best(c)
  BY DEF Below, Less
<1> HIDE DEF L
<1>3. ASSUME L # {} PROVE \E c \in L : Best(c)
  <2>1. CASE L = {2 * i} \/ L = {2 * i + 1}
    BY <1>1, <2>1
  <2>2. CASE L = {2 * i, 2 * i + 1}
    <3>1. h[2 * i].at \in Nat /\ h[2 * i + 1].at \in Nat
      BY <1>1, <2>2
    <3>2. CASE h[2 * i].at <= h[2 * i + 1].at
      <4>1. Best(2 * i)
        BY <1>1, <2>2, <3>1, <3>2
      <4> QED
        BY <2>2, <4>1
    <3>3. CASE h[2 * i + 1].at < h[2 * i].at
      <4>1. Best(2 * i + 1)
        BY <1>1, <2>2, <3>1, <3>3
      <4> QED
        BY <2>2, <4>1
    <3> QED
      BY <3>1, <3>2, <3>3
  <2> QED
    BY <1>1, <1>3, <2>1, <2>2
<1>4. CASE L = {}
  BY <1>2, <1>4 DEF L
<1>5. CASE L # {}
  <2> DEFINE m == CHOOSE c \in L : Best(c)
  <2>1. m \in L /\ Best(m)
    BY <1>3, <1>5
  <2>2. Below(h, i) = m
    BY <1>2, <1>5
  <2> HIDE DEF m
  <2>3. \A d \in L : h[m].at <= h[d].at
    BY <1>1, <2>1
  <2> QED
    BY <2>1, <2>2, <2>3 DEF L
<1> QED
  BY <1>4, <1>5

LEMMA DownTurn ==
    ASSUME NEW h \in Seq(Timer), NEW i \in 1 .. Len(h), OrderedBelow(h, i)
    PROVE  \/ Below(h, i) = i /\ Ordered(h)
           \/ /\ Below(h, i) \in i + 1 .. Len(h)
              /\ \E j \in 2 .. Len(h) : h[j].at < h[j \div 2].at
              /\ OrderedBelow(Exchange(h, Below(h, i), i), Below(h, i))
<1> DEFINE n == Len(h)
           m == Below(h, i)
           g == Exchange(h, m, i)
<1>1. n \in Nat /\ i \in Nat /\ \A k \in 1 .. n : h[k].at \in Nat
  BY TimersOfHeap
<1>2. ASSUME NEW j \in 2 .. n
      PROVE  /\ j \div 2 \in 1 .. n /\ j \div 2 < j
             /\ j \div 2 = i => j \in {2 * i, 2 * i + 1}
             /\ j \div 2 # i => h[j \div 2].at <= h[j].at
  <2>1. j \div 2 \in 1 .. n /\ j \div 2 < j /\ (j \div 2 = i => j \in {2 * i, 2 * i + 1})
    BY <1>1, Parent
  <2> QED
    BY <2>1 DEF OrderedBelow
<1>3. CASE m = i /\ Less(h, i) = {}
  <2>1. ASSUME NEW j \in 2 .. n PROVE h[j \div 2].at <= h[j].at
    <3>1. CASE j \div 2 = i
      <4>1. ~ (h[j].at < h[i].at)
        <5>1. j \in {2 * i, 2 * i + 1} /\ j <= n
          BY <1>2, <3>1
        <5>2. j \notin Less(h, i)
          BY <1>3
        <5> QED
          BY <5>1, <5>2 DEF Less
      <4>2. h[j].at \in Nat /\ h[i].at \in Nat
        BY <1>1
      <4> QED
        BY <3>1, <4>1, <4>2
    <3> QED
      BY <1>2, <3>1
  <2> QED
    BY <1>3, <2>1 DEF Ordered
<1>4. CASE m \in Less(h, i) /\ \A d \in Less(h, i) : h[m].at <= h[d].at
  <2>1. m \in {2 * i, 2 * i + 1} /\ m <= n /\ h[m].at < h[i].at
    BY <1>4 DEF Less
  <2> HIDE DEF m
  <2>2. m \in i + 1 .. n /\ m \in 2 .. n /\ m \in 1 .. n /\ m \in Nat
    BY <1>1, <2>1
  <2>3. m \div 2 = i
    BY <1>1, <2>1, <2>2, Children
  <2>4. /\ Len(g) = n /\ g[m] = h[i] /\ g[i] = h[m]
        /\ \A k \in 1 .. n : k # m /\ k # i => g[k] = h[k]
    BY <2>2, Exchanged
  <2> HIDE DEF g
  <2>5. \A j \in 2 .. n : j \div 2 = i => h[m].at <= h[j].at
    <3> SUFFICES ASSUME NEW j \in 2 .. n, j \div 2 = i PROVE h[m].at <= h[j].at
      OBVIOUS
    <3>1. j \in {2 * i, 2 * i + 1} /\ h[j].at \in Nat /\ h[i].at \in Nat /\ h[m].at \in Nat
      BY <1>1, <1>2, <2>2
    <3>2. CASE h[j].at < h[i].at
      <4>1. j \in Less(h, i)
        BY <1>1, <3>1, <3>2 DEF Less
      <4> QED
        BY <1>4, <4>1
    <3> QED
      BY <2>1, <3>1, <3>2
  <2>6. ASSUME NEW j \in 2 .. n, j \div 2 # m PROVE g[j \div 2].at <= g[j].at
    <3>1. CASE j = m
      BY <1>1, <2>1, <2>2, <2>3, <2>4, <3>1
    <3>2. CASE j # m /\ j \div 2 = i
      <4>1. j # i
        BY <1>2, <3>2
      <4> QED
        BY <2>4, <2>5, <3>2, <4>1
    <3>3. CASE j = i
      <4>1. i > 1 /\ i \div 2 \in 1 .. n /\ i \div 2 # i /\ i \div 2 # m
        BY <1>2, <2>6, <3>3
      <4>2. h[i \div 2].at <= h[m].at
        BY <2>2, <2>3, <4>1 DEF OrderedBelow
      <4> QED
        BY <2>4, <3>3, <4>1, <4>2
    <3>4. CASE j # m /\ j # i /\ j \div 2 # i
      BY <1>2, <2>4, <2>6, <3>4
    <3> QED
      BY <3>1, <3>2, <3>3, <3>4
  <2>7. ASSUME NEW j \in 2 .. n, j \div 2 = m PROVE g[m \div 2].at <= g[j].at
    <3>1. j \div 2 # i /\ j # m /\ j # i
      BY <1>2, <2>2, <2>7
    <3>2. h[m].at <= h[j].at /\ g[j] = h[j]
      BY <1>2, <2>4, <2>7, <3>1
    <3> QED
      BY <2>3, <2>4, <3>2
  <2>8. OrderedBelow(g, m)
    BY <2>4, <2>6, <2>7 DEF OrderedBelow
  <2> QED
    BY <2>1, <2>2, <2>3, <2>8 DEF g, m
<1> QED
  BY <1>3, <1>4, LeastChild

-----------------------------------------------------------------------------
(* The loop of a sift: what it has made of the heap after k turns.          *)
Turned(t, up) ==
    LET m == IF up THEN Above(t[1], t[2]) ELSE Below(t[1], t[2])
    IN  <<Exchange(t[1], m, t[2]), m>>

Turns(h, i, up) ==
    CHOOSE f : f = [k \in 0 .. Len(h) |-> IF k = 0 THEN <<h, i>> ELSE Turned(f[k - 1], up)]

(* The recursion has a solution: a function that follows it up to k can be  *)
(* continued to k + 1.                                                      *)
Follows(f, h, i, up, n) ==
    \A k \in 0 .. n : f[k] = IF k = 0 THEN <<h, i>> ELSE Turned(f[k - 1], up)

LEMMA TurnsHold ==
    ASSUME NEW h, NEW i, Len(h) \in Nat
    PROVE  \A up \in BOOLEAN :
             /\ Sifted(h, i, up) = Turns(h, i, up)[Len(h)][1]
             /\ Turns(h, i, up)[0] = <<h, i>>
             /\ \A k \in 1 .. Len(h) : Turns(h, i, up)[k] = Turned(Turns(h, i, up)[k - 1], up)
<1> SUFFICES ASSUME NEW up \in BOOLEAN
             PROVE  /\ Sifted(h, i, up) = Turns(h, i, up)[Len(h)][1]
                    /\ Turns(h, i, up)[0] = <<h, i>>
                    /\ \A k \in 1 .. Len(h) :
                           Turns(h, i, up)[k] = Turned(Turns(h, i, up)[k - 1], up)
  OBVIOUS
<1> DEFINE n == Len(h)
           S == {m \in Nat : \E f : Follows(f, h, i, up, m)}
<1>1. 0 \in S
  <2>1. Follows([k \in 0 .. 0 |-> <<h, i>>], h, i, up, 0)
    BY DEF Follows
  <2> QED
    BY <2>1
<1>2. ASSUME NEW m \in Nat, m \in S PROVE m + 1 \in S
  <2>1. PICK f : Follows(f, h, i, up, m)
    BY <1>2
  <2> DEFINE g == [k \in 0 .. m + 1 |-> IF k = m + 1 THEN Turned(f[m], up) ELSE f[k]]
  <2>2. \A k \in 0 .. m : g[k] = f[k]
    OBVIOUS
  <2>3. g[m + 1] = Turned(f[m], up)
    OBVIOUS
  <2> HIDE DEF g
  <2>4. ASSUME NEW k \in 0 .. m + 1
        PROVE g[k] = IF k = 0 THEN <<h, i>> ELSE Turned(g[k - 1], up)
    <3>1. CASE k = m + 1
      <4>1. k # 0 /\ k - 1 = m /\ m \in 0 .. m
        BY <3>1
      <4> QED
        BY <2>2, <2>3, <3>1, <4>1
    <3>2. CASE k # m + 1
      <4>1. k \in 0 .. m /\ (k # 0 => k - 1 \in 0 .. m)
        BY <3>2
      <4> QED
        BY <2>1, <2>2, <4>1 DEF Follows
    <3> QED
      BY <3>1, <3>2
  <2>5. Follows(g, h, i, up, m + 1)
    BY <2>4 DEF Follows
  <2> QED
    BY <2>5
<1>3. \A m \in Nat : m \in S
  <2> HIDE DEF S
  <2> QED
    BY <1>1, <1>2, Induction
<1>4. PICK f : Follows(f, h, i, up, n)
  BY <1>3
<1> DEFINE t == [k \in 0 .. n |-> f[k]]
<1>5. t = [k \in 0 .. n |-> IF k = 0 THEN <<h, i>> ELSE Turned(t[k - 1], up)]
  <2>1. ASSUME NEW k \in 0 .. n PROVE t[k] = IF k = 0 THEN <<h, i>> ELSE Turned(t[k - 1], up)
    <3>1. k # 0 => k - 1 \in 0 .. n
      OBVIOUS
    <3>2. f[k] = IF k = 0 THEN <<h, i>> ELSE Turned(f[k - 1], up)
      BY <1>4 DEF Follows
    <3> QED
      BY <3>1, <3>2
  <2> QED
    BY <2>1
<1> HIDE DEF t
<1>6. Turns(h, i, up)
        = [k \in 0 .. n |-> IF k = 0 THEN <<h, i>> ELSE Turned(Turns(h, i, up)[k - 1], up)]
  BY <1>5 DEF Turns
<1>7. Sifted(h, i, up) = Turns(h, i, up)[n][1]
  BY DEF Sifted, Turns, Turned
<1>8. ASSUME NEW k \in 0 .. n
      PROVE Turns(h, i, up)[k] = IF k = 0 THEN <<h, i>> ELSE Turned(Turns(h, i, up)[k - 1], up)
  BY <1>6
<1> QED
  BY <1>7, <1>8

(* A turn that exchanges a place with itself changes nothing.               *)
LEMMA NoExchange ==
    ASSUME NEW h \in Seq(Timer), NEW i \in 1 .. Len(h)
    PROVE  Exchange(h, i, i) = h
<1>1. h = [k \in DOMAIN h |-> h[k]] /\ i \in DOMAIN h
  BY LenProperties
<1> QED
  BY <1>1 DEF Exchange

(* _sc_timer_sift_up: from a heap with one place that may be less than its  *)
(* parent to a heap of the same timers.  The top stays if it is no later.   *)
RisenTo(h, i, g, j, k) ==
    /\ SameTimers(g, h) /\ j \in 1 .. Len(h) /\ OrderedAbove(g, j)
    /\ g[j] = h[i]
    /\ i > 1 /\ h[1].at <= h[i].at => j > 1 /\ g[1] = h[1]
    /\ Ordered(g) \/ j + k <= i

LEMMA Risen ==
    ASSUME NEW h \in Seq(Timer), NEW i \in 1 .. Len(h), NEW g, NEW j, NEW k \in Nat,
           RisenTo(h, i, g, j, k)
    PROVE  RisenTo(h, i, Exchange(g, Above(g, j), j), Above(g, j), k + 1)
<1> DEFINE n == Len(h)
           m == Above(g, j)
<1>1. /\ n \in Nat /\ i \in Nat /\ g \in Seq(Timer) /\ Len(g) = n /\ j \in 1 .. n /\ j \in Nat
      /\ \A x \in 1 .. n : h[x].at \in Nat /\ g[x].at \in Nat
  <2>1. /\ n \in Nat /\ \A x \in 1 .. n : h[x].at \in Nat
    BY TimersOfHeap
  <2>2. g \in Seq(Timer) /\ Len(g) = n /\ j \in 1 .. n
    BY DEF RisenTo, SameTimers
  <2>3. \A x \in 1 .. Len(g) : g[x].at \in Nat
    BY <2>2, TimersOfHeap
  <2> QED
    BY <2>1, <2>2, <2>3
<1>2. CASE m = j /\ Ordered(g)
  <2>1. Exchange(g, m, j) = g
    BY <1>1, <1>2, NoExchange
  <2> QED
    BY <1>2, <2>1 DEF RisenTo
<1>3. CASE /\ j > 1 /\ m = j \div 2 /\ j \div 2 \in 1 .. j - 1
           /\ g[j].at < g[j \div 2].at
           /\ OrderedAbove(Exchange(g, j \div 2, j), j \div 2)
  <2> DEFINE f == Exchange(g, m, j)
  <2>1. m \in 1 .. n /\ m < j /\ m \in Nat /\ g[j].at < g[m].at /\ OrderedAbove(f, m)
    BY <1>1, <1>3
  <2> HIDE DEF m
  <2>2. f[m] = g[j] /\ \A x \in 1 .. n : x # m /\ x # j => f[x] = g[x]
    <3>1. m \in 1 .. Len(g) /\ j \in 1 .. Len(g) /\ Len(g) = n
      BY <1>1, <2>1
    <3>2. f[m] = g[j] /\ \A x \in 1 .. Len(g) : x # m /\ x # j => f[x] = g[x]
      BY <1>1, <3>1, Exchanged
    <3> QED
      BY <3>1, <3>2
  <2>3. SameTimers(f, h)
    <3>1. SameTimers(f, g)
      BY <1>1, <2>1, ExchangeSame
    <3> QED
      BY <3>1, SameTransitive DEF RisenTo
  <2> HIDE DEF f
  <2>4. ~ Ordered(g)
    <3>1. j \in 2 .. Len(g) /\ j \div 2 = m /\ ~ (g[m].at <= g[j].at)
      BY <1>1, <1>3, <2>1 DEF m
    <3> QED
      BY <3>1 DEF Ordered
  <2>5. m + (k + 1) <= i
    <3>1. j + k <= i
      BY <2>4 DEF RisenTo
    <3> QED
      BY <1>1, <2>1, <3>1
  <2>6. ASSUME i > 1, h[1].at <= h[i].at PROVE m > 1 /\ f[1] = h[1]
    <3>1. j > 1 /\ g[1] = h[1] /\ g[j] = h[i]
      BY <2>6 DEF RisenTo
    <3>2. m # 1
      BY <1>1, <2>1, <2>6, <3>1
    <3> QED
      BY <1>1, <2>1, <2>2, <3>1, <3>2
  <2>7. f[m] = h[i]
    BY <2>2 DEF RisenTo
  <2> QED
    BY <2>1, <2>3, <2>5, <2>6, <2>7 DEF RisenTo, f, m
<1> QED
  <2>1. OrderedAbove(g, j)
    BY DEF RisenTo
  <2> QED
    BY <1>1, <1>2, <1>3, <2>1, UpTurn

LEMMA SiftsUp ==
    ASSUME NEW h \in Seq(Timer), NEW i \in 1 .. Len(h), OrderedAbove(h, i)
    PROVE  /\ SameTimers(SiftUp(h, i), h) /\ Ordered(SiftUp(h, i))
           /\ i > 1 /\ h[1].at <= h[i].at => SiftUp(h, i)[1] = h[1]
<1> DEFINE n == Len(h)
           T == Turns(h, i, TRUE)
           Done(k) == RisenTo(h, i, T[k][1], T[k][2], k)
           S == {k \in Nat : k <= n => Done(k)}
<1>1. n \in Nat /\ i \in Nat
  BY TimersOfHeap
<1>2. /\ SiftUp(h, i) = T[n][1] /\ T[0] = <<h, i>>
      /\ \A k \in 1 .. n : T[k] = Turned(T[k - 1], TRUE)
  BY <1>1, TurnsHold DEF SiftUp
<1> HIDE DEF T
<1>3. 0 \in S
  <2>1. RisenTo(h, i, h, i, 0)
    BY <1>1, SameItself DEF RisenTo
  <2> QED
    BY <1>2, <2>1
<1>4. ASSUME NEW k \in Nat, k \in S PROVE k + 1 \in S
  <2> SUFFICES ASSUME k + 1 <= n PROVE Done(k + 1)
    OBVIOUS
  <2>1. T[k + 1] = Turned(T[k], TRUE)
    <3>1. k + 1 \in 1 .. n /\ (k + 1) - 1 = k
      BY <1>1
    <3> QED
      BY <1>2, <3>1
  <2>2. Done(k)
    BY <1>1, <1>4
  <2>3. T[k + 1][1] = Exchange(T[k][1], Above(T[k][1], T[k][2]), T[k][2])
        /\ T[k + 1][2] = Above(T[k][1], T[k][2])
    BY <2>1 DEF Turned
  <2> QED
    BY <2>2, <2>3, Risen
<1>5. Done(n)
  <2> HIDE DEF S
  <2>1. n \in S
    BY <1>1, <1>3, <1>4, Induction
  <2> QED
    BY <1>1, <2>1 DEF S
<1>6. T[n][2] \in 1 .. n /\ ~ (T[n][2] + n <= i)
  BY <1>1, <1>5 DEF RisenTo
<1> QED
  BY <1>2, <1>5, <1>6 DEF RisenTo

(* _sc_timer_sift_down from the top, which may be later than its children.  *)
SunkTo(h, g, j, k) ==
    /\ SameTimers(g, h) /\ j \in 1 .. Len(h) /\ OrderedBelow(g, j)
    /\ Ordered(g) \/ j > k

LEMMA Sunk ==
    ASSUME NEW h \in Seq(Timer), NEW g, NEW j, NEW k \in Nat, SunkTo(h, g, j, k)
    PROVE  SunkTo(h, Exchange(g, Below(g, j), j), Below(g, j), k + 1)
<1> DEFINE n == Len(h)
           m == Below(g, j)
<1>1. /\ n \in Nat /\ g \in Seq(Timer) /\ Len(g) = n /\ j \in 1 .. n /\ j \in Nat
      /\ \A x \in 1 .. n : g[x].at \in Nat
  <2>1. n \in Nat
    BY TimersOfHeap
  <2>2. g \in Seq(Timer) /\ Len(g) = n /\ j \in 1 .. n
    BY DEF SunkTo, SameTimers
  <2>3. \A x \in 1 .. Len(g) : g[x].at \in Nat
    BY <2>2, TimersOfHeap
  <2> QED
    BY <2>1, <2>2, <2>3
<1>2. CASE m = j /\ Ordered(g)
  <2>1. Exchange(g, m, j) = g
    BY <1>1, <1>2, NoExchange
  <2> QED
    BY <1>2, <2>1 DEF SunkTo
<1>3. CASE /\ m \in j + 1 .. n
           /\ \E x \in 2 .. n : g[x].at < g[x \div 2].at
           /\ OrderedBelow(Exchange(g, m, j), m)
  <2> DEFINE f == Exchange(g, m, j)
  <2>1. m \in 1 .. n /\ j < m /\ m \in Nat /\ OrderedBelow(f, m)
    BY <1>1, <1>3
  <2> HIDE DEF m
  <2>2. SameTimers(f, h)
    <3>1. SameTimers(f, g)
      BY <1>1, <2>1, ExchangeSame
    <3> QED
      BY <3>1, SameTransitive DEF SunkTo
  <2> HIDE DEF f
  <2>3. ~ Ordered(g)
    <3>1. PICK x \in 2 .. n : g[x].at < g[x \div 2].at
      BY <1>3
    <3>2. x \div 2 \in 1 .. n
      BY <1>1, Parent
    <3>3. ~ (g[x \div 2].at <= g[x].at)
      BY <1>1, <3>1, <3>2
    <3> QED
      BY <1>1, <3>3 DEF Ordered
  <2>4. m > k + 1
    BY <1>1, <2>1, <2>3 DEF SunkTo
  <2> QED
    BY <2>1, <2>2, <2>4 DEF SunkTo, f, m
<1> QED
  <2>1. OrderedBelow(g, j)
    BY DEF SunkTo
  <2> QED
    BY <1>1, <1>2, <1>3, <2>1, DownTurn

LEMMA SiftsDown ==
    ASSUME NEW h \in Seq(Timer), Len(h) > 0, OrderedBelow(h, 1)
    PROVE  SameTimers(SiftDown(h, 1), h) /\ Ordered(SiftDown(h, 1))
<1> DEFINE n == Len(h)
           T == Turns(h, 1, FALSE)
           Done(k) == SunkTo(h, T[k][1], T[k][2], k)
           S == {k \in Nat : k <= n => Done(k)}
<1>1. n \in Nat /\ 1 \in 1 .. n
  BY TimersOfHeap
<1>2. /\ SiftDown(h, 1) = T[n][1] /\ T[0] = <<h, 1>>
      /\ \A k \in 1 .. n : T[k] = Turned(T[k - 1], FALSE)
  BY <1>1, TurnsHold DEF SiftDown
<1> HIDE DEF T
<1>3. 0 \in S
  <2>1. SunkTo(h, h, 1, 0)
    BY <1>1, SameItself DEF SunkTo
  <2> QED
    BY <1>2, <2>1
<1>4. ASSUME NEW k \in Nat, k \in S PROVE k + 1 \in S
  <2> SUFFICES ASSUME k + 1 <= n PROVE Done(k + 1)
    OBVIOUS
  <2>1. T[k + 1] = Turned(T[k], FALSE)
    <3>1. k + 1 \in 1 .. n /\ (k + 1) - 1 = k
      BY <1>1
    <3> QED
      BY <1>2, <3>1
  <2>2. Done(k)
    BY <1>1, <1>4
  <2>3. T[k + 1][1] = Exchange(T[k][1], Below(T[k][1], T[k][2]), T[k][2])
        /\ T[k + 1][2] = Below(T[k][1], T[k][2])
    BY <2>1 DEF Turned
  <2> QED
    BY <2>2, <2>3, Sunk
<1>5. Done(n)
  <2> HIDE DEF S
  <2>1. n \in S
    BY <1>1, <1>3, <1>4, Induction
  <2> QED
    BY <1>1, <2>1 DEF S
<1>6. T[n][2] \in 1 .. n /\ ~ (T[n][2] > n)
  BY <1>1, <1>5 DEF SunkTo
<1> QED
  BY <1>2, <1>5, <1>6 DEF SunkTo

(* The top of a heap is the earliest.                                       *)
LEMMA TopIsLeast ==
    ASSUME NEW h \in Seq(Timer), Ordered(h)
    PROVE  \A j \in 1 .. Len(h) : h[1].at <= h[j].at
<1> DEFINE n == Len(h)
           B == {j \in 1 .. n : ~ (h[1].at <= h[j].at)}
<1>1. n \in Nat /\ \A j \in 1 .. n : h[j].at \in Nat
  BY TimersOfHeap
<1> SUFFICES ASSUME B # {} PROVE FALSE
  OBVIOUS
<1>2. PICK m \in B : \A y \in B : m <= y
  <2>1. B \subseteq Nat
    BY <1>1
  <2> HIDE DEF B
  <2> QED
    BY <2>1, LeastNumber
<1>3. m \in 2 .. n /\ h[1].at \in Nat /\ h[m].at \in Nat
  BY <1>1, <1>2
<1>4. m \div 2 \in 1 .. n /\ m \div 2 < m
  BY <1>1, <1>3, Parent
<1>5. h[1].at <= h[m \div 2].at
  BY <1>1, <1>2, <1>3, <1>4
<1>6. h[m \div 2].at <= h[m].at /\ h[m \div 2].at \in Nat
  BY <1>1, <1>3, <1>4 DEF Ordered
<1> QED
  BY <1>2, <1>3, <1>5, <1>6

-----------------------------------------------------------------------------
(* What setting a timer, re-arming the top and removing it do to the heap.  *)

LEMMA SameMeans ==
    ASSUME NEW g, NEW h, SameTimers(g, h)
    PROVE  /\ g \in Seq(Timer) /\ Len(g) = Len(h)
           /\ \A i \in 1 .. Len(h) : \E j \in 1 .. Len(h) : g[j] = h[i]
           /\ \A j \in 1 .. Len(h) : \E i \in 1 .. Len(h) : g[j] = h[i]
           /\ KeysDiffer(h) => KeysDiffer(g)
BY DEF SameTimers

LEMMA TimerAt ==
    ASSUME NEW t \in Timer, NEW at \in Nat
    PROVE  LET r == [t EXCEPT !.at = at]
           IN  r \in Timer /\ r.key = t.key /\ r.id = t.id /\ r.repeat = t.repeat
BY DEF Timer

LEMMA TimerAdded ==
    ASSUME NEW h \in Seq(Timer), Ordered(h), NEW t \in Timer
    PROVE  LET n == Len(h) + 1
               g == SiftUp(Append(h, t), n)
           IN  /\ g \in Seq(Timer) /\ Len(g) = n /\ n \in Nat \ {0} /\ Ordered(g)
               /\ \A i \in 1 .. Len(h) : \E j \in 1 .. n : g[j] = h[i]
               /\ \E j \in 1 .. n : g[j] = t
               /\ \A j \in 1 .. n : g[j] = t \/ \E i \in 1 .. Len(h) : g[j] = h[i]
               /\ KeysDiffer(h) /\ (\A i \in 1 .. Len(h) : h[i].key # t.key) => KeysDiffer(g)
               /\ Len(h) > 0 /\ h[1].at <= t.at => g[1] = h[1]
<1> DEFINE m == Len(h)
           n == m + 1
           a == Append(h, t)
           g == SiftUp(a, n)
<1>1. m \in Nat /\ n \in Nat \ {0} /\ n \in 1 .. n /\ n = m + 1 /\ (m > 0 => n > 1 /\ 1 \in 1 .. m)
  BY TimersOfHeap
<1>2. /\ a \in Seq(Timer) /\ Len(a) = n /\ a[n] = t
      /\ \A i \in 1 .. m : a[i] = h[i]
  BY <1>1, AppendProperties
<1>3. /\ \A i \in 1 .. n : i = n \/ i \in 1 .. m
      /\ \A i \in 1 .. m : i \in 1 .. n
  BY <1>1
<1> HIDE DEF a
<1>4. OrderedAbove(a, n)
  <2>1. ASSUME NEW j \in 2 .. n
        PROVE  /\ j # n => a[j \div 2].at <= a[j].at
               /\ j \div 2 # n
    <3>1. j \div 2 \in 1 .. n /\ j \div 2 < j
      BY <1>1, Parent
    <3>2. ASSUME j # n PROVE a[j \div 2].at <= a[j].at
      <4>1. j \in 2 .. m /\ j \div 2 \in 1 .. m /\ j \in 1 .. m
        BY <1>1, <3>1, <3>2
      <4> QED
        BY <1>2, <4>1 DEF Ordered
    <3> QED
      BY <1>1, <3>1, <3>2
  <2> QED
    BY <1>2, <2>1 DEF OrderedAbove
<1>5. /\ SameTimers(g, a) /\ Ordered(g)
      /\ n > 1 /\ a[1].at <= a[n].at => g[1] = a[1]
  BY <1>1, <1>2, <1>4, SiftsUp
<1> HIDE DEF g, n
<1>6. /\ g \in Seq(Timer) /\ Len(g) = n
      /\ \A i \in 1 .. n : \E j \in 1 .. n : g[j] = a[i]
      /\ \A j \in 1 .. n : \E i \in 1 .. n : g[j] = a[i]
      /\ KeysDiffer(a) => KeysDiffer(g)
  <2>1. /\ g \in Seq(Timer) /\ Len(g) = Len(a)
        /\ \A i \in 1 .. Len(a) : \E j \in 1 .. Len(a) : g[j] = a[i]
        /\ \A j \in 1 .. Len(a) : \E i \in 1 .. Len(a) : g[j] = a[i]
        /\ KeysDiffer(a) => KeysDiffer(g)
    BY <1>5, SameMeans
  <2>2. Len(a) = n
    BY <1>2
  <2> QED
    BY <2>1, <2>2
<1> HIDE DEF m
<1>7. \A j \in 1 .. n : g[j] = t \/ \E i \in 1 .. m : g[j] = h[i]
  <2> SUFFICES ASSUME NEW j \in 1 .. n PROVE g[j] = t \/ \E i \in 1 .. m : g[j] = h[i]
    OBVIOUS
  <2>1. PICK i \in 1 .. n : g[j] = a[i]
    BY <1>6
  <2>2. i = n \/ i \in 1 .. m
    BY <1>3
  <2> QED
    BY <1>2, <2>1, <2>2
<1>8. \A i \in 1 .. m : \E j \in 1 .. n : g[j] = h[i]
  <2> SUFFICES ASSUME NEW i \in 1 .. m PROVE \E j \in 1 .. n : g[j] = h[i]
    OBVIOUS
  <2>1. i \in 1 .. n /\ a[i] = h[i]
    BY <1>2, <1>3
  <2> QED
    BY <1>6, <2>1
<1>9. \E j \in 1 .. n : g[j] = t
  BY <1>1, <1>2, <1>6
<1>10. ASSUME KeysDiffer(h), \A i \in 1 .. m : h[i].key # t.key PROVE KeysDiffer(g)
  <2>1. ASSUME NEW i \in 1 .. n, NEW j \in 1 .. n, a[i].key = a[j].key PROVE i = j
    <3>1. CASE i \in 1 .. m /\ j \in 1 .. m
      BY <1>2, <1>10, <2>1, <3>1 DEF KeysDiffer, m
    <3>2. CASE i = n /\ j = n
      BY <3>2
    <3>3. CASE i \in 1 .. m /\ j = n
      BY <1>2, <1>10, <2>1, <3>3
    <3>4. CASE i = n /\ j \in 1 .. m
      BY <1>2, <1>10, <2>1, <3>4
    <3> QED
      BY <1>3, <3>1, <3>2, <3>3, <3>4
  <2>2. KeysDiffer(a)
    BY <1>2, <2>1 DEF KeysDiffer
  <2> QED
    BY <1>6, <2>2
<1>11. ASSUME m > 0, h[1].at <= t.at PROVE g[1] = h[1]
  <2>1. n > 1 /\ a[1] = h[1] /\ a[n] = t
    BY <1>1, <1>2, <1>11
  <2> QED
    BY <1>5, <1>11, <2>1
<1>12. /\ g \in Seq(Timer) /\ Len(g) = n /\ n \in Nat \ {0} /\ Ordered(g)
       /\ KeysDiffer(h) /\ (\A i \in 1 .. m : h[i].key # t.key) => KeysDiffer(g)
       /\ m > 0 /\ h[1].at <= t.at => g[1] = h[1]
  BY <1>1, <1>5, <1>6, <1>10, <1>11
<1> QED
  BY <1>7, <1>8, <1>9, <1>12 DEF g, n, m, a

LEMMA TopRearmed ==
    ASSUME NEW h \in Seq(Timer), Ordered(h), Len(h) > 0, now \in Nat
    PROVE  LET g == Rearmed(h)
               n == Len(h)
           IN  /\ g \in Seq(Timer) /\ Len(g) = n /\ Ordered(g)
               /\ KeysDiffer(h) => KeysDiffer(g)
               /\ \A i \in 1 .. n : \E j \in 1 .. n : g[j].key = h[i].key
               /\ \A j \in 1 .. n : \E i \in 1 .. n :
                      g[j].key = h[i].key /\ g[j].id = h[i].id /\ g[j].repeat = h[i].repeat
<1> DEFINE n == Len(h)
           t == [h[1] EXCEPT !.at = now + h[1].ivl]
           a == [h EXCEPT ![1] = t]
           g == Rearmed(h)
<1>1. n \in Nat /\ 1 \in 1 .. n /\ h \in [1 .. n -> Timer]
  BY LenProperties
<1>2. /\ h[1] \in Timer
      /\ t \in Timer /\ t.key = h[1].key /\ t.id = h[1].id /\ t.repeat = h[1].repeat
  <2>1. h[1] \in Timer
    BY <1>1
  <2>2. now + h[1].ivl \in Nat
    BY <2>1 DEF Timer
  <2> QED
    BY <2>1, <2>2, TimerAt
<1>3. a = [h EXCEPT ![1].at = now + h[1].ivl]
  BY <1>1
<1>4. g = SiftDown(a, 1)
  BY <1>3 DEF Rearmed
<1> HIDE DEF t
<1>5. a \in [1 .. n -> Timer] /\ a[1] = t /\ \A i \in 2 .. n : a[i] = h[i]
  BY <1>1, <1>2
<1> HIDE DEF a, g
<1>6. a \in Seq(Timer) /\ Len(a) = n
  <2>1. a \in Seq(Timer)
    BY <1>1, <1>5, IsASeq
  <2> QED
    BY <1>1, <1>5, <2>1, LenProperties
<1>7. OrderedBelow(a, 1)
  <2>1. ASSUME NEW j \in 2 .. n, j \div 2 # 1 PROVE a[j \div 2].at <= a[j].at
    <3>1. j \div 2 \in 2 .. n
      BY <1>1, <2>1, Parent
    <3> QED
      BY <1>5, <3>1 DEF Ordered
  <2> QED
    BY <1>6, <2>1 DEF OrderedBelow
<1>8. SameTimers(g, a) /\ Ordered(g)
  BY <1>1, <1>4, <1>6, <1>7, SiftsDown
<1>9. \A i \in 1 .. n : a[i].key = h[i].key /\ a[i].id = h[i].id /\ a[i].repeat = h[i].repeat
  <2>1. \A i \in 1 .. n : i = 1 \/ i \in 2 .. n
    BY <1>1
  <2> QED
    BY <1>2, <1>5, <2>1
<1>10. KeysDiffer(h) => KeysDiffer(a)
  BY <1>6, <1>9 DEF KeysDiffer
<1> HIDE DEF n
<1>11. /\ g \in Seq(Timer) /\ Len(g) = n
       /\ \A i \in 1 .. n : \E j \in 1 .. n : g[j] = a[i]
       /\ \A j \in 1 .. n : \E i \in 1 .. n : g[j] = a[i]
       /\ KeysDiffer(a) => KeysDiffer(g)
  <2>1. /\ g \in Seq(Timer) /\ Len(g) = Len(a)
        /\ \A i \in 1 .. Len(a) : \E j \in 1 .. Len(a) : g[j] = a[i]
        /\ \A j \in 1 .. Len(a) : \E i \in 1 .. Len(a) : g[j] = a[i]
        /\ KeysDiffer(a) => KeysDiffer(g)
    BY <1>8, SameMeans
  <2>2. Len(a) = n
    BY <1>6
  <2> QED
    BY <2>1, <2>2
<1>12. \A i \in 1 .. n : \E j \in 1 .. n : g[j].key = h[i].key
  <2>1. \A i \in 1 .. n : a[i].key = h[i].key
    BY <1>9
  <2>2. \A i \in 1 .. n : \E j \in 1 .. n : g[j] = a[i]
    BY <1>11
  <2> QED
    BY <2>1, <2>2
<1>13. \A j \in 1 .. n : \E i \in 1 .. n :
          g[j].key = h[i].key /\ g[j].id = h[i].id /\ g[j].repeat = h[i].repeat
  <2> SUFFICES ASSUME NEW j \in 1 .. n
               PROVE  \E i \in 1 .. n :
                        g[j].key = h[i].key /\ g[j].id = h[i].id /\ g[j].repeat = h[i].repeat
    OBVIOUS
  <2>1. PICK i \in 1 .. n : g[j] = a[i]
    BY <1>11
  <2>2. g[j].key = h[i].key /\ g[j].id = h[i].id /\ g[j].repeat = h[i].repeat
    BY <1>9, <2>1
  <2> QED
    BY <2>2
<1> QED
  BY <1>8, <1>10, <1>11, <1>12, <1>13 DEF g, n

LEMMA TopRemoved ==
    ASSUME NEW h \in Seq(Timer), Ordered(h), Len(h) > 0
    PROVE  LET g == WithoutTop(h)
               n == Len(h)
               m == n - 1
           IN  /\ g \in Seq(Timer) /\ Len(g) = m /\ Ordered(g)
               /\ KeysDiffer(h) => KeysDiffer(g)
               /\ \A i \in 2 .. n : \E j \in 1 .. m : g[j] = h[i]
               /\ \A j \in 1 .. m : \E i \in 2 .. n : g[j] = h[i]
<1> DEFINE n == Len(h)
           m == n - 1
           g == WithoutTop(h)
           s == SubSeq(h, 1, m)
           a == [s EXCEPT ![1] = h[n]]
<1>1. n \in Nat /\ n > 0 /\ m \in Nat /\ h \in [1 .. n -> Timer]
  BY LenProperties
<1>2. CASE n = 1
  <2>1. g = <<>>
    BY <1>2 DEF WithoutTop
  <2>2. g \in Seq(Timer) /\ Len(g) = 0
    BY <2>1
  <2>3. m = 0 /\ 1 .. m = {} /\ 2 .. n = {}
    BY <1>2
  <2>4. Ordered(g) /\ KeysDiffer(g)
    BY <2>2 DEF Ordered, KeysDiffer
  <2> HIDE DEF g, n, m
  <2> QED
    BY <2>2, <2>3, <2>4 DEF g, n, m
<1>3. CASE n > 1
  <2>1. m > 0 /\ 1 \in 1 .. m /\ n \in 2 .. n /\ m < n /\ m = n - 1
    BY <1>1, <1>3
  <2>2. s \in [1 .. m -> Timer] /\ \A i \in 1 .. m : s[i] = h[i]
    <3>1. s \in Seq(Timer) /\ Len(s) = m /\ \A i \in 1 .. m : s[i] = h[i]
      BY <1>1, <1>3, SubSeqProperties
    <3> QED
      BY <3>1, LenProperties
  <2>3. g = SiftDown(a, 1)
    BY <1>1, <1>3 DEF WithoutTop
  <2> HIDE DEF s, g
  <2>4. a \in [1 .. m -> Timer] /\ a[1] = h[n] /\ \A i \in 2 .. m : a[i] = h[i]
    <3>1. h[n] \in Timer
      BY <1>1
    <3> QED
      BY <1>1, <2>1, <2>2, <3>1
  <2> HIDE DEF a, m
  <2>5. a \in Seq(Timer) /\ Len(a) = m
    <3>1. a \in Seq(Timer)
      BY <1>1, <2>4, IsASeq
    <3> QED
      BY <1>1, <2>4, <3>1, LenProperties
  <2>6. OrderedBelow(a, 1)
    <3>1. ASSUME NEW j \in 2 .. m, j \div 2 # 1 PROVE a[j \div 2].at <= a[j].at
      <4>1. j \div 2 \in 2 .. m /\ j \in 2 .. n
        BY <1>1, <2>1, <3>1, Parent
      <4> QED
        BY <2>4, <4>1 DEF Ordered
    <3> QED
      BY <2>5, <3>1 DEF OrderedBelow
  <2>7. SameTimers(g, a) /\ Ordered(g)
    BY <2>1, <2>3, <2>5, <2>6, SiftsDown
  <2> DEFINE from(i) == IF i = 1 THEN n ELSE i
  <2>8. \A i \in 1 .. m : from(i) \in 2 .. n /\ a[i] = h[from(i)]
    BY <1>1, <2>1, <2>4
  <2>9. \A i \in 1 .. m, j \in 1 .. m : from(i) = from(j) => i = j
    BY <1>1, <2>1
  <2>10. \A i \in 2 .. n : \E j \in 1 .. m : a[j] = h[i]
    <3>1. \A i \in 2 .. n : i = n \/ i \in 2 .. m
      <4> HIDE DEF n
      <4> QED
        BY <1>1, <2>1
    <3>2. \A i \in 2 .. m : i \in 1 .. m
      BY <1>1
    <3> QED
      BY <2>1, <2>4, <3>1, <3>2
  <2>11. ASSUME KeysDiffer(h) PROVE KeysDiffer(a)
    <3> SUFFICES ASSUME NEW i \in 1 .. m, NEW j \in 1 .. m, a[i].key = a[j].key
                 PROVE  i = j
      BY <2>5 DEF KeysDiffer
    <3>1. from(i) \in 1 .. n /\ from(j) \in 1 .. n /\ h[from(i)].key = h[from(j)].key
      <4>1. from(i) \in 2 .. n /\ from(j) \in 2 .. n /\ h[from(i)].key = h[from(j)].key
        BY <2>8
      <4> HIDE DEF from
      <4> QED
        BY <1>1, <4>1
    <3> HIDE DEF from
    <3>2. from(i) = from(j)
      BY <2>11, <3>1 DEF KeysDiffer
    <3> QED
      BY <2>9, <3>2
  <2> HIDE DEF n, from
  <2>12. /\ g \in Seq(Timer) /\ Len(g) = m
         /\ \A i \in 1 .. m : \E j \in 1 .. m : g[j] = a[i]
         /\ \A j \in 1 .. m : \E i \in 1 .. m : g[j] = a[i]
         /\ KeysDiffer(a) => KeysDiffer(g)
    <3>1. /\ g \in Seq(Timer) /\ Len(g) = Len(a)
          /\ \A i \in 1 .. Len(a) : \E j \in 1 .. Len(a) : g[j] = a[i]
          /\ \A j \in 1 .. Len(a) : \E i \in 1 .. Len(a) : g[j] = a[i]
          /\ KeysDiffer(a) => KeysDiffer(g)
      BY <2>7, SameMeans
    <3>2. Len(a) = m
      BY <2>5
    <3> QED
      BY <3>1, <3>2
  <2>13. \A i \in 2 .. n : \E j \in 1 .. m : g[j] = h[i]
    <3> SUFFICES ASSUME NEW i \in 2 .. n PROVE \E j \in 1 .. m : g[j] = h[i]
      OBVIOUS
    <3>1. PICK x \in 1 .. m : a[x] = h[i]
      BY <2>10
    <3>2. \E j \in 1 .. m : g[j] = a[x]
      BY <2>12
    <3> QED
      BY <3>1, <3>2
  <2>14. \A j \in 1 .. m : \E i \in 2 .. n : g[j] = h[i]
    <3> SUFFICES ASSUME NEW j \in 1 .. m PROVE \E i \in 2 .. n : g[j] = h[i]
      OBVIOUS
    <3>1. PICK x \in 1 .. m : g[j] = a[x]
      BY <2>12
    <3> QED
      BY <2>8, <3>1
  <2> QED
    BY <2>7, <2>11, <2>12, <2>13, <2>14 DEF g, n, m
<1>4. n = 1 \/ n > 1
  BY <1>1
<1> QED
  <2> HIDE DEF n, m, g
  <2> QED
    BY <1>2, <1>3, <1>4 DEF n, m, g

-----------------------------------------------------------------------------
(* Each part of the invariant is kept by every step.                        *)
LEMMA TimerCleared ==
    ASSUME NEW t \in Timer, NEW on \in BOOLEAN
    PROVE  LET r == [t EXCEPT !.active = on]
           IN  /\ r \in Timer /\ r.key = t.key /\ r.id = t.id /\ r.repeat = t.repeat
               /\ r.at = t.at
BY DEF Timer

LEMMA Bounds ==
    /\ MaxClock \in Nat /\ Lead \in Nat /\ MaxPosts \in Nat
    /\ \A d \in Delays \cup Intervals : d \in Nat
BY LoopAssumption

LEMMA Starts == ASSUME Init PROVE IInv
<1> USE Bounds DEF Init
<1>1. LoopInv
  <2>1. managed \in BOOLEAN /\ running \in BOOLEAN
    BY Zenon
  <2>2. clock \in 0 .. MaxClock /\ now \in 0 .. MaxClock + Lead
    OBVIOUS
  <2>3. posts \in 0 .. MaxPosts /\ tasks \in 0 .. posts
    OBVIOUS
  <2> QED
    BY <2>1, <2>2, <2>3 DEF LoopInv
<1>2. TableInv /\ HeapOrder /\ FiredIsTop /\ FiresTell /\ OnlyClearedBlocks
  BY DEF TableInv, KeysDiffer, HeapOrder, FiredIsTop, FiresTell, OnlyClearedBlocks, FiringEnded
<1>3. FiberInv
  BY DEF FiberInv
<1> QED
  BY <1>1, <1>2, <1>3 DEF IInv, HeapInv, FiredInv

LEMMA LoopSteps == ASSUME LoopInv, [Next]_vars PROVE LoopInv'
<1> USE Bounds DEF LoopInv
<1>1. CASE Tick
  <2>1. CASE BeginTick
    <3>1. clock \in Nat /\ now' \in clock .. clock + Lead
      BY <2>1 DEF BeginTick
    <3>2. now' \in 0 .. MaxClock + Lead /\ now' <= clock + Lead
      BY <3>1
    <3> QED
      BY <2>1, <3>2 DEF BeginTick, loopVars
  <2>2. CASE RunTask
    BY <2>2 DEF RunTask, fiberVars
  <2>3. CASE TaskReturns \/ EndDrain
    BY <2>3 DEF TaskReturns, EndDrain, fiberVars, loopVars
  <2>4. CASE FireTop \/ TimerReturns \/ EndFiring
    BY <2>4 DEF FireTop, TimerReturns, EndFiring, fiberVars, loopVars
  <2>5. CASE EnterFiber \/ PassFiber \/ FiberReturns \/ EndTick
    BY <2>5 DEF EnterFiber, PassFiber, FiberReturns, EndTick, fiberVars, loopVars
  <2> QED
    BY <1>1, <2>1, <2>2, <2>3, <2>4, <2>5 DEF Tick
<1>2. CASE Call
  <2>1. CASE SetTimer \/ RepeatTimer
    BY <2>1 DEF SetTimer, RepeatTimer, AddTimer, loopVars, fiberVars
  <2>2. CASE \E k \in DOMAIN handle : ClearTimer(k)
    BY <2>2 DEF ClearTimer, loopVars, fiberVars
  <2>3. CASE PostTask
    BY <2>3 DEF PostTask, fiberVars
  <2>4. CASE SpawnFiber
    BY <2>4 DEF SpawnFiber, loopVars
  <2>5. CASE YieldFiber \/ ExitFiber
    BY <2>5 DEF YieldFiber, ExitFiber, MarkCurrent, loopVars
  <2> QED
    BY <1>2, <2>1, <2>2, <2>3, <2>4, <2>5 DEF Call
<1>3. CASE RunLoop \/ EmbedLoop \/ StopLoop \/ RunReturns \/ Shutdown
  BY <1>3 DEF RunLoop, EmbedLoop, StopLoop, RunReturns, Shutdown, loopVars, fiberVars
<1>4. CASE Advance
  BY <1>4 DEF Advance, loopVars, fiberVars
<1>5. CASE UNCHANGED vars
  BY <1>5 DEF vars, loopVars, fiberVars
<1> QED
  BY <1>1, <1>2, <1>3, <1>4, <1>5 DEF Next

LEMMA FiberSteps == ASSUME LoopInv, FiberInv, [Next]_vars PROVE FiberInv'
<1> USE DEF FiberInv
<1>1. CASE Tick
  <2>1. CASE BeginTick
    BY <2>1 DEF BeginTick, MayTick
  <2>2. CASE RunTask \/ TaskReturns \/ EndDrain
    BY <2>2 DEF RunTask, TaskReturns, EndDrain, fiberVars
  <2>3. CASE FireTop \/ TimerReturns
    BY <2>3 DEF FireTop, TimerReturns, fiberVars
  <2>4. CASE EndFiring
    BY <2>4 DEF EndFiring, LoopInv, fiberVars
  <2>5. CASE EnterFiber
    <3>1. /\ fi \in 1 .. Len(fibers) /\ fibers[fi] = "IDLE" /\ entries[fi] = 0
          /\ fi \in 1 .. Len(entries) /\ current = 0
      BY <2>5 DEF EnterFiber, MoreFibers
    <3>2. /\ fibers' \in Seq({"IDLE", "RUNNING", "WAITING", "DEAD"}) /\ Len(fibers') = Len(fibers)
          /\ \A f \in 1 .. Len(fibers) : f # fi => fibers'[f] = fibers[f]
      BY <2>5, <3>1, ExceptSeq DEF EnterFiber
    <3>3. /\ entries' \in Seq(Nat) /\ Len(entries') = Len(entries) /\ entries'[fi] = 1
          /\ \A f \in 1 .. Len(entries) : f # fi => entries'[f] = entries[f]
      BY <2>5, <3>1, ExceptSeq DEF EnterFiber
    <3> QED
      BY <2>5, <3>1, <3>2, <3>3 DEF EnterFiber
  <2>6. CASE PassFiber
    <3>1. fi \in 1 .. Len(fibers) /\ current = 0 /\ fibers[fi] = "DEAD"
      BY <2>6 DEF PassFiber, MoreFibers
    <3> QED
      BY <2>6, <3>1 DEF PassFiber
  <2>7. CASE FiberReturns
    <3>1. fi \in 1 .. Len(fibers) /\ current = fi /\ entries[fi] = 1
      BY <2>7 DEF FiberReturns
    <3>2. /\ fibers' \in Seq({"IDLE", "RUNNING", "WAITING", "DEAD"}) /\ Len(fibers') = Len(fibers)
          /\ fibers'[fi] = "DEAD"
          /\ \A f \in 1 .. Len(fibers) : f # fi => fibers'[f] = fibers[f]
      BY <2>7, <3>1, ExceptSeq DEF FiberReturns
    <3> QED
      BY <2>7, <3>1, <3>2 DEF FiberReturns
  <2>8. CASE EndTick
    BY <2>8 DEF EndTick, fiberVars
  <2> QED
    BY <1>1, <2>1, <2>2, <2>3, <2>4, <2>5, <2>6, <2>7, <2>8 DEF Tick
<1>2. CASE Call
  <2>1. CASE SetTimer \/ RepeatTimer
    BY <2>1 DEF SetTimer, RepeatTimer, AddTimer, fiberVars
  <2>2. CASE \E k \in DOMAIN handle : ClearTimer(k)
    BY <2>2 DEF ClearTimer, fiberVars
  <2>3. CASE PostTask
    BY <2>3 DEF PostTask, fiberVars
  <2>4. CASE SpawnFiber
    <3> DEFINE n == Len(fibers)
    <3>1. n \in Nat /\ current \in 0 .. n
      BY <2>4, LenProperties
    <3>2. /\ fibers' \in Seq({"IDLE", "RUNNING", "WAITING", "DEAD"}) /\ Len(fibers') = n + 1
          /\ fibers'[n + 1] = "IDLE" /\ \A f \in 1 .. n : fibers'[f] = fibers[f]
      BY <2>4, AppendProperties DEF SpawnFiber
    <3>3. /\ entries' \in Seq(Nat) /\ Len(entries') = n + 1
          /\ entries'[n + 1] = 0 /\ \A f \in 1 .. n : entries'[f] = entries[f]
      BY <2>4, AppendProperties DEF SpawnFiber
    <3>4. pc' = pc /\ fi' = fi /\ current' = current /\ pc # "fibers"
      BY <2>4 DEF SpawnFiber, Client, InCallback
    <3>5. \A f \in 1 .. n + 1 : f = n + 1 \/ f \in 1 .. n
      BY <3>1
    <3> HIDE DEF n
    <3>6. \A f \in 1 .. n + 1 : f # current' => \/ fibers'[f] = "DEAD" /\ entries'[f] = 1
                                                \/ fibers'[f] = "IDLE" /\ entries'[f] = 0
      BY <3>2, <3>3, <3>4, <3>5 DEF n
    <3>7. pc = "fiber" => /\ fi \in 1 .. n /\ entries'[fi] = 1
                          /\ \A f \in 1 .. n : f < fi => fibers'[f] = "DEAD"
      BY <3>1, <3>2, <3>3 DEF n
    <3>8. pc = "fiber" => \A f \in 1 .. n + 1 : f < fi => f \in 1 .. n
      BY <3>1, <3>5, <3>7
    <3> QED
      BY <3>1, <3>2, <3>3, <3>4, <3>6, <3>7, <3>8
  <2>5. CASE YieldFiber \/ ExitFiber
    <3>1. PICK state \in {"WAITING", "DEAD"} : MarkCurrent(state)
      BY <2>5 DEF YieldFiber, ExitFiber
    <3>2. current = fi /\ fi \in 1 .. Len(fibers) /\ pc = "fiber"
      BY <3>1 DEF MarkCurrent
    <3>3. /\ fibers' \in Seq({"IDLE", "RUNNING", "WAITING", "DEAD"}) /\ Len(fibers') = Len(fibers)
          /\ \A f \in 1 .. Len(fibers) : f # fi => fibers'[f] = fibers[f]
      BY <3>1, <3>2, ExceptSeq DEF MarkCurrent
    <3> QED
      BY <3>1, <3>2, <3>3 DEF MarkCurrent
  <2> QED
    BY <1>2, <2>1, <2>2, <2>3, <2>4, <2>5 DEF Call
<1>3. CASE RunLoop \/ EmbedLoop \/ StopLoop \/ RunReturns \/ Shutdown \/ Advance
  BY <1>3 DEF RunLoop, EmbedLoop, StopLoop, RunReturns, Shutdown, Advance, fiberVars
<1>4. CASE UNCHANGED vars
  BY <1>4 DEF vars, fiberVars
<1> QED
  BY <1>1, <1>2, <1>3, <1>4 DEF Next

LEMMA AddSteps ==
    ASSUME LoopInv, HeapInv, NEW d \in Delays \cup Intervals, NEW rep \in BOOLEAN,
           AddTimer(d, rep)
    PROVE  HeapInv' /\ (DelaysCoverLead /\ FiredInv => FiredInv')
<1> DEFINE m == Len(heap)
           n == m + 1
           K == Len(handle)
           t == [id |-> n - 1, key |-> K + 1, active |-> TRUE,
                 repeat |-> rep, at |-> clock + d, ivl |-> d]
           g == SiftUp(Append(heap, t), n)
<1>1. /\ heap \in Seq(Timer) /\ handle \in Seq(Nat) /\ fires \in Seq(Nat)
      /\ K \in Nat /\ m \in Nat /\ Len(fires) = K /\ m <= K
      /\ KeysDiffer(heap) /\ Ordered(heap)
      /\ \A i \in 1 .. m : heap[i].key \in 1 .. K /\ heap[i].id < K
  BY LenProperties DEF HeapInv, TableInv, HeapOrder, Ordered
<1>2. /\ clock \in Nat /\ d \in Nat /\ Lead \in Nat /\ now \in Nat
  BY Bounds DEF LoopInv
<1>3. t \in Timer /\ t.key = K + 1 /\ t.id = m /\ t.at = clock + d
  BY <1>1, <1>2 DEF Timer
<1>4. /\ heap' = g /\ handle' = Append(handle, g[n].id) /\ fires' = Append(fires, 0)
      /\ pc' = pc /\ now' = now /\ fi' = fi /\ clears' = clears /\ pc # "fibers"
  BY DEF AddTimer, Client, InCallback, fiberVars
<1> HIDE DEF t
<1>5. \A i \in 1 .. m : heap[i].key # t.key
  BY <1>1, <1>3
<1>6. /\ g \in Seq(Timer) /\ Len(g) = n /\ n \in Nat \ {0} /\ Ordered(g)
      /\ \A i \in 1 .. m : \E j \in 1 .. n : g[j] = heap[i]
      /\ \E j \in 1 .. n : g[j] = t
      /\ \A j \in 1 .. n : g[j] = t \/ \E i \in 1 .. m : g[j] = heap[i]
      /\ KeysDiffer(heap) /\ (\A i \in 1 .. m : heap[i].key # t.key) => KeysDiffer(g)
      /\ m > 0 /\ heap[1].at <= t.at => g[1] = heap[1]
  BY <1>1, <1>3, TimerAdded
<1> HIDE DEF g
<1>7. KeysDiffer(g)
  BY <1>1, <1>5, <1>6
<1>8. /\ handle' \in Seq(Nat) /\ Len(handle') = K + 1
  <2>1. n \in 1 .. n
    BY <1>6
  <2>2. g[n].id \in Nat
    BY <1>6, <2>1, TimersOfHeap
  <2> QED
    BY <1>1, <1>4, <2>2, AppendProperties
<1>9. /\ fires' \in Seq(Nat) /\ Len(fires') = K + 1 /\ fires'[K + 1] = 0
      /\ \A k \in 1 .. K : fires'[k] = fires[k]
  BY <1>1, <1>4, AppendProperties
<1>10. n <= K + 1 /\ n - 1 = m
  BY <1>1
<1> HIDE DEF n, m, K
<1>11. ASSUME NEW j \in 1 .. n PROVE g[j].key \in 1 .. K + 1 /\ g[j].id < K + 1
  <2>1. CASE g[j] = t
    BY <1>1, <1>3, <2>1
  <2>2. CASE \E i \in 1 .. m : g[j] = heap[i]
    <3>1. PICK i \in 1 .. m : g[j] = heap[i]
      BY <2>2
    <3>2. heap[i].id \in Nat
      BY <1>1, TimersOfHeap DEF m
    <3> QED
      BY <1>1, <3>1, <3>2
  <2> QED
    BY <1>6, <2>1, <2>2
<1>12. clears' \subseteq 1 .. K + 1
  BY <1>1, <1>4 DEF HeapInv, TableInv, K
<1>13. TableInv'
  BY <1>4, <1>6, <1>7, <1>8, <1>9, <1>10, <1>11, <1>12 DEF TableInv
<1>14. HeapOrder'
  BY <1>4, <1>6 DEF HeapOrder, Ordered
<1>15. HeapInv'
  BY <1>1, <1>4, <1>6, <1>13, <1>14 DEF HeapInv
<1>16. ASSUME DelaysCoverLead, FiredInv PROVE FiredInv'
  <2>1. ASSUME pc = "timer"
         PROVE  m > 0 /\ heap[1].at <= now /\ g[1] = heap[1]
    <3>1. m > 0 /\ heap[1].at <= now /\ now <= clock + Lead
      BY <2>1, <1>16 DEF FiredInv, FiredIsTop, LoopInv, m
    <3>2. heap[1].at \in Nat
      BY <1>1, <3>1, TimersOfHeap DEF m
    <3> QED
      BY <1>2, <1>3, <1>6, <1>16, <3>1, <3>2 DEF DelaysCoverLead
  <2>2. FiredIsTop'
    BY <1>4, <1>6, <2>1 DEF FiredIsTop
  <2>3. ASSUME NEW k \in 1 .. K + 1
         PROVE  fires'[k] = 1 \/ \E j \in 1 .. n : g[j].key = k
    <3>1. CASE k = K + 1
      BY <1>3, <1>6, <3>1
    <3>2. CASE k \in 1 .. K
      <4>1. CASE fires[k] = 1
        BY <1>9, <3>2, <4>1
      <4>2. CASE \E i \in 1 .. m : heap[i].key = k
        <5>1. PICK i \in 1 .. m : heap[i].key = k
          BY <4>2
        <5>2. PICK j \in 1 .. n : g[j] = heap[i]
          BY <1>6
        <5> QED
          BY <5>1, <5>2
      <4> QED
        BY <1>16, <3>2, <4>1, <4>2 DEF FiredInv, FiresTell, K, m
    <3> QED
      BY <1>1, <3>1, <3>2
  <2>4. ASSUME NEW j \in 1 .. n
         PROVE  g[j].repeat \/ fires'[g[j].key] = IF pc = "timer" /\ j = 1 THEN 1 ELSE 0
    <3>1. CASE g[j] = t
      <4>1. ~ (pc = "timer" /\ j = 1)
        <5> SUFFICES ASSUME pc = "timer", j = 1 PROVE FALSE
          OBVIOUS
        <5>1. t = heap[1] /\ 1 \in 1 .. m
          BY <1>1, <2>1, <3>1
        <5> QED
          BY <1>5, <5>1
      <4> QED
        BY <1>3, <1>9, <3>1, <4>1
    <3>2. CASE \E i \in 1 .. m : g[j] = heap[i]
      <4>1. PICK i \in 1 .. m : g[j] = heap[i]
        BY <3>2
      <4>2. heap[i].repeat \/ fires[heap[i].key] = IF pc = "timer" /\ i = 1 THEN 1 ELSE 0
        BY <1>16 DEF FiredInv, FiresTell, m
      <4>3. fires'[heap[i].key] = fires[heap[i].key]
        BY <1>1, <1>9
      <4>4. ASSUME pc = "timer" PROVE i = 1 <=> j = 1
        <5>1. g[1] = heap[1] /\ 1 \in 1 .. m /\ 1 \in 1 .. n
          BY <1>1, <1>6, <2>1, <4>4
        <5>2. i = 1 => j = 1
          <6>1. \A x, y \in 1 .. n : g[x].key = g[y].key => x = y
            BY <1>6, <1>7 DEF KeysDiffer
          <6>2. i = 1 => g[j] = g[1]
            BY <4>1, <5>1
          <6> QED
            BY <5>1, <6>1, <6>2
        <5>3. j = 1 => i = 1
          BY <1>1, <4>1, <5>1 DEF KeysDiffer, m
        <5> QED
          BY <5>2, <5>3
      <4> QED
        BY <4>1, <4>2, <4>3, <4>4
    <3> QED
      BY <1>6, <3>1, <3>2
  <2>5. FiresTell'
    BY <1>4, <1>6, <1>8, <2>3, <2>4 DEF FiresTell
  <2>6. OnlyClearedBlocks'
    BY <1>4 DEF OnlyClearedBlocks, FiringEnded
  <2> QED
    BY <2>2, <2>5, <2>6 DEF FiredInv
<1> QED
  BY <1>15, <1>16

LEMMA ClearSteps ==
    ASSUME LoopInv, HeapInv, NEW k \in DOMAIN handle, ClearTimer(k)
    PROVE  HeapInv' /\ (FiredInv => FiredInv')
<1> DEFINE m == Len(heap)
           r(i) == [heap[i] EXCEPT !.active = @ /\ i \notin Found(handle[k])]
<1>1. /\ heap \in Seq(Timer) /\ handle \in Seq(Nat) /\ m \in Nat
      /\ heap \in [1 .. m -> Timer] /\ DOMAIN heap = 1 .. m /\ k \in 1 .. Len(handle)
  BY LenProperties DEF HeapInv, TableInv
<1>2. /\ heap' = [i \in 1 .. m |-> r(i)] /\ clears' = clears \cup {k}
      /\ handle' = handle /\ fires' = fires /\ pc' = pc /\ now' = now /\ pc # "fibers"
  BY <1>1 DEF ClearTimer, Client, InCallback
<1>3. ASSUME NEW i \in 1 .. m
      PROVE  /\ r(i) \in Timer /\ r(i).key = heap[i].key /\ r(i).id = heap[i].id
             /\ r(i).repeat = heap[i].repeat /\ r(i).at = heap[i].at
  <2> DEFINE on == heap[i].active /\ i \notin Found(handle[k])
  <2>1. heap[i] \in Timer /\ on \in BOOLEAN /\ r(i) = [heap[i] EXCEPT !.active = on]
    BY <1>1
  <2> HIDE DEF on, r
  <2> QED
    BY <2>1, TimerCleared
<1> HIDE DEF r
<1>4. heap' \in [1 .. m -> Timer]
  BY <1>2, <1>3
<1>5. heap' \in Seq(Timer) /\ Len(heap') = m
  <2>1. heap' \in Seq(Timer)
    BY <1>1, <1>4, IsASeq
  <2> QED
    BY <1>1, <1>4, <2>1, LenProperties
<1>6. \A i \in 1 .. m : /\ heap'[i].key = heap[i].key /\ heap'[i].id = heap[i].id
                        /\ heap'[i].repeat = heap[i].repeat /\ heap'[i].at = heap[i].at
  BY <1>2, <1>3
<1>7. TableInv'
  <2>1. KeysDiffer(heap)'
    BY <1>5, <1>6 DEF HeapInv, TableInv, KeysDiffer
  <2>2. \A i \in 1 .. m : heap'[i].key \in 1 .. Len(handle) /\ heap'[i].id < Len(handle)
    BY <1>6 DEF HeapInv, TableInv
  <2> QED
    BY <1>1, <1>2, <1>5, <2>1, <2>2 DEF HeapInv, TableInv
<1>8. HeapOrder'
  <2> SUFFICES ASSUME NEW i \in 2 .. m PROVE heap'[i \div 2].at <= heap'[i].at
    BY <1>5 DEF HeapOrder
  <2>1. i \in 1 .. m /\ i \div 2 \in 1 .. m
    BY <1>1, Parent
  <2>2. heap[i \div 2].at <= heap[i].at
    BY DEF HeapInv, HeapOrder
  <2> QED
    BY <1>6, <2>1, <2>2
<1>9. HeapInv'
  BY <1>2, <1>5, <1>7, <1>8 DEF HeapInv
<1>10. ASSUME FiredInv PROVE FiredInv'
  <2>1. FiredIsTop'
    <3> SUFFICES ASSUME pc = "timer" PROVE m > 0 /\ heap'[1].at <= now
      BY <1>2, <1>5 DEF FiredIsTop
    <3>1. m > 0 /\ heap[1].at <= now
      BY <1>10 DEF FiredInv, FiredIsTop
    <3> QED
      BY <1>1, <1>6, <3>1
  <2>2. FiresTell'
    <3>1. ASSUME NEW x \in 1 .. Len(handle)
          PROVE  fires[x] = 1 \/ \E i \in 1 .. m : heap'[i].key = x
      BY <1>6, <1>10 DEF FiredInv, FiresTell
    <3>2. ASSUME NEW i \in 1 .. m
          PROVE  heap'[i].repeat \/ fires[heap'[i].key] = IF pc = "timer" /\ i = 1 THEN 1 ELSE 0
      BY <1>6, <1>10 DEF FiredInv, FiresTell
    <3> QED
      BY <1>2, <1>5, <3>1, <3>2 DEF FiresTell
  <2>3. OnlyClearedBlocks'
    BY <1>2 DEF OnlyClearedBlocks, FiringEnded
  <2> QED
    BY <2>1, <2>2, <2>3 DEF FiredInv
<1> QED
  BY <1>9, <1>10

LEMMA FireSteps ==
    ASSUME LoopInv, HeapInv, FireTop
    PROVE  HeapInv' /\ (FiredInv => FiredInv')
<1> DEFINE m == Len(heap)
           x == heap[1].key
<1>1. /\ m \in Nat /\ m > 0 /\ 1 \in 1 .. m /\ heap[1].at <= now
      /\ pc = "fire" /\ pc' = "timer"
      /\ heap' = heap /\ handle' = handle /\ clears' = clears /\ now' = now
      /\ fires \in Seq(Nat) /\ Len(fires) = Len(handle) /\ x \in 1 .. Len(fires)
  BY LenProperties DEF FireTop, TopFires, HeapInv, TableInv
<1>2. fires' = [fires EXCEPT ![x] = fires[x] + 1]
  BY <1>1, LenProperties DEF FireTop
<1>3. /\ fires' \in Seq(Nat) /\ Len(fires') = Len(fires) /\ fires'[x] = fires[x] + 1
      /\ \A y \in 1 .. Len(fires) : y # x => fires'[y] = fires[y]
  <2>1. fires[x] + 1 \in Nat
    BY <1>1, ElementOfSeq
  <2> HIDE DEF x
  <2> QED
    BY <1>1, <1>2, <2>1, ExceptSeq
<1>4. HeapInv'
  BY <1>1, <1>3 DEF HeapInv, TableInv, KeysDiffer, HeapOrder
<1>5. ASSUME FiredInv PROVE FiredInv'
  <2>1. FiredIsTop'
    BY <1>1 DEF FiredIsTop
  <2>2. OnlyClearedBlocks'
    BY <1>1 DEF OnlyClearedBlocks, FiringEnded
  <2>3. ASSUME NEW i \in 1 .. m
        PROVE  heap[i].repeat \/ fires'[heap[i].key] = IF i = 1 THEN 1 ELSE 0
    <3>1. heap[i].repeat \/ fires[heap[i].key] = 0
      BY <1>1, <1>5 DEF FiredInv, FiresTell
    <3>2. heap[i].key \in 1 .. Len(fires) /\ (heap[i].key = x => i = 1)
      BY <1>1 DEF HeapInv, TableInv, KeysDiffer
    <3> QED
      BY <1>3, <3>1, <3>2
  <2>4. ASSUME NEW k \in 1 .. Len(handle)
        PROVE  fires'[k] = 1 \/ \E i \in 1 .. m : heap[i].key = k
    <3>1. CASE k = x
      BY <1>1, <3>1
    <3>2. CASE k # x
      BY <1>1, <1>3, <1>5, <3>2 DEF FiredInv, FiresTell
    <3> QED
      BY <3>1, <3>2
  <2>5. FiresTell'
    BY <1>1, <2>3, <2>4 DEF FiresTell
  <2> QED
    BY <2>1, <2>2, <2>5 DEF FiredInv
<1> QED
  BY <1>4, <1>5

LEMMA ReturnSteps ==
    ASSUME LoopInv, HeapInv, TimerReturns
    PROVE  HeapInv' /\ (FiredInv => FiredInv')
<1> DEFINE n == Len(heap)
           K == Len(handle)
<1>1. /\ heap \in Seq(Timer) /\ Ordered(heap) /\ KeysDiffer(heap) /\ n > 0 /\ n \in Nat
      /\ now \in Nat /\ n <= K /\ K \in Nat
      /\ \A i \in 1 .. n : heap[i].key \in 1 .. K /\ heap[i].id < K
  BY Bounds, LenProperties DEF TimerReturns, HeapInv, TableInv, HeapOrder, Ordered, LoopInv
<1>2. /\ pc = "timer" /\ pc' = "fire" /\ now' = now
      /\ handle' = handle /\ clears' = clears /\ fires' = fires
  BY DEF TimerReturns
<1>3. /\ handle \in Seq(Nat) /\ fires \in Seq(Nat) /\ Len(fires) = K /\ clears \subseteq 1 .. K
  BY DEF HeapInv, TableInv
<1>4. FiredIsTop' /\ OnlyClearedBlocks'
  BY <1>2 DEF FiredIsTop, OnlyClearedBlocks, FiringEnded
<1>5. ASSUME FiredInv
      PROVE  /\ \A k \in 1 .. K : fires[k] = 1 \/ \E i \in 1 .. n : heap[i].key = k
             /\ \A i \in 1 .. n : heap[i].repeat \/ fires[heap[i].key] = IF i = 1 THEN 1 ELSE 0
  BY <1>2, <1>5 DEF FiredInv, FiresTell
<1>6. CASE heap[1].repeat
  <2> DEFINE g == Rearmed(heap)
  <2>1. /\ g \in Seq(Timer) /\ Len(g) = n /\ Ordered(g)
        /\ KeysDiffer(heap) => KeysDiffer(g)
        /\ \A i \in 1 .. n : \E j \in 1 .. n : g[j].key = heap[i].key
        /\ \A j \in 1 .. n : \E i \in 1 .. n :
               g[j].key = heap[i].key /\ g[j].id = heap[i].id /\ g[j].repeat = heap[i].repeat
    BY <1>1, TopRearmed
  <2>2. heap' = g
    BY <1>6 DEF TimerReturns
  <2> HIDE DEF g, n, K
  <2>3. ASSUME NEW j \in 1 .. n
        PROVE  /\ g[j].key \in 1 .. K /\ g[j].id < K
               /\ FiredInv => g[j].repeat \/ fires[g[j].key] = 0
    <3>1. PICK i \in 1 .. n :
            g[j].key = heap[i].key /\ g[j].id = heap[i].id /\ g[j].repeat = heap[i].repeat
      BY <2>1
    <3>2. FiredInv => heap[i].repeat \/ fires[heap[i].key] = 0
      BY <1>5, <1>6
    <3> QED
      BY <1>1, <3>1, <3>2
  <2>4. ASSUME FiredInv, NEW k \in 1 .. K
        PROVE  fires[k] = 1 \/ \E j \in 1 .. n : g[j].key = k
    <3>1. CASE fires[k] = 1
      BY <3>1
    <3>2. CASE \E i \in 1 .. n : heap[i].key = k
      <4>1. PICK i \in 1 .. n : heap[i].key = k
        BY <3>2
      <4>2. PICK j \in 1 .. n : g[j].key = heap[i].key
        BY <2>1
      <4> QED
        BY <4>1, <4>2
    <3> QED
      BY <1>5, <2>4, <3>1, <3>2
  <2>5. TableInv'
    BY <1>1, <1>2, <1>3, <2>1, <2>2, <2>3 DEF TableInv, K
  <2>6. HeapInv'
    BY <1>2, <2>1, <2>2, <2>5 DEF HeapInv, HeapOrder, Ordered
  <2>7. FiredInv => FiresTell'
    BY <1>2, <2>1, <2>2, <2>3, <2>4 DEF FiresTell, K
  <2> QED
    BY <1>4, <2>6, <2>7 DEF FiredInv
<1>7. CASE ~ heap[1].repeat
  <2> DEFINE g == WithoutTop(heap)
             m == n - 1
  <2>1. /\ g \in Seq(Timer) /\ Len(g) = m /\ Ordered(g)
        /\ KeysDiffer(heap) => KeysDiffer(g)
        /\ \A i \in 2 .. n : \E j \in 1 .. m : g[j] = heap[i]
        /\ \A j \in 1 .. m : \E i \in 2 .. n : g[j] = heap[i]
    BY <1>1, TopRemoved
  <2>2. heap' = g
    BY <1>7 DEF TimerReturns
  <2>3. m <= K /\ \A i \in 1 .. n : i = 1 \/ i \in 2 .. n
    BY <1>1
  <2>4. \A i \in 2 .. n : i \in 1 .. n /\ i # 1
    BY <1>1
  <2> HIDE DEF g, m, n, K
  <2>5. ASSUME NEW j \in 1 .. m
        PROVE  /\ g[j].key \in 1 .. K /\ g[j].id < K
               /\ FiredInv => g[j].repeat \/ fires[g[j].key] = 0
    <3>1. PICK i \in 2 .. n : g[j] = heap[i]
      BY <2>1
    <3>2. i \in 1 .. n /\ i # 1
      BY <2>4
    <3>3. FiredInv => heap[i].repeat \/ fires[heap[i].key] = 0
      BY <1>5, <3>2
    <3> QED
      BY <1>1, <3>1, <3>2, <3>3
  <2>6. ASSUME FiredInv, NEW k \in 1 .. K
        PROVE  fires[k] = 1 \/ \E j \in 1 .. m : g[j].key = k
    <3>1. CASE fires[k] = 1
      BY <3>1
    <3>2. CASE \E i \in 1 .. n : heap[i].key = k
      <4>1. PICK i \in 1 .. n : heap[i].key = k
        BY <3>2
      <4>2. CASE i = 1
        BY <1>5, <1>7, <2>6, <4>1, <4>2
      <4>3. CASE i \in 2 .. n
        <5>1. PICK j \in 1 .. m : g[j] = heap[i]
          BY <2>1, <4>3
        <5> QED
          BY <4>1, <5>1
      <4> QED
        BY <2>3, <4>2, <4>3
    <3> QED
      BY <1>5, <2>6, <3>1, <3>2
  <2>7. TableInv'
    BY <1>1, <1>2, <1>3, <2>1, <2>2, <2>3, <2>5 DEF TableInv, K
  <2>8. HeapInv'
    BY <1>2, <2>1, <2>2, <2>7 DEF HeapInv, HeapOrder, Ordered
  <2>9. FiredInv => FiresTell'
    BY <1>2, <2>1, <2>2, <2>5, <2>6 DEF FiresTell, K
  <2> QED
    BY <1>4, <2>8, <2>9 DEF FiredInv
<1> QED
  BY <1>6, <1>7

(* No other step touches the timers; the firing loop ends with the top not  *)
(* due, and then no timer is, or not active.                                *)
LEMMA OtherSteps ==
    ASSUME LoopInv, HeapInv, UNCHANGED timerVars, pc' = "timer" <=> pc = "timer",
           pc = "timer" => now' = now,
           FiringEnded' => (FiringEnded \/ ~ TopFires) /\ now' = now
    PROVE  HeapInv' /\ (FiredInv => FiredInv')
<1>1. heap' = heap /\ handle' = handle /\ clears' = clears /\ fires' = fires
  BY DEF timerVars
<1>2. HeapInv'
  BY <1>1 DEF HeapInv, TableInv, KeysDiffer, HeapOrder
<1>3. ASSUME FiredInv PROVE FiredIsTop' /\ FiresTell'
  BY <1>1, <1>3 DEF FiredInv, FiredIsTop, FiresTell
<1>4. ASSUME FiredInv, NEW i \in DOMAIN heap, FiringEnded', heap[i].active, heap[i].at <= now
      PROVE  ~ heap[1].active
  <2>1. CASE FiringEnded
    BY <1>4, <2>1 DEF FiredInv, OnlyClearedBlocks
  <2>2. CASE ~ TopFires
    <3>1. heap \in Seq(Timer) /\ Ordered(heap) /\ now \in Nat
      BY Bounds DEF HeapInv, TableInv, HeapOrder, Ordered, LoopInv
    <3>2. i \in 1 .. Len(heap) /\ 1 \in 1 .. Len(heap) /\ Len(heap) > 0
      BY <3>1, TimersOfHeap
    <3>3. heap[1].at <= heap[i].at /\ heap[1].at \in Nat /\ heap[i].at \in Nat
      BY <3>1, <3>2, TopIsLeast, TimersOfHeap
    <3>4. heap[1].at <= now
      BY <1>4, <3>1, <3>3
    <3> QED
      BY <2>2, <3>2, <3>4 DEF TopFires
  <2> QED
    BY <1>4, <2>1, <2>2
<1>5. ASSUME FiredInv PROVE OnlyClearedBlocks'
  <2> SUFFICES ASSUME NEW i \in DOMAIN heap, FiringEnded', heap[i].active, heap[i].at <= now'
               PROVE  ~ heap[1].active
    BY <1>1 DEF OnlyClearedBlocks
  <2> QED
    BY <1>4, <1>5
<1> QED
  BY <1>2, <1>3, <1>5 DEF FiredInv

LEMMA TimerSteps ==
    ASSUME LoopInv, FiberInv, HeapInv, [Next]_vars
    PROVE  HeapInv' /\ (DelaysCoverLead /\ FiredInv => FiredInv')
<1>1. CASE Tick
  <2>1. CASE BeginTick
    BY <2>1, OtherSteps DEF BeginTick, MayTick, FiringEnded
  <2>2. CASE RunTask \/ TaskReturns \/ EndDrain
    BY <2>2, OtherSteps DEF RunTask, TaskReturns, EndDrain, FiringEnded
  <2>3. CASE FireTop
    BY <2>3, FireSteps
  <2>4. CASE TimerReturns
    BY <2>4, ReturnSteps
  <2>5. CASE EndFiring
    BY <2>5, OtherSteps DEF EndFiring, FiringEnded
  <2>6. CASE EnterFiber \/ EndTick
    BY <2>6, OtherSteps DEF EnterFiber, EndTick, FiringEnded
  <2>7. CASE PassFiber \/ FiberReturns
    <3>1. fi \in Nat /\ fi # 0 /\ fi' = fi + 1
      BY <2>7 DEF PassFiber, FiberReturns, FiberInv
    <3>2. ~ FiringEnded'
      BY <3>1 DEF FiringEnded
    <3> QED
      BY <2>7, <3>2, OtherSteps DEF PassFiber, FiberReturns
  <2> QED
    BY <1>1, <2>1, <2>2, <2>3, <2>4, <2>5, <2>6, <2>7 DEF Tick
<1>2. CASE Call
  <2>1. CASE SetTimer \/ RepeatTimer
    <3>1. PICK d \in Delays \cup Intervals, rep \in BOOLEAN : AddTimer(d, rep)
      BY <2>1 DEF SetTimer, RepeatTimer
    <3> QED
      BY <3>1, AddSteps
  <2>2. CASE \E k \in DOMAIN handle : ClearTimer(k)
    BY <2>2, ClearSteps
  <2>3. CASE PostTask
    BY <2>3, OtherSteps DEF PostTask, FiringEnded, fiberVars
  <2>4. CASE SpawnFiber
    BY <2>4, OtherSteps DEF SpawnFiber, FiringEnded
  <2>5. CASE YieldFiber \/ ExitFiber
    BY <2>5, OtherSteps DEF YieldFiber, ExitFiber, MarkCurrent, FiringEnded
  <2> QED
    BY <1>2, <2>1, <2>2, <2>3, <2>4, <2>5 DEF Call
<1>3. CASE RunLoop \/ EmbedLoop \/ StopLoop \/ RunReturns \/ Shutdown
  BY <1>3, OtherSteps DEF RunLoop, EmbedLoop, StopLoop, RunReturns, Shutdown, FiringEnded, fiberVars
<1>4. CASE Advance
  BY <1>4, OtherSteps DEF Advance, FiringEnded, fiberVars
<1>5. CASE UNCHANGED vars
  BY <1>5, OtherSteps DEF vars, FiringEnded, fiberVars
<1> QED
  BY <1>1, <1>2, <1>3, <1>4, <1>5 DEF Next

-----------------------------------------------------------------------------
(* The table of timers stays a heap of timers that were set, each once, and *)
(* the fibers come past are dead.                                           *)
THEOREM HeapInvariance == Spec => [](LoopInv /\ HeapInv /\ FiberInv)
<1>1. Init => LoopInv /\ HeapInv /\ FiberInv
  BY Starts DEF IInv
<1>2. LoopInv /\ HeapInv /\ FiberInv /\ [Next]_vars => (LoopInv /\ HeapInv /\ FiberInv)'
  BY LoopSteps, TimerSteps, FiberSteps
<1> QED
  BY <1>1, <1>2, PTL DEF Spec

(* When no delay is shorter than the lead of the time given to a tick, the  *)
(* timer fired stays at the top until its callback returns, and the heap    *)
(* holds what has not fired for good.                                       *)
THEOREM Invariance == ASSUME DelaysCoverLead PROVE Spec => []IInv
<1>1. Init => IInv
  BY Starts
<1>2. IInv /\ [Next]_vars => IInv'
  BY LoopSteps, TimerSteps, FiberSteps DEF IInv
<1> QED
  BY <1>1, <1>2, PTL DEF Spec

(* However callbacks set and clear timers: no timer is lost or held twice,  *)
(* none fires more often than it should, and firing ends only when the top  *)
(* is not due or was cleared.                                               *)
LEMMA KeptTimers == IInv => TimersKept
<1> SUFFICES ASSUME IInv PROVE TimersKept
  OBVIOUS
<1> DEFINE m == Len(heap)
           K == Len(handle)
<1>1. /\ heap \in Seq(Timer) /\ handle \in Seq(Nat) /\ fires \in Seq(Nat) /\ Len(fires) = K
      /\ \A i \in 1 .. m : heap[i].key \in 1 .. K /\ heap[i].id < K
      /\ KeysDiffer(heap) /\ clears \subseteq 1 .. K
  BY DEF IInv, HeapInv, TableInv
<1>2. /\ DOMAIN heap = 1 .. m /\ DOMAIN handle = 1 .. K /\ DOMAIN fires = 1 .. K
      /\ m \in Nat /\ K \in Nat
      /\ \A i \in 1 .. m : heap[i].at \in Nat /\ heap[i].id \in Nat
  BY <1>1, TimersOfHeap, LenProperties
<1>3. TypeOK
  <2>1. /\ fibers \in Seq({"IDLE", "RUNNING", "WAITING", "DEAD"})
        /\ current \in {0, fi} /\ DOMAIN entries = DOMAIN fibers
    BY LenProperties DEF IInv, FiberInv
  <2>2. \A i \in DOMAIN heap : /\ heap[i].key \in DOMAIN handle /\ heap[i].at \in Nat
                               /\ heap[i].id \in 0 .. (Len(handle) - 1)
    BY <1>1, <1>2
  <2> QED
    BY <1>1, <1>2, <2>1, <2>2 DEF IInv, LoopInv, TypeOK
<1>4. NoTimerLost
  <2> SUFFICES ASSUME NEW k \in 1 .. K
               PROVE  LET slots == {i \in DOMAIN heap : heap[i].key = k}
                      IN /\ Cardinality(slots) <= 1
                         /\ slots = {} => fires[k] = 1
                         /\ \A i \in slots : \/ heap[i].repeat
                                             \/ fires[k] <= (IF pc = "timer" THEN 1 ELSE 0)
    BY <1>2 DEF NoTimerLost
  <2> DEFINE slots == {i \in 1 .. m : heap[i].key = k}
  <2>1. Cardinality(slots) <= 1
    <3>1. CASE slots = {}
      BY <3>1, FS_EmptySet
    <3>2. CASE slots # {}
      <4>1. PICK i \in slots : TRUE
        BY <3>2
      <4>2. slots = {i}
        BY <1>1, <4>1 DEF KeysDiffer
      <4>3. Cardinality(slots) = 1
        BY <4>2, FS_Singleton
      <4> QED
        BY <4>3
    <3> QED
      BY <3>1, <3>2
  <2>2. slots = {} => fires[k] = 1
    BY DEF IInv, FiredInv, FiresTell
  <2>3. \A i \in slots : heap[i].repeat \/ fires[k] <= (IF pc = "timer" THEN 1 ELSE 0)
    BY DEF IInv, FiredInv, FiresTell
  <2> HIDE DEF slots
  <2> QED
    BY <1>2, <2>1, <2>2, <2>3 DEF slots
<1> QED
  BY <1>3, <1>4 DEF IInv, HeapInv, FiredInv, TimersKept

THEOREM TimersAreKept == ASSUME DelaysCoverLead PROVE Spec => []TimersKept
BY Invariance, KeptTimers, PTL

(* A step that fires a timer fires the one that is due first, and never     *)
(* before its time.                                                         *)
LEMMA FiresEarliest ==
    ASSUME HeapInv, [Next]_vars, NEW k \in DOMAIN handle, fires'[k] # fires[k]
    PROVE  \E i \in DOMAIN heap :
             /\ heap[i].key = k /\ heap[i].at <= now
             /\ \A j \in DOMAIN heap : heap[j].at >= heap[i].at
<1>1. /\ heap \in Seq(Timer) /\ Ordered(heap) /\ k \in 1 .. Len(fires) /\ fires \in Seq(Nat)
      /\ Len(heap) \in Nat /\ DOMAIN heap = 1 .. Len(heap) /\ DOMAIN fires = 1 .. Len(fires)
  BY LenProperties DEF HeapInv, TableInv, HeapOrder, Ordered
<1>2. FireTop \/ fires' = fires \/ fires' = Append(fires, 0)
  BY DEF Next, vars, timerVars, Tick, Call, BeginTick, RunTask, TaskReturns, EndDrain,
         TimerReturns, EndFiring, EnterFiber, PassFiber, FiberReturns, EndTick, SetTimer,
         RepeatTimer, AddTimer, ClearTimer, PostTask, SpawnFiber, YieldFiber, ExitFiber,
         MarkCurrent, RunLoop, EmbedLoop, StopLoop, RunReturns, Shutdown, Advance
<1>3. FireTop
  BY <1>1, <1>2, AppendProperties
<1>4. 1 \in DOMAIN heap /\ heap[1].at <= now /\ fires' = [fires EXCEPT ![heap[1].key] = @ + 1]
  BY <1>1, <1>3 DEF FireTop, TopFires
<1>5. heap[1].key = k
  BY <1>1, <1>4
<1>6. \A j \in DOMAIN heap : heap[j].at >= heap[1].at
  BY <1>1, <1>4, TopIsLeast, TimersOfHeap
<1> QED
  BY <1>4, <1>5, <1>6

THEOREM FiresByTime == Spec => FiresInOrder
<1>1. HeapInv /\ [Next]_vars
        => [\A k \in DOMAIN handle : fires'[k] # fires[k] =>
              \E i \in DOMAIN heap :
                /\ heap[i].key = k /\ heap[i].at <= now
                /\ \A j \in DOMAIN heap : heap[j].at >= heap[i].at]_vars
  BY FiresEarliest
<1> QED
  BY <1>1, HeapInvariance, PTL DEF Spec, FiresInOrder

(* A fiber's function is entered once, and no fiber is left when a tick     *)
(* ends, whatever is spawned, yielded or ended on the way.                  *)
THEOREM FibersRun == Spec => []FibersRunOnce
<1>1. FiberInv => FibersRunOnce
  <2> SUFFICES ASSUME FiberInv PROVE FibersRunOnce
    OBVIOUS
  <2>1. DOMAIN fibers = 1 .. Len(fibers) /\ Len(fibers) \in Nat /\ fi \in Nat
    BY LenProperties DEF FiberInv
  <2>2. \A f \in 1 .. Len(fibers) : entries[f] <= 1
    BY DEF FiberInv
  <2>3. ASSUME pc = "fibers", ~ MoreFibers, NEW f \in 1 .. Len(fibers)
        PROVE  fibers[f] = "DEAD" /\ entries[f] = 1
    <3>1. f < fi /\ current = 0
      BY <2>1, <2>3 DEF MoreFibers, FiberInv
    <3> QED
      BY <2>3, <3>1 DEF FiberInv
  <2> QED
    BY <2>1, <2>2, <2>3 DEF FibersRunOnce
<1> QED
  BY <1>1, HeapInvariance, PTL
===============================================================================
