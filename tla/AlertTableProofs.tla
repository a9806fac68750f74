---------------------------- MODULE AlertTableProofs ----------------------------
(***************************************************************************)
(* Proofs about the threat table, for tables of any size: the insertion    *)
(* sort of alert_sort is a stable sort, and what handle_alert and          *)
(* render_threats keep true of the table.  The modules that compose the    *)
(* table with the rest of the program cite these lemmas.                   *)
(***************************************************************************)
EXTENDS AlertTable, SequenceTheorems, FiniteSetTheorems, WellFoundedInduction, TLAPS

-----------------------------------------------------------------------------
(* Induction over the numbers, for a set of them.                           *)
LEMMA LeastNumber == ASSUME NEW T, T \subseteq Nat, T # {}
                     PROVE  \E m \in T : \A y \in T : m <= y
<1> DEFINE R == OpToRel(<, Nat)
<1>1. \A x, y \in Nat : <<y, x>> \in R <=> y < x
  BY DEF OpToRel
<1>2. IsWellFoundedOn(R, Nat)
  BY NatLessThanWellFounded
<1> HIDE DEF R
<1>3. PICK x \in T : \A y \in T : ~ (<<y, x>> \in R)
  BY <1>2, WFMin
<1>4. ASSUME NEW y \in T PROVE x <= y
  <2>1. x \in Nat /\ y \in Nat /\ ~ (y < x)
    BY <1>1, <1>3
  <2> QED
    BY <2>1
<1> QED
  BY <1>4

LEMMA Induction == ASSUME NEW S, 0 \in S, \A n \in Nat : n \in S => n + 1 \in S
                   PROVE  Nat \subseteq S
<1>1. SUFFICES ASSUME Nat \ S # {} PROVE FALSE
  OBVIOUS
<1>2. PICK m \in Nat \ S : \A y \in Nat \ S : m <= y
  BY <1>1, LeastNumber
<1>3. m # 0 /\ m - 1 \in Nat
  BY <1>2
<1>4. m - 1 \in S
  BY <1>2, <1>3
<1> QED
  BY <1>2, <1>3, <1>4

(* What Max and Min of the library are.                                     *)
LEMMA MaxOf == ASSUME NEW n \in Nat, NEW T, T \subseteq 0 .. n, T # {}
               PROVE  Max(T) \in T /\ \A x \in T : x <= Max(T)
<1> DEFINE U == {k \in Nat : \A x \in T : x <= k}
<1>1. n \in U
  OBVIOUS
<1>2. PICK m \in U : \A k \in U : m <= k
  BY <1>1, LeastNumber
<1>3. m \in T
  <2> SUFFICES ASSUME m \notin T PROVE FALSE
    OBVIOUS
  <2>1. \A x \in T : x <= m - 1
    BY <1>2
  <2>2. m - 1 \in Nat
    <3>1. PICK x \in T : TRUE
      OBVIOUS
    <3>2. x <= m - 1 /\ x \in Nat
      BY <2>1
    <3> QED
      BY <1>2, <3>2
  <2>3. m - 1 \in U
    BY <2>1, <2>2
  <2> QED
    BY <1>2, <2>3
<1> QED
  BY <1>2, <1>3 DEF Max

LEMMA MinOf == ASSUME NEW T, T \subseteq Nat, T # {}
               PROVE  Min(T) \in T /\ \A x \in T : Min(T) <= x
BY LeastNumber DEF Min

LEMMA MinOfTwo == ASSUME NEW a \in Nat, NEW b \in Nat
                  PROVE  Min({a, b}) = IF a <= b THEN a ELSE b
<1>1. Min({a, b}) \in {a, b} /\ \A x \in {a, b} : Min({a, b}) <= x
  BY MinOf
<1> QED
  BY <1>1

-----------------------------------------------------------------------------
(* The rows of a table: anything with a severity.                           *)
RowSet(R) == \A row \in R : row.sev \in Nat

Falling(s) == \A i, j \in 1 .. Len(s) : i < j => s[i].sev >= s[j].sev

(* The place alert_sort's inner loop stops at: below the rows that are at   *)
(* least as severe.                                                         *)
Above(s, row) == SelectLastInSeq(s, LAMBDA above : above.sev >= row.sev)

LEMMA PlaceBelowEquals ==
    ASSUME NEW R, RowSet(R), NEW s \in Seq(R), NEW row \in R, Falling(s)
    PROVE  /\ Above(s, row) \in 0 .. Len(s)
           /\ \A i \in 1 .. Len(s) : i <= Above(s, row) => s[i].sev >= row.sev
           /\ \A i \in 1 .. Len(s) : i > Above(s, row) => s[i].sev < row.sev
<1> DEFINE I == {i \in 1 .. Len(s) : s[i].sev >= row.sev}
           p == Above(s, row)
<1>1. Len(s) \in Nat /\ \A i \in 1 .. Len(s) : s[i] \in R
  BY LenProperties, ElementOfSeq
<1>2. row.sev \in Nat /\ \A i \in 1 .. Len(s) : s[i].sev \in Nat
  BY <1>1 DEF RowSet
<1>3. p = IF I # {} THEN Max(I) ELSE 0
  BY DEF Above, SelectLastInSeq
<1>4. CASE I = {}
  BY <1>1, <1>2, <1>3, <1>4
<1>5. CASE I # {}
  <2>1. I \subseteq 0 .. Len(s)
    BY <1>1
  <2>2. p \in I /\ \A x \in I : x <= p
    BY <1>1, <1>3, <1>5, <2>1, MaxOf
  <2> HIDE DEF p
  <2>3. ASSUME NEW i \in 1 .. Len(s), i <= p PROVE s[i].sev >= row.sev
    <3>1. s[i].sev >= s[p].sev
      BY <1>1, <1>2, <2>2, <2>3 DEF Falling
    <3> QED
      BY <1>2, <2>2, <3>1
  <2>4. ASSUME NEW i \in 1 .. Len(s), i > p PROVE s[i].sev < row.sev
    <3>1. i \notin I
      BY <1>1, <2>2, <2>4
    <3> QED
      BY <1>2, <3>1
  <2>5. p \in 0 .. Len(s)
    BY <1>1, <2>2
  <2> QED
    BY <2>3, <2>4, <2>5 DEF p
<1> QED
  BY <1>4, <1>5

(* One turn of the outer loop: the row is put at its place, those below it  *)
(* move down by one.                                                        *)
LEMMA InsertShape ==
    ASSUME NEW R, RowSet(R), NEW s \in Seq(R), NEW row \in R, Falling(s)
    PROVE  /\ Insert(s, row) \in Seq(R)
           /\ Len(Insert(s, row)) = Len(s) + 1
           /\ \A i \in 1 .. Len(s) + 1 :
                 Insert(s, row)[i] = IF i <= Above(s, row) THEN s[i]
                                     ELSE IF i = Above(s, row) + 1 THEN row
                                     ELSE s[i - 1]
<1> DEFINE p == Above(s, row)
           n == Len(s)
           a == SubSeq(s, 1, p)
           b == SubSeq(s, p + 1, n)
<1>1. p \in 0 .. n /\ n \in Nat /\ \A i \in 1 .. n : s[i] \in R
  BY PlaceBelowEquals, LenProperties, ElementOfSeq
<1>2. Insert(s, row) = (a \o <<row>>) \o b
  BY DEF Insert, Above
<1> HIDE DEF p
<1>3. a \in Seq(R) /\ Len(a) = p /\ \A i \in 1 .. p : a[i] = s[i]
  BY <1>1, SubSeqProperties
<1>4. b \in Seq(R) /\ Len(b) = n - p /\ \A i \in 1 .. n - p : b[i] = s[p + i]
  <2>1. \A i \in p + 1 .. n : s[i] \in R
    BY <1>1
  <2>2. /\ b \in Seq(R) /\ Len(b) = (IF p + 1 <= n THEN n - (p + 1) + 1 ELSE 0)
        /\ \A i \in 1 .. n - (p + 1) + 1 : b[i] = s[p + 1 + i - 1]
    BY <1>1, <2>1, SubSeqProperties
  <2>3. Len(b) = n - p
    BY <1>1, <2>2
  <2>4. n - (p + 1) + 1 = n - p /\ \A i \in 1 .. n - p : p + 1 + i - 1 = p + i
    BY <1>1
  <2> QED
    BY <2>2, <2>3, <2>4
<1> HIDE DEF a, b
<1>5. /\ a \o <<row>> \in Seq(R) /\ Len(a \o <<row>>) = p + 1
      /\ \A i \in 1 .. p + 1 : (a \o <<row>>)[i] = IF i <= p THEN s[i] ELSE row
  <2>1. <<row>> \in Seq(R) /\ Len(<<row>>) = 1 /\ <<row>>[1] = row
    OBVIOUS
  <2>2. /\ a \o <<row>> \in Seq(R) /\ Len(a \o <<row>>) = p + 1
        /\ \A i \in 1 .. p + 1 : (a \o <<row>>)[i] = IF i <= p THEN a[i] ELSE <<row>>[i - p]
    BY <1>3, <2>1, ConcatProperties
  <2>3. \A i \in 1 .. p + 1 : i <= p \/ i - p = 1
    BY <1>1
  <2>4. \A i \in 1 .. p + 1 : i <= p => i \in 1 .. p
    BY <1>1
  <2> QED
    BY <1>3, <2>1, <2>2, <2>3, <2>4
<1> DEFINE c == a \o <<row>>
<1>6. /\ Insert(s, row) \in Seq(R) /\ Len(Insert(s, row)) = p + 1 + (n - p)
      /\ \A i \in 1 .. p + 1 + (n - p) :
            Insert(s, row)[i] = IF i <= p + 1 THEN c[i] ELSE b[i - (p + 1)]
  <2>1. c \in Seq(R) /\ Len(c) = p + 1 /\ Insert(s, row) = c \o b
    BY <1>2, <1>5
  <2> HIDE DEF c
  <2>2. b \in Seq(R) /\ Len(b) = n - p
    BY <1>4
  <2>3. /\ c \o b \in Seq(R) /\ Len(c \o b) = Len(c) + Len(b)
        /\ \A i \in 1 .. Len(c) + Len(b) : (c \o b)[i] = IF i <= Len(c) THEN c[i] ELSE b[i - Len(c)]
    BY <2>1, <2>2, ConcatProperties
  <2> QED
    BY <2>1, <2>2, <2>3
<1>7. p + 1 + (n - p) = n + 1
  BY <1>1
<1>8. ASSUME NEW i \in 1 .. n + 1
      PROVE Insert(s, row)[i] = IF i <= p THEN s[i] ELSE IF i = p + 1 THEN row ELSE s[i - 1]
  <2>1. CASE i <= p + 1
    <3>1. i \in 1 .. p + 1 /\ (i <= p \/ i = p + 1) /\ ~ (p + 1 <= p)
      BY <1>1, <2>1
    <3> QED
      BY <1>5, <1>6, <1>7, <2>1, <3>1
  <2>2. CASE ~ (i <= p + 1)
    <3>1. i - (p + 1) \in 1 .. n - p /\ p + (i - (p + 1)) = i - 1 /\ ~ (i <= p) /\ i # p + 1
      BY <1>1, <2>2
    <3> QED
      BY <1>4, <1>6, <1>7, <2>2, <3>1
  <2> QED
    BY <2>1, <2>2
<1> QED
  BY <1>6, <1>7, <1>8 DEF p

-----------------------------------------------------------------------------
(* The outer loop: what it has sorted after k rows.                         *)
UpTo(table) == CHOOSE f : f = [k \in 0 .. Len(table) |->
                                  IF k = 0 THEN <<>> ELSE Insert(f[k - 1], table[k])]

(* The recursion has a solution: a function that follows it up to k can be  *)
(* continued to k + 1.                                                      *)
Follows(f, table, n) ==
    \A k \in 0 .. n : f[k] = IF k = 0 THEN <<>> ELSE Insert(f[k - 1], table[k])

LEMMA RecursionHolds ==
    ASSUME NEW table, Len(table) \in Nat
    PROVE  /\ Sorted(table) = UpTo(table)[Len(table)]
           /\ UpTo(table)[0] = <<>>
           /\ \A k \in 1 .. Len(table) : UpTo(table)[k] = Insert(UpTo(table)[k - 1], table[k])
<1> DEFINE n == Len(table)
           Step(f, k) == IF k = 0 THEN <<>> ELSE Insert(f[k - 1], table[k])
           S == {m \in Nat : \E f : Follows(f, table, m)}
<1>1. 0 \in S
  <2>1. Follows([k \in 0 .. 0 |-> <<>>], table, 0)
    BY DEF Follows
  <2> QED
    BY <2>1
<1>2. ASSUME NEW m \in Nat, m \in S PROVE m + 1 \in S
  <2>1. PICK f : Follows(f, table, m)
    BY <1>2
  <2> DEFINE g == [k \in 0 .. m + 1 |-> IF k = m + 1 THEN Insert(f[m], table[m + 1]) ELSE f[k]]
  <2>2. \A k \in 0 .. m : g[k] = f[k]
    OBVIOUS
  <2>3. g[m + 1] = Insert(f[m], table[m + 1])
    OBVIOUS
  <2> HIDE DEF g
  <2>4. ASSUME NEW k \in 0 .. m + 1
        PROVE g[k] = IF k = 0 THEN <<>> ELSE Insert(g[k - 1], table[k])
    <3>1. CASE k = m + 1
      <4>1. k # 0 /\ k - 1 = m /\ m \in 0 .. m
        BY <3>1
      <4> QED
        BY <2>2, <2>3, <3>1, <4>1
    <3>2. CASE k # m + 1
      <4>1. k \in 0 .. m /\ (k # 0 => k - 1 \in 0 .. m)
        BY <3>2
      <4> QED
        BY <2>1, <2>2, <4>1 DEF Follows
    <3> QED
      BY <3>1, <3>2
  <2>5. Follows(g, table, m + 1)
    BY <2>4 DEF Follows
  <2> QED
    BY <2>5
<1>3. \A m \in Nat : m \in S
  <2> HIDE DEF S
  <2> QED
    BY <1>1, <1>2, Induction
<1>4. PICK f : Follows(f, table, n)
  BY <1>3
<1> DEFINE h == [k \in 0 .. n |-> f[k]]
<1>5. h = [k \in 0 .. n |-> IF k = 0 THEN <<>> ELSE Insert(h[k - 1], table[k])]
  <2>1. ASSUME NEW k \in 0 .. n PROVE h[k] = IF k = 0 THEN <<>> ELSE Insert(h[k - 1], table[k])
    <3>1. k # 0 => k - 1 \in 0 .. n
      OBVIOUS
    <3>2. f[k] = IF k = 0 THEN <<>> ELSE Insert(f[k - 1], table[k])
      BY <1>4 DEF Follows
    <3> QED
      BY <3>1, <3>2
  <2> QED
    BY <2>1
<1> HIDE DEF h
<1>6. UpTo(table) = [k \in 0 .. n |-> IF k = 0 THEN <<>> ELSE Insert(UpTo(table)[k - 1], table[k])]
  BY <1>5 DEF UpTo
<1>7. Sorted(table) = UpTo(table)[n]
  BY DEF Sorted, UpTo
<1>8. ASSUME NEW k \in 0 .. n
      PROVE UpTo(table)[k] = IF k = 0 THEN <<>> ELSE Insert(UpTo(table)[k - 1], table[k])
  BY <1>6
<1> QED
  BY <1>7, <1>8

(* `from` tells where each of the k rows of `s` was in the table.           *)
Arranged(s, table, k, from) ==
    /\ Len(s) = k /\ from \in [1 .. k -> 1 .. k]
    /\ \A r \in 1 .. k : \E i \in 1 .. k : from[i] = r
    /\ \A i \in 1 .. k : s[i] = table[from[i]]
    /\ \A i, j \in 1 .. k : i < j => \/ s[i].sev > s[j].sev
                                     \/ s[i].sev = s[j].sev /\ from[i] < from[j]

LEMMA ArrangedFalls ==
    ASSUME NEW R, RowSet(R), NEW s \in Seq(R), NEW table, NEW k, NEW from, Arranged(s, table, k, from)
    PROVE  Falling(s)
<1>1. Len(s) = k
  BY DEF Arranged
<1>2. ASSUME NEW i \in 1 .. Len(s) PROVE s[i].sev \in Nat
  <2>1. s[i] \in R
    BY ElementOfSeq
  <2> QED
    BY <2>1 DEF RowSet
<1>3. ASSUME NEW i \in 1 .. Len(s), NEW j \in 1 .. Len(s), i < j PROVE s[i].sev >= s[j].sev
  <2>1. s[i].sev > s[j].sev \/ s[i].sev = s[j].sev
    BY <1>1, <1>3 DEF Arranged
  <2>2. \A a, b \in Nat : a > b \/ a = b => a >= b
    OBVIOUS
  <2>3. s[i].sev \in Nat /\ s[j].sev \in Nat
    BY <1>2
  <2> QED
    BY <2>1, <2>2, <2>3
<1> QED
  BY <1>3 DEF Falling

(* One turn of the outer loop arranges one row more.                        *)
LEMMA InsertArranges ==
    ASSUME NEW R, RowSet(R), NEW table \in Seq(R), NEW k \in 0 .. Len(table) - 1,
           NEW s \in Seq(R), NEW from, Arranged(s, table, k, from)
    PROVE  /\ Insert(s, table[k + 1]) \in Seq(R)
           /\ \E g : Arranged(Insert(s, table[k + 1]), table, k + 1, g)
<1> DEFINE row == table[k + 1]
           p == Above(s, row)
           t == Insert(s, row)
           g == [i \in 1 .. k + 1 |-> IF i <= p THEN from[i] ELSE IF i = p + 1 THEN k + 1 ELSE from[i - 1]]
<1>1. Len(table) \in Nat /\ k \in Nat /\ k + 1 \in 1 .. Len(table)
  BY LenProperties
<1>2. row \in R /\ Falling(s) /\ Len(s) = k
  <2>1. row \in R
    BY <1>1, ElementOfSeq
  <2>2. Len(s) = k
    BY DEF Arranged
  <2>3. Falling(s)
    BY ArrangedFalls
  <2> QED
    BY <2>1, <2>2, <2>3
<1>3. /\ p \in 0 .. k
      /\ \A i \in 1 .. k : i <= p => s[i].sev >= row.sev
      /\ \A i \in 1 .. k : i > p => s[i].sev < row.sev
  BY <1>2, PlaceBelowEquals
<1>4. /\ t \in Seq(R) /\ Len(t) = k + 1
      /\ \A i \in 1 .. k + 1 : t[i] = IF i <= p THEN s[i] ELSE IF i = p + 1 THEN row ELSE s[i - 1]
  <2>1. t \in Seq(R) /\ Len(t) = Len(s) + 1
    BY <1>2, InsertShape
  <2>2. ASSUME NEW i \in 1 .. Len(s) + 1
        PROVE t[i] = IF i <= p THEN s[i] ELSE IF i = p + 1 THEN row ELSE s[i - 1]
    <3>1. row \in R /\ Falling(s)
      BY <1>2
    <3> HIDE DEF row
    <3> QED
      BY <3>1, InsertShape, SMTT(30)
  <2> HIDE DEF t, p, row
  <2> QED
    BY <1>2, <2>1, <2>2
<1>5. row.sev \in Nat /\ \A i \in 1 .. k : s[i].sev \in Nat
  BY <1>2, ElementOfSeq DEF RowSet
<1>6. /\ from \in [1 .. k -> 1 .. k] /\ \A r \in 1 .. k : \E i \in 1 .. k : from[i] = r
      /\ \A i \in 1 .. k : s[i] = table[from[i]]
      /\ \A i, j \in 1 .. k : i < j => s[i].sev > s[j].sev \/ (s[i].sev = s[j].sev /\ from[i] < from[j])
  BY DEF Arranged
<1> HIDE DEF p, row, t
(* Each place of the new sequence is one of three kinds. *)
<1>7. ASSUME NEW i \in 1 .. k + 1
      PROVE \/ i <= p /\ i \in 1 .. k /\ t[i] = s[i] /\ g[i] = from[i]
            \/ i = p + 1 /\ t[i] = row /\ g[i] = k + 1
            \/ i > p + 1 /\ i - 1 \in 1 .. k /\ i - 1 > p /\ t[i] = s[i - 1] /\ g[i] = from[i - 1]
  <2>1. CASE i <= p
    BY <1>1, <1>3, <1>4, <2>1
  <2>2. CASE i = p + 1
    BY <1>1, <1>3, <1>4, <2>2
  <2>3. CASE i > p + 1
    <3>1. ~ (i <= p) /\ i # p + 1 /\ i - 1 \in 1 .. k /\ i - 1 > p
      BY <1>1, <1>3, <2>3
    <3> QED
      BY <1>4, <2>3, <3>1
  <2> QED
    BY <1>1, <1>3, <2>1, <2>2, <2>3
<1>8. g \in [1 .. k + 1 -> 1 .. k + 1]
  <2>1. ASSUME NEW i \in 1 .. k + 1 PROVE g[i] \in 1 .. k + 1
    <3> HIDE DEF g
    <3>1. \A m \in 1 .. k : from[m] \in 1 .. k
      BY <1>6
    <3>2. 1 .. k \subseteq 1 .. k + 1 /\ k + 1 \in 1 .. k + 1
      BY <1>1
    <3>3. (\E m \in 1 .. k : g[i] = from[m]) \/ g[i] = k + 1
      BY <1>7
    <3> QED
      BY <3>1, <3>2, <3>3
  <2>2. g = [i \in 1 .. k + 1 |-> g[i]]
    OBVIOUS
  <2> HIDE DEF g
  <2> QED
    BY <2>1, <2>2
<1>9. \A r \in 1 .. k + 1 : \E i \in 1 .. k + 1 : g[i] = r
  <2> SUFFICES ASSUME NEW r \in 1 .. k + 1 PROVE \E i \in 1 .. k + 1 : g[i] = r
    OBVIOUS
  <2>1. CASE r = k + 1
    <3>1. p + 1 \in 1 .. k + 1 /\ ~ (p + 1 <= p)
      BY <1>1, <1>3
    <3>2. g[p + 1] = k + 1
      BY <3>1
    <3> QED
      BY <2>1, <3>1, <3>2
  <2>2. CASE r # k + 1
    <3>1. PICK i \in 1 .. k : from[i] = r
      BY <1>1, <1>6, <2>2
    <3>2. CASE i <= p
      <4>1. i \in 1 .. k + 1 /\ g[i] = from[i]
        BY <1>1, <3>2
      <4> QED
        BY <3>1, <4>1
    <3>3. CASE ~ (i <= p)
      <4>1. i + 1 \in 1 .. k + 1 /\ ~ (i + 1 <= p) /\ i + 1 # p + 1 /\ (i + 1) - 1 = i
        BY <1>1, <1>3, <3>3
      <4>2. g[i + 1] = from[i]
        BY <4>1
      <4> QED
        BY <3>1, <4>1, <4>2
    <3> QED
      BY <3>2, <3>3
  <2> QED
    BY <2>1, <2>2
<1> HIDE DEF g
<1>10. ASSUME NEW i \in 1 .. k + 1 PROVE t[i] = table[g[i]]
  <2>1. \A m \in 1 .. k : s[m] = table[from[m]]
    BY <1>6
  <2>2. \/ t[i] = table[k + 1] /\ g[i] = k + 1
        \/ \E m \in 1 .. k : t[i] = s[m] /\ g[i] = from[m]
    BY <1>7 DEF row
  <2> QED
    BY <2>1, <2>2
<1>11. ASSUME NEW i \in 1 .. k + 1, NEW j \in 1 .. k + 1, i < j
       PROVE t[i].sev > t[j].sev \/ (t[i].sev = t[j].sev /\ g[i] < g[j])
  <2>1. CASE i <= p /\ j <= p
    <3>1. ~ (i = p + 1) /\ ~ (i > p + 1) /\ ~ (j = p + 1) /\ ~ (j > p + 1)
      BY <1>3, <2>1
    <3>2. i \in 1 .. k /\ t[i] = s[i] /\ g[i] = from[i]
      BY <1>7, <3>1
    <3>3. j \in 1 .. k /\ t[j] = s[j] /\ g[j] = from[j]
      BY <1>7, <3>1
    <3>4. s[i].sev > s[j].sev \/ (s[i].sev = s[j].sev /\ from[i] < from[j])
      BY <1>6, <1>11, <3>2, <3>3
    <3> QED
      BY <3>2, <3>3, <3>4
  <2>2. CASE i <= p /\ j = p + 1
    <3>1. t[i] = s[i] /\ g[i] = from[i] /\ i \in 1 .. k /\ t[j] = row /\ g[j] = k + 1
      BY <1>3, <1>7, <2>2
    <3>2. s[i].sev >= row.sev /\ from[i] \in 1 .. k
      BY <1>3, <1>6, <2>2, <3>1
    <3>3. from[i] < k + 1
      BY <1>1, <3>2
    <3> QED
      BY <1>5, <3>1, <3>2, <3>3
  <2>3. CASE i <= p /\ j > p + 1
    <3>1. t[i] = s[i] /\ g[i] = from[i] /\ i \in 1 .. k
          /\ t[j] = s[j - 1] /\ g[j] = from[j - 1] /\ j - 1 \in 1 .. k /\ i < j - 1
      BY <1>1, <1>3, <1>7, <2>3
    <3>2. s[i].sev > s[j - 1].sev \/ (s[i].sev = s[j - 1].sev /\ from[i] < from[j - 1])
      BY <1>6, <3>1
    <3> QED
      BY <3>1, <3>2
  <2>4. CASE i = p + 1 /\ j > p + 1
    <3>1. t[i] = row /\ t[j] = s[j - 1] /\ j - 1 \in 1 .. k /\ j - 1 > p
      BY <1>1, <1>3, <1>7, <2>4
    <3>2. s[j - 1].sev < row.sev
      BY <1>3, <3>1
    <3> QED
      BY <1>5, <3>1, <3>2
  <2>5. CASE i > p + 1 /\ j > p + 1
    <3>1. t[i] = s[i - 1] /\ g[i] = from[i - 1] /\ i - 1 \in 1 .. k
          /\ t[j] = s[j - 1] /\ g[j] = from[j - 1] /\ j - 1 \in 1 .. k /\ i - 1 < j - 1
      BY <1>1, <1>3, <1>7, <1>11, <2>5
    <3>2. s[i - 1].sev > s[j - 1].sev \/ (s[i - 1].sev = s[j - 1].sev /\ from[i - 1] < from[j - 1])
      BY <1>6, <3>1
    <3> QED
      BY <3>1, <3>2
  <2>6. \A a, b, c \in Int : a < b => \/ a <= c /\ b <= c
                                      \/ a <= c /\ b = c + 1
                                      \/ a <= c /\ b > c + 1
                                      \/ a = c + 1 /\ b > c + 1
                                      \/ a > c + 1 /\ b > c + 1
    OBVIOUS
  <2>7. i \in Int /\ j \in Int /\ p \in Int
    BY <1>1, <1>3
  <2>8. \/ i <= p /\ j <= p
        \/ i <= p /\ j = p + 1
        \/ i <= p /\ j > p + 1
        \/ i = p + 1 /\ j > p + 1
        \/ i > p + 1 /\ j > p + 1
    BY <1>11, <2>6, <2>7
  <2> QED
    BY <2>1, <2>2, <2>3, <2>4, <2>5, <2>8
<1>12. Arranged(t, table, k + 1, g)
  BY <1>4, <1>8, <1>9, <1>10, <1>11 DEF Arranged
<1> QED
  BY <1>4, <1>12 DEF t, row

(* alert_sort is a stable sort, of a table of any length.                   *)
LEMMA SortIsStable ==
    ASSUME NEW R, RowSet(R), NEW table \in Seq(R)
    PROVE  Sorted(table) \in Seq(R) /\ IsStableSort(Sorted(table), table) /\ Falling(Sorted(table))
<1> DEFINE n == Len(table)
           Done(k) == UpTo(table)[k] \in Seq(R) /\ \E from : Arranged(UpTo(table)[k], table, k, from)
           S == {k \in Nat : k <= n => Done(k)}
<1>1. n \in Nat /\ DOMAIN table = 1 .. n
  BY LenProperties
<1>2. 0 \in S
  <2>1. UpTo(table)[0] = <<>>
    BY <1>1, RecursionHolds
  <2>2. <<>> \in Seq(R) /\ Len(<<>>) = 0
    BY EmptySeq
  <2>3. Arranged(<<>>, table, 0, [i \in 1 .. 0 |-> i])
    BY <2>2 DEF Arranged
  <2> QED
    BY <2>1, <2>2, <2>3
<1>3. ASSUME NEW k \in Nat, k \in S PROVE k + 1 \in S
  <2> SUFFICES ASSUME k + 1 <= n PROVE Done(k + 1)
    OBVIOUS
  <2>1. k \in 0 .. n - 1 /\ k + 1 \in 1 .. n /\ (k + 1) - 1 = k
    BY <1>1
  <2>2. UpTo(table)[k + 1] = Insert(UpTo(table)[k], table[k + 1])
    BY <1>1, <2>1, RecursionHolds
  <2>3. Done(k)
    BY <1>1, <1>3
  <2>4. PICK from : Arranged(UpTo(table)[k], table, k, from)
    BY <2>3
  <2>5. UpTo(table)[k] \in Seq(R)
    BY <2>3
  <2> HIDE DEF Done, S, n
  <2>6. /\ Insert(UpTo(table)[k], table[k + 1]) \in Seq(R)
        /\ \E g : Arranged(Insert(UpTo(table)[k], table[k + 1]), table, k + 1, g)
    BY <2>1, <2>4, <2>5, InsertArranges DEF n
  <2> QED
    BY <2>2, <2>6 DEF Done
<1>4. Done(n)
  <2> HIDE DEF S
  <2>1. n \in S
    BY <1>1, <1>2, <1>3, Induction
  <2> QED
    BY <1>1, <2>1 DEF S
<1>5. Sorted(table) = UpTo(table)[n]
  BY <1>1, RecursionHolds
<1>6. PICK from : Arranged(Sorted(table), table, n, from)
  BY <1>4, <1>5
<1>7. Sorted(table) \in Seq(R)
  BY <1>4, <1>5
<1>8. DOMAIN Sorted(table) = 1 .. n
  BY <1>6, <1>7, LenProperties DEF Arranged
<1>9. IsStableSort(Sorted(table), table)
  <2>1. Len(Sorted(table)) = Len(table)
    BY <1>6 DEF Arranged
  <2>2. from \in [DOMAIN Sorted(table) -> DOMAIN table]
    BY <1>1, <1>6, <1>8 DEF Arranged
  <2>3. \A r \in DOMAIN table : \E i \in DOMAIN Sorted(table) : from[i] = r
    BY <1>1, <1>6, <1>8 DEF Arranged
  <2>4. \A i \in DOMAIN Sorted(table) : Sorted(table)[i] = table[from[i]]
    BY <1>6, <1>8 DEF Arranged
  <2>5. \A i, j \in DOMAIN Sorted(table) : i < j =>
            \/ Sorted(table)[i].sev > Sorted(table)[j].sev
            \/ Sorted(table)[i].sev = Sorted(table)[j].sev /\ from[i] < from[j]
    BY <1>6, <1>8 DEF Arranged
  <2> HIDE DEF n
  <2> QED
    BY <2>1, <2>2, <2>3, <2>4, <2>5 DEF IsStableSort
<1> QED
  BY <1>6, <1>7, <1>9, ArrangedFalls

-----------------------------------------------------------------------------
(* A function on 1 .. n is a sequence of length n.                          *)
LEMMA FunIsSeq == ASSUME NEW n \in Nat, NEW S, NEW f \in [1 .. n -> S]
                  PROVE  f \in Seq(S) /\ Len(f) = n
OBVIOUS

LEMMA MaxOfTwo == ASSUME NEW a \in Nat, NEW b \in Nat
                  PROVE  Max({a, b}) = IF a <= b THEN b ELSE a
<1>1. CASE a <= b
  <2>1. {a, b} \subseteq 0 .. b
    BY <1>1
  <2>2. Max({a, b}) \in {a, b} /\ \A x \in {a, b} : x <= Max({a, b})
    BY <2>1, MaxOf
  <2> QED
    BY <1>1, <2>2
<1>2. CASE ~ (a <= b)
  <2>1. {a, b} \subseteq 0 .. a
    BY <1>2
  <2>2. Max({a, b}) \in {a, b} /\ \A x \in {a, b} : x <= Max({a, b})
    BY <2>1, MaxOf
  <2> QED
    BY <1>2, <2>2
<1> QED
  BY <1>1, <1>2

(* The row a new alert is put in: the next free one, or one of the least    *)
(* severe ones of a full table.                                             *)
LEMMA SlotIsLeast ==
    ASSUME TableAssumption, NEW R, RowSet(R), NEW table \in Seq(R), Len(table) <= ThreatMax
    PROVE  IF Len(table) < ThreatMax
           THEN Slot(table) = Len(table) + 1
           ELSE /\ Slot(table) \in 1 .. Len(table)
                /\ \A r \in 1 .. Len(table) : table[Slot(table)].sev <= table[r].sev
<1>1. CASE Len(table) < ThreatMax
  BY <1>1 DEF Slot
<1>2. CASE ~ (Len(table) < ThreatMax)
  <2> DEFINE n == Len(table)
             I == {i \in 1 .. n : \A r \in DOMAIN table : table[i].sev <= table[r].sev}
             V == {table[i].sev : i \in 1 .. n}
  <2>1. n = ThreatMax /\ n \in Nat \ {0} /\ DOMAIN table = 1 .. n
    BY <1>2, LenProperties DEF TableAssumption
  <2>2. \A i \in 1 .. n : table[i].sev \in Nat
    BY ElementOfSeq DEF RowSet
  <2>3. I # {}
    <3>1. V \subseteq Nat
      BY <2>2
    <3>2. table[1].sev \in V
      BY <2>1
    <3>3. PICK v \in V : \A y \in V : v <= y
      BY <3>1, <3>2, LeastNumber
    <3>4. PICK i \in 1 .. n : table[i].sev = v
      OBVIOUS
    <3>5. \A r \in DOMAIN table : table[r].sev \in V
      BY <2>1
    <3> QED
      BY <3>3, <3>4, <3>5
  <2>4. Slot(table) = Min(I)
    BY <1>2, <2>3 DEF Slot, SelectInSeq
  <2>5. I \subseteq Nat
    BY <2>1
  <2>6. Min(I) \in I
    <3> HIDE DEF I
    <3> QED
      BY <2>3, <2>5, MinOf
  <2> QED
    BY <1>2, <2>1, <2>4, <2>6
<1> QED
  BY <1>1, <1>2

(* handle_alert before it sorts: one row more, or one row overwritten.      *)
LEMMA PlaceShape ==
    ASSUME TableAssumption, NEW R, RowSet(R), NEW table \in Seq(R), Len(table) <= ThreatMax,
           NEW row \in R
    PROVE  /\ Place(table, row) \in Seq(R)
           /\ Len(Place(table, row)) = IF Len(table) < ThreatMax THEN Len(table) + 1 ELSE ThreatMax
           /\ Slot(table) \in 1 .. Len(Place(table, row))
           /\ \A r \in 1 .. Len(Place(table, row)) :
                 IF r = Slot(table)
                 THEN Place(table, row)[r] = row
                 ELSE r \in 1 .. Len(table) /\ Place(table, row)[r] = table[r]
           /\ \A r \in 1 .. Len(table) : r \in 1 .. Len(Place(table, row))
<1> DEFINE n == Len(table)
           m == IF n < ThreatMax THEN n + 1 ELSE n
           t == [r \in 1 .. m |-> IF r = Slot(table) THEN row ELSE table[r]]
<1>1. n \in Nat /\ ThreatMax \in Nat /\ m \in Nat /\ n <= m /\ \A r \in 1 .. n : table[r] \in R
  BY LenProperties, ElementOfSeq DEF TableAssumption
<1>2. /\ n < ThreatMax => Slot(table) = n + 1
      /\ ~ (n < ThreatMax) => Slot(table) \in 1 .. n
  BY SlotIsLeast
<1>3. Slot(table) \in 1 .. m
  BY <1>1, <1>2
<1>4. Max({n, Slot(table)}) = m
  BY <1>1, <1>2, MaxOfTwo
<1>5. Place(table, row) = t
  BY <1>4 DEF Place
<1>6. \A r \in 1 .. m : r # Slot(table) => r \in 1 .. n
  BY <1>1, <1>2
<1> HIDE DEF m
<1>7. t \in [1 .. m -> R]
  BY <1>1, <1>6
<1>8. t \in Seq(R) /\ Len(t) = m
  <2> HIDE DEF t
  <2> QED
    BY <1>1, <1>7, FunIsSeq
<1>9. m = IF n < ThreatMax THEN n + 1 ELSE ThreatMax
  BY <1>1 DEF m
<1>10. \A r \in 1 .. n : r \in 1 .. m
  BY <1>1 DEF m
<1> QED
  BY <1>3, <1>5, <1>6, <1>8, <1>9, <1>10

(* A stable sort is a permutation of the rows.                              *)
Permutes(from, s, table) ==
    /\ Len(s) = Len(table)
    /\ from \in [1 .. Len(s) -> 1 .. Len(s)]
    /\ \A r \in 1 .. Len(s) : \E i \in 1 .. Len(s) : from[i] = r
    /\ \A i, j \in 1 .. Len(s) : from[i] = from[j] => i = j
    /\ \A i \in 1 .. Len(s) : s[i] = table[from[i]]
    /\ \A i, j \in 1 .. Len(s) : i < j /\ s[i].sev = s[j].sev => from[i] < from[j]

LEMMA SortPermutes ==
    ASSUME NEW R, RowSet(R), NEW table \in Seq(R)
    PROVE  /\ Sorted(table) \in Seq(R)
           /\ Len(Sorted(table)) = Len(table)
           /\ Falling(Sorted(table))
           /\ \E from : Permutes(from, Sorted(table), table)
<1> DEFINE s == Sorted(table)
           n == Len(s)
<1>1. s \in Seq(R) /\ IsStableSort(s, table) /\ Falling(s)
  BY SortIsStable
<1>2. Len(table) = n /\ n \in Nat /\ DOMAIN s = 1 .. n /\ DOMAIN table = 1 .. n
  BY <1>1, LenProperties DEF IsStableSort
<1>3. \A i \in 1 .. n : s[i] \in R
  BY <1>1, ElementOfSeq
<1>4. \A i \in 1 .. n : s[i].sev \in Nat
  BY <1>3 DEF RowSet
<1> HIDE DEF s, n
<1>5. PICK from \in [1 .. n -> 1 .. n] :
           /\ \A r \in 1 .. n : \E i \in 1 .. n : from[i] = r
           /\ \A i \in 1 .. n : s[i] = table[from[i]]
           /\ \A i, j \in 1 .. n : i < j =>
               s[i].sev > s[j].sev \/ (s[i].sev = s[j].sev /\ from[i] < from[j])
  <2>1. PICK from \in [DOMAIN s -> DOMAIN table] :
           /\ \A r \in DOMAIN table : \E i \in DOMAIN s : from[i] = r
           /\ \A i \in DOMAIN s : s[i] = table[from[i]]
           /\ \A i, j \in DOMAIN s : i < j =>
               s[i].sev > s[j].sev \/ (s[i].sev = s[j].sev /\ from[i] < from[j])
    BY <1>1 DEF IsStableSort
  <2>2. DOMAIN s = 1 .. n /\ DOMAIN table = 1 .. n
    BY <1>2
  <2>3. from \in [1 .. n -> 1 .. n]
    BY <2>2
  <2>4. \A r \in 1 .. n : \E i \in 1 .. n : from[i] = r
    BY <2>1, <2>2
  <2>5. \A i \in 1 .. n : s[i] = table[from[i]]
    BY <2>1, <2>2
  <2>6. \A i, j \in 1 .. n : i < j =>
               s[i].sev > s[j].sev \/ (s[i].sev = s[j].sev /\ from[i] < from[j])
    BY <2>1, <2>2
  <2> QED
    BY <2>3, <2>4, <2>5, <2>6
<1>6. \A i \in 1 .. n : from[i] \in 1 .. n
  BY <1>5
<1>7. ASSUME NEW i \in 1 .. n, NEW j \in 1 .. n, i < j PROVE from[i] # from[j]
  <2>1. SUFFICES ASSUME from[i] = from[j] PROVE FALSE
    OBVIOUS
  <2>2. s[i] = s[j]
    <3>1. s[i] = table[from[i]] /\ s[j] = table[from[j]]
      BY <1>5
    <3> QED
      BY <2>1, <3>1
  <2>3. \A a \in Nat : ~ (a > a)
    OBVIOUS
  <2>4. from[i] < from[j]
    BY <1>4, <1>5, <1>7, <2>2, <2>3
  <2> QED
    BY <1>2, <1>6, <2>1, <2>4
<1>8. \A i, j \in 1 .. n : from[i] = from[j] => i = j
  BY <1>2, <1>7
<1>9. ASSUME NEW i \in 1 .. n, NEW j \in 1 .. n, i < j, s[i].sev = s[j].sev PROVE from[i] < from[j]
  <2>1. s[i].sev > s[j].sev \/ from[i] < from[j]
    BY <1>5, <1>9
  <2>2. \A a, b \in Nat : a > b => a # b
    OBVIOUS
  <2> QED
    BY <1>4, <1>9, <2>1, <2>2
<1>10. Permutes(from, s, table)
  BY <1>2, <1>5, <1>8, <1>9 DEF Permutes, n
<1> QED
  BY <1>1, <1>2, <1>10 DEF s

-----------------------------------------------------------------------------
(* handle_alert enters the alert: the new table is a permutation of the old *)
(* one with the new row placed in it.                                       *)
Entered(table, row) == Sorted(Place(table, row))

LEMMA EnteredRows ==
    ASSUME TableAssumption, NEW R, RowSet(R), NEW table \in Seq(R), Len(table) <= ThreatMax,
           NEW row \in R
    PROVE  /\ Entered(table, row) \in Seq(R)
           /\ Len(Entered(table, row)) = IF Len(table) < ThreatMax THEN Len(table) + 1 ELSE ThreatMax
           /\ Falling(Entered(table, row))
           /\ \E from : /\ Permutes(from, Entered(table, row), Place(table, row))
                        /\ \A i \in 1 .. Len(Entered(table, row)) :
                              IF from[i] = Slot(table)
                              THEN Entered(table, row)[i] = row
                              ELSE /\ from[i] \in 1 .. Len(table)
                                   /\ Entered(table, row)[i] = table[from[i]]
<1> DEFINE t == Place(table, row)
           s == Entered(table, row)
<1>1. /\ t \in Seq(R)
      /\ Len(t) = IF Len(table) < ThreatMax THEN Len(table) + 1 ELSE ThreatMax
      /\ \A r \in 1 .. Len(t) : IF r = Slot(table) THEN t[r] = row
                                ELSE r \in 1 .. Len(table) /\ t[r] = table[r]
  BY PlaceShape
<1> HIDE DEF t
<1>2. /\ s \in Seq(R) /\ Len(s) = Len(t) /\ Falling(s)
      /\ \E from : Permutes(from, s, t)
  BY <1>1, SortPermutes DEF Entered, t
<1> HIDE DEF s
<1>3. PICK from : Permutes(from, s, t)
  BY <1>2
<1>4. ASSUME NEW i \in 1 .. Len(s)
      PROVE IF from[i] = Slot(table) THEN s[i] = row
            ELSE from[i] \in 1 .. Len(table) /\ s[i] = table[from[i]]
  <2>1. from[i] \in 1 .. Len(t) /\ s[i] = t[from[i]]
    BY <1>2, <1>3 DEF Permutes
  <2> QED
    BY <1>1, <2>1
<1>5. Len(s) = IF Len(table) < ThreatMax THEN Len(table) + 1 ELSE ThreatMax
  BY <1>1, <1>2
<1> QED
  BY <1>2, <1>3, <1>4, <1>5 DEF s, t

-----------------------------------------------------------------------------
(* What holds of the table between two calls.  The ids tell which alert a   *)
(* row is about, so they must not repeat; the generator's counter rises.    *)
IdsRise == \A m, n \in DOMAIN handled : m < n => handled[m].id < handled[n].id

TableInv == /\ TableTypeOK
            /\ SortedBySeverity
            /\ IdsRise
            /\ RowsAreHandledAlerts
            /\ KeepsMostSevere
            /\ StableUntilFull
            /\ FlashesWhenNew

Alert == [id : Nat, sev : Severity]

NewRow(id, sev) == [id |-> id, sev |-> sev, flash |-> FlashFrames]

LEMMA RowsHaveSeverities == ASSUME TableAssumption PROVE RowSet(Row) /\ RowSet(Alert)
BY DEF TableAssumption, RowSet, Row, Alert

LEMMA TableSizes ==
    ASSUME TableAssumption, TableTypeOK
    PROVE  /\ Len(alerts) \in Nat /\ Rows = 1 .. Len(alerts) /\ Len(alerts) <= ThreatMax
           /\ \A r \in 1 .. Len(alerts) : alerts[r] \in Row
           /\ handled \in Seq(Alert) /\ Len(handled) \in Nat /\ DOMAIN handled = 1 .. Len(handled)
           /\ \A n \in 1 .. Len(handled) : handled[n] \in Alert
           /\ shown \in [1 .. Len(handled) -> 0 .. FlashFrames]
           /\ ThreatMax \in Nat \ {0}
<1>1. alerts \in Seq(Row) /\ handled \in Seq(Alert)
  BY DEF TableTypeOK, Alert
<1>2. /\ Len(alerts) \in Nat /\ DOMAIN alerts = 1 .. Len(alerts)
      /\ \A r \in 1 .. Len(alerts) : alerts[r] \in Row
  BY <1>1, LenProperties, ElementOfSeq
<1>3. /\ Len(handled) \in Nat /\ DOMAIN handled = 1 .. Len(handled)
      /\ \A n \in 1 .. Len(handled) : handled[n] \in Alert
  BY <1>1, LenProperties, ElementOfSeq
<1>4. shown \in [1 .. Len(handled) -> 0 .. FlashFrames]
  BY <1>3 DEF TableTypeOK
<1> QED
  BY <1>1, <1>2, <1>3, <1>4 DEF TableTypeOK, TableAssumption, Rows

LEMMA RowIsHandled ==
    ASSUME TableAssumption, TableTypeOK, RowsAreHandledAlerts, NEW r \in 1 .. Len(alerts)
    PROVE  \E n \in 1 .. Len(handled) : alerts[r].id = handled[n].id /\ alerts[r].sev = handled[n].sev
<1>1. r \in Rows /\ DOMAIN handled = 1 .. Len(handled)
  BY TableSizes
<1>2. PICK n \in DOMAIN handled : alerts[r].id = handled[n].id /\ alerts[r].sev = handled[n].sev
  BY <1>1 DEF RowsAreHandledAlerts
<1> QED
  BY <1>1, <1>2

LEMMA TableInit == ASSUME TableAssumption, Init PROVE TableInv
<1> USE DEF Init
<1>1. TableTypeOK
  BY EmptySeq DEF TableTypeOK, TableAssumption
<1>2. SortedBySeverity /\ IdsRise /\ StableUntilFull /\ FlashesWhenNew
  BY DEF SortedBySeverity, IdsRise, StableUntilFull, FlashesWhenNew, Rows
<1>3. RowsAreHandledAlerts
  <2>1. Min({0, ThreatMax}) = 0
    BY MinOfTwo DEF TableAssumption
  <2> QED
    BY <2>1 DEF RowsAreHandledAlerts, Rows
<1>4. KeepsMostSevere
  <2> SUFFICES ASSUME NEW s \in Severity
               PROVE  Cardinality(AtLeast(alerts, s))
                        >= Min({Cardinality(AtLeast(handled, s)), ThreatMax - 1})
    BY DEF KeepsMostSevere
  <2>1. AtLeast(alerts, s) = {} /\ AtLeast(handled, s) = {}
    BY DEF AtLeast
  <2>2. Cardinality({}) = 0
    BY FS_EmptySet
  <2>3. ThreatMax - 1 \in Nat
    BY DEF TableAssumption
  <2>4. Min({0, ThreatMax - 1}) = 0
    BY <2>3, MinOfTwo
  <2> DEFINE have == Cardinality(AtLeast(alerts, s))
             had == Cardinality(AtLeast(handled, s))
  <2>5. have = 0 /\ had = 0
    BY <2>1, <2>2
  <2> HIDE DEF have, had
  <2>6. have >= Min({had, ThreatMax - 1})
    BY <2>4, <2>5
  <2> QED
    BY <2>6 DEF have, had
<1> QED
  BY <1>1, <1>2, <1>3, <1>4 DEF TableInv

(* The step of handle_alert in those terms.                                 *)
EntersFrom(from, new, old, row) ==
    /\ Permutes(from, new, Place(old, row))
    /\ \A i \in 1 .. Len(new) : IF from[i] = Slot(old)
                                THEN new[i] = row
                                ELSE from[i] \in 1 .. Len(old) /\ new[i] = old[from[i]]

LEMMA AlertEnters ==
    ASSUME TableAssumption, TableTypeOK, NEW id \in Nat, NEW sev \in Severity, HandleAlert(id, sev)
    PROVE  /\ alerts' \in Seq(Row) /\ Falling(alerts')
           /\ Len(alerts') = IF Len(alerts) < ThreatMax THEN Len(alerts) + 1 ELSE ThreatMax
           /\ \E from : EntersFrom(from, alerts', alerts, NewRow(id, sev))
           /\ handled' \in Seq(Alert) /\ Len(handled') = Len(handled) + 1
           /\ \A n \in 1 .. Len(handled) : handled'[n] = handled[n]
           /\ handled'[Len(handled) + 1] = [id |-> id, sev |-> sev]
           /\ shown' \in [1 .. Len(handled) + 1 -> 0 .. FlashFrames]
           /\ \A n \in 1 .. Len(handled) : shown'[n] = shown[n]
           /\ shown'[Len(handled) + 1] = 0
<1> DEFINE row == NewRow(id, sev)
<1>1. row \in Row /\ [id |-> id, sev |-> sev] \in Alert
  BY DEF NewRow, Row, Alert, TableAssumption
<1>2. alerts \in Seq(Row) /\ Len(alerts) <= ThreatMax /\ RowSet(Row)
  BY RowsHaveSeverities DEF TableTypeOK
<1>3. alerts' = Entered(alerts, row)
  BY DEF HandleAlert, Entered, NewRow
<1> HIDE DEF row
<1>4. /\ Entered(alerts, row) \in Seq(Row)
      /\ Len(Entered(alerts, row)) = IF Len(alerts) < ThreatMax THEN Len(alerts) + 1 ELSE ThreatMax
      /\ Falling(Entered(alerts, row))
      /\ \E from : EntersFrom(from, Entered(alerts, row), alerts, row)
  BY <1>1, <1>2, EnteredRows DEF EntersFrom
<1>5. /\ handled' \in Seq(Alert) /\ Len(handled') = Len(handled) + 1
      /\ \A n \in 1 .. Len(handled) : handled'[n] = handled[n]
      /\ handled'[Len(handled) + 1] = [id |-> id, sev |-> sev]
  <2>1. handled \in Seq(Alert) /\ handled' = Append(handled, [id |-> id, sev |-> sev])
    BY TableSizes DEF HandleAlert
  <2> QED
    BY <1>1, <2>1, AppendProperties
<1>6. /\ shown' \in [1 .. Len(handled) + 1 -> 0 .. FlashFrames]
      /\ \A n \in 1 .. Len(handled) : shown'[n] = shown[n]
      /\ shown'[Len(handled) + 1] = 0
  <2>1. 0 \in 0 .. FlashFrames
    BY DEF TableAssumption
  <2>2. Len(handled) \in Nat /\ shown \in [1 .. Len(handled) -> 0 .. FlashFrames]
    BY TableSizes
  <2>3. shown \in Seq(0 .. FlashFrames) /\ Len(shown) = Len(handled)
    BY <2>2, FunIsSeq
  <2>4. shown' = Append(shown, 0)
    BY DEF HandleAlert
  <2>5. /\ shown' \in Seq(0 .. FlashFrames) /\ Len(shown') = Len(handled) + 1
        /\ \A n \in 1 .. Len(handled) : shown'[n] = shown[n]
        /\ shown'[Len(handled) + 1] = 0
    BY <2>1, <2>3, <2>4, AppendProperties
  <2>6. shown' \in [1 .. Len(handled) + 1 -> 0 .. FlashFrames]
    BY <2>5, LenProperties
  <2> QED
    BY <2>5, <2>6
<1> QED
  BY <1>3, <1>4, <1>5, <1>6 DEF row

LEMMA AlertKeepsType ==
    ASSUME TableAssumption, TableTypeOK, NEW id \in Nat, NEW sev \in Severity, HandleAlert(id, sev)
    PROVE  TableTypeOK' /\ SortedBySeverity'
<1>1. /\ alerts' \in Seq(Row) /\ Falling(alerts')
      /\ Len(alerts') = IF Len(alerts) < ThreatMax THEN Len(alerts) + 1 ELSE ThreatMax
      /\ handled' \in Seq(Alert) /\ Len(handled') = Len(handled) + 1
      /\ shown' \in [1 .. Len(handled) + 1 -> 0 .. FlashFrames]
  BY AlertEnters
<1>2. Len(alerts') <= ThreatMax
  BY <1>1, TableSizes
<1>3. DOMAIN alerts' = 1 .. Len(alerts') /\ DOMAIN handled' = 1 .. Len(handled')
  BY <1>1, LenProperties
<1>4. TableTypeOK'
  BY <1>1, <1>2, <1>3 DEF TableTypeOK, Alert
<1>5. SortedBySeverity'
  BY <1>1, <1>3 DEF SortedBySeverity, Falling, Rows
<1> QED
  BY <1>4, <1>5

LEMMA AlertKeepsIds ==
    ASSUME TableAssumption, TableTypeOK, IdsRise, NEW id \in Nat, NEW sev \in Severity,
           \A n \in DOMAIN handled : handled[n].id < id, HandleAlert(id, sev)
    PROVE  IdsRise'
<1>1. /\ handled' \in Seq(Alert) /\ Len(handled') = Len(handled) + 1
      /\ \A n \in 1 .. Len(handled) : handled'[n] = handled[n]
      /\ handled'[Len(handled) + 1] = [id |-> id, sev |-> sev]
  BY AlertEnters
<1>2. Len(handled) \in Nat /\ DOMAIN handled = 1 .. Len(handled)
  BY TableSizes
<1>3. DOMAIN handled' = 1 .. Len(handled) + 1
  BY <1>1, LenProperties
<1>4. ASSUME NEW m \in DOMAIN handled', NEW n \in DOMAIN handled', m < n
      PROVE handled'[m].id < handled'[n].id
  <2>1. m \in 1 .. Len(handled) /\ (n \in 1 .. Len(handled) \/ n = Len(handled) + 1)
    BY <1>2, <1>3, <1>4
  <2>2. handled'[m] = handled[m]
    BY <1>1, <2>1
  <2>3. CASE n \in 1 .. Len(handled)
    <3>1. handled'[n] = handled[n] /\ handled[m].id < handled[n].id
      BY <1>1, <1>2, <1>4, <2>1, <2>3 DEF IdsRise
    <3> QED
      BY <2>2, <3>1
  <2>4. CASE n = Len(handled) + 1
    <3>1. handled'[n].id = id /\ handled[m].id < id
      BY <1>1, <1>2, <2>1, <2>4
    <3> QED
      BY <2>2, <3>1
  <2> QED
    BY <2>1, <2>3, <2>4
<1> QED
  BY <1>4 DEF IdsRise

(* Each row of the new table is the new one or an old one, moved.           *)
LEMMA RowsOfEntered ==
    ASSUME TableAssumption, NEW old \in Seq(Row), Len(old) <= ThreatMax, NEW new, NEW row \in Row,
           NEW from, EntersFrom(from, new, old, row), Len(new) \in Nat
    PROVE  /\ \E i \in 1 .. Len(new) : from[i] = Slot(old) /\ new[i] = row
           /\ \A i, j \in 1 .. Len(new) : from[i] = from[j] => i = j
           /\ \A i \in 1 .. Len(new) : \/ from[i] = Slot(old) /\ new[i] = row
                                       \/ /\ from[i] # Slot(old) /\ from[i] \in 1 .. Len(old)
                                          /\ new[i] = old[from[i]]
           /\ Len(new) = IF Len(old) < ThreatMax THEN Len(old) + 1 ELSE ThreatMax
<1>1. RowSet(Row)
  BY RowsHaveSeverities
<1>2. Slot(old) \in 1 .. Len(Place(old, row))
      /\ Len(Place(old, row)) = IF Len(old) < ThreatMax THEN Len(old) + 1 ELSE ThreatMax
  BY <1>1, PlaceShape
<1>3. Len(new) = Len(Place(old, row))
  BY DEF EntersFrom, Permutes
<1> QED
  BY <1>2, <1>3 DEF EntersFrom, Permutes

LEMMA AlertKeepsRows ==
    ASSUME TableAssumption, TableTypeOK, RowsAreHandledAlerts,
           NEW id \in Nat, NEW sev \in Severity,
           \A n \in DOMAIN handled : handled[n].id < id, HandleAlert(id, sev)
    PROVE  RowsAreHandledAlerts'
<1> DEFINE row == NewRow(id, sev)
           h == Len(handled)
           k == Len(alerts)
           m == Len(alerts')
<1>1. /\ alerts' \in Seq(Row) /\ handled' \in Seq(Alert) /\ Len(handled') = h + 1
      /\ m = IF k < ThreatMax THEN k + 1 ELSE ThreatMax
      /\ \A n \in 1 .. h : handled'[n] = handled[n]
      /\ handled'[h + 1] = [id |-> id, sev |-> sev]
  BY AlertEnters
<1>2. PICK from : EntersFrom(from, alerts', alerts, row)
  BY AlertEnters
<1>3. /\ h \in Nat /\ k \in Nat /\ k <= ThreatMax /\ ThreatMax \in Nat \ {0}
      /\ DOMAIN handled = 1 .. h /\ Rows = 1 .. k /\ \A r \in 1 .. k : alerts[r] \in Row
      /\ \A n \in 1 .. h : handled[n] \in Alert
  BY TableSizes
<1>4. m \in Nat /\ DOMAIN alerts' = 1 .. m /\ DOMAIN handled' = 1 .. h + 1
  BY <1>1, LenProperties
<1>5. row \in Row /\ row.id = id /\ row.sev = sev
  BY DEF NewRow, Row, TableAssumption
<1>6. alerts \in Seq(Row) /\ k <= ThreatMax
  BY DEF TableTypeOK
<1> HIDE DEF row
<1>7. /\ \E i \in 1 .. m : from[i] = Slot(alerts) /\ alerts'[i] = row
      /\ \A i, j \in 1 .. m : from[i] = from[j] => i = j
      /\ \A i \in 1 .. m : \/ from[i] = Slot(alerts) /\ alerts'[i] = row
                           \/ /\ from[i] # Slot(alerts) /\ from[i] \in 1 .. k
                              /\ alerts'[i] = alerts[from[i]]
  BY <1>2, <1>4, <1>5, <1>6, RowsOfEntered
<1>8. /\ k = Min({h, ThreatMax})
      /\ \A r \in 1 .. k : \E n \in 1 .. h : alerts[r].id = handled[n].id /\ alerts[r].sev = handled[n].sev
      /\ \A r, s \in 1 .. k : alerts[r].id = alerts[s].id => r = s
  BY <1>3 DEF RowsAreHandledAlerts
<1> HIDE DEF h, k, m
<1>9. ASSUME NEW r \in 1 .. k PROVE alerts[r].id # id
  <2>1. PICK n \in 1 .. h : alerts[r].id = handled[n].id
    BY <1>8
  <2>2. handled[n].id < id /\ handled[n].id \in Nat
    BY <1>3 DEF Alert
  <2> QED
    BY <2>1, <2>2
<1>10. m = Min({h + 1, ThreatMax})
  <2>1. h + 1 \in Nat
    BY <1>3
  <2>2. k = IF h <= ThreatMax THEN h ELSE ThreatMax
    BY <1>3, <1>8, MinOfTwo
  <2>3. Min({h + 1, ThreatMax}) = IF h + 1 <= ThreatMax THEN h + 1 ELSE ThreatMax
    BY <1>3, <2>1, MinOfTwo
  <2>4. m = IF k < ThreatMax THEN k + 1 ELSE ThreatMax
    BY <1>1 DEF h, k, m
  <2> QED
    BY <1>3, <2>2, <2>3, <2>4
<1>11. ASSUME NEW i \in 1 .. m
       PROVE \E n \in 1 .. h + 1 : alerts'[i].id = handled'[n].id /\ alerts'[i].sev = handled'[n].sev
  <2>1. CASE alerts'[i] = row
    <3>1. h + 1 \in 1 .. h + 1
      BY <1>3
    <3>2. handled'[h + 1] = [id |-> id, sev |-> sev]
      BY <1>1 DEF h
    <3> QED
      BY <1>5, <2>1, <3>1, <3>2
  <2>2. CASE from[i] \in 1 .. k /\ alerts'[i] = alerts[from[i]]
    <3>1. PICK n \in 1 .. h : alerts[from[i]].id = handled[n].id /\ alerts[from[i]].sev = handled[n].sev
      BY <1>8, <2>2
    <3>2. n \in 1 .. h + 1 /\ handled'[n] = handled[n]
      BY <1>1, <1>3 DEF h
    <3> QED
      BY <2>2, <3>1, <3>2
  <2> QED
    BY <1>7, <2>1, <2>2 DEF k, m
<1>12. ASSUME NEW i \in 1 .. m, NEW j \in 1 .. m, alerts'[i].id = alerts'[j].id PROVE i = j
  <2>1. \A x \in 1 .. m : \/ from[x] = Slot(alerts) /\ alerts'[x].id = id
                          \/ /\ from[x] \in 1 .. k /\ alerts'[x] = alerts[from[x]]
                             /\ alerts'[x].id # id
    BY <1>5, <1>7, <1>9 DEF k, m
  <2>2. from[i] = from[j]
    <3>1. CASE alerts'[i].id = id
      BY <1>12, <2>1, <3>1
    <3>2. CASE alerts'[i].id # id
      <4>1. from[i] \in 1 .. k /\ alerts'[i] = alerts[from[i]]
        BY <2>1, <3>2
      <4>2. from[j] \in 1 .. k /\ alerts'[j] = alerts[from[j]]
        BY <1>12, <2>1, <3>2
      <4> QED
        BY <1>8, <1>12, <4>1, <4>2
    <3> QED
      BY <3>1, <3>2
  <2> QED
    BY <1>7, <2>2 DEF m
<1>13. \E r \in 1 .. m : alerts'[r].id = Last(handled').id
  <2>1. Last(handled') = [id |-> id, sev |-> sev]
    BY <1>1 DEF Last, h
  <2> QED
    BY <1>5, <1>7, <2>1 DEF m
<1>14. Len(alerts') = Min({Len(handled'), ThreatMax})
  BY <1>1, <1>10 DEF h, m
<1>15. \A r \in Rows' : \E n \in DOMAIN handled' :
            alerts'[r].id = handled'[n].id /\ alerts'[r].sev = handled'[n].sev
  BY <1>4, <1>11 DEF Rows
<1>16. \A r, s \in Rows' : alerts'[r].id = alerts'[s].id => r = s
  BY <1>4, <1>12 DEF Rows
<1>17. \E r \in Rows' : alerts'[r].id = Last(handled').id
  BY <1>4, <1>13 DEF Rows
<1> QED
  BY <1>14, <1>15, <1>16, <1>17 DEF RowsAreHandledAlerts

LEMMA AlertKeepsStable ==
    ASSUME TableAssumption, TableTypeOK, RowsAreHandledAlerts, StableUntilFull,
           NEW id \in Nat, NEW sev \in Severity,
           \A n \in DOMAIN handled : handled[n].id < id, HandleAlert(id, sev)
    PROVE  StableUntilFull'
<1> DEFINE row == NewRow(id, sev)
           h == Len(handled)
           k == Len(alerts)
           m == Len(alerts')
<1>1. SUFFICES ASSUME Len(handled') <= ThreatMax, NEW i \in Rows', NEW j \in Rows', i < j,
                      alerts'[i].sev = alerts'[j].sev
               PROVE  alerts'[i].id < alerts'[j].id
  BY DEF StableUntilFull
<1>2. /\ alerts' \in Seq(Row) /\ Len(handled') = h + 1
      /\ m = IF k < ThreatMax THEN k + 1 ELSE ThreatMax
  BY AlertEnters
<1>3. PICK from : EntersFrom(from, alerts', alerts, row)
  BY AlertEnters
<1>4. /\ h \in Nat /\ k \in Nat /\ k <= ThreatMax /\ ThreatMax \in Nat \ {0}
      /\ DOMAIN handled = 1 .. h /\ Rows = 1 .. k /\ \A r \in 1 .. k : alerts[r] \in Row
      /\ \A n \in 1 .. h : handled[n] \in Alert
  BY TableSizes
<1>5. m \in Nat /\ Rows' = 1 .. m
  BY <1>2, LenProperties DEF Rows
<1>6. k = h /\ k < ThreatMax
  <2>1. k = Min({h, ThreatMax})
    BY DEF RowsAreHandledAlerts
  <2>2. h + 1 <= ThreatMax
    BY <1>1, <1>2
  <2> HIDE DEF h, k
  <2>3. k = IF h <= ThreatMax THEN h ELSE ThreatMax
    BY <1>4, <2>1, MinOfTwo
  <2> QED
    BY <1>4, <2>2, <2>3
<1>7. row \in Row /\ row.id = id
  BY DEF NewRow, Row, TableAssumption
<1>8. Slot(alerts) = k + 1
  BY <1>6 DEF Slot
<1>9. from[i] < from[j]
  BY <1>1, <1>3, <1>5 DEF EntersFrom, Permutes
<1>10. alerts \in Seq(Row) /\ k <= ThreatMax
  BY DEF TableTypeOK
<1>11. h <= ThreatMax
  BY <1>6, <1>4
<1> HIDE DEF row
<1>12. \A x \in 1 .. m : \/ from[x] = k + 1 /\ alerts'[x] = row
                         \/ from[x] \in 1 .. k /\ alerts'[x] = alerts[from[x]]
  BY <1>3, <1>5, <1>7, <1>8, <1>10, RowsOfEntered
<1> HIDE DEF h, k, m
<1>13. from[i] \in 1 .. k /\ alerts'[i] = alerts[from[i]]
  <2>1. from[j] \in 1 .. k + 1
    BY <1>4, <1>5, <1>12
  <2> QED
    BY <1>4, <1>5, <1>9, <1>12, <2>1
<1>14. CASE from[j] = k + 1 /\ alerts'[j] = row
  <2>1. PICK n \in 1 .. h : alerts[from[i]].id = handled[n].id
    BY <1>13, RowIsHandled DEF h, k
  <2>2. handled[n].id < id
    BY <1>4
  <2> QED
    BY <1>7, <1>13, <1>14, <2>1, <2>2
<1>15. CASE from[j] \in 1 .. k /\ alerts'[j] = alerts[from[j]]
  <2>1. \A r, s \in 1 .. k : r < s /\ alerts[r].sev = alerts[s].sev => alerts[r].id < alerts[s].id
    BY <1>4, <1>11 DEF StableUntilFull, h
  <2> QED
    BY <1>1, <1>9, <1>13, <1>15, <2>1
<1> QED
  BY <1>5, <1>12, <1>14, <1>15

LEMMA AlertKeepsFlashes ==
    ASSUME TableAssumption, TableTypeOK, RowsAreHandledAlerts, FlashesWhenNew,
           NEW id \in Nat, NEW sev \in Severity,
           \A n \in DOMAIN handled : handled[n].id < id, HandleAlert(id, sev)
    PROVE  FlashesWhenNew'
<1> DEFINE row == NewRow(id, sev)
           h == Len(handled)
           k == Len(alerts)
           m == Len(alerts')
<1>1. SUFFICES ASSUME NEW i \in Rows', NEW n \in DOMAIN handled', alerts'[i].id = handled'[n].id
               PROVE  alerts'[i].flash + shown'[n] = FlashFrames
  BY DEF FlashesWhenNew
<1>2. /\ alerts' \in Seq(Row) /\ handled' \in Seq(Alert) /\ Len(handled') = h + 1
      /\ \A x \in 1 .. h : handled'[x] = handled[x]
      /\ handled'[h + 1] = [id |-> id, sev |-> sev]
      /\ \A x \in 1 .. h : shown'[x] = shown[x]
      /\ shown'[h + 1] = 0
  BY AlertEnters
<1>3. PICK from : EntersFrom(from, alerts', alerts, row)
  BY AlertEnters
<1>4. /\ h \in Nat /\ k \in Nat /\ k <= ThreatMax
      /\ DOMAIN handled = 1 .. h /\ Rows = 1 .. k /\ \A r \in 1 .. k : alerts[r] \in Row
      /\ \A x \in 1 .. h : handled[x] \in Alert
  BY TableSizes
<1>5. m \in Nat /\ Rows' = 1 .. m /\ DOMAIN handled' = 1 .. h + 1
  BY <1>2, LenProperties DEF Rows
<1>6. row \in Row /\ row.id = id /\ row.flash = FlashFrames /\ FlashFrames \in Nat
  BY DEF NewRow, Row, TableAssumption
<1>7. alerts \in Seq(Row) /\ k <= ThreatMax
  BY DEF TableTypeOK
<1> HIDE DEF row
<1>8. \A x \in 1 .. m : \/ alerts'[x] = row
                        \/ from[x] \in 1 .. k /\ alerts'[x] = alerts[from[x]]
  BY <1>3, <1>5, <1>6, <1>7, RowsOfEntered
<1> HIDE DEF h, k, m
<1>9. \A x \in 1 .. h : handled[x].id # id
  <2> SUFFICES ASSUME NEW x \in 1 .. h PROVE handled[x].id # id
    OBVIOUS
  <2>1. handled[x].id < id /\ handled[x].id \in Nat
    BY <1>4 DEF Alert
  <2> QED
    BY <2>1
<1>10. \A r \in 1 .. k : \E x \in 1 .. h : alerts[r].id = handled[x].id
  BY RowIsHandled DEF h, k
<1>11. n \in 1 .. h \/ n = h + 1
  BY <1>4, <1>5
<1>12. CASE alerts'[i] = row
  <2>1. n = h + 1
    BY <1>1, <1>2, <1>6, <1>9, <1>11, <1>12 DEF h
  <2> QED
    BY <1>2, <1>6, <1>12, <2>1 DEF h
<1>13. CASE from[i] \in 1 .. k /\ alerts'[i] = alerts[from[i]]
  <2>1. alerts[from[i]].id # id
    BY <1>9, <1>10, <1>13
  <2>2. n \in 1 .. h
    <3>1. handled'[h + 1].id = id
      BY <1>2 DEF h
    <3> QED
      BY <1>1, <1>11, <1>13, <2>1, <3>1
  <2>3. handled'[n] = handled[n] /\ shown'[n] = shown[n]
    BY <1>2, <2>2 DEF h
  <2> QED
    BY <1>1, <1>4, <1>13, <2>2, <2>3 DEF FlashesWhenNew
<1> QED
  BY <1>5, <1>8, <1>12, <1>13

-----------------------------------------------------------------------------
(* How many rows are at least as severe as s: the sort changes none of      *)
(* these numbers, and overwriting a least severe row does not harm.         *)
Count(table, s) == Cardinality(AtLeast(table, s))

LEMMA CountIsNat ==
    ASSUME NEW R, NEW table \in Seq(R), NEW s
    PROVE  /\ IsFiniteSet(AtLeast(table, s)) /\ Count(table, s) \in Nat
           /\ AtLeast(table, s) \subseteq 1 .. Len(table)
<1>1. Len(table) \in Nat /\ DOMAIN table = 1 .. Len(table)
  BY LenProperties
<1>2. IsFiniteSet(1 .. Len(table))
  BY <1>1, FS_Interval
<1>3. AtLeast(table, s) \subseteq 1 .. Len(table)
  BY <1>1 DEF AtLeast
<1>4. IsFiniteSet(AtLeast(table, s))
  BY <1>2, <1>3, FS_Subset
<1> QED
  BY <1>3, <1>4, FS_CardinalityType DEF Count

LEMMA SortKeepsCounts ==
    ASSUME NEW R, RowSet(R), NEW table \in Seq(R), NEW s
    PROVE  Count(Sorted(table), s) = Count(table, s)
<1> DEFINE t == Sorted(table)
           n == Len(t)
           S == AtLeast(t, s)
           T == AtLeast(table, s)
<1>1. t \in Seq(R) /\ n = Len(table) /\ \E from : Permutes(from, t, table)
  BY SortPermutes
<1>2. n \in Nat /\ DOMAIN t = 1 .. n /\ DOMAIN table = 1 .. n
  BY <1>1, LenProperties
<1> HIDE DEF t
<1>3. PICK from : Permutes(from, t, table)
  BY <1>1
<1>4. /\ from \in [1 .. n -> 1 .. n]
      /\ \A r \in 1 .. n : \E i \in 1 .. n : from[i] = r
      /\ \A i, j \in 1 .. n : from[i] = from[j] => i = j
      /\ \A i \in 1 .. n : t[i] = table[from[i]]
  BY <1>3 DEF Permutes
<1> HIDE DEF n
<1>5. /\ S = {i \in 1 .. n : t[i].sev >= s}
      /\ T = {i \in 1 .. n : table[i].sev >= s}
  BY <1>2 DEF AtLeast
<1> DEFINE g == [i \in S |-> from[i]]
<1> HIDE DEF S, T
<1>6. g \in [S -> T]
  <2>1. ASSUME NEW i \in S PROVE from[i] \in T
    BY <1>4, <1>5
  <2> QED
    BY <2>1
<1>7. \A i, j \in S : g[i] = g[j] => i = j
  BY <1>4, <1>5
<1>8. \A r \in T : \E i \in S : g[i] = r
  <2> SUFFICES ASSUME NEW r \in T PROVE \E i \in S : g[i] = r
    OBVIOUS
  <2>1. r \in 1 .. n /\ table[r].sev >= s
    BY <1>5
  <2>2. PICK i \in 1 .. n : from[i] = r
    BY <1>4, <2>1
  <2>3. t[i] = table[r]
    BY <1>4, <2>2
  <2>4. i \in S
    BY <1>5, <2>1, <2>3
  <2> QED
    BY <2>2, <2>4
<1> HIDE DEF g
<1>9. g \in Bijection(S, T)
  BY <1>6, <1>7, <1>8 DEF Bijection, Injection, Surjection, IsInjective
<1>10. IsFiniteSet(S)
  BY <1>1, CountIsNat DEF S
<1>11. Cardinality(T) = Cardinality(S)
  BY <1>9, <1>10, FS_Bijection DEF ExistsBijection
<1> QED
  BY <1>11 DEF Count, S, T, t

LEMMA AppendCounts ==
    ASSUME NEW R, RowSet(R), NEW table \in Seq(R), NEW row \in R, NEW s \in Nat
    PROVE  Count(Append(table, row), s) = IF row.sev >= s THEN Count(table, s) + 1 ELSE Count(table, s)
<1> DEFINE n == Len(table)
           t == Append(table, row)
           T == AtLeast(table, s)
<1>1. n \in Nat /\ DOMAIN table = 1 .. n
  BY LenProperties
<1>2. /\ t \in Seq(R) /\ Len(t) = n + 1 /\ \A i \in 1 .. n : t[i] = table[i]
      /\ t[n + 1] = row
  BY AppendProperties
<1>3. DOMAIN t = 1 .. n + 1
  BY <1>2, LenProperties
<1> HIDE DEF t
<1>4. T = {i \in 1 .. n : table[i].sev >= s}
  BY <1>1 DEF AtLeast
<1>5. AtLeast(t, s) = {i \in 1 .. n + 1 : t[i].sev >= s}
  BY <1>3 DEF AtLeast
<1>6. IsFiniteSet(T) /\ Count(table, s) \in Nat
  BY CountIsNat
<1> HIDE DEF n, T
<1>7. n + 1 \notin T /\ \A i \in 1 .. n + 1 : i \in 1 .. n \/ i = n + 1
  BY <1>1, <1>4
<1>8. n + 1 \in 1 .. n + 1 /\ \A i \in 1 .. n : i \in 1 .. n + 1
  BY <1>1
<1>9. CASE row.sev >= s
  <2>1. AtLeast(t, s) = T \cup {n + 1}
    BY <1>2, <1>4, <1>5, <1>7, <1>8, <1>9 DEF n
  <2>2. Cardinality(T \cup {n + 1}) = Cardinality(T) + 1
    BY <1>6, <1>7, FS_AddElement
  <2> QED
    BY <1>9, <2>1, <2>2 DEF Count, T, t
<1>10. CASE ~ (row.sev >= s)
  <2>1. AtLeast(t, s) = T
    BY <1>2, <1>4, <1>5, <1>7, <1>8, <1>10 DEF n
  <2> QED
    BY <1>10, <2>1 DEF Count, T, t
<1> QED
  BY <1>9, <1>10

LEMMA PlaceCounts ==
    ASSUME TableAssumption, NEW R, RowSet(R), NEW table \in Seq(R), Len(table) <= ThreatMax,
           NEW row \in R, NEW s \in Nat
    PROVE  \/ Count(Place(table, row), s) = (IF row.sev >= s THEN Count(table, s) + 1 ELSE Count(table, s))
           \/ Count(Place(table, row), s) >= ThreatMax - 1
<1> DEFINE n == Len(table)
           t == Place(table, row)
           p == Slot(table)
           T == AtLeast(table, s)
           U == AtLeast(t, s)
<1>1. n \in Nat /\ DOMAIN table = 1 .. n /\ ThreatMax \in Nat \ {0} /\ n <= ThreatMax
  BY LenProperties DEF TableAssumption
<1>2. /\ t \in Seq(R) /\ Len(t) = IF n < ThreatMax THEN n + 1 ELSE ThreatMax
      /\ p \in 1 .. Len(t)
      /\ \A r \in 1 .. Len(t) : IF r = p THEN t[r] = row ELSE r \in 1 .. n /\ t[r] = table[r]
      /\ \A r \in 1 .. n : r \in 1 .. Len(t)
  <2>1. /\ t \in Seq(R) /\ Len(t) = IF n < ThreatMax THEN n + 1 ELSE ThreatMax
        /\ p \in 1 .. Len(t)
    BY PlaceShape
  <2>2. \A r \in 1 .. Len(t) : IF r = p THEN t[r] = row ELSE r \in 1 .. n /\ t[r] = table[r]
    <3>1. ASSUME NEW r \in 1 .. Len(t)
          PROVE (r = p => t[r] = row) /\ (r # p => r \in 1 .. n /\ t[r] = table[r])
      BY PlaceShape
    <3> HIDE DEF t, p, n
    <3> QED
      BY <3>1
  <2>3. \A r \in 1 .. n : r \in 1 .. Len(t)
    BY PlaceShape
  <2> QED
    BY <2>1, <2>2, <2>3
<1>3. DOMAIN t = 1 .. Len(t)
  BY <1>2, LenProperties
<1>4. IF n < ThreatMax THEN p = n + 1
      ELSE p \in 1 .. n /\ \A r \in 1 .. n : table[p].sev <= table[r].sev
  BY SlotIsLeast
<1>5. row.sev \in Nat /\ \A r \in 1 .. n : table[r].sev \in Nat
  <2>1. \A r \in 1 .. n : table[r] \in R
    BY ElementOfSeq
  <2> QED
    BY <2>1 DEF RowSet
<1>6. IsFiniteSet(T) /\ Count(table, s) \in Nat
  BY CountIsNat
<1> HIDE DEF p, t
<1>7. IsFiniteSet(U) /\ Count(t, s) \in Nat
  BY <1>2, CountIsNat
<1>8. T = {i \in 1 .. n : table[i].sev >= s}
  BY <1>1 DEF AtLeast
<1>9. U = {i \in 1 .. Len(t) : t[i].sev >= s}
  BY <1>3 DEF AtLeast
<1> HIDE DEF n, T, U
<1>10. U \ {p} = T \ {p}
  <2>1. ASSUME NEW i, i # p PROVE i \in U <=> i \in T
    <3>1. CASE i \in 1 .. Len(t)
      BY <1>2, <1>8, <1>9, <2>1, <3>1
    <3>2. CASE i \notin 1 .. Len(t)
      BY <1>2, <1>8, <1>9, <3>2
    <3> QED
      BY <3>1, <3>2
  <2> QED
    BY <2>1
<1>11. p \in U <=> row.sev >= s
  BY <1>2, <1>9
<1>12. CASE p \notin T
  <2>1. CASE row.sev >= s
    <3>1. U = T \cup {p}
      BY <1>10, <1>11, <1>12, <2>1
    <3>2. Cardinality(T \cup {p}) = Cardinality(T) + 1
      BY <1>6, <1>12, FS_AddElement
    <3>3. Cardinality(T) = Count(table, s) /\ Cardinality(U) = Count(t, s)
      BY DEF Count, T, U
    <3> QED
      BY <2>1, <3>1, <3>2, <3>3 DEF t
  <2>2. CASE ~ (row.sev >= s)
    <3>1. U = U \ {p} /\ T = T \ {p}
      BY <1>11, <1>12, <2>2
    <3>2. U = T
      BY <1>10, <3>1
    <3>3. Cardinality(T) = Count(table, s) /\ Cardinality(U) = Count(t, s)
      BY DEF Count, T, U
    <3> QED
      BY <2>2, <3>2, <3>3 DEF t
  <2> QED
    BY <2>1, <2>2
<1>13. CASE p \in T
  <2>1. p \in 1 .. n /\ table[p].sev >= s
    BY <1>8, <1>13
  <2>2. n = ThreatMax /\ \A r \in 1 .. n : table[p].sev <= table[r].sev
    BY <1>1, <1>4, <2>1
  <2>3. T = 1 .. n
    BY <1>5, <1>8, <2>1, <2>2
  <2>4. Cardinality(T) = ThreatMax
    BY <1>1, <2>2, <2>3, FS_Interval
  <2>5. IsFiniteSet(T \ {p}) /\ Cardinality(T \ {p}) = ThreatMax - 1
    BY <1>6, <1>13, <2>4, FS_RemoveElement
  <2>6. T \ {p} \subseteq U
    BY <1>10
  <2>7. Cardinality(T \ {p}) <= Cardinality(U)
    BY <1>7, <2>6, FS_Subset
  <2>8. Cardinality(U) = Count(t, s)
    BY DEF Count, U
  <2> QED
    BY <1>1, <1>7, <2>5, <2>7, <2>8 DEF t
<1> QED
  BY <1>12, <1>13

LEMMA AlertKeepsMostSevere ==
    ASSUME TableAssumption, TableTypeOK, KeepsMostSevere,
           NEW id \in Nat, NEW sev \in Severity, HandleAlert(id, sev)
    PROVE  KeepsMostSevere'
<1> DEFINE row == NewRow(id, sev)
           alert == [id |-> id, sev |-> sev]
           table == Place(alerts, row)
<1> SUFFICES ASSUME NEW s \in Severity
             PROVE  Count(alerts', s) >= Min({Count(handled', s), ThreatMax - 1})
  BY DEF KeepsMostSevere, Count
<1>1. row \in Row /\ alert \in Alert /\ row.sev = sev /\ alert.sev = sev
  BY DEF NewRow, Row, Alert, TableAssumption
<1>2. s \in Nat /\ ThreatMax - 1 \in Nat /\ RowSet(Row) /\ RowSet(Alert)
  BY RowsHaveSeverities DEF TableAssumption
<1>3. alerts \in Seq(Row) /\ Len(alerts) <= ThreatMax /\ handled \in Seq(Alert)
  BY TableSizes DEF TableTypeOK
<1>4. alerts' = Sorted(table) /\ handled' = Append(handled, alert)
  BY DEF HandleAlert, NewRow
<1> HIDE DEF row, alert
<1>5. table \in Seq(Row)
  BY <1>1, <1>2, <1>3, PlaceShape
<1>6. \/ Count(table, s) = (IF sev >= s THEN Count(alerts, s) + 1 ELSE Count(alerts, s))
      \/ Count(table, s) >= ThreatMax - 1
  BY <1>1, <1>2, <1>3, PlaceCounts
<1> HIDE DEF table
<1>7. Count(alerts', s) = Count(table, s)
  BY <1>2, <1>4, <1>5, SortKeepsCounts
<1>8. Count(handled', s) = IF sev >= s THEN Count(handled, s) + 1 ELSE Count(handled, s)
  BY <1>1, <1>2, <1>3, <1>4, AppendCounts
<1>9. Count(alerts, s) >= Min({Count(handled, s), ThreatMax - 1})
  BY DEF KeepsMostSevere, Count
<1>10. Count(alerts, s) \in Nat /\ Count(handled, s) \in Nat /\ Count(table, s) \in Nat
  BY <1>3, <1>5, CountIsNat
<1>11. \A a, b, c, d, t \in Nat :
          (\/ c = (IF sev >= s THEN a + 1 ELSE a)
           \/ c >= t)
          /\ a >= (IF b <= t THEN b ELSE t) /\ d = (IF sev >= s THEN b + 1 ELSE b)
          => c >= IF d <= t THEN d ELSE t
  OBVIOUS
<1>12. Count(handled', s) \in Nat
  BY <1>8, <1>10
<1>13. /\ Min({Count(handled, s), ThreatMax - 1})
             = IF Count(handled, s) <= ThreatMax - 1 THEN Count(handled, s) ELSE ThreatMax - 1
       /\ Min({Count(handled', s), ThreatMax - 1})
             = IF Count(handled', s) <= ThreatMax - 1 THEN Count(handled', s) ELSE ThreatMax - 1
  BY <1>2, <1>10, <1>12, MinOfTwo
<1> QED
  BY <1>2, <1>6, <1>7, <1>8, <1>9, <1>10, <1>11, <1>12, <1>13

(* handle_alert keeps all of it, as long as the new alert has a new id.     *)
LEMMA AlertKeepsTable ==
    ASSUME TableAssumption, TableInv, NEW id \in Nat, NEW sev \in Severity,
           \A n \in DOMAIN handled : handled[n].id < id, HandleAlert(id, sev)
    PROVE  TableInv'
<1> USE DEF TableInv
<1>1. TableTypeOK' /\ SortedBySeverity'
  BY AlertKeepsType
<1>2. IdsRise'
  BY AlertKeepsIds
<1>3. RowsAreHandledAlerts'
  BY AlertKeepsRows
<1>4. KeepsMostSevere'
  BY AlertKeepsMostSevere
<1>5. StableUntilFull'
  BY AlertKeepsStable
<1>6. FlashesWhenNew'
  BY AlertKeepsFlashes
<1> QED
  BY <1>1, <1>2, <1>3, <1>4, <1>5, <1>6

-----------------------------------------------------------------------------
(* render_threats changes flash counters only, of the rows it draws.        *)
LEMMA RenderShape ==
    ASSUME TableAssumption, TableTypeOK, NEW visible \in Nat, RenderThreats(visible)
    PROVE  /\ alerts' \in Seq(Row) /\ Len(alerts') = Len(alerts)
           /\ Drawn(visible) \subseteq 1 .. Len(alerts)
           /\ \A r \in 1 .. Len(alerts) :
                 /\ alerts'[r].id = alerts[r].id /\ alerts'[r].sev = alerts[r].sev
                 /\ alerts'[r].flash = IF r \in Drawn(visible) /\ alerts[r].flash > 0
                                       THEN alerts[r].flash - 1 ELSE alerts[r].flash
           /\ shown' \in [1 .. Len(handled) -> 0 .. FlashFrames]
           /\ \A n \in 1 .. Len(handled) :
                 shown'[n] = IF \E r \in Drawn(visible) : alerts[r].id = handled[n].id
                             THEN (IF shown[n] < FlashFrames THEN shown[n] + 1 ELSE FlashFrames)
                             ELSE shown[n]
           /\ handled' = handled
<1> DEFINE k == Len(alerts)
           h == Len(handled)
<1>1. /\ k \in Nat /\ Rows = 1 .. k /\ \A r \in 1 .. k : alerts[r] \in Row
      /\ h \in Nat /\ shown \in [1 .. h -> 0 .. FlashFrames]
  BY TableSizes
<1>2. Drawn(visible) \subseteq 1 .. k
  <2> DEFINE T == {k, visible, ThreatVisible}
  <2>1. T \subseteq Nat /\ T # {} /\ k \in T
    BY <1>1 DEF TableAssumption
  <2> HIDE DEF T
  <2>2. Min(T) \in Nat /\ Min(T) <= k
    BY <2>1, MinOf
  <2>3. Drawn(visible) = 1 .. Min(T)
    BY DEF Drawn, T
  <2> QED
    BY <1>1, <2>2, <2>3
<1>3. ASSUME NEW r \in 1 .. k
      PROVE /\ alerts'[r] \in Row
            /\ alerts'[r].id = alerts[r].id /\ alerts'[r].sev = alerts[r].sev
            /\ alerts'[r].flash = IF r \in Drawn(visible) /\ alerts[r].flash > 0
                                  THEN alerts[r].flash - 1 ELSE alerts[r].flash
  <2>1. alerts[r] \in Row /\ r \in Rows
    BY <1>1
  <2>2. alerts'[r] = IF r \in Drawn(visible) /\ alerts[r].flash > 0
                     THEN [alerts[r] EXCEPT !.flash = @ - 1] ELSE alerts[r]
    BY <2>1 DEF RenderThreats
  <2>3. CASE r \in Drawn(visible) /\ alerts[r].flash > 0
    <3>1. alerts'[r] = [alerts[r] EXCEPT !.flash = alerts[r].flash - 1]
      BY <2>2, <2>3
    <3>2. alerts[r].flash - 1 \in 0 .. FlashFrames
      BY <2>1, <2>3 DEF Row, TableAssumption
    <3> QED
      BY <2>1, <2>3, <3>1, <3>2 DEF Row
  <2>4. CASE ~ (r \in Drawn(visible) /\ alerts[r].flash > 0)
    BY <2>1, <2>2, <2>4
  <2> QED
    BY <2>3, <2>4
<1>4. alerts' \in Seq(Row) /\ Len(alerts') = k
  <2>1. DOMAIN alerts' = 1 .. k
    BY <1>1 DEF RenderThreats
  <2>2. alerts' = [r \in 1 .. k |-> alerts'[r]]
    BY <1>1 DEF RenderThreats
  <2>3. alerts' \in [1 .. k -> Row]
    BY <1>3, <2>2
  <2> QED
    BY <1>1, <2>3, FunIsSeq
<1>5. ASSUME NEW n \in 1 .. h
      PROVE /\ shown'[n] \in 0 .. FlashFrames
            /\ shown'[n] = IF \E r \in Drawn(visible) : alerts[r].id = handled[n].id
                           THEN (IF shown[n] < FlashFrames THEN shown[n] + 1 ELSE FlashFrames)
                           ELSE shown[n]
  <2>1. shown[n] \in 0 .. FlashFrames /\ n \in DOMAIN shown /\ FlashFrames \in Nat
    BY <1>1 DEF TableAssumption
  <2>2. shown[n] + 1 \in Nat
    BY <2>1
  <2>3. Min({shown[n] + 1, FlashFrames}) = IF shown[n] < FlashFrames THEN shown[n] + 1 ELSE FlashFrames
    BY <2>1, <2>2, MinOfTwo
  <2>4. shown'[n] = IF \E r \in Drawn(visible) : alerts[r].id = handled[n].id
                    THEN Min({shown[n] + 1, FlashFrames}) ELSE shown[n]
    BY <2>1 DEF RenderThreats
  <2> QED
    BY <2>1, <2>3, <2>4
<1>6. shown' \in [1 .. h -> 0 .. FlashFrames]
  <2>1. shown' = [n \in 1 .. h |-> shown'[n]]
    BY <1>1 DEF RenderThreats
  <2> QED
    BY <1>5, <2>1
<1> QED
  BY <1>2, <1>3, <1>4, <1>5, <1>6 DEF RenderThreats

LEMMA RenderKeepsFlashes ==
    ASSUME TableAssumption, TableTypeOK, RowsAreHandledAlerts, FlashesWhenNew,
           NEW visible \in Nat, RenderThreats(visible)
    PROVE  FlashesWhenNew'
<1> DEFINE k == Len(alerts)
           h == Len(handled)
<1>1. /\ k \in Nat /\ Rows = 1 .. k /\ \A r \in 1 .. k : alerts[r] \in Row
      /\ h \in Nat /\ DOMAIN handled = 1 .. h /\ shown \in [1 .. h -> 0 .. FlashFrames]
  BY TableSizes
<1>2. /\ alerts' \in Seq(Row) /\ Len(alerts') = k /\ handled' = handled
      /\ Drawn(visible) \subseteq 1 .. k
      /\ \A r \in 1 .. k :
            /\ alerts'[r].id = alerts[r].id
            /\ alerts'[r].flash = IF r \in Drawn(visible) /\ alerts[r].flash > 0
                                  THEN alerts[r].flash - 1 ELSE alerts[r].flash
      /\ \A n \in 1 .. h :
            shown'[n] = IF \E r \in Drawn(visible) : alerts[r].id = handled[n].id
                        THEN (IF shown[n] < FlashFrames THEN shown[n] + 1 ELSE FlashFrames)
                        ELSE shown[n]
  BY RenderShape
<1>3. Rows' = 1 .. k
  BY <1>2, LenProperties DEF Rows
<1> HIDE DEF k, h
<1>4. ASSUME NEW i \in 1 .. k, NEW n \in 1 .. h, alerts'[i].id = handled[n].id
      PROVE alerts'[i].flash + shown'[n] = FlashFrames
  <2>1. alerts[i].id = handled[n].id
    BY <1>2, <1>4
  <2>2. alerts[i].flash + shown[n] = FlashFrames
    BY <1>1, <2>1 DEF FlashesWhenNew
  <2>3. alerts[i].flash \in 0 .. FlashFrames /\ shown[n] \in 0 .. FlashFrames /\ FlashFrames \in Nat
    BY <1>1 DEF Row, TableAssumption
  <2>4. (\E r \in Drawn(visible) : alerts[r].id = handled[n].id) <=> i \in Drawn(visible)
    <3>1. \A r \in 1 .. k : alerts[r].id = alerts[i].id => r = i
      BY <1>1 DEF RowsAreHandledAlerts
    <3> QED
      BY <1>2, <2>1, <3>1
  <2>5. alerts'[i].flash = IF i \in Drawn(visible) /\ alerts[i].flash > 0
                           THEN alerts[i].flash - 1 ELSE alerts[i].flash
    BY <1>2
  <2>6. shown'[n] = IF i \in Drawn(visible)
                    THEN (IF shown[n] < FlashFrames THEN shown[n] + 1 ELSE FlashFrames)
                    ELSE shown[n]
    BY <1>2, <2>4
  <2> QED
    BY <2>2, <2>3, <2>5, <2>6
<1> QED
  BY <1>1, <1>2, <1>3, <1>4 DEF FlashesWhenNew

LEMMA RenderKeepsTable ==
    ASSUME TableAssumption, TableInv, NEW visible \in Nat, RenderThreats(visible)
    PROVE  TableInv'
<1> DEFINE k == Len(alerts)
<1> USE DEF TableInv
<1>1. /\ alerts' \in Seq(Row) /\ Len(alerts') = k /\ handled' = handled
      /\ \A r \in 1 .. k : alerts'[r].id = alerts[r].id /\ alerts'[r].sev = alerts[r].sev
      /\ shown' \in [1 .. Len(handled) -> 0 .. FlashFrames]
  BY RenderShape
<1>2. k \in Nat /\ Rows = 1 .. k /\ DOMAIN handled = 1 .. Len(handled) /\ k <= ThreatMax
  BY TableSizes
<1>3. Rows' = 1 .. k /\ DOMAIN alerts' = 1 .. k
  BY <1>1, LenProperties DEF Rows
<1>4. TableTypeOK'
  BY <1>1, <1>2 DEF TableTypeOK
<1>5. SortedBySeverity'
  BY <1>1, <1>2, <1>3 DEF SortedBySeverity
<1>6. IdsRise'
  BY <1>1 DEF IdsRise
<1>7. RowsAreHandledAlerts'
  <2>1. Len(alerts') = Min({Len(handled'), ThreatMax})
    BY <1>1 DEF RowsAreHandledAlerts
  <2>2. \A r \in 1 .. k : \E n \in DOMAIN handled :
            alerts'[r].id = handled[n].id /\ alerts'[r].sev = handled[n].sev
    <3> SUFFICES ASSUME NEW r \in 1 .. k
                 PROVE  \E n \in DOMAIN handled :
                            alerts'[r].id = handled[n].id /\ alerts'[r].sev = handled[n].sev
      OBVIOUS
    <3>1. PICK n \in 1 .. Len(handled) :
               alerts[r].id = handled[n].id /\ alerts[r].sev = handled[n].sev
      BY RowIsHandled
    <3>2. alerts'[r].id = handled[n].id /\ alerts'[r].sev = handled[n].sev
      BY <1>1, <3>1
    <3> QED
      BY <1>2, <3>2
  <2>3. \A r, s \in 1 .. k : alerts'[r].id = alerts'[s].id => r = s
    BY <1>1, <1>2 DEF RowsAreHandledAlerts
  <2>4. handled # <<>> => \E r \in 1 .. k : alerts'[r].id = Last(handled).id
    BY <1>1, <1>2 DEF RowsAreHandledAlerts
  <2> QED
    BY <1>1, <1>3, <2>1, <2>2, <2>3, <2>4 DEF RowsAreHandledAlerts
<1>8. KeepsMostSevere'
  <2>1. ASSUME NEW s PROVE AtLeast(alerts', s) = AtLeast(alerts, s)
    BY <1>1, <1>2, <1>3 DEF AtLeast, Rows
  <2> QED
    BY <1>1, <2>1 DEF KeepsMostSevere
<1>9. StableUntilFull'
  BY <1>1, <1>2, <1>3 DEF StableUntilFull
<1>10. FlashesWhenNew'
  BY RenderKeepsFlashes
<1> QED
  BY <1>4, <1>5, <1>6, <1>7, <1>8, <1>9, <1>10
=============================================================================
