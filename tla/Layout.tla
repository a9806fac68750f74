-------------------------------- MODULE Layout --------------------------------
(***************************************************************************)
(* The flexbox engine of sc_layout.h: a tree of nodes in index arrays, and  *)
(* the two passes that give every node a rectangle.  A style or rectangle   *)
(* is a record of functions on the axes "x" and "y"; a row's main axis is   *)
(* "x".  Lengths are integers, and a division rounds down; the runs choose  *)
(* lengths that divide.  Nodes are numbered from 0, as in the code.         *)
(***************************************************************************)
EXTENDS Integers, Sequences, FiniteSets, FiniteSetsExt, Functions

CONSTANTS MaxNodes, Styles, Sizes      \* Sizes: the available space, a set of [x, y]

Axes      == {"x", "y"}
Undefined == -1
None      == -1
Other(a)  == IF a = "x" THEN "y" ELSE "x"

(* SCLayoutStyle.  No length is negative, except to say that there is none. *)
Style ==
  [dir : Axes, justify : {"start", "end", "center", "between", "around"},
   align : {"start", "end", "center", "stretch"}, grow : Nat,
   size : [Axes -> Nat \cup {Undefined}], min : [Axes -> Nat \cup {Undefined}],
   mStart : [Axes -> Nat], mEnd : [Axes -> Nat], pStart : [Axes -> Nat], pEnd : [Axes -> Nat]]

LayoutAssumption == MaxNodes \in Nat /\ Styles \subseteq Style /\ Sizes \subseteq [Axes -> Nat]

VARIABLES parent, first_child, next_sibling, child_count, style,   \* per node
          rect,        \* the result of each node: position and extent by axis
          computed     \* history: the space sc_layout_compute was given, {} after a change

topology == <<parent, first_child, next_sibling, child_count, style>>
vars == <<topology, rect, computed>>

Nodes == DOMAIN parent
NoRect == [pos |-> [a \in Axes |-> 0], ext |-> [a \in Axes |-> 0]]

Init ==
  /\ parent = [i \in {} |-> 0] /\ first_child = parent /\ next_sibling = parent
  /\ child_count = parent /\ style = [i \in {} |-> 0] /\ rect = [i \in {} |-> 0]
  /\ computed = {}

Extended(f, v) == [i \in Nodes \cup {Cardinality(Nodes)} |-> IF i \in Nodes THEN f[i] ELSE v]

(* The chain of siblings from node i on. *)
Chain[i \in Nodes \cup {None}] ==
  IF i = None THEN <<>> ELSE <<i>> \o Chain[next_sibling[i]]

Children(p) == Chain[first_child[p]]

Kids(p) == {Children(p)[n] : n \in DOMAIN Children(p)}

LastChild(p) == IF p = None \/ Children(p) = <<>> THEN None ELSE Children(p)[Len(Children(p))]

(* A root (p is None) is in nobody's chain. *)
AddNode(p, s) ==
  LET n == Cardinality(Nodes) IN
  /\ n < MaxNodes
  /\ parent' = Extended(parent, p) /\ style' = Extended(style, s)
  /\ first_child' = Extended([i \in Nodes |->
       IF i = p /\ LastChild(p) = None THEN n ELSE first_child[i]], None)
  /\ next_sibling' = Extended([i \in Nodes |->
       IF i = LastChild(p) THEN n ELSE next_sibling[i]], None)
  /\ child_count' = Extended([i \in Nodes |->
       IF i = p THEN child_count[i] + 1 ELSE child_count[i]], 0)
  /\ rect' = Extended(rect, NoRect) /\ computed' = {}

-----------------------------------------------------------------------------
(* Pass 1.  A leaf is measured along its own direction. *)

Total(f) == FoldFunction(+, 0, f)

Margin(s, a)  == s.mStart[a] + s.mEnd[a]
Padding(s, a) == s.pStart[a] + s.pEnd[a]

LeafBase(s) ==
  LET given == IF s.size[s.dir] = Undefined THEN 0 ELSE s.size[s.dir]
  IN IF s.min[s.dir] = Undefined THEN given ELSE Max({given, s.min[s.dir]})

BaseSize[i \in Nodes] ==
  IF first_child[i] = None THEN LeafBase(style[i])
  ELSE Padding(style[i], style[i].dir)
       + Total([k \in Kids(i) |-> BaseSize[k] + Margin(style[k], style[k].dir)])

-----------------------------------------------------------------------------
(* Pass 2.  `first` and `second` are the two lengths a node is given; it takes
   them for its main and its cross axis. *)

RectOf(s, first, second, origin) ==
  LET given == [a \in Axes |-> IF a = s.dir THEN first ELSE second]
  IN [ext |-> [a \in Axes |-> IF s.size[a] = Undefined THEN given[a] ELSE s.size[a]],
      pos |-> [a \in Axes |-> origin[a] + s.mStart[IF a = "x" THEN s.dir ELSE Other(s.dir)]]]

Content(s, r, a) == r.ext[a] - Padding(s, a)

KidsBase(i)  == Total([k \in Kids(i) |-> BaseSize[k]])
KidsGrow(i)  == Total([k \in Kids(i) |-> style[k].grow])
Free(i, r)   == Content(style[i], r, style[i].dir) - KidsBase(i)

Gap(i, r) ==
  CASE style[i].justify = "between" -> IF child_count[i] > 1 THEN Free(i, r) \div (child_count[i] - 1) ELSE 0
    [] style[i].justify = "around"  -> Free(i, r) \div child_count[i]
    [] OTHER -> 0

Start(i, r) ==
  style[i].pStart[style[i].dir] +
  CASE style[i].justify = "end"    -> Free(i, r)
    [] style[i].justify = "center" -> Free(i, r) \div 2
    [] style[i].justify = "around" -> Gap(i, r) \div 2
    [] OTHER -> 0

(* What child k of a parent at r gets along and across the parent's direction. *)
MainOf(k, r) ==
  LET p == parent[k]
  IN BaseSize[k] + IF Free(p, r) > 0 /\ KidsGrow(p) > 0
                   THEN (style[k].grow * Free(p, r)) \div KidsGrow(p) ELSE 0

CrossOf(k, r) ==
  LET s == style[parent[k]]
      c == Other(s.dir)
  IN IF s.align = "stretch"
     THEN Content(s, r, c) - Margin(style[k], c) - Padding(style[k], c)
     ELSE IF style[k].size[c] = Undefined THEN 0 ELSE style[k].size[c]

CrossOffset(k, r) ==
  LET s     == style[parent[k]]
      c     == Other(s.dir)
      outer == CrossOf(k, r) + Margin(style[k], c)
  IN s.pStart[c] + CASE s.align = "center" -> (Content(s, r, c) - outer) \div 2
                     [] s.align = "end"    -> Content(s, r, c) - outer
                     [] OTHER -> 0

Before(k) == {j \in Nodes : parent[j] = parent[k] /\ j < k}

Mut_Cursor(k, r) ==            \* advances by what was measured, without the growth
  Start(parent[k], r) + Total([j \in Before(k) |-> BaseSize[j] + Gap(parent[k], r)])

Cursor(k, r) ==
  Start(parent[k], r) + Total([j \in Before(k) |-> MainOf(j, r) + Gap(parent[k], r)])

(* The rectangle of a node that is in the tree of node 0. *)
PlacedFrom(r, i) ==
  LET d == style[parent[i]].dir
      origin == [a \in Axes |-> r.pos[a] + IF a = d THEN Cursor(i, r) ELSE CrossOffset(i, r)]
  IN IF d = "x" THEN RectOf(style[i], MainOf(i, r), CrossOf(i, r), origin)
     ELSE RectOf(style[i], CrossOf(i, r), MainOf(i, r), origin)

InTree[i \in Nodes] == i = 0 \/ (parent[i] # None /\ InTree[parent[i]])
Tree == {i \in Nodes : InTree[i]}

RootRect(space) ==
  RectOf(style[0], space[style[0].dir], space[Other(style[0].dir)], [a \in Axes |-> 0])

Placed(i, space) ==
  LET place[k \in Tree] == IF k = 0 THEN RootRect(space) ELSE PlacedFrom(place[parent[k]], k)
  IN place[i]

Compute(space) ==
  /\ Nodes # {}
  /\ rect' = [i \in Nodes |-> IF i \in Tree THEN Placed(i, space) ELSE rect[i]]
  /\ computed' = {space} /\ UNCHANGED topology

Next == \/ \E p \in Nodes \cup {None}, s \in Styles : AddNode(p, s)
        \/ \E space \in Sizes : Compute(space)
Spec == Init /\ [][Next]_vars

-----------------------------------------------------------------------------
TypeOK ==
  /\ Nodes = 0..(Cardinality(Nodes) - 1) /\ Cardinality(Nodes) <= MaxNodes
  /\ \A d \in {DOMAIN first_child, DOMAIN next_sibling, DOMAIN child_count,
              DOMAIN style, DOMAIN rect} : d = Nodes
  /\ \A i \in Nodes : {parent[i], first_child[i], next_sibling[i]} \subseteq Nodes \cup {None}

(* The links hold every node once, under its parent, in the order in which
   the nodes were added: a walk of the tree ends, and misses nothing. *)
LinksAreTree ==
  \A p \in Nodes :
    LET kids == Children(p)
    IN /\ {kids[n] : n \in DOMAIN kids} = {i \in Nodes : parent[i] = p}
       /\ \A m, n \in DOMAIN kids : m < n => kids[m] < kids[n]
       /\ child_count[p] = Len(kids) /\ \A i \in DOMAIN kids : kids[i] > p

Fresh     == computed # {}
Side(i, a)    == rect[i].pos[a] + rect[i].ext[a]
Bare(s)   == \A a \in Axes : Margin(s, a) = 0
Main(p)   == style[p].dir
RowLike   == \A i \in Nodes \ {0} : style[i].dir = "x"
IsChild(i) == InTree[i] /\ i # 0
FreeOf(p) == Free(p, rect[p])

(* The node's length along its parent is what pass 1 has measured: pass 1
   measures a leaf along the leaf's own direction, and ignores the explicit
   length of a node that has children; pass 2 applies it. *)
Measured(i) == \/ style[i].size[Main(parent[i])] = Undefined
               \/ first_child[i] = None /\ Main(parent[i]) = "x"

(* In a row or column of rows, without margins, where the children's sizes fit:
   siblings follow one another without overlapping, whatever is justified or
   grows.  (A column inside another node takes its width for its height.) *)
SiblingsDisjoint ==
  (Fresh /\ RowLike) =>
    \A i, j \in Nodes :
      (IsChild(i) /\ IsChild(j) /\ parent[i] = parent[j] /\ i < j
       /\ Bare(style[i]) /\ Bare(style[j]) /\ Measured(i) /\ FreeOf(parent[i]) >= 0)
        => Side(i, Main(parent[i])) <= rect[j].pos[Main(parent[i])]

(* And they lie in the parent's content, if it starts them at its start or
   leaves the free space to them: justified space and growth are both added. *)
ChildrenInside ==
  (Fresh /\ RowLike) =>
    \A i \in Nodes :
      (IsChild(i) /\ (\A j \in Nodes : parent[j] = parent[i] => Bare(style[j]))
       /\ Measured(i) /\ FreeOf(parent[i]) >= 0
       /\ (style[parent[i]].justify = "start" \/ KidsGrow(parent[i]) = 0))
        => LET p == parent[i] s == style[p] d == s.dir
           IN /\ rect[i].pos[d] >= rect[p].pos[d] + s.pStart[d]
              /\ Side(i, d) <= Side(p, d) - s.pEnd[d]

(* Growing children whose shares are whole use up the space: the last one ends
   at the parent's content. *)
GrowthFills ==
  (Fresh /\ RowLike) =>
    \A p \in Nodes :
      (InTree[p] /\ Children(p) # <<>> /\ FreeOf(p) >= 0 /\ style[p].justify = "start"
       /\ (\A k \in Nodes : parent[k] = p =>
             /\ Bare(style[k]) /\ style[k].grow > 0 /\ style[k].size[Main(p)] = Undefined
             /\ (style[k].grow * FreeOf(p)) % KidsGrow(p) = 0))
        => Side(Children(p)[Len(Children(p))], Main(p)) = Side(p, Main(p)) - style[p].pEnd[Main(p)]

(* The widgets' places as a program may count on them. *)
LayoutIsSound == TypeOK /\ LinksAreTree /\ SiblingsDisjoint /\ ChildrenInside /\ GrowthFills

=============================================================================
