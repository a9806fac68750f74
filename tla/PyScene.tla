-------------------------------- MODULE PyScene --------------------------------
(***************************************************************************)
(* The scene of bindings/python/silvercore.py: widgets in a list, linked to *)
(* their parents, and the layout that stacks the widgets without a parent.  *)
(* A widget is what its layout asks for: a height, or 0 for the default.    *)
(***************************************************************************)
EXTENDS Integers, Sequences, FiniteSets, SequencesExt

CONSTANTS MaxWidgets, Heights, DefaultHeight,
          Parents           \* what the caller gives as a parent

PyAssumption == /\ MaxWidgets \in Nat
                /\ Heights \subseteq Nat /\ DefaultHeight \in Nat \ {0}
                /\ Parents \subseteq Int

VARIABLES widgets,          \* parent, children, asked height, y and h
          laid              \* history: the number of widgets laid out by the last update
vars == <<widgets, laid>>

Init == widgets = <<>> /\ laid = 0

(* Widgets are numbered from 0. *)
At(w)  == widgets[w + 1]
Ids    == 0..(Len(widgets) - 1)
IsRoot(w) == At(w).parent = -1

Mut_Add(p, h) ==            \* the parent is not checked
  /\ Len(widgets) < MaxWidgets
  /\ widgets' = Append([i \in DOMAIN widgets |->
       IF i = p + 1 THEN [widgets[i] EXCEPT !.children = Append(@, Len(widgets))] ELSE widgets[i]],
       [parent |-> p, children |-> <<>>, height |-> h, y |-> 0, h |-> DefaultHeight])
  /\ UNCHANGED laid

(* _add: a parent that does not exist is an IndexError, and nothing is added. *)
Add(p, h) ==
  /\ Len(widgets) < MaxWidgets /\ p < Len(widgets)
  /\ widgets' = Append([i \in DOMAIN widgets |->
       IF p >= 0 /\ i = p + 1 THEN [widgets[i] EXCEPT !.children = Append(@, Len(widgets))] ELSE widgets[i]],
       [parent |-> p, children |-> <<>>, height |-> h, y |-> 0, h |-> DefaultHeight])
  /\ UNCHANGED laid

HeightOf(w) == IF At(w).height > 0 THEN At(w).height ELSE DefaultHeight

Cursor[w \in 0..Len(widgets)] ==       \* what the roots before w take
  IF w = 0 THEN 0 ELSE Cursor[w - 1] + IF IsRoot(w - 1) THEN HeightOf(w - 1) ELSE 0

(* update, with _layout: only roots are placed.  (The call of the library is
   never reached: nothing sets self._ptr.) *)
Update ==
  /\ widgets' = [i \in DOMAIN widgets |->
       IF IsRoot(i - 1) THEN [widgets[i] EXCEPT !.y = Cursor[i - 1], !.h = HeightOf(i - 1)] ELSE widgets[i]]
  /\ laid' = Len(widgets)

Next == (\E p \in Parents, h \in Heights : Add(p, h)) \/ Update
Spec == Init /\ [][Next]_vars

-----------------------------------------------------------------------------
TypeOK == /\ Len(widgets) <= MaxWidgets
          /\ \A w \in Ids : At(w).parent < w /\ At(w).h > 0

(* The two directions of the links agree: a widget is once among the children
   of its parent, and nowhere else. *)
LinksAgree ==
  \A p \in Ids :
    LET kids == At(p).children
    IN /\ ToSet(kids) = {w \in Ids : At(w).parent = p} /\ Len(kids) = Cardinality(ToSet(kids))

(* After an update the roots lie below one another, without a gap. *)
RootsStacked ==
  laid = Len(widgets) =>
    \A v, w \in Ids : (IsRoot(v) /\ IsRoot(w) /\ v < w
                       /\ \A u \in (v + 1)..(w - 1) : ~IsRoot(u)) => At(w).y = At(v).y + At(v).h

(* The scene of the binding is sound. *)
PySceneIsSound == TypeOK /\ LinksAgree /\ RootsStacked

=============================================================================
