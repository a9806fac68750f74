------------------------------ MODULE StockLayout ------------------------------
(***************************************************************************)
(* The widgets of stock_dashboard.c laid out by the engine of Layout.tla:   *)
(* the tree that build_scene builds (a header with four labels over a grid  *)
(* of cells), with fewer columns and rows than the program's 32.  Lengths   *)
(* are the program's; the gaps that result are whole numbers.               *)
(***************************************************************************)
EXTENDS Layout

CONSTANTS Cols, Rows    \* at least one of each

ViewW == 1280
ViewH == 720
HeaderH == 56
Gutter == 4
CellW == (ViewW - (Cols + 1) * Gutter) \div Cols
CellH == ((ViewH - HeaderH) - (Rows + 1) * Gutter) \div Rows

Both(a, b) == [x |-> a, y |-> b]
(* A style of which the program gives only the size: the rest is zero. *)
Sized(w, h) ==
  [dir |-> "x", justify |-> "start", align |-> "start", grow |-> 0, size |-> Both(w, h), min |-> Both(0, 0),
   mStart |-> Both(0, 0), mEnd |-> Both(0, 0), pStart |-> Both(0, 0), pEnd |-> Both(0, 0)]

RootStyle   == [Sized(ViewW, ViewH) EXCEPT !.dir = "y", !.align = "stretch"]
HeaderStyle == [Sized(ViewW, HeaderH) EXCEPT !.justify = "between", !.align = "center",
                                             !.pStart = Both(16, 8), !.pEnd = Both(16, 8)]
TitleStyle  == [Sized(Undefined, HeaderH - 16) EXCEPT !.grow = 1]
StatStyle   == Sized(120, 24)
GridStyle   == [Sized(ViewW, ViewH - HeaderH) EXCEPT !.pStart = Both(Gutter, Gutter), !.pEnd = Both(Gutter, Gutter)]
CellStyle   == [Sized(CellW, CellH) EXCEPT !.mStart = Both(Gutter \div 2, Gutter \div 2),
                                           !.mEnd = Both(Gutter \div 2, Gutter \div 2)]
PartStyle(n) == Sized(CellW, IF n = 3 THEN 4 ELSE 10)

(* The calls of build_scene, in order: the parent and the style of each node.
   Nodes 0, 1 and 6 are the root, the header and the grid. *)
Cell(i) == 7 + 4 * i
Built ==
  <<<<None, RootStyle>>, <<0, HeaderStyle>>, <<1, TitleStyle>>, <<1, StatStyle>>, <<1, StatStyle>>,
    <<1, StatStyle>>, <<0, GridStyle>>>>
  \o [k \in 1..(4 * Cols * Rows) |->
        LET i == (k - 1) \div 4 part == (k - 1) % 4
        IN IF part = 0 THEN <<6, CellStyle>> ELSE <<Cell(i), PartStyle(part)>>]

BuildScene == Cardinality(Nodes) < Len(Built)
              /\ AddNode(Built[Cardinality(Nodes) + 1][1], Built[Cardinality(Nodes) + 1][2])
Frame == Cardinality(Nodes) = Len(Built) /\ Compute(Both(ViewW, ViewH))

StockSpec == Init /\ [][BuildScene \/ Frame]_vars

-----------------------------------------------------------------------------
Labels == {2, 3, 4, 5}

(* "[CPU: 0.8%]  [RAM: 4.2 MB]  [60 fps]" in the header bar
   (stock_dashboard.c:11): every label of the header lies in the window. *)
LabelsInHeader ==
  Fresh => \A i \in Labels : rect[i].pos["x"] >= 0 /\ Side(i, "x") <= ViewW
=============================================================================
