----------------------------- MODULE MCSocDashboard -----------------------------
(***************************************************************************)
(* The two threads on two small graphs, each with an edge from a node to   *)
(* itself.  In the larger one nodes 1 and 2 lie in one cell, so the edges  *)
(* from 0 to each have their middle in one cell too.                       *)
(***************************************************************************)
EXTENDS SocDashboard

TwoEdges == <<<<0, 1>>, <<1, 1>>>>
TwoPlaces == [n \in 0 .. 1 |-> IF n = 0 THEN "left" ELSE "right"]

ThreeEdges == <<<<0, 1>>, <<0, 2>>, <<2, 2>>>>
ThreePlaces == [n \in 0 .. 2 |-> IF n = 0 THEN "left" ELSE "right"]

(* Half way between a node on the left and one on the right. *)
Between == [p \in (0 .. NodeCount - 1) \X (0 .. NodeCount - 1) |->
              IF NodeCell[p[1]] = NodeCell[p[2]] THEN NodeCell[p[1]] ELSE "middle"]

=============================================================================
