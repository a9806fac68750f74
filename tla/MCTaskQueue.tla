----------------------------- MODULE MCTaskQueue -----------------------------
(***************************************************************************)
(* A ring of four slots, posted to often enough for its indices to wrap    *)
(* and for the producer to run into a full ring at every index.            *)
(***************************************************************************)
EXTENDS TaskQueue

(* The index arithmetic is the masking of the code: with a ring of a power  *)
(* of two slots, & TASK_RING_MASK is % TASK_RING_SIZE.                      *)
ASSUME MaskIsModulo ==
    /\ \A i \in Index : Succ(i) = (i + 1) % Slots
    /\ \A i, j \in Index : Dist(i, j) = ((j + Slots) - i) % Slots

=============================================================================
