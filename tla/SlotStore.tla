------------------------------ MODULE SlotStore ------------------------------
(***************************************************************************)
(* What a fixed-size allocator promises: it hands out slots nobody holds,   *)
(* any of them.                                                            *)
(***************************************************************************)
EXTENDS Naturals
CONSTANT Slots
VARIABLE held       \* how many hold each slot

Init  == held = [s \in Slots |-> 0]
Alloc(s) == held[s] = 0 /\ held' = [held EXCEPT ![s] = 1]
Free(s)  == held[s] = 1 /\ held' = [held EXCEPT ![s] = 0]
Next  == \E s \in Slots : Alloc(s) \/ Free(s)
Spec  == Init /\ [][Next]_held
=============================================================================
