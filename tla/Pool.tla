-------------------------------- MODULE Pool --------------------------------
(***************************************************************************)
(* The slab pool SCPool of sc_arena.h: a free list whose links lie in the   *)
(* free slots themselves.  A slot that is held belongs to the program,      *)
(* which writes anything over its link; giving a slot back twice is outside *)
(* the contract.  Slot 0 stands for NULL.                                   *)
(***************************************************************************)
EXTENDS Integers, Sequences, FiniteSets

CONSTANT Capacity
CapacityAssumption == Capacity \in Nat \ {0}

Slots == 1..Capacity
NULL  == 0

VARIABLES next,        \* the first word of each slot, read as a pointer
          free_list, count,
          held,        \* history: how many hold each slot
          chain        \* history: the slots of the free list, first one first

vars == <<next, free_list, count, held, chain>>

(* sc_pool_init links every slot to the one after it. *)
Init ==
  /\ next = [s \in Slots |-> IF s = Capacity THEN NULL ELSE s + 1]
  /\ free_list = 1 /\ count = 0 /\ held = [s \in Slots |-> 0] /\ chain = [i \in 1..Capacity |-> i]

Mut_AllocSame ==               \* the head stays where it is
  /\ free_list # NULL
  /\ next' = [next EXCEPT ![free_list] = NULL]
  /\ count' = count + 1 /\ UNCHANGED free_list
  /\ held' = [held EXCEPT ![free_list] = @ + 1] /\ chain' = Tail(chain)

Alloc ==
  /\ free_list # NULL
  /\ free_list' = next[free_list] /\ next' = [next EXCEPT ![free_list] = NULL]
  /\ count' = count + 1
  /\ held' = [held EXCEPT ![free_list] = @ + 1] /\ chain' = Tail(chain)

AllocFails == free_list = NULL /\ UNCHANGED vars

Free(s) ==
  /\ held[s] > 0
  /\ next' = [next EXCEPT ![s] = free_list] /\ free_list' = s
  /\ count' = count - 1
  /\ held' = [held EXCEPT ![s] = @ - 1] /\ chain' = <<s>> \o chain

(* The program uses its slot. *)
Write(s, w) ==
  /\ held[s] > 0 /\ next' = [next EXCEPT ![s] = w]
  /\ UNCHANGED <<free_list, count, held, chain>>

Next == \/ Alloc \/ AllocFails
        \/ \E s \in Slots : Free(s) \/ \E w \in Slots \cup {NULL} : Write(s, w)
Spec == Init /\ [][Next]_vars

-----------------------------------------------------------------------------
TypeOK ==
  /\ next \in [Slots -> Slots \cup {NULL}] /\ free_list \in Slots \cup {NULL}
  /\ count \in 0..Capacity /\ held \in [Slots -> Nat] /\ chain \in Seq(Slots)

(* The links from free_list lead through every slot that is not held, once,
   and end in NULL, whatever the program writes into the slots it holds. *)
ChainIsFreeSlots ==
  /\ free_list = IF chain = <<>> THEN NULL ELSE chain[1]
  /\ \A i \in 1..Len(chain) :
       next[chain[i]] = IF i = Len(chain) THEN NULL ELSE chain[i + 1]
  /\ \A i, j \in 1..Len(chain) : chain[i] = chain[j] => i = j
  /\ \A s \in Slots : (held[s] > 0) <=> (\A i \in 1..Len(chain) : chain[i] # s)

(* `count` is the number of slots that are held: the pool says it is full, or
   empty, exactly when it is. *)
CountIsLive == count = Cardinality({s \in Slots : held[s] > 0}) /\ (free_list = NULL <=> count = Capacity)

(* The list stays whole and the count right. *)
PoolIsWhole == TypeOK /\ ChainIsFreeSlots /\ CountIsLive

(* The pool keeps the promise of an allocator: what it hands out is held by
   nobody else. *)
Store == INSTANCE SlotStore
StoreSpec == Store!Spec

(* And it does so with a list that is whole after every step. *)
PoolIsStore == StoreSpec /\ [][PoolIsWhole']_vars
=============================================================================
