-------------------------------- MODULE Arena --------------------------------
(***************************************************************************)
(* The bump allocator SCArena of sc_arena.h.  Offsets are machine integers  *)
(* of Word values; what is aligned is the offset.  The history `live` holds *)
(* the allocations the program may still use: a pop gives back the last one *)
(* (once), the end of a temporary section those made in it, a reset all.    *)
(* Sections nest.                                                           *)
(***************************************************************************)
EXTENDS Integers, Sequences

CONSTANTS Word,        \* SIZE_MAX + 1
          Size,        \* a->size
          Sizes,       \* the nbytes that are asked for
          Aligns,      \* the alignments that are asked for
          MaxDepth, MaxPushes   \* bounds: nested sections, successful pushes

ASSUME ArenaAssumption ==
  /\ Word \in Nat /\ Size \in 1..(Word - 1)
  /\ Sizes \subseteq 0..(Word - 1) /\ Aligns \subseteq 1..(Word - 1)
  /\ MaxDepth \in Nat /\ MaxPushes \in Nat

(* No aligned offset lies beyond the end: every alignment divides the size.
   The code does not ask for it, and its bounds test (sc_arena.h:76) fails
   without it: a->size - aligned wraps. *)
ASSUME SizeIsAligned == \A a \in Aligns : Size % a = 0

VARIABLES
  offset, prev_off,    \* of the arena; temp_depth is the length of `temps`
  temps,               \* open sections: saved_off and (history) what was pushed before
  pushes,              \* history: number of successful pushes
  live                 \* history: [n, at, end] of the allocations in use

vars == <<offset, prev_off, temps, pushes, live>>

(* SC_ALIGN_UP in usize arithmetic. *)
AlignUp(x, a) == (((x + a - 1) % Word) \div a) * a

Room(aligned) == (Size - aligned) % Word      \* a->size - aligned, in usize

Fits(aligned, nbytes) == aligned >= offset /\ nbytes <= Room(aligned)

Init ==
  /\ offset = 0 /\ prev_off = 0
  /\ temps = <<>> /\ pushes = 0 /\ live = {}

(* sc_arena_push_aligned; one that does not fit returns NULL and changes nothing. *)
Push(nbytes, align) ==
  LET aligned == AlignUp(offset, align)
  IN /\ pushes < MaxPushes /\ Fits(aligned, nbytes)
     /\ prev_off' = offset /\ offset' = (aligned + nbytes) % Word
     /\ pushes' = pushes + 1
     /\ live' = live \cup {[n |-> pushes + 1, at |-> aligned, end |-> aligned + nbytes]}
     /\ UNCHANGED <<temps>>

Pop ==
  /\ offset' = prev_off
  /\ live' = {x \in live : x.n # pushes}
  /\ UNCHANGED <<prev_off, temps, pushes>>

Reset ==
  /\ offset' = 0 /\ prev_off' = 0 /\ live' = {}
  /\ UNCHANGED <<temps, pushes>>

Mut_TempBegin ==               \* saves the other offset
  /\ Len(temps) < MaxDepth
  /\ temps' = Append(temps, [off |-> prev_off, before |-> pushes])
  /\ UNCHANGED <<offset, prev_off, pushes, live>>

TempBegin ==
  /\ Len(temps) < MaxDepth
  /\ temps' = Append(temps, [off |-> offset, before |-> pushes])
  /\ UNCHANGED <<offset, prev_off, pushes, live>>

Innermost == temps[Len(temps)]

TempEnd ==
  /\ temps # <<>>
  /\ offset' = Innermost.off
  /\ temps' = SubSeq(temps, 1, Len(temps) - 1)
  /\ live' = {x \in live : x.n <= Innermost.before}
  /\ UNCHANGED <<prev_off, pushes>>

Next == \/ \E n \in Sizes, a \in Aligns : Push(n, a)
        \/ Pop \/ Reset \/ TempBegin \/ TempEnd
Spec == Init /\ [][Next]_vars

-----------------------------------------------------------------------------
TypeOK ==
  /\ offset \in 0..(Word - 1) /\ prev_off \in 0..(Word - 1)
  /\ pushes \in Nat
  /\ live \subseteq [n : 1..pushes, at : Nat, end : Nat]
  /\ temps \in Seq([off : 0..(Word - 1), before : 0..pushes])

(* "Overflow-safe OOB check" (sc_arena.h:76): memory in use lies in the buffer,
   below the offset, where no later push can reach it: also after a pop that
   follows another pop, the end of a section or a reset, and with sections
   open across pops and resets. *)
InBounds == offset <= Size /\ \A x \in live : x.end <= offset

(* No two allocations in use overlap, whatever order pops, resets and sections
   came in. *)
Disjoint == \A x, y \in live : x.n < y.n => x.end <= y.at

(* "The permanent allocations survive" the end of a section (docs/WIKI.md:273):
   the offset that it will restore is above everything older than the section. *)
SectionsKeepOlder ==
  \A d \in DOMAIN temps : \A x \in live : x.n <= temps[d].before => x.end <= temps[d].off

(* Together: an allocation that may be used is whole and nobody else's. *)
LiveIsIntact == TypeOK /\ InBounds /\ Disjoint /\ SectionsKeepOlder
=============================================================================
