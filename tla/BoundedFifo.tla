----------------------------- MODULE BoundedFifo -----------------------------
(***************************************************************************)
(* What the dashboard's task queue promises its two threads, without the   *)
(* ring, the indices or the order of the stores: a first-in first-out      *)
(* queue of at most Capacity outstanding tasks, whose producer counts the  *)
(* tasks already released by the consumer from a number it may read late.  *)
(* A post is refused exactly when, by that number, the queue is full.      *)
(***************************************************************************)
EXTENDS Naturals, Sequences

CONSTANTS
    Task,       \* the tasks that can be posted
    Capacity    \* how many may be outstanding, at least one: TASK_RING_SIZE - 1

VARIABLES
    accepted,   \* the tasks the queue has taken, in posting order
    delivered,  \* the tasks whose handler has run, in that order
    released,   \* how many of those have given their place back
    known,      \* how many of those the producer has noticed
    admitted,   \* whether a post has been let in and not yet completed
    refused     \* how many posts were turned away

vars == <<accepted, delivered, released, known, admitted, refused>>

Init == /\ accepted = <<>>
        /\ delivered = <<>>
        /\ released = 0
        /\ known = 0
        /\ admitted = FALSE
        /\ refused = 0

(* A post looks at the consumer's progress, perhaps an old value of it, and *)
(* is admitted if that leaves a place free.                                 *)
Admit == /\ ~admitted
         /\ known' \in known .. released
         /\ Len(accepted) - known' < Capacity
         /\ admitted' = TRUE
         /\ UNCHANGED <<accepted, delivered, released, refused>>

(* ... and refused if it does not. *)
Refuse == /\ ~admitted
          /\ known' \in known .. released
          /\ Len(accepted) - known' = Capacity
          /\ refused' = refused + 1
          /\ UNCHANGED <<accepted, delivered, released, admitted>>

(* The admitted task becomes visible to the consumer, all of it at once. *)
Publish == /\ admitted
           /\ \E t \in Task : accepted' = Append(accepted, t)
           /\ admitted' = FALSE
           /\ UNCHANGED <<delivered, released, known, refused>>

(* The oldest task not yet run is run, as it was posted. *)
Deliver == /\ released = Len(delivered)
           /\ Len(delivered) < Len(accepted)
           /\ delivered' = Append(delivered, accepted[Len(delivered) + 1])
           /\ UNCHANGED <<accepted, released, known, admitted, refused>>

(* Its place is given back. *)
Release == /\ released < Len(delivered)
           /\ released' = released + 1
           /\ UNCHANGED <<accepted, delivered, known, admitted, refused>>

Next == Admit \/ Refuse \/ Publish \/ Deliver \/ Release

Spec == Init /\ [][Next]_vars

=============================================================================
