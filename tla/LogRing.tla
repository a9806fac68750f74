-------------------------------- MODULE LogRing --------------------------------
(***************************************************************************)
(* The ring of recent log events of the SOC dashboard, written by          *)
(* handle_log and read by render_log and the panels, all on the main       *)
(* thread.  The write counter log_write is a u32 that counts events        *)
(* forever and is masked on every use, so it wraps long before a session   *)
(* of full rate has to end.                                                *)
(*                                                                         *)
(* Definitions named Mut_... are seeded faults that no behaviour uses.     *)
(***************************************************************************)
EXTENDS Naturals, Sequences, FiniteSets, SequencesExt

CONSTANTS
    Event,          \* the log events
    NoEvent,        \* what a slot holds before it is written (ts_ns = 0)
    LogSlots,       \* LOG_RING_SIZE, a power of two (8192)
    WordSize,       \* the values of a u32, a multiple of LogSlots (2^32)
    LogVisible      \* LOG_VISIBLE_ROWS: rows drawn at most (20)

LogAssumption ==
    /\ NoEvent \notin Event
    /\ LogSlots \in Nat \ {0}
    /\ WordSize \in Nat \ {0}
    /\ WordSize % LogSlots = 0
    /\ LogVisible \in 0 .. LogSlots

VARIABLES
    logRing,    \* d->log_ring
    logWrite,   \* d->log_write
    newest      \* history: the last LogSlots events handle_log was given

logVars == <<logRing, logWrite, newest>>

-----------------------------------------------------------------------------
Init == /\ logRing = [i \in 0 .. LogSlots - 1 |-> NoEvent]
        /\ logWrite = 0
        /\ newest = <<>>

LastOf(s, n) == SubSeq(s, Len(s) - n + 1, Len(s))

Remember(ev) ==
    newest' = LET seen == Append(newest, ev) IN LastOf(seen, Min({Len(seen), LogSlots}))

(* atomic_fetch_add returns the slot to write. *)
HandleLog(ev) ==
    /\ logRing' = [logRing EXCEPT ![logWrite % LogSlots] = ev]
    /\ logWrite' = (logWrite + 1) % WordSize
    /\ Remember(ev)

(* What render_log shows in each row of a window with place for `visible`,   *)
(* the row at the bottom being the newest; a slot never written is left out. *)
Mut_Row(visible, row) ==
    logRing[(((logWrite + WordSize) - (visible - 1 - row)) % WordSize) % LogSlots]

Row(visible, row) ==
    logRing[(((logWrite + WordSize) - (visible - 1 - row) - 1) % WordSize) % LogSlots]

-----------------------------------------------------------------------------
(* Slots hold events or nothing, and the counter is a u32. *)
LogTypeOK == /\ logRing \in [0 .. LogSlots - 1 -> Event \cup {NoEvent}]
             /\ logWrite \in 0 .. WordSize - 1
             /\ newest \in Seq(Event)
             /\ Len(newest) <= LogSlots

(* The event with `back` newer ones, if there have been that many.          *)
Recent(back) == IF back < Len(newest) THEN newest[Len(newest) - back] ELSE NoEvent

(* The log panel shows exactly the newest events, oldest first and without  *)
(* a gap, at the bottom of every window, also while the ring is not yet     *)
(* full, after it wraps, and when the u32 counter itself wraps.             *)
LogShowsNewest ==
    \A visible \in 0 .. LogVisible : \A row \in 0 .. visible - 1 :
        Row(visible, row) = Recent(visible - 1 - row)

(* The last LogSlots events are held (README.md:25): going back from the    *)
(* counter's slot finds them all, and nothing else.                         *)
RingHoldsNewest ==
    \A back \in 0 .. LogSlots - 1 :
        logRing[((logWrite + WordSize) - back - 1) % LogSlots] = Recent(back)

=============================================================================
