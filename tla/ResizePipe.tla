------------------------------ MODULE ResizePipe ------------------------------
(***************************************************************************)
(* How a resize of the terminal reaches the window layout: the self-pipe   *)
(* of apps/soc_dashboard/soc_dashboard.c.  The SIGWINCH handler, on        *)
(* whichever thread it interrupts, only writes a byte; the main loop polls *)
(* the pipe once a frame, empties it and lays the windows out again        *)
(* (render.c, layout_windows).  Signals that arrive while one is pending   *)
(* merge, and a byte that does not fit in the pipe is given up.            *)
(*                                                                         *)
(* The program's own handler replaces the one ncurses installs, so getch   *)
(* never reports KEY_RESIZE; ncurses asks the terminal for its size in the *)
(* refresh that follows endwin.                                            *)
(*                                                                         *)
(* Definitions named Mut_... are seeded faults that no behaviour uses.     *)
(***************************************************************************)
EXTENDS Naturals, FiniteSets

CONSTANTS
    Size,           \* the sizes the terminal can have
    TooSmall,       \* those below 24 rows or 80 columns
    PipeCapacity,   \* bytes the pipe holds
    ReadSize,       \* bytes sigpipe_drain reads at a time (64)
    HasPipe         \* whether pipe() succeeded in sigpipe_init

ASSUME ResizeAssumption ==
    /\ TooSmall \subseteq Size
    /\ PipeCapacity \in Nat \ {0}
    /\ ReadSize \in Nat \ {0}
    /\ HasPipe \in BOOLEAN

VARIABLES
    size,       \* the terminal's size
    pending,    \* whether a SIGWINCH is pending
    pipe,       \* the bytes in the pipe
    screen,     \* the size of stdscr
    term,       \* d->term_rows and d->term_cols
    windows,    \* the size the windows were made for
    mpc         \* where the main loop is

vars == <<size, pending, pipe, screen, term, windows, mpc>>

-----------------------------------------------------------------------------
(* After initscr and the first layout_windows, which makes no windows in a *)
(* terminal that is too small.                                             *)
NoWindows == "none"

Init == /\ size \in Size
        /\ pending = FALSE
        /\ pipe = 0
        /\ screen = size
        /\ term = size
        /\ windows = IF size \in TooSmall THEN NoWindows ELSE size
        /\ mpc = "poll"

(* The user resizes the terminal. *)
Resize == /\ size' \in Size \ {size}
          /\ pending' = TRUE
          /\ UNCHANGED <<pipe, screen, term, windows, mpc>>

(* handle_sigwinch; without a pipe its write fails. *)
HandleSigwinch == /\ pending
                  /\ pending' = FALSE
                  /\ pipe' = IF HasPipe /\ pipe < PipeCapacity THEN pipe + 1 ELSE pipe
                  /\ UNCHANGED <<size, screen, term, windows, mpc>>

(* sigpipe_readable, once a frame. *)
Mut_Readable == HasPipe /\ pipe > 1

Readable == HasPipe /\ pipe > 0

PollQuiet == /\ mpc = "poll"
             /\ ~Readable
             /\ UNCHANGED vars

PollReadable == /\ mpc = "poll"
                /\ Readable
                /\ mpc' = "drain"
                /\ UNCHANGED <<size, pending, pipe, screen, term, windows>>

(* sigpipe_drain reads until the pipe is empty. *)
ReadPipe == /\ mpc = "drain"
            /\ pipe > 0
            /\ pipe' = IF pipe > ReadSize THEN pipe - ReadSize ELSE 0
            /\ UNCHANGED <<size, pending, screen, term, windows, mpc>>

EndDrain == /\ mpc = "drain"
            /\ pipe = 0
            /\ mpc' = "refresh"
            /\ UNCHANGED <<size, pending, pipe, screen, term, windows>>

(* endwin, refresh and clear. *)
Refresh == /\ mpc = "refresh"
           /\ screen' = size
           /\ mpc' = "layout"
           /\ UNCHANGED <<size, pending, pipe, term, windows>>

(* layout_windows. *)
Mut_DrainAfterLayout == /\ mpc = "layout"
                        /\ term' = screen
                        /\ windows' = IF screen \in TooSmall THEN windows ELSE screen
                        /\ pipe' = 0
                        /\ mpc' = "poll"
                        /\ UNCHANGED <<size, pending, screen>>

Layout == /\ mpc = "layout"
          /\ term' = screen
          /\ windows' = IF screen \in TooSmall THEN windows ELSE screen
          /\ mpc' = "poll"
          /\ UNCHANGED <<size, pending, pipe, screen>>

Main == PollQuiet \/ PollReadable \/ ReadPipe \/ EndDrain \/ Refresh \/ Layout

Next == Resize \/ HandleSigwinch \/ Main

Spec == Init /\ [][Next]_vars

(* A pending signal is delivered, and the main loop keeps running. *)
FairSpec == Spec /\ WF_vars(HandleSigwinch) /\ WF_vars(Main)

-----------------------------------------------------------------------------
(* The pipe is never over-filled and no windows are made for a terminal     *)
(* that is too small.                                                       *)
TypeOK == /\ size \in Size /\ screen \in Size /\ term \in Size
          /\ pending \in BOOLEAN
          /\ pipe \in 0 .. PipeCapacity
          /\ windows \in (Size \ TooSmall) \cup {NoWindows}
          /\ mpc \in {"poll", "drain", "refresh", "layout"}

(* When the loop is back at its poll with no signal and no byte on the way, *)
(* the layout is that of the terminal's present size: a resize during the   *)
(* drain, the refresh or the layout leaves a byte for the next frame.       *)
NoResizeLost ==
    mpc = "poll" /\ ~pending /\ pipe = 0 => term = size

(* The windows have the size layout_windows recorded, unless the terminal   *)
(* became too small and the old ones were kept.                             *)
WindowsMatch ==
    term \in TooSmall \/ windows = term

(* The inductive strengthening: where the news of the latest resize is.     *)
NewsOnItsWay ==
    \/ pending
    \/ pipe > 0
    \/ mpc \in {"drain", "refresh"}
    \/ mpc = "layout" /\ screen = size
    \/ mpc = "poll" /\ term = size

(* The layout follows the terminal, and the windows the layout. *)
LayoutFollows == TypeOK /\ NoResizeLost /\ WindowsMatch

(* A terminal that is no longer resized is laid out for its size in the     *)
(* end, and stays so.                                                       *)
LayoutSettles ==
    \A s \in Size : <>[](size = s) => <>[](term = s)

=============================================================================
