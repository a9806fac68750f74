-------------------------------- MODULE MCPanels --------------------------------
(***************************************************************************)
(* The parts of the SOC dashboard that its main thread owns, each given     *)
(* every input: the threat table, the log ring, the frame statistics, the   *)
(* command line and the resizing of the terminal.  They share no state, so  *)
(* a behaviour is one of a single part, which `part` names, while the       *)
(* others stay as they begin: the states add up instead of multiplying.     *)
(***************************************************************************)
EXTENDS ResizePipe, Sequences, SequencesExt

CONSTANTS
    Severity, ThreatMax, ThreatVisible, FlashFrames,
    MaxAlerts,                  \* bound: alerts handled in a behaviour
    Event, NoEvent, LogSlots, WordSize, LogVisible,
    Window, RefreshTime, Times, IndexWord, MaxFrames,
    Word, WordBits, MinRing, LogRing, MaxNodes, MaxFps, TargetFps, Numbers, MaxArgs

VARIABLES
    part,                       \* the part that takes steps
    alerts, handled, shown,
    logRing, logWrite, newest,
    frame_times, frame_idx, frame_count, fps_frames, fps_elapsed, last_fps, last_p99,
    samples, reported, basis,
    argv, arg, cfg

Threats == INSTANCE AlertTable
Log     == INSTANCE LogRing
Stats   == INSTANCE FrameStats WITH Refresh <- RefreshTime
Options == INSTANCE Config WITH i <- arg

threatVars == <<alerts, handled, shown>>
logVars    == <<logRing, logWrite, newest>>
statVars   == <<frame_times, frame_idx, frame_count, fps_frames, fps_elapsed, last_fps,
                last_p99, samples, reported, basis>>
argVars    == <<argv, arg, cfg>>

ASSUME PanelAssumption == /\ Threats!TableAssumption /\ Log!LogAssumption
                          /\ Stats!FrameAssumption /\ Options!ConfigAssumption

-----------------------------------------------------------------------------
AlertArrives == /\ Len(handled) < MaxAlerts
                /\ \E sev \in Severity : Threats!HandleAlert(Len(handled), sev)

FrameDrawn == \E visible \in 0 .. ThreatVisible : Threats!RenderThreats(visible)

PartsInit ==
    /\ part \in {"threats", "log", "stats", "options", "resize"}
    /\ Init /\ Threats!Init /\ Log!Init /\ Stats!Init /\ Options!Init
    /\ part # "resize" => size = CHOOSE s \in Size : s \notin TooSmall
    /\ part # "options" => argv = <<>>

PartsNext ==
    \/ /\ part = "threats" /\ (AlertArrives \/ FrameDrawn)
       /\ UNCHANGED <<part, vars, logVars, statVars, argVars>>
    \/ /\ part = "log" /\ \E ev \in Event : Log!HandleLog(ev)
       /\ UNCHANGED <<part, vars, threatVars, statVars, argVars>>
    \/ /\ part = "stats" /\ Stats!Next
       /\ UNCHANGED <<part, vars, threatVars, logVars, argVars>>
    \/ /\ part = "options" /\ Options!Next
       /\ UNCHANGED <<part, vars, threatVars, logVars, statVars>>
    \/ /\ part = "resize" /\ Next
       /\ UNCHANGED <<part, threatVars, logVars, statVars, argVars>>

(* The fairness of ResizePipe; the other parts need none. *)
PartsSpec ==
    /\ PartsInit
    /\ [][PartsNext]_<<part, vars, threatVars, logVars, statVars, argVars>>
    /\ WF_vars(part = "resize" /\ HandleSigwinch) /\ WF_vars(part = "resize" /\ Main)

-----------------------------------------------------------------------------
(* The properties are stated in the modules of the parts. *)

(* The rows of the threat panel are handled alerts, each once, the newest   *)
(* among them (handle_alert).                                               *)
RowsAreHandledAlerts == Threats!TableTypeOK /\ Threats!RowsAreHandledAlerts

(* A full table puts alerts out in order of severity (handle_alert).        *)
KeepsMostSevere == Threats!KeepsMostSevere

(* A row flashes in its first frames on the screen (render_threats).        *)
FlashesWhenNew == Threats!FlashesWhenNew

(* alert_sort is a stable sort of every table handle_alert can hand it, also *)
(* when the new row has replaced one in the middle, so that the table is    *)
(* sorted at all times (README.md:26), equals in the order of arrival.      *)
SortIsStableOrder ==
    /\ Threats!SortedBySeverity /\ Threats!StableUntilFull
    /\ \A sev \in Severity :
        LET table == Threats!Place(alerts, [id |-> Len(handled), sev |-> sev, flash |-> FlashFrames])
        IN  Threats!IsStableSort(Threats!Sorted(table), table)

(* The ring holds the newest events, and the log panel shows the newest of  *)
(* them for every height of its window (handle_log, render_log).            *)
LogShowsNewest == Log!LogTypeOK /\ Log!RingHoldsNewest /\ Log!LogShowsNewest

(* Every frame is counted once in the rates, and the percentile of a full   *)
(* ring is one (soc_dashboard.c, the frame loop and compute_p99).           *)
FrameFigures == Stats!FrameFigures

(* Each setting is that of the last valid option, within its table          *)
(* (parse_args).                                                            *)
SettingsHold == Options!SettingsHold

=============================================================================
