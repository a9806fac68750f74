------------------------------ MODULE AlertTable ------------------------------
(***************************************************************************)
(* The threat tracker of the SOC dashboard: handle_alert enters an alert   *)
(* in a table of THREAT_MAX rows, putting out one of the least severe when *)
(* the table is full, and alert_sort restores the order; render_threats    *)
(* draws the topmost rows and counts down their flashing.                  *)
(*                                                                         *)
(* The table is a sequence: d->alerts[0 .. alert_count - 1].  Definitions  *)
(* named Mut_... are seeded faults that no behaviour uses.                 *)
(***************************************************************************)
EXTENDS Naturals, Sequences, FiniteSets, SequencesExt

CONSTANTS
    Severity,       \* the severities alerts are raised with
    ThreatMax,      \* THREAT_MAX: rows of the table (32)
    ThreatVisible,  \* THREAT_VISIBLE: rows drawn at most (12)
    FlashFrames     \* frames a new alert flashes for (8)

TableAssumption ==
    /\ Severity \subseteq Nat
    /\ ThreatMax \in Nat \ {0}
    /\ ThreatVisible \in Nat
    /\ FlashFrames \in Nat

VARIABLES
    alerts,     \* d->alerts
    handled,    \* history: the alerts handle_alert was given, in order
    shown       \* history: in how many frames each was drawn, up to FlashFrames

tableVars == <<alerts, handled, shown>>

Rows == DOMAIN alerts

-----------------------------------------------------------------------------
Init == /\ alerts = <<>>
        /\ handled = <<>>
        /\ shown = <<>>

(* alert_sort: an insertion sort that walks down past the less severe rows. *)
Mut_InsertPastEquals(sorted, row) ==
    LET place == SelectLastInSeq(sorted, LAMBDA above : above.sev > row.sev)
    IN  SubSeq(sorted, 1, place) \o <<row>> \o SubSeq(sorted, place + 1, Len(sorted))

Mut_InsertOverwrites(sorted, row) ==
    LET place == SelectLastInSeq(sorted, LAMBDA above : above.sev >= row.sev)
    IN  SubSeq(sorted, 1, place) \o <<row>> \o SubSeq(sorted, place + 2, Len(sorted))

Insert(sorted, row) ==
    LET place == SelectLastInSeq(sorted, LAMBDA above : above.sev >= row.sev)
    IN  SubSeq(sorted, 1, place) \o <<row>> \o SubSeq(sorted, place + 1, Len(sorted))

(* After k rows the loop has sorted the first k of the table. *)
Sorted(table) ==
    LET upTo[k \in 0 .. Len(table)] ==
            IF k = 0 THEN <<>> ELSE Insert(upTo[k - 1], table[k])
    IN  upTo[Len(table)]

(* The row a new alert is put in: the next free one, or else the first of   *)
(* those with the least severity.                                           *)
Mut_LastSlot(table) == IF Len(table) < ThreatMax THEN Len(table) + 1 ELSE 1

Slot(table) ==
    IF Len(table) < ThreatMax
    THEN Len(table) + 1
    ELSE SelectInSeq(table, LAMBDA row : \A r \in DOMAIN table : row.sev <= table[r].sev)

Place(table, row) ==
    [r \in 1 .. Max({Len(table), Slot(table)}) |->
        IF r = Slot(table) THEN row ELSE table[r]]

HandleAlert(id, sev) ==
    /\ alerts' = Sorted(Place(alerts, [id |-> id, sev |-> sev, flash |-> FlashFrames]))
    /\ handled' = Append(handled, [id |-> id, sev |-> sev])
    /\ shown' = Append(shown, 0)

(* render_threats in a window with place for `visible` rows. *)
Drawn(visible) == 1 .. Min({Len(alerts), visible, ThreatVisible})

Mut_RenderThreats(visible) ==
    /\ alerts' = [r \in Rows |->
                    IF r \in Drawn(visible) /\ r < visible /\ alerts[r].flash > 0
                    THEN [alerts[r] EXCEPT !.flash = @ - 1]
                    ELSE alerts[r]]
    /\ shown' = [n \in DOMAIN shown |->
                    IF \E r \in Drawn(visible) : alerts[r].id = handled[n].id
                    THEN Min({shown[n] + 1, FlashFrames})
                    ELSE shown[n]]
    /\ UNCHANGED handled

RenderThreats(visible) ==
    /\ alerts' = [r \in Rows |->
                    IF r \in Drawn(visible) /\ alerts[r].flash > 0
                    THEN [alerts[r] EXCEPT !.flash = @ - 1]
                    ELSE alerts[r]]
    /\ shown' = [n \in DOMAIN shown |->
                    IF \E r \in Drawn(visible) : alerts[r].id = handled[n].id
                    THEN Min({shown[n] + 1, FlashFrames})
                    ELSE shown[n]]
    /\ UNCHANGED handled

-----------------------------------------------------------------------------
Row == [id : Nat, sev : Severity, flash : 0 .. FlashFrames]

(* The table never has more than THREAT_MAX rows, and no flash counter      *)
(* counts below zero.                                                       *)
TableTypeOK == /\ alerts \in Seq(Row)
               /\ Len(alerts) <= ThreatMax
               /\ handled \in Seq([id : Nat, sev : Severity])
               /\ shown \in [DOMAIN handled -> 0 .. FlashFrames]

(* The panel lists the alerts by falling severity after every alert         *)
(* (README.md:26), although handle_alert overwrites a row in the middle.    *)
SortedBySeverity ==
    \A r, s \in Rows : r < s => alerts[r].sev >= alerts[s].sev

(* Sequence `s` is what a stable sort by falling severity makes of a table: *)
(* the same rows, each once, those of equal severity in their old order.    *)
IsStableSort(s, table) ==
    /\ Len(s) = Len(table)
    /\ \E from \in [DOMAIN s -> DOMAIN table] :
           /\ \A r \in DOMAIN table : \E i \in DOMAIN s : from[i] = r
           /\ \A i \in DOMAIN s : s[i] = table[from[i]]
           /\ \A i, j \in DOMAIN s :
                  i < j => \/ s[i].sev > s[j].sev
                           \/ s[i].sev = s[j].sev /\ from[i] < from[j]

(* The rows are distinct handled alerts, as many as there are or as fit,    *)
(* and the one handled last is among them: the shifting of alert_sort       *)
(* neither loses, doubles nor mixes up rows.                                *)
RowsAreHandledAlerts ==
    /\ Len(alerts) = Min({Len(handled), ThreatMax})
    /\ \A r \in Rows : \E n \in DOMAIN handled :
            alerts[r].id = handled[n].id /\ alerts[r].sev = handled[n].sev
    /\ \A r, s \in Rows : alerts[r].id = alerts[s].id => r = s
    /\ handled # <<>> => \E r \in Rows : alerts[r].id = Last(handled).id

(* Alerts are put out in order of severity.  Since the newest is always     *)
(* entered, even into a table of graver ones, of the alerts of severity s   *)
(* or more only one may be missing while the table has a row for it.        *)
AtLeast(table, s) == {r \in DOMAIN table : table[r].sev >= s}

KeepsMostSevere ==
    \A s \in Severity :
        Cardinality(AtLeast(alerts, s))
            >= Min({Cardinality(AtLeast(handled, s)), ThreatMax - 1})

(* As long as nothing has been put out, alerts of equal severity stay in    *)
(* the order in which they were raised.                                     *)
StableUntilFull ==
    Len(handled) <= ThreatMax =>
        \A r, s \in Rows : r < s /\ alerts[r].sev = alerts[s].sev
                            => alerts[r].id < alerts[s].id

(* A row flashes for its first FlashFrames frames on the screen, no matter  *)
(* how the sorting moves it and how long it was out of sight.               *)
FlashesWhenNew ==
    \A r \in Rows : \A n \in DOMAIN handled :
        alerts[r].id = handled[n].id => alerts[r].flash + shown[n] = FlashFrames

=============================================================================
