------------------------------ MODULE PanelProofs ------------------------------
(***************************************************************************)
(* Proofs about the panels of the SOC dashboard in the composition that    *)
(* the run of MCPanels checks: for every size of the threat table, any     *)
(* severities and any number of alerts and frames, and for every set of    *)
(* terminal sizes, capacity of the self-pipe and size of the reads that    *)
(* drain it.                                                               *)
(***************************************************************************)
EXTENDS MCPanels, SequenceTheorems, FiniteSetTheorems, TLAPS

(* The lemmas about the table, for the variables of this composition.       *)
Table == INSTANCE AlertTableProofs

-----------------------------------------------------------------------------
LEMMA SameInsert == ASSUME NEW s, NEW row PROVE Threats!Insert(s, row) = Table!Insert(s, row)
BY DEF Threats!Insert, Table!Insert, Threats!SelectLastInSeq, Table!SelectLastInSeq,
       Threats!Max, Table!Max

LEMMA SameTable ==
    ASSUME NEW table, NEW row
    PROVE  /\ Threats!Sorted(table) = Table!Sorted(table)
           /\ Threats!Slot(table) = Table!Slot(table)
           /\ Threats!Place(table, row) = Table!Place(table, row)
<1>1. Threats!Sorted(table) = Table!Sorted(table)
  BY SameInsert DEF Threats!Sorted, Table!Sorted
<1>2. Threats!Slot(table) = Table!Slot(table)
  BY DEF Threats!Slot, Table!Slot, Threats!SelectInSeq, Table!SelectInSeq, Threats!Min, Table!Min
<1>3. Threats!Place(table, row) = Table!Place(table, row)
  BY <1>2 DEF Threats!Place, Table!Place, Threats!Max, Table!Max
<1> QED
  BY <1>1, <1>2, <1>3

LEMMA SameSort == ASSUME NEW s, NEW table
                  PROVE  Threats!IsStableSort(s, table) <=> Table!IsStableSort(s, table)
BY DEF Threats!IsStableSort, Table!IsStableSort

LEMMA SameAssumption == Table!TableAssumption
BY PanelAssumption DEF Threats!TableAssumption, Table!TableAssumption

LEMMA SameSteps ==
    /\ Threats!Init <=> Table!Init
    /\ \A id, sev : Threats!HandleAlert(id, sev) <=> Table!HandleAlert(id, sev)
    /\ \A visible : Threats!RenderThreats(visible) <=> Table!RenderThreats(visible)
<1>1. Threats!Init <=> Table!Init
  BY DEF Threats!Init, Table!Init
<1>2. ASSUME NEW id, NEW sev PROVE Threats!HandleAlert(id, sev) <=> Table!HandleAlert(id, sev)
  BY SameTable DEF Threats!HandleAlert, Table!HandleAlert
<1>3. ASSUME NEW visible PROVE Threats!RenderThreats(visible) <=> Table!RenderThreats(visible)
  BY DEF Threats!RenderThreats, Table!RenderThreats, Threats!Drawn, Table!Drawn,
         Threats!Rows, Table!Rows, Threats!Min, Table!Min
<1> QED
  BY <1>1, <1>2, <1>3

-----------------------------------------------------------------------------
(* The table's invariant, and that the next id is a new one.                *)
ThreatInv == /\ Table!TableInv
             /\ \A n \in DOMAIN handled : handled[n].id < Len(handled)

LEMMA ThreatsBegin == PartsInit => ThreatInv
<1> SUFFICES ASSUME PartsInit PROVE ThreatInv
  OBVIOUS
<1>1. Table!Init
  BY SameSteps DEF PartsInit
<1>2. Table!TableInv
  BY <1>1, SameAssumption, Table!TableInit
<1>3. DOMAIN handled = {}
  BY <1>1 DEF Table!Init
<1> QED
  BY <1>2, <1>3 DEF ThreatInv

LEMMA ThreatsStep == ThreatInv /\ [PartsNext]_<<part, vars, threatVars, logVars, statVars, argVars>>
                     => ThreatInv'
<1> SUFFICES ASSUME ThreatInv, [PartsNext]_<<part, vars, threatVars, logVars, statVars, argVars>>
             PROVE  ThreatInv'
  OBVIOUS
<1>1. Table!TableTypeOK /\ Table!TableAssumption
  BY SameAssumption DEF ThreatInv, Table!TableInv
<1>2. CASE AlertArrives
  <2>1. PICK sev \in Severity : Table!HandleAlert(Len(handled), sev)
    BY <1>2, SameSteps DEF AlertArrives
  <2>2. Len(handled) \in Nat /\ DOMAIN handled = 1 .. Len(handled)
        /\ \A n \in 1 .. Len(handled) : handled[n].id \in Nat
    <3>1. /\ Len(handled) \in Nat /\ DOMAIN handled = 1 .. Len(handled)
          /\ \A n \in 1 .. Len(handled) : handled[n] \in Table!Alert
      BY <1>1, Table!TableSizes
    <3> QED
      BY <3>1 DEF Table!Alert
  <2>3. Table!TableInv'
    BY <1>1, <2>1, <2>2, Table!AlertKeepsTable DEF ThreatInv
  <2>4. /\ handled' \in Seq(Table!Alert) /\ Len(handled') = Len(handled) + 1
        /\ \A n \in 1 .. Len(handled) : handled'[n] = handled[n]
        /\ handled'[Len(handled) + 1] = [id |-> Len(handled), sev |-> sev]
    BY <1>1, <2>1, <2>2, Table!AlertEnters
  <2>5. ASSUME NEW n \in DOMAIN handled' PROVE handled'[n].id < Len(handled')
    <3>1. n \in 1 .. Len(handled) \/ n = Len(handled) + 1
      BY <2>2, <2>4
    <3>2. CASE n \in 1 .. Len(handled)
      <4>1. handled'[n] = handled[n] /\ handled[n].id < Len(handled) /\ handled[n].id \in Nat
        BY <2>2, <2>4, <3>2 DEF ThreatInv
      <4> QED
        BY <2>2, <2>4, <4>1
    <3>3. CASE n = Len(handled) + 1
      <4>1. handled'[n].id = Len(handled)
        BY <2>4, <3>3
      <4> QED
        BY <2>2, <2>4, <4>1
    <3> QED
      BY <3>1, <3>2, <3>3
  <2> QED
    BY <2>3, <2>5 DEF ThreatInv
<1>3. CASE FrameDrawn
  <2>1. PICK visible \in 0 .. ThreatVisible : Table!RenderThreats(visible)
    BY <1>3, SameSteps DEF FrameDrawn
  <2>2. visible \in Nat
    BY <1>1 DEF Table!TableAssumption
  <2>3. Table!TableInv'
    BY <1>1, <2>1, <2>2, Table!RenderKeepsTable DEF ThreatInv
  <2>4. handled' = handled
    BY <2>1 DEF Table!RenderThreats
  <2> QED
    BY <2>3, <2>4 DEF ThreatInv
<1>4. CASE UNCHANGED threatVars
  <2>1. alerts' = alerts /\ handled' = handled /\ shown' = shown
    BY <1>4 DEF threatVars
  <2>2. Table!TableInv'
    BY <2>1 DEF ThreatInv, Table!TableInv, Table!TableTypeOK, Table!SortedBySeverity,
                Table!IdsRise, Table!RowsAreHandledAlerts, Table!KeepsMostSevere,
                Table!StableUntilFull, Table!FlashesWhenNew, Table!Rows
  <2> QED
    BY <2>1, <2>2 DEF ThreatInv
<1> QED
  BY <1>2, <1>3, <1>4 DEF PartsNext

LEMMA ThreatsHold == PartsSpec => []ThreatInv
BY ThreatsBegin, ThreatsStep, PTL DEF PartsSpec

-----------------------------------------------------------------------------
(* The panel's rows are handled alerts, each once, the newest among them,   *)
(* and as many as have been raised or fit: handle_alert and its sort        *)
(* neither lose, double nor mix up rows, however long the session.          *)
THEOREM PanelRows == PartsSpec => []RowsAreHandledAlerts
<1>1. ThreatInv => RowsAreHandledAlerts
  <2> SUFFICES ASSUME ThreatInv PROVE RowsAreHandledAlerts
    OBVIOUS
  <2>1. Threats!TableTypeOK
    BY DEF ThreatInv, Table!TableInv, Table!TableTypeOK, Threats!TableTypeOK, Table!Row, Threats!Row
  <2>2. Threats!RowsAreHandledAlerts
    BY DEF ThreatInv, Table!TableInv, Table!RowsAreHandledAlerts, Threats!RowsAreHandledAlerts,
           Table!Rows, Threats!Rows, Table!Min, Threats!Min, Table!Last, Threats!Last
  <2> QED
    BY <2>1, <2>2 DEF RowsAreHandledAlerts
<1> QED
  BY <1>1, ThreatsHold, PTL

(* Of the alerts of a severity or more at most one is missing while the     *)
(* table has a row for it: the least severe row is the one put out.         *)
THEOREM PanelKeepsMostSevere == PartsSpec => []KeepsMostSevere
<1>1. ThreatInv => KeepsMostSevere
  <2> SUFFICES ASSUME ThreatInv PROVE Threats!KeepsMostSevere
    BY DEF KeepsMostSevere
  <2>1. ASSUME NEW S PROVE Threats!Cardinality(S) = Table!Cardinality(S)
    BY DEF Threats!Cardinality, Table!Cardinality
  <2>2. ASSUME NEW table, NEW s PROVE Threats!AtLeast(table, s) = Table!AtLeast(table, s)
    BY DEF Threats!AtLeast, Table!AtLeast
  <2>3. ASSUME NEW S PROVE Threats!Min(S) = Table!Min(S)
    BY DEF Threats!Min, Table!Min
  <2>4. Table!KeepsMostSevere
    BY DEF ThreatInv, Table!TableInv
  <2> QED
    BY <2>1, <2>2, <2>3, <2>4 DEF Table!KeepsMostSevere, Threats!KeepsMostSevere
<1> QED
  BY <1>1, ThreatsHold, PTL

(* alert_sort is a stable sort of every table it is handed, the panel is    *)
(* sorted between two calls, and equals stay in the order of arrival until  *)
(* the table is full.                                                       *)
THEOREM PanelIsSorted == PartsSpec => []SortIsStableOrder
<1>1. ThreatInv => SortIsStableOrder
  <2> SUFFICES ASSUME ThreatInv PROVE SortIsStableOrder
    OBVIOUS
  <2>1. Threats!SortedBySeverity
    BY DEF ThreatInv, Table!TableInv, Table!SortedBySeverity, Threats!SortedBySeverity,
           Table!Rows, Threats!Rows
  <2>2. Threats!StableUntilFull
    BY DEF ThreatInv, Table!TableInv, Table!StableUntilFull, Threats!StableUntilFull,
           Table!Rows, Threats!Rows
  <2>3. ASSUME NEW sev \in Severity
        PROVE  LET row == [id |-> Len(handled), sev |-> sev, flash |-> FlashFrames]
                   table == Threats!Place(alerts, row)
               IN  Threats!IsStableSort(Threats!Sorted(table), table)
    <3> DEFINE row == [id |-> Len(handled), sev |-> sev, flash |-> FlashFrames]
               table == Table!Place(alerts, row)
    <3>1. Table!TableAssumption /\ Table!TableTypeOK
      BY SameAssumption DEF ThreatInv, Table!TableInv
    <3>2. Len(handled) \in Nat /\ FlashFrames \in Nat
      BY <3>1, Table!TableSizes DEF Table!TableAssumption
    <3>3. row \in Table!Row
      BY <3>2 DEF Table!Row
    <3>4. Table!RowSet(Table!Row) /\ alerts \in Seq(Table!Row) /\ Len(alerts) <= ThreatMax
      BY <3>1, Table!RowsHaveSeverities DEF Table!TableTypeOK
    <3> HIDE DEF row
    <3>5. table \in Seq(Table!Row)
      BY <3>1, <3>3, <3>4, Table!PlaceShape
    <3>6. table = Threats!Place(alerts, row)
      BY SameTable
    <3> HIDE DEF table
    <3>7. Table!IsStableSort(Table!Sorted(table), table)
      BY <3>4, <3>5, Table!SortIsStable
    <3>8. Threats!IsStableSort(Threats!Sorted(table), table)
      BY <3>7, SameTable, SameSort
    <3> QED
      BY <3>6, <3>8 DEF row
  <2> QED
    BY <2>1, <2>2, <2>3 DEF SortIsStableOrder
<1> QED
  BY <1>1, ThreatsHold, PTL

(* A row flashes for its first frames on the screen, no matter how it moved *)
(* and how long it was out of sight.                                        *)
THEOREM PanelFlashes == PartsSpec => []FlashesWhenNew
<1>1. ThreatInv => FlashesWhenNew
  BY DEF ThreatInv, Table!TableInv, Table!FlashesWhenNew, FlashesWhenNew,
         Threats!FlashesWhenNew, Table!Rows, Threats!Rows
<1> QED
  BY <1>1, ThreatsHold, PTL

-----------------------------------------------------------------------------
(* What the proof carries from step to step. *)
ResizeInv == TypeOK /\ WindowsMatch /\ (HasPipe => NewsOnItsWay)

(* The terminal layout_windows first sees is the one there is. *)
LEMMA ResizeStarts == Init => ResizeInv
<1> SUFFICES ASSUME Init PROVE ResizeInv
  OBVIOUS
<1>1. TypeOK
  <2>1. pipe \in 0 .. PipeCapacity
    BY ResizeAssumption DEF Init
  <2>2. pending \in BOOLEAN
    BY DEF Init
  <2>3. windows \in (Size \ TooSmall) \cup {NoWindows}
    BY DEF Init
  <2> QED
    BY <2>1, <2>2, <2>3 DEF Init, TypeOK
<1>2. WindowsMatch /\ NewsOnItsWay
  BY DEF Init, WindowsMatch, NewsOnItsWay
<1> QED
  BY <1>1, <1>2 DEF ResizeInv

(* Every step of the terminal, the handler or the loop keeps the types.     *)
LEMMA NextTypeOK == TypeOK /\ [Next]_vars => TypeOK'
<1> SUFFICES ASSUME TypeOK, [Next]_vars PROVE TypeOK'
  OBVIOUS
<1> USE ResizeAssumption
<1>1. CASE Resize
  BY <1>1 DEF TypeOK, Resize
<1>2. CASE HandleSigwinch
  <2>1. pipe' \in 0 .. PipeCapacity
    BY <1>2 DEF TypeOK, HandleSigwinch
  <2> QED
    BY <1>2, <2>1 DEF TypeOK, HandleSigwinch
<1>3. CASE PollQuiet \/ UNCHANGED vars
  BY <1>3 DEF TypeOK, PollQuiet, vars
<1>4. CASE PollReadable
  BY <1>4 DEF TypeOK, PollReadable
<1>5. CASE ReadPipe
  <2>1. pipe' \in 0 .. PipeCapacity
    BY <1>5 DEF TypeOK, ReadPipe
  <2> QED
    BY <1>5, <2>1 DEF TypeOK, ReadPipe
<1>6. CASE EndDrain
  BY <1>6 DEF TypeOK, EndDrain
<1>7. CASE Refresh
  BY <1>7 DEF TypeOK, Refresh
<1>8. CASE Layout
  BY <1>8 DEF TypeOK, Layout
<1> QED
  BY <1>1, <1>2, <1>3, <1>4, <1>5, <1>6, <1>7, <1>8 DEF Next, Main

(* They pass the news of a resize on ...                                    *)
LEMMA NextNews == TypeOK /\ HasPipe /\ NewsOnItsWay /\ [Next]_vars => NewsOnItsWay'
<1> SUFFICES ASSUME TypeOK, HasPipe, NewsOnItsWay, [Next]_vars PROVE NewsOnItsWay'
  OBVIOUS
<1>1. CASE Resize
  BY <1>1 DEF NewsOnItsWay, Resize
<1>2. CASE HandleSigwinch
  <2>1. pipe' > 0
    BY <1>2, ResizeAssumption DEF TypeOK, HandleSigwinch
  <2> QED
    BY <2>1 DEF NewsOnItsWay
<1>3. CASE PollQuiet \/ UNCHANGED vars
  BY <1>3 DEF NewsOnItsWay, PollQuiet, vars
<1>4. CASE PollReadable
  BY <1>4 DEF NewsOnItsWay, PollReadable
<1>5. CASE ReadPipe
  BY <1>5 DEF NewsOnItsWay, ReadPipe
<1>6. CASE EndDrain
  BY <1>6 DEF NewsOnItsWay, EndDrain
<1>7. CASE Refresh
  BY <1>7 DEF NewsOnItsWay, Refresh
<1>8. CASE Layout
  BY <1>8 DEF NewsOnItsWay, Layout
<1> QED
  BY <1>1, <1>2, <1>3, <1>4, <1>5, <1>6, <1>7, <1>8 DEF Next, Main

(* ... and only the layout changes the windows and the recorded size.       *)
LEMMA NextWindows == WindowsMatch /\ [Next]_vars => WindowsMatch'
<1> SUFFICES ASSUME WindowsMatch, [Next]_vars PROVE WindowsMatch'
  OBVIOUS
<1>1. CASE Layout
  BY <1>1 DEF WindowsMatch, Layout
<1>2. CASE ~Layout
  BY <1>2
  DEF WindowsMatch, Next, Main, Resize, HandleSigwinch, PollQuiet, PollReadable,
      ReadPipe, EndDrain, Refresh, vars
<1> QED
  BY <1>1, <1>2

(* In every reachable state the types are right, the windows have the       *)
(* recorded size, and no resize is lost between the signal and the layout.  *)
LEMMA ResizeHolds == Spec => []ResizeInv
<1>1. ResizeInv /\ [Next]_vars => ResizeInv'
  BY NextTypeOK, NextNews, NextWindows DEF ResizeInv
<1> QED
  BY <1>1, ResizeStarts, PTL DEF Spec

(* With a pipe, the layout follows the terminal and the windows the layout,  *)
(* in every state the program can reach: no resize is lost between the       *)
(* handler's byte and layout_windows, and no windows are made for a terminal *)
(* that is too small.                                                        *)
THEOREM LayoutAlwaysFollows == ASSUME HasPipe PROVE PartsSpec => []LayoutFollows
<1>1. ResizeInv => LayoutFollows
  BY DEF ResizeInv, TypeOK, NewsOnItsWay, NoResizeLost, LayoutFollows
<1>2. PartsInit => Init
  BY DEF PartsInit
<1>3. [PartsNext]_<<part, vars, threatVars, logVars, statVars, argVars>> => [Next]_vars
  BY DEF PartsNext
<1> QED
  BY <1>1, <1>2, <1>3, ResizeHolds, PTL DEF PartsSpec, Spec


-----------------------------------------------------------------------------
(* The command line.  An option's setting is that of the last of its name    *)
(* that has been passed; every limit lies within its table.                  *)
Passed(words, n, opt) ==
    {k \in 1..(Len(words) - 1) : k < n /\ words[k].opt = opt /\ words[k + 1].num > 0}
Setting(words, n, opt) ==
    IF Passed(words, n, opt) = {} THEN Options!Defaults[opt]
    ELSE Options!Limited(opt, words[Options!Max(Passed(words, n, opt)) + 1].num)

OptionsInv ==
    /\ argv \in Seq(Options!Arguments) /\ arg \in Nat \ {0}
    /\ DOMAIN cfg = Options!Options /\ Options!LimitsInRange
    /\ \A opt \in Options!Options : cfg[opt] = Setting(argv, arg, opt)

LEMMA LeastOption == ASSUME NEW S, S \subseteq Nat, S # {}
                     PROVE  Options!Min(S) \in S /\ \A k \in S : Options!Min(S) <= k
BY Table!LeastNumber DEF Options!Min

LEMMA LastOption == ASSUME NEW S, S \subseteq Nat, NEW m \in S, \A k \in S : k <= m
                    PROVE  Options!Max(S) = m
<1>1. \E x \in S : \A y \in S : x >= y
  OBVIOUS
<1> DEFINE x == Options!Max(S)
<1>2. x \in S /\ \A y \in S : x >= y
  BY <1>1 DEF Options!Max
<1> HIDE DEF x
<1>3. x = m
  <2>1. x >= m /\ x <= m /\ x \in Nat /\ m \in Nat
    BY <1>2
  <2> QED
    BY <2>1
<1> QED
  BY <1>3 DEF x

(* next_pow2 of any u32 is a u32, 0 if its power of two has 33 bits.         *)
LEMMA PowerOfNumber == ASSUME NEW val \in Int PROVE Options!NextPow2(Options!U32(val)) \in Nat
<1> DEFINE v == Options!U32(val)
<1>1. /\ Word \in Nat \ {0} /\ WordBits \in Nat /\ Word = 2^WordBits /\ MinRing \in Nat
  BY PanelAssumption DEF Options!ConfigAssumption
<1>2. v \in Nat /\ v < Word
  BY <1>1 DEF Options!U32
<1> HIDE DEF v
<1> DEFINE S == {p \in v..Word : \E k \in 0..WordBits : p = 2^k}
<1>3. S \subseteq Nat /\ Word \in S
  BY <1>1, <1>2
<1> HIDE DEF S
<1>4. Options!Min(S) \in Nat
  BY <1>3, LeastOption
<1>5. Options!Min(S) % Word \in Nat
  BY <1>1, <1>4
<1>6. Options!NextPow2(v) = IF v < MinRing THEN MinRing ELSE Options!Min(S) % Word
  BY DEF Options!NextPow2, S
<1>7. Options!NextPow2(v) \in Nat
  BY <1>1, <1>5, <1>6
<1> QED
  BY <1>7 DEF v

LEMMA LimitsOfOptions ==
    ASSUME NEW val \in Int
    PROVE  /\ Options!Limited("log_size", val) \in 0..LogRing
           /\ Options!Limited("threat_max", val) \in 0..ThreatMax
           /\ Options!Limited("nodes", val) \in 0..MaxNodes
           /\ Options!Limited("fps_cap", val) \in 1..Options!Max({MaxFps, TargetFps})
<1>1. /\ Word \in Nat \ {0} /\ LogRing \in Nat /\ ThreatMax \in Nat /\ MaxNodes \in Nat
      /\ MaxFps \in Nat \ {0} /\ TargetFps \in Nat
  BY PanelAssumption DEF Options!ConfigAssumption
<1>2. Options!U32(val) \in Nat
  BY <1>1 DEF Options!U32
<1>3. ASSUME NEW a \in Nat, NEW b \in Nat PROVE Options!Min({a, b}) \in 0..b
  <2>1. Options!Min({a, b}) \in {a, b} /\ \A k \in {a, b} : Options!Min({a, b}) <= k
    BY LeastOption
  <2> QED
    BY <2>1
<1>4. ASSUME NEW a \in Nat, NEW b \in Nat
      PROVE  Options!Max({a, b}) = IF a <= b THEN b ELSE a
  BY LastOption
<1>5. Options!Limited("log_size", val) \in 0..LogRing
  BY <1>1, <1>3, PowerOfNumber DEF Options!Limited
<1>6. /\ Options!Limited("threat_max", val) \in 0..ThreatMax
      /\ Options!Limited("nodes", val) \in 0..MaxNodes
  BY <1>1, <1>2, <1>3 DEF Options!Limited
<1>7. Options!Limited("fps_cap", val) \in 1..Options!Max({MaxFps, TargetFps})
  <2> DEFINE capped == Options!Min({Options!U32(val), MaxFps})
  <2>1. capped \in 0..MaxFps
    BY <1>1, <1>2, <1>3
  <2>2. Options!Limited("fps_cap", val) = Options!Max({1, capped})
    BY DEF Options!Limited
  <2> HIDE DEF capped
  <2>3. Options!Max({1, capped}) \in 1..MaxFps
    BY <1>1, <1>4, <2>1
  <2>4. MaxFps <= Options!Max({MaxFps, TargetFps}) /\ Options!Max({MaxFps, TargetFps}) \in Nat
    BY <1>1, <1>4
  <2> QED
    BY <1>1, <2>2, <2>3, <2>4
<1> QED
  BY <1>5, <1>6, <1>7

LEMMA OptionsBegin == PartsInit => OptionsInv
<1> SUFFICES ASSUME PartsInit PROVE OptionsInv
  OBVIOUS
<1>1. /\ LogRing \in Nat /\ ThreatMax \in Nat /\ MaxNodes \in Nat
      /\ MaxFps \in Nat \ {0} /\ TargetFps \in Nat \ {0} /\ MaxArgs \in Nat
  BY PanelAssumption DEF Options!ConfigAssumption
<1>2. arg = 1 /\ cfg = Options!Defaults
  BY DEF PartsInit, Options!Init
<1>3. argv \in Seq(Options!Arguments)
  <2>1. PICK n \in 0..MaxArgs : argv \in [1..n -> Options!Arguments]
    BY DEF PartsInit, Options!Init
  <2> QED
    BY <1>1, <2>1
<1>4. DOMAIN cfg = Options!Options
  BY <1>2 DEF Options!Defaults, Options!Options
<1>5. Options!LimitsInRange
  <2>1. Options!Max({MaxFps, TargetFps}) \in Nat /\ TargetFps <= Options!Max({MaxFps, TargetFps})
    <3>1. CASE MaxFps <= TargetFps
      BY <1>1, <3>1, LastOption
    <3>2. CASE TargetFps <= MaxFps
      BY <1>1, <3>2, LastOption
    <3> QED
      BY <1>1, <3>1, <3>2
  <2> QED
    BY <1>1, <1>2, <2>1 DEF Options!LimitsInRange, Options!Defaults
<1>6. ASSUME NEW opt \in Options!Options PROVE Passed(argv, arg, opt) = {}
  BY <1>2, <1>3 DEF Passed
<1> QED
  BY <1>2, <1>3, <1>4, <1>5, <1>6 DEF OptionsInv, Setting

(* An option is read with the number after it, which is no option.          *)
LEMMA OptionsStep == OptionsInv /\ [PartsNext]_<<part, vars, threatVars, logVars, statVars, argVars>>
                     => OptionsInv'
<1> SUFFICES ASSUME OptionsInv, [PartsNext]_<<part, vars, threatVars, logVars, statVars, argVars>>
             PROVE  OptionsInv'
  OBVIOUS
<1>1. Options!TakeOption \/ Options!SkipArgument \/ UNCHANGED argVars
  BY DEF PartsNext, Options!Next
<1>2. argv' = argv /\ argv \in Seq(Options!Arguments) /\ arg \in Nat \ {0} /\ Len(argv) \in Nat
  BY <1>1 DEF Options!TakeOption, Options!SkipArgument, argVars, OptionsInv
<1>3. ASSUME NEW opt, NEW n PROVE Passed(argv, n, opt) \subseteq 1..(Len(argv) - 1)
  BY DEF Passed
<1>4. Options!LimitsInRange /\ DOMAIN cfg = Options!Options
  BY DEF OptionsInv
<1>5. \A opt \in Options!Options : cfg[opt] = Setting(argv, arg, opt)
  BY DEF OptionsInv
<1>6. SUFFICES /\ arg' \in Nat \ {0} /\ DOMAIN cfg' = Options!Options /\ Options!LimitsInRange'
               /\ \A opt \in Options!Options : cfg'[opt] = Setting(argv, arg', opt)
  BY <1>2 DEF OptionsInv
<1>7. CASE Options!TakeOption
  <2> DEFINE o == argv[arg].opt
             val == argv[arg + 1].num
  <2>1. /\ arg < Len(argv) /\ val > 0 /\ o \in Options!Options /\ arg' = arg + 2
        /\ cfg' = [cfg EXCEPT ![o] = Options!Limited(o, val)]
    BY <1>7 DEF Options!TakeOption, Options!Valid
  <2>2. argv[arg] \in Options!Arguments /\ argv[arg + 1] \in Options!Arguments
    BY <1>2, <2>1
  <2>3. Numbers \subseteq Int
    BY PanelAssumption DEF Options!ConfigAssumption
  <2>4. val \in Int /\ argv[arg + 1].opt = "none"
    <3>1. CASE argv[arg + 1] \in [opt : Options!Options, num : {0}]
      BY <2>1, <3>1
    <3>2. CASE argv[arg + 1] \in [opt : {"none"}, num : Numbers]
      BY <2>3, <3>2
    <3> QED
      BY <2>2, <3>1, <3>2 DEF Options!Arguments
  <2>5. ASSUME NEW opt \in Options!Options
        PROVE  /\ arg + 1 \notin Passed(argv, arg', opt)
               /\ arg \in Passed(argv, arg', opt) <=> opt = o
               /\ Passed(argv, arg', opt) \ {arg, arg + 1} = Passed(argv, arg, opt)
    <3>1. arg + 1 \notin Passed(argv, arg', opt)
      BY <2>4 DEF Passed, Options!Options
    <3>2. arg \in Passed(argv, arg', opt) <=> opt = o
      BY <1>2, <2>1 DEF Passed
    <3>3. Passed(argv, arg', opt) \ {arg, arg + 1} = Passed(argv, arg, opt)
      <4>1. ASSUME NEW k \in 1..(Len(argv) - 1)
            PROVE  k < arg' /\ k \notin {arg, arg + 1} <=> k < arg
        BY <1>2, <2>1
      <4> QED
        BY <4>1 DEF Passed
    <3> QED
      BY <3>1, <3>2, <3>3
  <2> HIDE DEF o, val
  <2>7. Options!LimitsInRange'
    BY <1>4, <2>1, <2>4, LimitsOfOptions
       DEF Options!LimitsInRange, Options!Options, Options!Max
  <2>8. ASSUME NEW opt \in Options!Options PROVE cfg'[opt] = Setting(argv, arg', opt)
    <3> DEFINE passed == Passed(argv, arg', opt)
    <3>1. CASE opt = o
      <4>1. passed \subseteq Nat /\ arg \in passed
        BY <1>2, <1>3, <2>5, <3>1
      <4>2. ASSUME NEW k \in passed PROVE k <= arg
        BY <1>2, <2>1, <2>5 DEF Passed
      <4>3. Options!Max(passed) = arg
        BY <4>1, <4>2, LastOption
      <4>4. cfg'[opt] = Options!Limited(o, val)
        BY <1>4, <2>1, <3>1
      <4> QED
        BY <3>1, <4>1, <4>3, <4>4 DEF val, Setting
    <3>2. CASE opt # o
      <4>1. passed = Passed(argv, arg, opt)
        BY <2>5, <3>2
      <4>2. cfg'[opt] = cfg[opt]
        BY <2>1, <3>2
      <4> QED
        BY <1>5, <4>1, <4>2 DEF Setting
    <3> QED
      BY <3>1, <3>2
  <2> QED
    BY <1>2, <1>4, <2>1, <2>7, <2>8
<1>8. CASE Options!SkipArgument
  <2>1. arg <= Len(argv) /\ ~ Options!Valid /\ arg' = arg + 1 /\ cfg' = cfg
    BY <1>8 DEF Options!SkipArgument
  <2>2. Options!LimitsInRange'
    BY <1>4, <2>1 DEF Options!LimitsInRange, Options!Max
  <2>3. ASSUME NEW opt \in Options!Options
        PROVE  Passed(argv, arg', opt) = Passed(argv, arg, opt)
    <3>1. arg \notin Passed(argv, arg', opt)
      BY <1>2, <2>1 DEF Options!Valid, Passed
    <3> QED
      BY <1>2, <2>1, <3>1 DEF Passed
  <2>4. ASSUME NEW opt \in Options!Options PROVE Setting(argv, arg', opt) = Setting(argv, arg, opt)
    BY <2>3 DEF Setting
  <2> QED
    BY <1>2, <1>4, <1>5, <2>1, <2>2, <2>4
<1>9. CASE UNCHANGED argVars
  <2>1. arg' = arg /\ cfg' = cfg
    BY <1>9 DEF argVars
  <2>2. Options!LimitsInRange'
    BY <1>4, <2>1 DEF Options!LimitsInRange, Options!Max
  <2> QED
    BY <1>2, <1>4, <1>5, <2>1, <2>2
<1> QED
  BY <1>1, <1>7, <1>8, <1>9

(* When parse_args is through, each setting is that of the last option of    *)
(* its name that a positive number follows, cut to its table's size, and a   *)
(* frame rate that can be divided by, for every command line and numbers of  *)
(* any size.                                                                 *)
THEOREM SettingsAlwaysHold == PartsSpec => []SettingsHold
<1>1. OptionsInv => SettingsHold
  <2> SUFFICES ASSUME OptionsInv PROVE Options!LimitsInRange /\ Options!LastOptionWins
    BY DEF SettingsHold, Options!SettingsHold
  <2>1. ASSUME arg > Len(argv), NEW opt \in Options!Options
        PROVE  Passed(argv, arg, opt) = Options!Given(opt)
    BY <2>1 DEF OptionsInv, Passed, Options!Given
  <2> QED
    BY <2>1 DEF OptionsInv, Setting, Options!LastOptionWins
<1> QED
  BY <1>1, OptionsBegin, OptionsStep, PTL DEF PartsSpec

-----------------------------------------------------------------------------
(* Arithmetic of rings.  A number is a multiple of a ring's size and a rest   *)
(* below it in one way only.                                                 *)
LEMMA Quotient ==
    ASSUME NEW a \in Int, NEW L \in Nat \ {0}
    PROVE  a % L \in 0..(L - 1) /\ a \div L \in Int /\ a = L * (a \div L) + (a % L)
OBVIOUS

LEMMA OneQuotient ==
    ASSUME NEW L \in Nat \ {0}, NEW q \in Int, NEW p \in Int,
           NEW r \in 0..(L - 1), NEW s \in 0..(L - 1), L * q + r = L * p + s
    PROVE  q = p /\ r = s
<1>1. CASE q = p
  BY <1>1
<1>2. CASE q > p
  <2>1. q - p \in Int /\ q - p >= 1
    BY <1>2
  <2>2. L * (q - p) >= L
    BY <2>1
  <2> QED
    BY <2>2
<1>3. CASE q < p
  <2>1. p - q \in Int /\ p - q >= 1
    BY <1>3
  <2>2. L * (p - q) >= L
    BY <2>1
  <2> QED
    BY <2>2
<1> QED
  BY <1>1, <1>2, <1>3

(* What is added in multiples of L does not show modulo L, and no less does. *)
LEMMA SamePlace ==
    ASSUME NEW a \in Int, NEW L \in Nat \ {0}, NEW w \in Int, w % L = 0
    PROVE  (a + w) % L = a % L
<1> DEFINE q == a \div L
           r == a % L
           p == w \div L
           n == (a + w) \div L
           m == (a + w) % L
<1>1. /\ q \in Int /\ r \in 0..(L - 1) /\ a = L * q + r
      /\ p \in Int /\ w = L * p
      /\ n \in Int /\ m \in 0..(L - 1) /\ a + w = L * n + m
  <2>1. a + w \in Int
    OBVIOUS
  <2>2. n \in Int /\ m \in 0..(L - 1) /\ a + w = L * n + m
    BY <2>1, Quotient
  <2>3. p \in Int /\ w = L * p + (w % L)
    BY Quotient
  <2>4. w = L * p
    BY <2>3
  <2> QED
    BY <2>2, <2>3, <2>4, Quotient
<1> HIDE DEF q, r, p, n, m
<1>2. q + p \in Int /\ L * (q + p) + r = L * n + m
  BY <1>1
<1>3. r = m
  BY <1>1, <1>2, OneQuotient
<1> QED
  BY <1>3 DEF r, m

LEMMA OtherPlace ==
    ASSUME NEW a \in Int, NEW L \in Nat \ {0}, NEW k \in 1..(L - 1)
    PROVE  (a + k) % L # a % L
<1> DEFINE q == a \div L
           r == a % L
           n == (a + k) \div L
           m == (a + k) % L
<1>1. /\ q \in Int /\ r \in 0..(L - 1) /\ a = L * q + r
      /\ n \in Int /\ m \in 0..(L - 1) /\ a + k = L * n + m
  <2>1. a + k \in Int
    OBVIOUS
  <2>2. n \in Int /\ m \in 0..(L - 1) /\ a + k = L * n + m
    BY <2>1, Quotient
  <2> QED
    BY <2>2, Quotient
<1> HIDE DEF q, r, n, m
<1>2. SUFFICES ASSUME r = m PROVE FALSE
  BY DEF r, m
<1>3. n - q \in Int /\ L * (n - q) + 0 = L * 0 + k
  BY <1>1, <1>2
<1>4. 0 = k
  BY <1>3, OneQuotient
<1> QED
  BY <1>4

-----------------------------------------------------------------------------
(* The log ring. *)
LogInv == Log!LogTypeOK /\ Log!RingHoldsNewest

(* `newest` moves up by one place. *)
LEMMA LogRemembers ==
    ASSUME Log!LogTypeOK, NEW ev \in Event, Log!HandleLog(ev)
    PROVE  /\ newest' \in Seq(Event) /\ Len(newest') <= LogSlots
           /\ Len(newest') = IF Len(newest) < LogSlots THEN Len(newest) + 1 ELSE LogSlots
           /\ \A back \in 0 .. Len(newest') - 1 :
                  newest'[Len(newest') - back]
                      = IF back = 0 THEN ev ELSE newest[Len(newest) - (back - 1)]
<1> DEFINE seen == Append(newest, ev)
           m == Log!Min({Len(seen), LogSlots})
<1>1. LogSlots \in Nat \ {0}
  BY PanelAssumption DEF Log!LogAssumption
<1>2. newest \in Seq(Event) /\ Len(newest) \in Nat /\ Len(newest) <= LogSlots
  BY DEF Log!LogTypeOK
<1>3. /\ seen \in Seq(Event) /\ Len(seen) = Len(newest) + 1
      /\ \A i \in 1 .. Len(newest) : seen[i] = newest[i]
      /\ seen[Len(newest) + 1] = ev
  BY <1>2
<1>4. newest' = SubSeq(seen, Len(seen) - m + 1, Len(seen))
  BY DEF Log!HandleLog, Log!Remember, Log!LastOf
<1>5. m = IF Len(seen) <= LogSlots THEN Len(seen) ELSE LogSlots
  <2>1. m = Table!Min({Len(seen), LogSlots})
    BY DEF Log!Min, Table!Min
  <2> QED
    BY <1>1, <1>2, <1>3, <2>1, Table!MinOfTwo
<1> HIDE DEF seen, m
<1>6. /\ m \in 1 .. Len(seen) /\ Len(seen) \in Nat
      /\ m = IF Len(newest) < LogSlots THEN Len(newest) + 1 ELSE LogSlots
  BY <1>1, <1>2, <1>3, <1>5
<1>7. /\ newest' \in Seq(Event) /\ Len(newest') = m
      /\ \A i \in 1 .. m : newest'[i] = seen[Len(seen) - m + i]
  <2>1. Len(seen) - m + 1 \in 1 .. Len(seen) + 1 /\ Len(seen) - m + 1 <= Len(seen)
    BY <1>6
  <2>2. \A i \in Len(seen) - m + 1 .. Len(seen) : seen[i] \in Event
    <3>1. ASSUME NEW i \in Len(seen) - m + 1 .. Len(seen) PROVE i \in 1 .. Len(seen)
      BY <1>6, <2>1
    <3> QED
      BY <1>3, <3>1, ElementOfSeq
  <2>3. /\ newest' \in Seq(Event)
        /\ Len(newest') = IF Len(seen) - m + 1 <= Len(seen)
                          THEN Len(seen) - (Len(seen) - m + 1) + 1 ELSE 0
        /\ \A i \in 1 .. Len(seen) - (Len(seen) - m + 1) + 1 :
               newest'[i] = seen[Len(seen) - m + 1 + i - 1]
    <3>1. Len(seen) - m + 1 \in Int /\ Len(seen) \in Int
      BY <1>6
    <3> QED
      BY <1>4, <2>2, <3>1, SubSeqProperties
  <2>4. Len(seen) - (Len(seen) - m + 1) + 1 = m
    BY <1>6
  <2>5. ASSUME NEW i \in 1 .. m PROVE Len(seen) - m + 1 + i - 1 = Len(seen) - m + i
    BY <1>6
  <2> QED
    BY <2>1, <2>3, <2>4, <2>5
<1>8. ASSUME NEW back \in 0 .. m - 1
      PROVE  newest'[m - back] = IF back = 0 THEN ev ELSE newest[Len(newest) - (back - 1)]
  <2>1. m - back \in 1 .. m /\ Len(seen) - m + (m - back) = Len(newest) + 1 - back
    BY <1>2, <1>3, <1>6
  <2>2. newest'[m - back] = seen[Len(newest) + 1 - back]
    BY <1>7, <2>1
  <2>3. back # 0 => /\ Len(newest) + 1 - back \in 1 .. Len(newest)
                    /\ Len(newest) + 1 - back = Len(newest) - (back - 1)
    BY <1>2, <1>3, <1>6
  <2> QED
    BY <1>2, <1>3, <2>2, <2>3
<1> QED
  BY <1>1, <1>2, <1>6, <1>7, <1>8

LEMMA LogStep == LogInv /\ [PartsNext]_<<part, vars, threatVars, logVars, statVars, argVars>>
                 => LogInv'
<1> SUFFICES ASSUME LogInv, [PartsNext]_<<part, vars, threatVars, logVars, statVars, argVars>>
             PROVE  LogInv'
  OBVIOUS
<1>1. CASE UNCHANGED logVars
  <2>1. logRing' = logRing /\ logWrite' = logWrite /\ newest' = newest
    BY <1>1 DEF logVars
  <2> QED
    BY <2>1 DEF LogInv, Log!LogTypeOK, Log!RingHoldsNewest, Log!Recent
<1>2. ASSUME NEW ev \in Event, Log!HandleLog(ev) PROVE LogInv'
  <2>1. /\ LogSlots \in Nat \ {0} /\ WordSize \in Nat \ {0} /\ WordSize % LogSlots = 0
        /\ WordSize \in Int
    BY PanelAssumption DEF Log!LogAssumption
  <2>2. /\ logRing \in [0 .. LogSlots - 1 -> Event \cup {NoEvent}] /\ logWrite \in 0 .. WordSize - 1
        /\ newest \in Seq(Event) /\ Len(newest) \in Nat /\ Len(newest) <= LogSlots
        /\ logWrite \in Int /\ logWrite + 1 \in Int
    BY <2>1 DEF LogInv, Log!LogTypeOK
  <2>3. /\ logRing' = [logRing EXCEPT ![logWrite % LogSlots] = ev]
        /\ logWrite' = (logWrite + 1) % WordSize
    BY <1>2 DEF Log!HandleLog
  <2>4. /\ newest' \in Seq(Event) /\ Len(newest') <= LogSlots /\ Len(newest') \in Nat
        /\ Len(newest') = IF Len(newest) < LogSlots THEN Len(newest) + 1 ELSE LogSlots
        /\ \A back \in 0 .. Len(newest') - 1 :
               newest'[Len(newest') - back]
                   = IF back = 0 THEN ev ELSE newest[Len(newest) - (back - 1)]
    BY <1>2, LogRemembers DEF LogInv
  <2>5. logWrite % LogSlots \in 0 .. LogSlots - 1
    BY <2>1, <2>2, Quotient
  <2>6. logWrite' \in 0 .. WordSize - 1
    BY <2>1, <2>2, <2>3, Quotient
  <2>7. Log!LogTypeOK'
    BY <2>2, <2>3, <2>4, <2>5, <2>6 DEF Log!LogTypeOK
  <2>8. ASSUME NEW back \in 0 .. LogSlots - 1
        PROVE  logRing'[((logWrite' + WordSize) - back - 1) % LogSlots]
                   = IF back < Len(newest') THEN newest'[Len(newest') - back] ELSE NoEvent
    <3> DEFINE place == ((logWrite' + WordSize) - back - 1) % LogSlots
    <3>1. place = (logWrite + WordSize - back) % LogSlots
      <4>1. CASE logWrite + 1 < WordSize
        <5>1. logWrite' = logWrite + 1
          <6>1. logWrite + 1 \in 0 .. WordSize - 1
            BY <2>1, <2>2, <4>1
          <6>2. (logWrite + 1) % WordSize = logWrite + 1
            BY <2>1, <6>1
          <6> QED
            BY <2>3, <6>2
        <5>2. (logWrite' + WordSize) - back - 1 = logWrite + WordSize - back
          BY <2>1, <2>2, <5>1
        <5> QED
          BY <5>2
      <4>2. CASE logWrite + 1 = WordSize
        <5>1. logWrite' = 0
          BY <2>1, <2>2, <2>3, <4>2
        <5>2. /\ (logWrite' + WordSize) - back - 1 \in Int
              /\ (logWrite' + WordSize) - back - 1 + WordSize = logWrite + WordSize - back
          BY <2>1, <2>2, <4>2, <5>1
        <5> QED
          BY <2>1, <5>2, SamePlace
      <4> QED
        BY <2>1, <2>2, <4>1, <4>2
    <3> HIDE DEF place
    <3>2. CASE back = 0
      <4>1. place = logWrite % LogSlots
        <5>1. logWrite + WordSize - back = logWrite + WordSize
          BY <2>1, <2>2, <3>2
        <5>2. (logWrite + WordSize) % LogSlots = logWrite % LogSlots
          BY <2>1, <2>2, SamePlace
        <5> QED
          BY <3>1, <5>1, <5>2
      <4>2. logRing'[place] = ev
        BY <2>2, <2>3, <2>5, <4>1
      <4>3. 0 < Len(newest')
        BY <2>1, <2>2, <2>4
      <4> QED
        BY <2>4, <3>2, <4>2, <4>3 DEF place
    <3>3. CASE back # 0
      <4>1. /\ back - 1 \in 0 .. LogSlots - 1 /\ back \in 1 .. LogSlots - 1
            /\ (logWrite + WordSize) - (back - 1) - 1 = logWrite + WordSize - back
        BY <2>1, <2>2, <3>3
      <4>2. logRing[place] = Log!Recent(back - 1)
        BY <3>1, <4>1 DEF LogInv, Log!RingHoldsNewest
      <4>3. place # logWrite % LogSlots
        <5> DEFINE a == logWrite + WordSize - back
        <5>1. a \in Int /\ a + back = logWrite + WordSize
          BY <2>1, <2>2
        <5>2. (a + back) % LogSlots # a % LogSlots
          BY <2>1, <4>1, <5>1, OtherPlace
        <5>3. (logWrite + WordSize) % LogSlots = logWrite % LogSlots
          BY <2>1, <2>2, SamePlace
        <5> QED
          BY <3>1, <5>1, <5>2, <5>3
      <4>4. place \in 0 .. LogSlots - 1
        <5>1. logWrite + WordSize - back \in Int
          BY <2>1, <2>2
        <5> QED
          BY <2>1, <3>1, <5>1, Quotient
      <4>5. logRing'[place] = Log!Recent(back - 1)
        BY <2>2, <2>3, <4>2, <4>3, <4>4
      <4>6. back < Len(newest') <=> back - 1 < Len(newest)
        BY <2>1, <2>2, <2>4, <4>1
      <4>7. CASE back < Len(newest')
        <5>1. newest'[Len(newest') - back] = newest[Len(newest) - (back - 1)]
          BY <2>4, <3>3, <4>7
        <5> QED
          BY <4>5, <4>6, <4>7, <5>1 DEF Log!Recent, place
      <4>8. CASE ~ (back < Len(newest'))
        BY <4>5, <4>6, <4>8 DEF Log!Recent, place
      <4> QED
        BY <4>7, <4>8
    <3> QED
      BY <3>2, <3>3
  <2>9. Log!RingHoldsNewest'
    BY <2>8 DEF Log!RingHoldsNewest, Log!Recent
  <2> QED
    BY <2>7, <2>9 DEF LogInv
<1> QED
  BY <1>1, <1>2 DEF PartsNext

LEMMA LogHolds == PartsSpec => []LogInv
<1>1. PartsInit => LogInv
  <2> SUFFICES ASSUME PartsInit PROVE LogInv
    OBVIOUS
  <2>1. LogSlots \in Nat \ {0} /\ WordSize \in Nat \ {0}
    BY PanelAssumption DEF Log!LogAssumption
  <2>2. logRing = [i \in 0 .. LogSlots - 1 |-> NoEvent] /\ logWrite = 0 /\ newest = <<>>
    BY DEF PartsInit, Log!Init
  <2>3. ASSUME NEW back \in 0 .. LogSlots - 1
        PROVE  logRing[((logWrite + WordSize) - back - 1) % LogSlots] = Log!Recent(back)
    <3>1. ((logWrite + WordSize) - back - 1) % LogSlots \in 0 .. LogSlots - 1
      <4>1. (logWrite + WordSize) - back - 1 \in Int
        BY <2>1, <2>2
      <4> QED
        BY <2>1, <4>1, Quotient
    <3>2. ~ (back < Len(newest))
      BY <2>2
    <3> QED
      BY <2>2, <3>1, <3>2 DEF Log!Recent
  <2> QED
    BY <2>1, <2>2, <2>3 DEF LogInv, Log!LogTypeOK, Log!RingHoldsNewest
<1> QED
  BY <1>1, LogStep, PTL DEF PartsSpec

(* Every row of the log panel shows the event it should, for every size of   *)
(* the ring and height of the window, and however often ring and counter     *)
(* have wrapped: render_log masks the counter as handle_log does, and the    *)
(* counter's range is a multiple of the ring's size.                         *)
THEOREM LogAlwaysShowsNewest == PartsSpec => []LogShowsNewest
<1>1. ASSUME LogInv PROVE LogShowsNewest
  <2>1. /\ LogSlots \in Nat \ {0} /\ WordSize \in Nat \ {0} /\ WordSize % LogSlots = 0
        /\ LogVisible \in 0 .. LogSlots /\ logWrite \in 0 .. WordSize - 1 /\ WordSize \in Int
    BY <1>1, PanelAssumption DEF Log!LogAssumption, LogInv, Log!LogTypeOK
  <2>2. LogSlots <= WordSize
    BY <2>1
  <2>3. ASSUME NEW visible \in 0 .. LogVisible, NEW row \in 0 .. visible - 1
        PROVE  Log!Row(visible, row) = Log!Recent(visible - 1 - row)
    <3> DEFINE back == visible - 1 - row
               at == (logWrite + WordSize) - back - 1
    <3>1. back \in 0 .. LogSlots - 1
      BY <2>1
    <3>2. at \in Int /\ 0 <= at /\ at < WordSize + WordSize
      BY <2>1, <2>2, <3>1
    <3>3. logRing[at % LogSlots] = Log!Recent(back)
      BY <1>1, <3>1 DEF LogInv, Log!RingHoldsNewest
    <3>4. Log!Row(visible, row) = logRing[(at % WordSize) % LogSlots]
      BY DEF Log!Row
    <3> HIDE DEF at
    <3>5. (at % WordSize) % LogSlots = at % LogSlots
      <4>1. CASE at < WordSize
        BY <2>1, <3>2, <4>1
      <4>2. CASE at >= WordSize
        <5> DEFINE r == at - WordSize
        <5>1. r \in 0 .. WordSize - 1 /\ r + WordSize = at /\ r \in Int
          BY <2>1, <3>2, <4>2
        <5>2. r % WordSize = r
          BY <2>1, <5>1
        <5>3. WordSize % WordSize = 0
          BY <2>1
        <5> HIDE DEF r
        <5>4. (r + WordSize) % WordSize = r % WordSize
          BY <2>1, <5>1, <5>3, SamePlace
        <5>5. (r + WordSize) % LogSlots = r % LogSlots
          BY <2>1, <5>1, SamePlace
        <5> QED
          BY <5>1, <5>2, <5>4, <5>5
      <4> QED
        BY <2>1, <3>2, <4>1, <4>2
    <3> QED
      BY <3>3, <3>4, <3>5
  <2>4. Log!LogShowsNewest
    BY <2>3 DEF Log!LogShowsNewest
  <2> QED
    BY <1>1, <2>4 DEF LogShowsNewest, LogInv
<1> QED
  BY <1>1, LogHolds, PTL

-----------------------------------------------------------------------------
(* The frame statistics.  Places of a ring can be put in an order of their    *)
(* values, by putting one more into the order of those before it.            *)
Sorts(p, n, ring) ==
    /\ p \in [1..n -> 0..(n - 1)]
    /\ {p[i] : i \in 1..n} = 0..(n - 1)
    /\ \A i, j \in 1..n : i < j => ring[p[i]] <= ring[p[j]]

LEMMA OneMorePlace ==
    ASSUME NEW n \in Nat, NEW ring, \A q \in 0..n : ring[q] \in Nat, NEW p, Sorts(p, n, ring)
    PROVE  \E order : Sorts(order, n + 1, ring)
<1> DEFINE T == {m \in 1..(n + 1) : m = n + 1 \/ ring[p[m]] > ring[n]}
<1>1. T \subseteq Nat /\ n + 1 \in T
  OBVIOUS
<1>2. PICK m \in T : \A k \in T : m <= k
  BY <1>1, Table!LeastNumber
<1>3. m \in 1..(n + 1)
  OBVIOUS
<1>4. /\ p \in [1..n -> 0..(n - 1)] /\ {p[i] : i \in 1..n} = 0..(n - 1)
      /\ \A i, j \in 1..n : i < j => ring[p[i]] <= ring[p[j]]
  BY DEF Sorts
<1>5. \A i \in 1..n : p[i] \in 0..(n - 1) /\ ring[p[i]] \in Nat
  BY <1>4
<1>6. ASSUME NEW i \in 1..n, i < m PROVE ring[p[i]] <= ring[n]
  <2>1. i \notin T
    BY <1>2, <1>3, <1>6
  <2> QED
    BY <1>5, <2>1
<1>7. ASSUME NEW i \in 1..n, m <= i PROVE ring[n] <= ring[p[i]]
  <2>1. m \in 1..n /\ ring[n] < ring[p[m]]
    BY <1>2, <1>3, <1>5, <1>7
  <2>2. ring[p[m]] <= ring[p[i]]
    <3>1. CASE m = i
      BY <1>5, <3>1
    <3>2. CASE m < i
      BY <1>4, <2>1, <3>2
    <3> QED
      BY <1>3, <1>7, <3>1, <3>2
  <2> QED
    BY <1>5, <2>1, <2>2
<1> HIDE DEF T
<1> DEFINE order == [i \in 1..(n + 1) |-> IF i < m THEN p[i] ELSE IF i = m THEN n ELSE p[i - 1]]
<1>8. /\ \A i \in 1..(n + 1) : i < m => i \in 1..n /\ order[i] = p[i]
      /\ order[m] = n
      /\ \A i \in 1..(n + 1) : m < i => i - 1 \in 1..n /\ m <= i - 1 /\ order[i] = p[i - 1]
  BY <1>3
<1>9. order \in [1..(n + 1) -> 0..n]
  <2>1. ASSUME NEW i \in 1..(n + 1) PROVE order[i] \in 0..n
    <3>1. i < m \/ i = m \/ m < i
      BY <1>3
    <3> QED
      BY <1>5, <1>8, <3>1
  <2> QED
    BY <2>1
<1> HIDE DEF order
<1>10. ASSUME NEW q \in 0..n PROVE \E i \in 1..(n + 1) : order[i] = q
  <2>1. CASE q = n
    BY <1>3, <1>8, <2>1
  <2>2. CASE q \in 0..(n - 1)
    <3>1. PICK i \in 1..n : p[i] = q
      BY <1>4, <2>2
    <3>2. CASE i < m
      BY <1>8, <3>1, <3>2
    <3>3. CASE m <= i
      <4>1. i + 1 \in 1..(n + 1) /\ m < i + 1 /\ (i + 1) - 1 = i
        BY <1>3, <3>3
      <4> QED
        BY <1>8, <3>1, <4>1
    <3> QED
      BY <1>3, <3>2, <3>3
  <2> QED
    BY <2>1, <2>2
<1>11. ASSUME NEW i \in 1..(n + 1), NEW j \in 1..(n + 1), i < j
       PROVE  ring[order[i]] <= ring[order[j]]
  <2>1. CASE j < m
    BY <1>3, <1>4, <1>8, <1>11, <2>1
  <2>2. CASE j = m
    BY <1>3, <1>6, <1>8, <1>11, <2>2
  <2>3. CASE m < j /\ i < m
    <3>1. ring[p[i]] <= ring[n] /\ ring[n] <= ring[p[j - 1]]
      BY <1>6, <1>7, <1>8, <2>3
    <3> QED
      BY <1>5, <1>8, <2>3, <3>1
  <2>4. CASE i = m
    BY <1>7, <1>8, <1>11, <2>4
  <2>5. CASE m < i
    <3>1. m < j /\ i - 1 < j - 1
      BY <1>3, <1>11, <2>5
    <3> QED
      BY <1>4, <1>8, <2>5, <3>1
  <2> QED
    BY <1>3, <2>1, <2>2, <2>3, <2>4, <2>5
<1>12. (n + 1) - 1 = n
  OBVIOUS
<1>13. {order[i] : i \in 1..(n + 1)} = 0..n
  BY <1>9, <1>10
<1>14. Sorts(order, n + 1, ring)
  BY <1>9, <1>11, <1>12, <1>13 DEF Sorts
<1> QED
  BY <1>14

LEMMA PlacesInOrder ==
    ASSUME NEW ring, NEW w \in Nat, \A q \in 0..(w - 1) : ring[q] \in Nat
    PROVE  \E order : Sorts(order, w, ring)
<1> DEFINE S == {n \in Nat : n <= w => \E order : Sorts(order, n, ring)}
<1>1. 0 \in S
  <2> DEFINE p == [i \in 1..0 |-> 0]
  <2>1. Sorts(p, 0, ring)
    BY DEF Sorts
  <2> HIDE DEF p
  <2> QED
    BY <2>1
<1>2. ASSUME NEW n \in Nat, n \in S PROVE n + 1 \in S
  <2>1. SUFFICES ASSUME n + 1 <= w PROVE \E order : Sorts(order, n + 1, ring)
    OBVIOUS
  <2>2. PICK p : Sorts(p, n, ring)
    BY <1>2, <2>1
  <2>3. \A q \in 0..n : ring[q] \in Nat
    BY <2>1
  <2> QED
    BY <2>2, <2>3, OneMorePlace
<1> HIDE DEF S
<1>3. Nat \subseteq S
  BY <1>1, <1>2, Table!Induction
<1> QED
  BY <1>3 DEF S

LEMMA OrderFound ==
    ASSUME NEW n \in Nat, \A q \in 0..(n - 1) : frame_times[q] \in Nat
    PROVE  Sorts(Stats!Ordered(n), n, frame_times)
<1>1. \E p \in [1..n -> 0..(n - 1)] :
         /\ {p[i] : i \in 1..n} = 0..(n - 1)
         /\ \A i, j \in 1..n : i < j => frame_times[p[i]] <= frame_times[p[j]]
  BY PlacesInOrder DEF Sorts
<1> QED
  BY <1>1 DEF Sorts, Stats!Ordered

(* The places of the newest samples are all places of the ring, each once.   *)
LEMMA WindowPlaces ==
    ASSUME NEW w \in Nat \ {0}, NEW first \in Nat
    PROVE  /\ \A i \in 1..w : (first + i - 1) % w \in 0..(w - 1)
           /\ \A i, j \in 1..w : (first + i - 1) % w = (first + j - 1) % w => i = j
           /\ \A q \in 0..(w - 1) : \E i \in 1..w : (first + i - 1) % w = q
<1>1. ASSUME NEW i \in 1..w PROVE (first + i - 1) % w \in 0..(w - 1)
  <2>1. first + i - 1 \in Int
    OBVIOUS
  <2> QED
    BY <2>1, Quotient
<1>2. ASSUME NEW i \in 1..w, NEW j \in 1..w, i < j
      PROVE  (first + i - 1) % w # (first + j - 1) % w
  <2>1. /\ first + i - 1 \in Int /\ j - i \in 1..(w - 1)
        /\ (first + i - 1) + (j - i) = first + j - 1
    BY <1>2
  <2>2. ((first + i - 1) + (j - i)) % w # (first + i - 1) % w
    BY <2>1, OtherPlace
  <2> QED
    BY <2>1, <2>2
<1>3. ASSUME NEW q \in 0..(w - 1) PROVE \E i \in 1..w : (first + i - 1) % w = q
  <2> DEFINE r == (q - first) % w
             d == (q - first) \div w
  <2>1. r \in 0..(w - 1) /\ d \in Int /\ q - first = w * d + r
    <3>1. q - first \in Int
      OBVIOUS
    <3> QED
      BY <3>1, Quotient
  <2> HIDE DEF r, d
  <2>2. r + 1 \in 1..w /\ first + (r + 1) - 1 = first + r /\ first + r \in Int
    BY <2>1
  <2> DEFINE t == 0 - d
  <2>3. first + r = w * t + q /\ t \in Int
    BY <2>1
  <2> HIDE DEF t
  <2> DEFINE m == (first + r) % w
             e == (first + r) \div w
  <2>4. m \in 0..(w - 1) /\ e \in Int /\ first + r = w * e + m
    BY <2>2, Quotient
  <2> HIDE DEF m, e
  <2>5. m = q
    <3>1. w * t + q = w * e + m
      BY <2>3, <2>4
    <3>2. w \in Nat \ {0} /\ t \in Int /\ e \in Int /\ q \in 0..(w - 1) /\ m \in 0..(w - 1)
      BY <2>3, <2>4
    <3> QED
      BY <3>1, <3>2, OneQuotient
  <2> QED
    BY <2>2, <2>5 DEF m
<1>4. ASSUME NEW i \in 1..w, NEW j \in 1..w, i # j
      PROVE  (first + i - 1) % w # (first + j - 1) % w
  <2>1. i < j \/ j < i
    BY <1>4
  <2> QED
    BY <1>2, <2>1
<1> QED
  BY <1>1, <1>3, <1>4

StatTypes ==
    /\ frame_times \in [0..(Window - 1) -> Nat]
    /\ frame_count \in 0..MaxFrames /\ frame_idx \in Nat
    /\ fps_frames \in Nat /\ fps_elapsed \in Nat /\ reported \in Nat
    /\ samples \in Seq(Nat) /\ basis \in Seq(Nat)
    /\ \/ frame_count = 0 /\ samples = <<>>
       \/ frame_count = Len(samples) + 1

StatInv == StatTypes /\ FrameFigures

(* A full ring's percentile is one of its times, and the times above it are  *)
(* at places the order puts behind its rank.                                 *)
LEMMA P99Right ==
    ASSUME StatTypes, Stats!RingHoldsNewest, Len(samples) >= Window
    PROVE  Stats!IsP99(Stats!ComputeP99, Stats!Newest(samples, Window))
<1> DEFINE ring == Stats!Newest(samples, Window)
           first == Len(samples) - Window
           p == Stats!Ordered(Window)
           rank == Stats!Rank(Window)
           place(i) == (first + i - 1) % Window
<1>1. Window \in Nat \ {0} /\ Window >= 2
  BY PanelAssumption DEF Stats!FrameAssumption
<1>2. /\ frame_times \in [0..(Window - 1) -> Nat] /\ samples \in Seq(Nat) /\ Len(samples) \in Nat
      /\ DOMAIN samples = 1..Len(samples) /\ frame_count = Len(samples) + 1
  BY <1>1 DEF StatTypes
<1>3. first \in Nat /\ first + Window = Len(samples)
  BY <1>1, <1>2
<1>4. Len(ring) = Window /\ DOMAIN ring = 1..Window /\ \A i \in 1..Window : ring[i] = samples[first + i]
  <2>1. /\ Len(samples) - Window + 1 \in Int /\ Len(samples) \in Int
        /\ Len(samples) - Window + 1 <= Len(samples)
        /\ Len(samples) - (Len(samples) - Window + 1) + 1 = Window
    BY <1>1, <1>2, <1>3
  <2>2. \A i \in Len(samples) - Window + 1 .. Len(samples) : samples[i] \in Nat
    <3>1. ASSUME NEW i \in Len(samples) - Window + 1 .. Len(samples) PROVE i \in 1..Len(samples)
      BY <1>1, <1>2, <1>3
    <3> QED
      BY <1>2, <3>1, ElementOfSeq
  <2>3. /\ ring \in Seq(Nat)
        /\ Len(ring) = IF Len(samples) - Window + 1 <= Len(samples)
                       THEN Len(samples) - (Len(samples) - Window + 1) + 1 ELSE 0
        /\ \A i \in 1..Len(samples) - (Len(samples) - Window + 1) + 1 :
               ring[i] = samples[Len(samples) - Window + 1 + i - 1]
    BY <2>1, <2>2, SubSeqProperties DEF Stats!Newest
  <2> HIDE DEF ring
  <2>4. Len(ring) = Window /\ DOMAIN ring = 1..Window
    BY <2>1, <2>3
  <2>5. ASSUME NEW i \in 1..Window PROVE Len(samples) - Window + 1 + i - 1 = first + i
    BY <1>1, <1>2
  <2> QED
    BY <2>1, <2>3, <2>4, <2>5
<1>5. Sorts(p, Window, frame_times)
  BY <1>1, <1>2, OrderFound
<1> HIDE DEF ring, p, first
<1>6. ASSUME NEW i \in 1..Window PROVE ring[i] = frame_times[place(i)]
  <2> DEFINE k == first + i
  <2>1. k \in DOMAIN samples /\ k > Len(samples) - Window
    BY <1>1, <1>2, <1>3
  <2> HIDE DEF k
  <2>2. frame_times[(k - 1) % Window] = samples[k]
    BY <2>1 DEF Stats!RingHoldsNewest
  <2>3. k - 1 = first + i - 1
    BY <1>3 DEF k
  <2>4. place(i) = (k - 1) % Window
    BY <2>3
  <2>5. ring[i] = samples[k]
    BY <1>4 DEF k
  <2> QED
    BY <2>2, <2>4, <2>5
<1>7. /\ \A i \in 1..Window : place(i) \in 0..(Window - 1)
      /\ \A i, j \in 1..Window : place(i) = place(j) => i = j
      /\ \A q \in 0..(Window - 1) : \E i \in 1..Window : place(i) = q
  BY <1>1, <1>3, WindowPlaces
<1> HIDE DEF place
<1>8. /\ p \in [1..Window -> 0..(Window - 1)] /\ {p[i] : i \in 1..Window} = 0..(Window - 1)
      /\ \A i, j \in 1..Window : i < j => frame_times[p[i]] <= frame_times[p[j]]
  BY <1>5 DEF Sorts
<1>9. rank \in 0..(Window - 1)
  BY <1>1 DEF Stats!Rank
<1> HIDE DEF rank
<1>10. Stats!ComputeP99 = frame_times[p[rank + 1]]
  <2>1. ~ (frame_count < Window)
    BY <1>1, <1>2, <1>3
  <2> QED
    BY <1>1, <2>1 DEF Stats!ComputeP99, p, rank
<1> DEFINE t == frame_times[p[rank + 1]]
<1>11. rank + 1 \in 1..Window /\ t \in Nat
  <2>1. rank + 1 \in 1..Window
    BY <1>1, <1>9
  <2>2. p[rank + 1] \in 0..(Window - 1)
    BY <1>8, <2>1
  <2> QED
    BY <1>2, <2>1, <2>2
<1>12. PICK i \in 1..Window : place(i) = p[rank + 1]
  BY <1>8, <1>11, <1>7
<1>13. t \in {ring[k] : k \in DOMAIN ring}
  BY <1>4, <1>6, <1>12
<1> DEFINE high == {k \in DOMAIN ring : ring[k] > t}
           behind == rank + 2 .. Window
<1>14. ASSUME NEW k \in high PROVE \E j \in behind : p[j] = place(k)
  <2>1. k \in 1..Window /\ ring[k] > t /\ place(k) \in 0..(Window - 1)
    BY <1>4, <1>7
  <2>2. PICK j \in 1..Window : p[j] = place(k)
    BY <1>8, <2>1
  <2>3. frame_times[p[j]] > t
    BY <1>6, <2>1, <2>2
  <2>4. ~ (j <= rank + 1)
    <3>1. CASE j = rank + 1
      BY <1>11, <2>3, <3>1
    <3>2. CASE j < rank + 1
      <4>1. frame_times[p[j]] <= t
        BY <1>8, <1>11, <3>2
      <4>2. p[j] \in 0..(Window - 1) /\ frame_times[p[j]] \in Nat
        BY <1>2, <1>8
      <4> QED
        BY <1>11, <2>3, <4>1, <4>2
    <3> QED
      BY <1>9, <3>1, <3>2
  <2>5. j \in behind
    BY <1>9, <2>4
  <2> QED
    BY <2>2, <2>5
<1> HIDE DEF behind
<1> DEFINE at == [k \in high |-> CHOOSE j \in behind : p[j] = place(k)]
<1>15. at \in Injection(high, behind)
  <2>1. ASSUME NEW k \in high PROVE at[k] \in behind /\ p[at[k]] = place(k)
    BY <1>14
  <2>2. at \in [high -> behind]
    BY <2>1
  <2> HIDE DEF at
  <2>3. ASSUME NEW k \in high, NEW l \in high, at[k] = at[l] PROVE k = l
    <3>1. k \in 1..Window /\ l \in 1..Window /\ place(k) = place(l)
      BY <1>4, <2>1, <2>3
    <3> QED
      BY <1>7, <3>1
  <2> QED
    BY <2>2, <2>3 DEF Injection, IsInjective
<1> HIDE DEF at, high
<1>16. IsFiniteSet(behind) /\ Cardinality(behind) = Window - 1 - rank
  <2>1. rank + 2 \in Int /\ Window \in Int
    BY <1>1, <1>9
  <2>2. /\ IsFiniteSet(behind)
        /\ Cardinality(behind) = IF rank + 2 > Window THEN 0 ELSE Window - (rank + 2) + 1
    BY <2>1, FS_Interval DEF behind
  <2> QED
    BY <1>1, <1>9, <2>2
<1>17. Cardinality(high) <= Window - 1 - rank
  BY <1>15, <1>16, FS_Injection
<1>18. Stats!IsP99(t, ring)
  <2>1. Len(ring) - 1 - Stats!Rank(Len(ring)) = Window - 1 - rank
    BY <1>4 DEF rank
  <2>2. Cardinality(high) <= Len(ring) - 1 - Stats!Rank(Len(ring))
    BY <1>17, <2>1
  <2>3. Cardinality({k \in DOMAIN ring : ring[k] > t}) <= Len(ring) - 1 - Stats!Rank(Len(ring))
    BY <2>2 DEF high
  <2>4. ASSUME NEW set PROVE Stats!Cardinality(set) = Cardinality(set)
    BY DEF Stats!Cardinality, Cardinality
  <2> HIDE DEF t
  <2> QED
    BY <1>13, <2>3, <2>4 DEF Stats!IsP99
<1> QED
  BY <1>10, <1>18 DEF ring

(* A recorded frame takes the place of the oldest one. *)
LEMMA RecordKeeps ==
    ASSUME StatTypes, Stats!RingHoldsNewest, NEW dt \in Nat, frame_count < MaxFrames,
           Stats!Record(dt), frame_count' = frame_count + 1
    PROVE  /\ frame_times' \in [0..(Window - 1) -> Nat]
           /\ frame_count' \in 0..MaxFrames /\ frame_idx' \in Nat
           /\ samples' \in Seq(Nat) /\ frame_count' = Len(samples') + 1
           /\ Stats!RingHoldsNewest'
<1>1. /\ Window \in Nat \ {0} /\ IndexWord \in Nat /\ MaxFrames \in Nat /\ MaxFrames <= IndexWord
  BY PanelAssumption DEF Stats!FrameAssumption
<1>2. /\ frame_times \in [0..(Window - 1) -> Nat] /\ frame_count \in Nat
      /\ samples \in Seq(Nat) /\ Len(samples) \in Nat /\ DOMAIN samples = 1..Len(samples)
      /\ frame_idx = Len(samples)
      /\ \/ frame_count = 0 /\ samples = <<>>
         \/ frame_count = Len(samples) + 1
  BY <1>1 DEF StatTypes, Stats!RingHoldsNewest
<1>3. \A k \in 1..Len(samples) :
          k > Len(samples) - Window => frame_times[(k - 1) % Window] = samples[k]
  BY <1>2 DEF Stats!RingHoldsNewest
<1>4. frame_count' \in 0..MaxFrames
  BY <1>1, <1>2
<1>5. CASE frame_count = 0
  <2>1. samples = <<>> /\ frame_times' = frame_times /\ frame_idx' = frame_idx /\ samples' = samples
    BY <1>2, <1>5 DEF Stats!Record
  <2>2. Len(samples) = 0 /\ DOMAIN samples = {}
    BY <2>1
  <2> QED
    BY <1>2, <1>4, <1>5, <2>1, <2>2 DEF Stats!RingHoldsNewest
<1>6. CASE frame_count # 0
  <2> DEFINE n == Len(samples)
             place == frame_idx % Window
  <2>1. /\ frame_times' = [frame_times EXCEPT ![place] = dt]
        /\ frame_idx' = (frame_idx + 1) % IndexWord /\ samples' = Append(samples, dt)
    BY <1>6 DEF Stats!Record
  <2>2. /\ samples' \in Seq(Nat) /\ Len(samples') = n + 1 /\ DOMAIN samples' = 1..(n + 1)
        /\ samples'[n + 1] = dt /\ \A k \in 1..n : samples'[k] = samples[k]
    BY <1>2, <2>1
  <2>3. n \in Nat /\ frame_count = n + 1 /\ place \in 0..(Window - 1) /\ place = n % Window
    <3>1. frame_idx \in Int
      BY <1>2
    <3> QED
      BY <1>1, <1>2, <1>6, <3>1, Quotient
  <2> HIDE DEF place, n
  <2>4. frame_times' \in [0..(Window - 1) -> Nat]
    BY <1>2, <2>1, <2>3
  <2>5. frame_idx' = n + 1
    <3>1. frame_idx = n /\ n + 1 < IndexWord
      BY <1>1, <1>2, <2>3 DEF n
    <3> QED
      BY <1>1, <2>1, <2>3, <3>1
  <2>6. ASSUME NEW k \in 1..(n + 1), k > n + 1 - Window
        PROVE  frame_times'[(k - 1) % Window] = samples'[k]
    <3>1. CASE k = n + 1
      <4>1. k - 1 = n
        BY <2>3, <3>1
      <4> QED
        BY <1>2, <2>1, <2>2, <2>3, <3>1, <4>1
    <3>2. CASE k \in 1..n
      <4>1. /\ k - 1 \in Int /\ n - (k - 1) \in 1..(Window - 1) /\ (k - 1) + (n - (k - 1)) = n
            /\ k > n - Window
        BY <1>1, <2>3, <2>6, <3>2
      <4>2. ((k - 1) + (n - (k - 1))) % Window # (k - 1) % Window
        BY <1>1, <4>1, OtherPlace
      <4>3. (k - 1) % Window # place
        BY <2>3, <4>1, <4>2
      <4>4. (k - 1) % Window \in 0..(Window - 1)
        BY <1>1, <4>1, Quotient
      <4>5. frame_times[(k - 1) % Window] = samples[k]
        BY <1>3, <3>2, <4>1 DEF n
      <4> QED
        BY <1>2, <2>1, <2>2, <3>2, <4>3, <4>4, <4>5
    <3> QED
      BY <2>3, <3>1, <3>2
  <2>7. Stats!RingHoldsNewest'
    <3>1. frame_idx' = Len(samples') /\ frame_count' <= frame_idx' + 1
      BY <2>2, <2>3, <2>5
    <3>2. ASSUME NEW k \in DOMAIN samples', k > Len(samples') - Window
          PROVE  frame_times'[(k - 1) % Window] = samples'[k]
      <4>1. k \in 1..(n + 1) /\ k > n + 1 - Window
        BY <1>1, <2>2, <2>3, <3>2
      <4> QED
        BY <2>6, <4>1
    <3> QED
      BY <3>1, <3>2 DEF Stats!RingHoldsNewest
  <2> QED
    BY <1>4, <2>2, <2>3, <2>4, <2>5, <2>7
<1> QED
  BY <1>5, <1>6

(* The figures are renewed from the ring as it was, every half second.       *)
LEMMA FrameKeeps ==
    ASSUME StatInv, NEW dt \in Times, Stats!Frame(dt)
    PROVE  StatInv'
<1>1. /\ dt \in Nat /\ RefreshTime \in Nat \ {0} /\ Window \in Nat \ {0}
  BY PanelAssumption DEF Stats!FrameAssumption
<1>2. /\ StatTypes /\ Stats!RingHoldsNewest /\ Stats!EveryFrameCounted /\ Stats!P99OfFullRing
  BY DEF StatInv, FrameFigures, Stats!FrameFigures
<1>3. /\ frame_count < MaxFrames /\ Stats!Record(dt) /\ frame_count' = frame_count + 1
      /\ IF fps_elapsed + dt >= RefreshTime THEN Stats!Refreshed(dt)
         ELSE /\ fps_frames' = fps_frames + 1 /\ fps_elapsed' = fps_elapsed + dt
              /\ UNCHANGED <<last_fps, last_p99, reported, basis>>
  BY DEF Stats!Frame
<1>4. /\ frame_times' \in [0..(Window - 1) -> Nat]
      /\ frame_count' \in 0..MaxFrames /\ frame_idx' \in Nat
      /\ samples' \in Seq(Nat) /\ frame_count' = Len(samples') + 1
      /\ Stats!RingHoldsNewest'
  BY <1>1, <1>2, <1>3, RecordKeeps
<1>5. /\ frame_count \in Nat /\ fps_frames \in Nat /\ fps_elapsed \in Nat /\ reported \in Nat
      /\ samples \in Seq(Nat) /\ basis \in Seq(Nat)
  BY <1>1, <1>2 DEF StatTypes
<1>6. CASE fps_elapsed + dt >= RefreshTime
  <2>1. /\ last_fps' = <<fps_frames + 1, fps_elapsed + dt>> /\ fps_elapsed' = 0
        /\ fps_frames' = 0 /\ last_p99' = Stats!ComputeP99
        /\ reported' = reported + fps_frames + 1 /\ basis' = samples
    BY <1>3, <1>6 DEF Stats!Refreshed
  <2>2. StatTypes'
    BY <1>4, <1>5, <2>1 DEF StatTypes
  <2>3. Stats!EveryFrameCounted'
    <3>1. reported + fps_frames = frame_count
      BY <1>2 DEF Stats!EveryFrameCounted
    <3>2. reported' + fps_frames' = frame_count' /\ fps_elapsed' < RefreshTime
      BY <1>1, <1>3, <1>5, <2>1, <3>1
    <3>3. last_fps'[2] >= RefreshTime /\ last_fps'[1] > 0
      BY <1>1, <1>5, <1>6, <2>1
    <3> QED
      BY <3>2, <3>3 DEF Stats!EveryFrameCounted
  <2>4. Stats!P99OfFullRing'
    <3>1. Len(samples) >= Window => Stats!IsP99(Stats!ComputeP99, Stats!Newest(samples, Window))
      BY <1>2, P99Right
    <3> QED
      BY <2>1, <3>1 DEF Stats!P99OfFullRing, Stats!Newest, Stats!IsP99, Stats!Rank
  <2> QED
    BY <1>4, <2>2, <2>3, <2>4 DEF StatInv, FrameFigures, Stats!FrameFigures
<1>7. CASE ~ (fps_elapsed + dt >= RefreshTime)
  <2>1. /\ fps_frames' = fps_frames + 1 /\ fps_elapsed' = fps_elapsed + dt
        /\ last_fps' = last_fps /\ last_p99' = last_p99 /\ reported' = reported /\ basis' = basis
    BY <1>3, <1>7
  <2>2. StatTypes'
    BY <1>1, <1>4, <1>5, <2>1 DEF StatTypes
  <2>3. Stats!EveryFrameCounted'
    <3>1. reported + fps_frames = frame_count
      BY <1>2 DEF Stats!EveryFrameCounted
    <3>2. reported' + fps_frames' = frame_count' /\ fps_elapsed' < RefreshTime
      BY <1>1, <1>3, <1>5, <1>7, <2>1, <3>1
    <3> QED
      BY <1>2, <2>1, <3>2 DEF Stats!EveryFrameCounted
  <2>4. Stats!P99OfFullRing'
    BY <1>2, <2>1 DEF Stats!P99OfFullRing, Stats!Newest, Stats!IsP99, Stats!Rank
  <2> QED
    BY <1>4, <2>2, <2>3, <2>4 DEF StatInv, FrameFigures, Stats!FrameFigures
<1> QED
  BY <1>6, <1>7

LEMMA StatsBegin == PartsInit => StatInv
<1> SUFFICES ASSUME PartsInit PROVE StatInv
  OBVIOUS
<1>1. /\ RefreshTime \in Nat \ {0} /\ Window \in Nat \ {0} /\ MaxFrames \in Nat
  BY PanelAssumption DEF Stats!FrameAssumption
<1>2. /\ frame_times = [i \in 0..(Window - 1) |-> 0] /\ frame_idx = 0 /\ frame_count = 0
      /\ fps_frames = 0 /\ fps_elapsed = 0 /\ last_fps = <<0, 0>>
      /\ samples = <<>> /\ reported = 0 /\ basis = <<>>
  BY DEF PartsInit, Stats!Init
<1>3. StatTypes
  BY <1>1, <1>2 DEF StatTypes
<1>4. Stats!RingHoldsNewest
  <2>1. Len(samples) = 0 /\ DOMAIN samples = {}
    BY <1>2
  <2> QED
    BY <1>2, <2>1 DEF Stats!RingHoldsNewest
<1>5. Stats!EveryFrameCounted
  BY <1>1, <1>2 DEF Stats!EveryFrameCounted
<1>6. Stats!P99OfFullRing
  <2>1. ~ (Len(basis) >= Window)
    BY <1>1, <1>2
  <2> QED
    BY <2>1 DEF Stats!P99OfFullRing
<1> QED
  BY <1>3, <1>4, <1>5, <1>6 DEF StatInv, FrameFigures, Stats!FrameFigures

LEMMA StatsStep == StatInv /\ [PartsNext]_<<part, vars, threatVars, logVars, statVars, argVars>>
                   => StatInv'
<1> SUFFICES ASSUME StatInv, [PartsNext]_<<part, vars, threatVars, logVars, statVars, argVars>>
             PROVE  StatInv'
  OBVIOUS
<1>1. CASE Stats!Next
  BY <1>1, FrameKeeps DEF Stats!Next
<1>2. CASE UNCHANGED statVars
  <2>1. /\ frame_times' = frame_times /\ frame_idx' = frame_idx /\ frame_count' = frame_count
        /\ fps_frames' = fps_frames /\ fps_elapsed' = fps_elapsed /\ last_fps' = last_fps
        /\ last_p99' = last_p99 /\ samples' = samples /\ reported' = reported /\ basis' = basis
    BY <1>2 DEF statVars
  <2>2. StatTypes'
    BY <2>1 DEF StatInv, StatTypes
  <2>3. Stats!RingHoldsNewest' /\ Stats!EveryFrameCounted'
    BY <2>1 DEF StatInv, FrameFigures, Stats!FrameFigures, Stats!RingHoldsNewest,
                Stats!EveryFrameCounted
  <2>4. Stats!P99OfFullRing'
    BY <2>1 DEF StatInv, FrameFigures, Stats!FrameFigures, Stats!P99OfFullRing, Stats!Newest,
                Stats!IsP99, Stats!Rank
  <2> QED
    BY <2>2, <2>3, <2>4 DEF StatInv, FrameFigures, Stats!FrameFigures
<1> QED
  BY <1>1, <1>2 DEF PartsNext

(* The ring holds the newest frame times and every frame is in one of the    *)
(* rates, in every session whose frames a u32 can count; and once the ring   *)
(* is full, the percentile compute_p99 shows is one of its times with no     *)
(* more of them above it than its rank leaves, whatever frames take.         *)
THEOREM FiguresAreRight == PartsSpec => []FrameFigures
<1>1. StatInv => FrameFigures
  BY DEF StatInv
<1> QED
  BY <1>1, StatsBegin, StatsStep, PTL DEF PartsSpec
=============================================================================
