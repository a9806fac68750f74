-------------------------------- MODULE Config --------------------------------
(***************************************************************************)
(* The command line of soc_dashboard.c: parse_args walks the arguments.  A  *)
(* number is kept modulo Word, as the casts to u32 do; an argument that is  *)
(* not a number counts as 0.  --help, which ends the program, is left out.  *)
(***************************************************************************)
EXTENDS Integers, Sequences, FiniteSets, FiniteSetsExt

CONSTANTS
  Word, WordBits,                                \* 2^32, 32
  MinRing, LogRing, ThreatMax, MaxNodes, MaxFps, TargetFps,
  Numbers,                                       \* numbers given as arguments
  MaxArgs                                        \* bound: length of the command line

ConfigAssumption ==
  /\ WordBits \in Nat /\ Word = 2^WordBits
  /\ {Word, MinRing, LogRing, ThreatMax, MaxNodes, MaxFps, TargetFps} \subseteq Nat \ {0}
  /\ Numbers \subseteq Int /\ MaxArgs \in Nat

Options == {"log_size", "threat_max", "nodes", "fps_cap"}

Arguments == [opt : Options, num : {0}] \cup [opt : {"none"}, num : Numbers]

VARIABLES
  argv, i,                  \* the arguments, and the one parse_args is at
  cfg                       \* g_cfg

vars == <<argv, i, cfg>>

Defaults == [log_size |-> LogRing, threat_max |-> ThreatMax, nodes |-> MaxNodes, fps_cap |-> TargetFps]

Init ==
  /\ \E n \in 0..MaxArgs : argv \in [1..n -> Arguments]
  /\ i = 1 /\ cfg = Defaults

U32(val) == val % Word

(* The least power of two that is not less; 2^32 is 0. *)
NextPow2(v) ==
  IF v < MinRing THEN MinRing
  ELSE Min({p \in v..Word : \E k \in 0..WordBits : p = 2^k}) % Word

Limited(opt, val) ==
  CASE opt = "log_size"   -> Min({NextPow2(U32(val)), LogRing})
    [] opt = "threat_max" -> Min({U32(val), ThreatMax})
    [] opt = "nodes"      -> Min({U32(val), MaxNodes})
    [] opt = "fps_cap"    -> Max({1, Min({U32(val), MaxFps})})

Valid == i < Len(argv) /\ argv[i + 1].num > 0 /\ argv[i].opt \in Options

Mut_TakeOption ==            \* the number is not skipped, nor the option if it is the first
  /\ Valid /\ i' = i + 2
  /\ cfg' = IF i = 1 THEN cfg ELSE [cfg EXCEPT ![argv[i].opt] = Limited(argv[i].opt, argv[i + 1].num)]
  /\ UNCHANGED argv

TakeOption ==
  /\ Valid /\ i' = i + 2
  /\ cfg' = [cfg EXCEPT ![argv[i].opt] = Limited(argv[i].opt, argv[i + 1].num)]
  /\ UNCHANGED argv

SkipArgument ==
  /\ i <= Len(argv) /\ ~Valid /\ i' = i + 1 /\ UNCHANGED <<argv, cfg>>

Next == TakeOption \/ SkipArgument
Spec == Init /\ [][Next]_vars

-----------------------------------------------------------------------------
(* Every limit stays within the table it is for, and the frame rate can be
   divided by, whatever numbers are given. *)
LimitsInRange ==
  /\ cfg.log_size \in 0..LogRing /\ cfg.threat_max \in 0..ThreatMax
  /\ cfg.nodes \in 0..MaxNodes /\ cfg.fps_cap \in 1..Max({MaxFps, TargetFps})

(* When the command line has been read, each setting is that of the last
   option of its name that a positive number follows: skipping the number
   hides no option. *)
Given(opt) == {k \in 1..(Len(argv) - 1) : argv[k].opt = opt /\ argv[k + 1].num > 0}
LastOptionWins ==
  i > Len(argv) => \A opt \in Options :
    cfg[opt] = IF Given(opt) = {} THEN Defaults[opt] ELSE Limited(opt, argv[Max(Given(opt)) + 1].num)

(* The settings the program goes on with. *)
SettingsHold == LimitsInRange /\ LastOptionWins
=============================================================================
