------------------------------ MODULE FrameStats ------------------------------
(***************************************************************************)
(* The frame statistics of soc_dashboard.c: the ring of frame times, the    *)
(* frames per second, and the 99th percentile that the header and the       *)
(* session report show.  A frame time is a number of milliseconds.          *)
(***************************************************************************)
EXTENDS Integers, Sequences, FiniteSets

CONSTANTS Window,            \* 300 frame times are kept
          Refresh,           \* the figures are renewed after half a second
          Times,             \* what a frame can take
          IndexWord,         \* 2^32: frame_idx is a u32
          MaxFrames          \* bound: frame_idx, which Window does not divide, never wraps

FrameAssumption == /\ Window \in Nat \ {0, 1} /\ Refresh \in Nat \ {0} /\ Times \subseteq Nat
                   /\ IndexWord \in Nat /\ MaxFrames \in 0..IndexWord

VARIABLES
  frame_times, frame_idx, frame_count,   \* the ring, zeroed at the start
  fps_frames, fps_elapsed,               \* since the last refresh
  last_fps, last_p99,                    \* shown: <<frames, time>>; the percentile
  samples,                               \* history: what was recorded, in order
  reported, basis                        \* history: frames in the rates shown; samples behind last_p99

vars == <<frame_times, frame_idx, frame_count, fps_frames, fps_elapsed, last_fps, last_p99,
          samples, reported, basis>>

Init ==
  /\ frame_times = [i \in 0..(Window - 1) |-> 0] /\ frame_idx = 0 /\ frame_count = 0
  /\ fps_frames = 0 /\ fps_elapsed = 0 /\ last_fps = <<0, 0>> /\ last_p99 = 0
  /\ samples = <<>> /\ reported = 0 /\ basis = <<>>

Rank(n) == ((n - 1) * 99) \div 100

(* qsort: the first n places of the ring, in an order of their times. *)
Ordered(n) ==
  CHOOSE p \in [1..n -> 0..(n - 1)] :
    /\ {p[i] : i \in 1..n} = 0..(n - 1)
    /\ \A i, j \in 1..n : i < j => frame_times[p[i]] <= frame_times[p[j]]

ComputeP99 ==
  LET n == IF frame_count < Window THEN frame_count ELSE Window
  IN IF n < 2 THEN 0 ELSE frame_times[Ordered(n)[Rank(n) + 1]]

Mut_Refreshed(dt) ==         \* the count goes on
  /\ last_fps' = <<fps_frames + 1, fps_elapsed + dt>> /\ fps_elapsed' = 0
  /\ fps_frames' = fps_frames + 1 /\ last_p99' = ComputeP99
  /\ reported' = reported + fps_frames + 1 /\ basis' = samples

Refreshed(dt) ==
  /\ last_fps' = <<fps_frames + 1, fps_elapsed + dt>> /\ fps_elapsed' = 0
  /\ fps_frames' = 0 /\ last_p99' = ComputeP99
  /\ reported' = reported + fps_frames + 1 /\ basis' = samples

(* The first frame has nothing to be measured from, and is not recorded. *)
Record(dt) ==
  IF frame_count = 0 THEN UNCHANGED <<frame_times, frame_idx, samples>>
  ELSE /\ frame_times' = [frame_times EXCEPT ![frame_idx % Window] = dt]
       /\ frame_idx' = (frame_idx + 1) % IndexWord /\ samples' = Append(samples, dt)

(* One turn of the main loop: the figures are renewed before dt is recorded. *)
Frame(dt) ==
  /\ frame_count < MaxFrames
  /\ IF fps_elapsed + dt >= Refresh THEN Refreshed(dt)
     ELSE /\ fps_frames' = fps_frames + 1 /\ fps_elapsed' = fps_elapsed + dt
          /\ UNCHANGED <<last_fps, last_p99, reported, basis>>
  /\ Record(dt) /\ frame_count' = frame_count + 1

Next == \E dt \in Times : Frame(dt)
Spec == Init /\ [][Next]_vars

-----------------------------------------------------------------------------
Newest(s, n) == SubSeq(s, Len(s) - n + 1, Len(s))

(* The ring holds the newest frame times, as many as it has room for: the k-th
   sample is in place k modulo the window until it is overwritten. *)
RingHoldsNewest ==
  /\ frame_idx = Len(samples) /\ frame_count <= frame_idx + 1
  /\ \A k \in DOMAIN samples :
       k > Len(samples) - Window => frame_times[(k - 1) % Window] = samples[k]

(* Every frame is in exactly one of the rates that are shown, and a rate is
   over half a second at least. *)
EveryFrameCounted ==
  /\ reported + fps_frames = frame_count /\ fps_elapsed < Refresh
  /\ last_fps # <<0, 0>> => last_fps[2] >= Refresh /\ last_fps[1] > 0

(* A time of the ring is its percentile if no more of them lie above it than
   its rank leaves. *)
IsP99(time, ring) ==
  /\ time \in {ring[i] : i \in DOMAIN ring}
  /\ Cardinality({i \in DOMAIN ring : ring[i] > time}) <= Len(ring) - 1 - Rank(Len(ring))

(* Once the ring is full, what is shown is the percentile of the newest. *)
P99OfFullRing == Len(basis) >= Window => IsP99(last_p99, Newest(basis, Window))

(* The figures of the header and the session report are right. *)
FrameFigures == RingHoldsNewest /\ EveryFrameCounted /\ P99OfFullRing
=============================================================================
