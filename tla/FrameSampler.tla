---------------------------- MODULE FrameSampler ----------------------------
(***************************************************************************)
(* One frame of the game as the plugin measures it: the hook on            *)
(* Main::Update (samplers/frame_sampler.cpp) with its rolling median, the  *)
(* per-subsystem accumulators that the other hooks add to and the frame    *)
(* drains (samplers/cpu_breakdown.cpp), the archive read hook and the      *)
(* summary thread (samplers/streaming_sampler.cpp), and the decision of    *)
(* the stutter flagger (diagnostics/stutter_flagger.cpp).                  *)
(*                                                                         *)
(* Times are small integers. A breakdown is drained one accumulator at a   *)
(* time while the other threads go on adding.                              *)
(***************************************************************************)
EXTENDS Integers, Sequences, SequencesExt, FiniteSetsExt

CONSTANTS
  Subsystems,    \* the accumulators, in the order ConsumeFrame drains them
  Streaming,     \* the one the archive read hook adds to
  Reader,        \* threads that read archives
  kWindow,       \* of FrameState
  Durations,     \* the frame times that occur
  Ratio,         \* of a stutter to the median, in halves: 5 is 2.5
  MinFrame,      \* min_frame_ms
  MaxFrames,     \* bound: frames measured
  MaxAdded       \* bound: time added to one accumulator, bytes read

ASSUME FrameAssumption ==
  /\ Subsystems \in Seq(ToSet(Subsystems))
  /\ Len(Subsystems) > 0 /\ Streaming = Last(Subsystems)
  /\ kWindow \in Nat \ {0} /\ Durations \subseteq Nat \ {0}
  /\ Ratio \in Nat /\ Ratio > 2   \* a configured ratio above one
  /\ IsFiniteSet(Reader) /\ MaxAdded \in Nat

VARIABLES
  step,       \* where the frame hook is
  dt,         \* dtMs of the frame it measures
  acc,        \* the accumulators
  snap,       \* the snapshot being drained; Undrained where not reached
  window, windowIdx,
  p50,        \* rolling_p50_ms
  stutter,    \* the last frame was flagged
  reader,     \* where each reader's archive read is
  inFlight, bytes,  \* Stats::in_flight, bytes_this_second
  summary,    \* the bytes of the streaming record being made, or None
  frames,     \* history: the times of all frames
  added,      \* history: what was added to each accumulator
  reported,   \* history: what the breakdown records report of each
  bytesRead, bytesReported   \* history: the same for the streaming records

frameVars == <<step, dt, acc, snap, window, windowIdx, p50, stutter, reader,
               inFlight, bytes, summary, frames, added, reported,
               bytesRead, bytesReported>>
hookVars   == <<step, dt, snap, frames, reported>>
medianVars == <<window, windowIdx, p50, stutter>>
readVars   == <<reader, inFlight, bytes, bytesRead>>
sumVars    == <<summary, bytesReported>>

None == -1
Subsystem == ToSet(Subsystems)
Undrained == [s \in Subsystem |-> None]

FrameTypeOK ==
  /\ step \in {"game", "drain", "breakdown"}
  /\ dt \in Durations \union {0}
  /\ acc \in [Subsystem -> Nat] /\ snap \in [Subsystem -> Nat \union {None}]
  /\ window \in Seq(Durations) /\ Len(window) <= kWindow
  /\ windowIdx \in 0 .. kWindow - 1
  /\ p50 \in Durations \union {0}
  /\ stutter \in BOOLEAN
  /\ reader \in [Reader -> {"idle", "reading", "read"}]
  /\ inFlight \in 0 .. Cardinality(Reader)
  /\ bytes \in 0 .. MaxAdded /\ summary \in {None} \union 0 .. MaxAdded

FrameInit ==
  /\ step = "game" /\ dt = 0
  /\ acc = [s \in Subsystem |-> 0] /\ snap = Undrained
  \* rolling_p50_ms starts at 16.6, and is set before it is read.
  /\ window = <<>> /\ windowIdx = 0 /\ p50 = 0 /\ stutter = FALSE
  /\ reader = [r \in Reader |-> "idle"] /\ inFlight = 0 /\ bytes = 0
  /\ summary = None
  /\ frames = <<>>
  /\ added = [s \in Subsystem |-> 0] /\ reported = [s \in Subsystem |-> 0]
  /\ bytesRead = 0 /\ bytesReported = 0

-----------------------------------------------------------------------------
(* The other hooks.                                                        *)

\* AddPapyrusUs and its like: a call that took no time adds nothing.
AddTime(s) ==
  /\ added[s] < MaxAdded
  /\ acc' = [acc EXCEPT ![s] = @ + 1]
  /\ added' = [added EXCEPT ![s] = @ + 1]
  /\ UNCHANGED <<hookVars, medianVars, readVars, sumVars>>

ReadBegins(r) ==
  /\ reader[r] = "idle" /\ bytesRead + Cardinality(Reader) <= MaxAdded
  /\ reader' = [reader EXCEPT ![r] = "reading"]
  /\ inFlight' = inFlight + 1
  /\ UNCHANGED <<hookVars, medianVars, sumVars, acc, added, bytes, bytesRead>>

ReadEndsTwice(r) ==   \* mutant: both counts are given back at once
  /\ reader[r] = "reading"
  /\ reader' = [reader EXCEPT ![r] = "read"]
  /\ inFlight' = inFlight - 2
  /\ UNCHANGED <<hookVars, medianVars, sumVars, acc, added, bytes, bytesRead>>

ReadEnds(r) ==
  /\ reader[r] = "reading"
  /\ reader' = [reader EXCEPT ![r] = "read"]
  /\ inFlight' = inFlight - 1
  /\ UNCHANGED <<hookVars, medianVars, sumVars, acc, added, bytes, bytesRead>>

\* A read of one byte and one microsecond is counted; one that took no
\* measurable time is not.
ReadCounted(r) ==
  /\ reader[r] = "read"
  /\ reader' = [reader EXCEPT ![r] = "idle"]
  /\ \/ /\ added[Streaming] < MaxAdded
        /\ acc' = [acc EXCEPT ![Streaming] = @ + 1]
        /\ added' = [added EXCEPT ![Streaming] = @ + 1]
        /\ bytes' = bytes + 1 /\ bytesRead' = bytesRead + 1
     \/ UNCHANGED <<acc, added, bytes, bytesRead>>
  /\ UNCHANGED <<hookVars, medianVars, sumVars, inFlight>>

\* SummaryLoop: take the bytes, then make the record with the depth.
SummaryTakes ==
  /\ summary = None /\ bytesReported < MaxAdded
  /\ summary' = bytes /\ bytes' = 0
  /\ UNCHANGED <<hookVars, medianVars, acc, added, reader, inFlight, bytesRead,
                 bytesReported>>

SummaryEmits ==
  /\ summary # None
  /\ bytesReported' = bytesReported + summary
  /\ summary' = None
  /\ UNCHANGED <<hookVars, medianVars, readVars, acc, added>>

-----------------------------------------------------------------------------
(* The frame hook, after the game's own update has returned.               *)

\* The element nth_element leaves in the middle of a copy of the window.
Middle(w) ==
  {v \in ToSet(w) : /\ Cardinality({i \in DOMAIN w : w[i] < v}) <= Len(w) \div 2
                    /\ Len(w) \div 2 < Cardinality({i \in DOMAIN w : w[i] <= v})}
Median(w) == CHOOSE v \in Middle(w) : TRUE

SlideInPlace(d) ==   \* mutant: the index does not move on
  IF Len(window) < kWindow
  THEN window' = Append(window, d) /\ UNCHANGED windowIdx
  ELSE /\ window' = [window EXCEPT ![windowIdx + 1] = d]
       /\ UNCHANGED windowIdx

Slide(d) ==
  IF Len(window) < kWindow
  THEN window' = Append(window, d) /\ UNCHANGED windowIdx
  ELSE /\ window' = [window EXCEPT ![windowIdx + 1] = d]
       /\ windowIdx' = (windowIdx + 1) % kWindow

StaleMedian(d) == /\ Slide(d)   \* mutant: the median is taken before
                  /\ p50' = IF window = <<>> THEN d ELSE Median(window)
UpdateRollingP50(d) == Slide(d) /\ p50' = Median(window')

\* dt is the time since the last frame ended or, for the first frame, the time
\* its own update took. cpu_frame_ms and other_ms, which nothing depends on,
\* are left out.
FrameEnds(d) ==
  /\ step = "game" /\ Len(frames) < MaxFrames
  /\ dt' = d
  /\ frames' = Append(frames, d)
  /\ UpdateRollingP50(d)
  /\ step' = "drain"
  /\ UNCHANGED <<acc, snap, stutter, added, reported, readVars, sumVars>>

NextToDrain == SelectInSeq(Subsystems, LAMBDA s : snap[s] = None)

DrainClearsLast ==   \* mutant: loads one by one, and zeroes them all at the end
  /\ step = "drain" /\ NextToDrain > 0
  /\ snap' = [snap EXCEPT ![Subsystems[NextToDrain]] = acc[Subsystems[NextToDrain]]]
  /\ LET last == NextToDrain = Len(Subsystems)
     IN  /\ acc' = IF last THEN [s \in Subsystem |-> 0] ELSE acc
         /\ step' = IF last THEN "breakdown" ELSE "drain"
  /\ UNCHANGED <<dt, frames, reported, added, medianVars, readVars, sumVars>>

\* ConsumeFrame, one exchange.
Drain ==
  /\ step = "drain" /\ NextToDrain > 0
  /\ LET s == Subsystems[NextToDrain]
     IN  snap' = [snap EXCEPT ![s] = acc[s]] /\ acc' = [acc EXCEPT ![s] = 0]
  /\ step' = IF NextToDrain = Len(Subsystems) THEN "breakdown" ELSE "drain"
  /\ UNCHANGED <<dt, frames, reported, added, medianVars, readVars, sumVars>>

\* The breakdown record, then StutterFlagger::OnFrame.
IsStutter == dt >= MinFrame /\ p50 > 0 /\ 2 * dt >= Ratio * p50

EmitBreakdown ==
  /\ step = "breakdown"
  /\ reported' = [s \in Subsystem |-> reported[s] + snap[s]]
  /\ stutter' = IsStutter
  /\ snap' = Undrained /\ step' = "game"
  /\ UNCHANGED <<dt, frames, acc, added, window, windowIdx, p50, readVars, sumVars>>

FrameNext ==
  \/ \E s \in Subsystem \ {Streaming} : AddTime(s)
  \/ \E r \in Reader : ReadBegins(r) \/ ReadEnds(r) \/ ReadCounted(r)
  \/ SummaryTakes \/ SummaryEmits
  \/ \E d \in Durations : FrameEnds(d)
  \/ Drain \/ EmitBreakdown

FrameSpec == FrameInit /\ [][FrameNext]_frameVars

-----------------------------------------------------------------------------
(* ConsumeFrame and SummaryLoop: every microsecond and every byte a hook   *)
(* has counted is reported in exactly one record, whichever threads add    *)
(* while it is taken.                                                      *)
NothingCountedTwice ==
  /\ \A s \in Subsystem :
       added[s] = reported[s] + (IF snap[s] = None THEN 0 ELSE snap[s]) + acc[s]
  /\ bytesRead = bytesReported + (IF summary = None THEN 0 ELSE summary) + bytes

(* UpdateRollingP50: the window holds the times of the last kWindow frames, *)
(* each once, wherever in the array they are, and the median is theirs.    *)
WindowIsRecent ==
  LET recent == SubSeq(frames, Max({1, Len(frames) - kWindow + 1}), Len(frames))
      count(w, d) == Cardinality({i \in DOMAIN w : w[i] = d})
  IN  /\ \A d \in Durations : count(window, d) = count(recent, d)
      /\ frames # <<>> => p50 = Median(recent)

(* StutterFlagger::OnFrame: a game that has become slow is no stutter: when *)
(* more than half a window of frames took the same time, the last of them  *)
(* is not flagged, however fast the frames before were.                    *)
SlowIsNoStutter ==
  LET half == kWindow \div 2 + 1
      last == SubSeq(frames, Len(frames) - half + 1, Len(frames))
  IN  step = "game" /\ Len(frames) >= half /\ (\A i \in DOMAIN last : last[i] = dt)
        => ~stutter
=============================================================================
