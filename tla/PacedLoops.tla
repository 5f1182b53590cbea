----------------------------- MODULE PacedLoops -----------------------------
(***************************************************************************)
(* The threads of the periodic samplers: MemorySampler::Loop with its two  *)
(* deadlines (samplers/memory_sampler.cpp), the ticker of StateSampler     *)
(* (state_sampler.cpp) and PapyrusSampler::SnapshotLoop                    *)
(* (papyrus_sampler.cpp).  Each of them reads the clock once per turn,     *)
(* samples for every deadline that has come, and moves the deadline on by  *)
(* a period, or to a period from now when that is past too.                *)
(*                                                                         *)
(* The clock is an integer that may advance at any moment and by any       *)
(* amount: a sample may take long, and a thread may be kept from running.  *)
(* What a sample reads is in MemoryPressure, StateSnapshot and             *)
(* PapyrusAttribution.                                                     *)
(***************************************************************************)
EXTENDS Integers, Sequences

CONSTANTS
  Loop,         \* the sampler threads
  Deadlines,    \* the deadlines of each, in the order it looks at them
  Period,       \* of each deadline
  MaxClock      \* bound of the clock

Of(l) == {Deadlines[l][i] : i \in DOMAIN Deadlines[l]}
Deadline == UNION {Of(l) : l \in Loop}

ASSUME LoopAssumption ==
  /\ \A l \in Loop : Deadlines[l] \in Seq(Deadline) /\ Len(Deadlines[l]) > 0
  /\ \A l, m \in Loop : l # m => Of(l) \cap Of(m) = {}
  /\ Period \in [Deadline -> Nat \ {0}]
  /\ MaxClock \in Nat

VARIABLES
  clock,      \* steady_clock::now()
  at,         \* where each loop is
  sampling,   \* _running
  looked,     \* how many deadlines this turn has looked at
  read,       \* the now of this turn
  due,        \* nextMem, nextPressure, next
  fired       \* history: the now of each turn that sampled, by deadline

loopVars == <<clock, at, sampling, looked, read, due, fired>>

LoopTypeOK ==
  /\ clock \in Nat
  /\ at \in [Loop -> {"idle", "check", "due", "exited"}]
  /\ sampling \in [Loop -> BOOLEAN]
  /\ looked \in [Loop -> Nat] /\ \A l \in Loop : looked[l] < Len(Deadlines[l])
  /\ read \in [Loop -> Nat]
  /\ due \in [Deadline -> Nat]
  /\ fired \in [Deadline -> Seq(Nat)]

LoopInit ==
  /\ clock = 0
  /\ at = [l \in Loop |-> "idle"] /\ sampling = [l \in Loop |-> FALSE]
  /\ looked = [l \in Loop |-> 0] /\ read = [l \in Loop |-> 0]
  /\ due = [d \in Deadline |-> 0]
  /\ fired = [d \in Deadline |-> <<>>]

-----------------------------------------------------------------------------
\* Start, once for each sampler: its deadlines are now.
StartLoop(l) ==
  /\ at[l] = "idle" /\ ~sampling[l]
  /\ sampling' = [sampling EXCEPT ![l] = TRUE]
  /\ at' = [at EXCEPT ![l] = "check"]
  /\ due' = [d \in Deadline |-> IF d \in Of(l) THEN clock ELSE due[d]]
  /\ UNCHANGED <<clock, looked, read, fired>>

\* Stop: its join waits for LoopExits.
StopLoop(l) ==
  /\ sampling[l]
  /\ sampling' = [sampling EXCEPT ![l] = FALSE]
  /\ UNCHANGED <<clock, at, looked, read, due, fired>>

LoopExits(l) ==
  /\ at[l] = "check" /\ ~sampling[l]
  /\ at' = [at EXCEPT ![l] = "exited"]
  /\ UNCHANGED <<clock, sampling, looked, read, due, fired>>

\* A turn reads the clock, once for all its deadlines.
ReadClock(l) ==
  /\ at[l] = "check" /\ sampling[l]
  /\ read' = [read EXCEPT ![l] = clock]
  /\ at' = [at EXCEPT ![l] = "due"]
  /\ UNCHANGED <<clock, sampling, looked, due, fired>>

\* mutant: a deadline that has been missed is not skipped
NextKeepsUp(d, now) == due[d] + Period[d]

\* next += period; if (next < now) next = now + period.
NextDeadline(d, now) ==
  IF due[d] + Period[d] < now THEN now + Period[d] ELSE due[d] + Period[d]

\* The deadline the turn looks at.
Current(l) == Deadlines[l][looked[l] + 1]

\* On to the next deadline, or to the next turn.
Advance(l) ==
  IF looked[l] + 1 = Len(Deadlines[l])
  THEN /\ at' = [at EXCEPT ![l] = "check"] /\ looked' = [looked EXCEPT ![l] = 0]
  ELSE /\ looked' = [looked EXCEPT ![l] = @ + 1] /\ UNCHANGED at

Sample(l) ==
  LET d == Current(l)
  IN  /\ at[l] = "due" /\ read[l] >= due[d]
      /\ due' = [due EXCEPT ![d] = NextDeadline(d, read[l])]
      /\ fired' = [fired EXCEPT ![d] = Append(@, read[l])]
      /\ Advance(l)
      /\ UNCHANGED <<clock, sampling, read>>

NotYet(l) ==
  /\ at[l] = "due" /\ read[l] < due[Current(l)]
  /\ Advance(l)
  /\ UNCHANGED <<clock, sampling, read, due, fired>>

\* Time passes: a sleep, a long sample, a thread that does not run.
TimePasses ==
  /\ clock' \in clock + 1 .. MaxClock
  /\ UNCHANGED <<at, sampling, looked, read, due, fired>>

LoopNext ==
  \/ \E l \in Loop : StartLoop(l) \/ StopLoop(l) \/ LoopExits(l)
                       \/ ReadClock(l) \/ Sample(l) \/ NotYet(l)
  \/ TimePasses

LoopSpec == LoopInit /\ [][LoopNext]_loopVars
-----------------------------------------------------------------------------
\* The length of k periods.
Periods(d, k) == k * Period[d]

(* The loops (next += period; if (next < now) next = now + period): a      *)
(* sampler that was held up does not make up for the samples it missed.    *)
(* Any k + 1 samples in a row lie k - 1 periods apart at least, however    *)
(* late each of them was.                                                  *)
NoCatchUp ==
  \A d \in Deadline : \A i, j \in DOMAIN fired[d] :
    i < j => fired[d][j] >= fired[d][i] + Periods(d, j - i - 1)

\* What the deadline knows of the samples before it: inductive.
DueAhead ==
  \A d \in Deadline : \A i \in DOMAIN fired[d] :
    due[d] >= fired[d][i] + Periods(d, Len(fired[d]) - i)

\* A loop that has not been started has not sampled.
IdleFresh == \A l \in Loop : at[l] = "idle" => \A d \in Of(l) : fired[d] = <<>>

LoopInv == LoopTypeOK /\ NoCatchUp /\ DueAhead /\ IdleFresh
=============================================================================
