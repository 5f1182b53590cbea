--------------------------- MODULE MemoryPressure ---------------------------
(***************************************************************************)
(* The page faults of MemorySampler::EmitPressure                          *)
(* (samplers/memory_sampler.cpp).  PageFaultCount is a DWORD that wraps;   *)
(* the sampler subtracts two readings of it as unsigned long long.  The    *)
(* seconds between them, by which it divides, are left out.                *)
(***************************************************************************)
EXTENDS Integers

CONSTANTS
  Span32,      \* 2^32
  Span64,      \* 2^64
  MaxFaults    \* bound: page faults between two samples

ASSUME PressureAssumption ==
  /\ Span32 \in Nat \ {0} /\ Span64 \in Nat /\ Span64 >= Span32
  /\ MaxFaults \in 0 .. Span32 - 1   \* the counter does not come round

VARIABLES
  counter,     \* PageFaultCount
  last,        \* _lastPageFaultCount
  sampled,     \* _lastPageFaultTime is set
  told,        \* deltaFaults of the last sample, 0 for the first
  since,       \* history: faults since the last sample, and if they wrapped
  of           \* history: since, when that sample was taken

pressureVars == <<counter, last, sampled, told, since, of>>

Calm == [faults |-> 0, wrapped |-> FALSE]

PressureTypeOK ==
  /\ {counter, last} \subseteq 0 .. Span32 - 1
  /\ sampled \in BOOLEAN
  /\ told \in 0 .. Span64 - 1
  /\ {since, of} \subseteq [faults : 0 .. MaxFaults, wrapped : BOOLEAN]

\* The process has run for a while when the first sample is taken.
PressureInit ==
  /\ counter \in 0 .. Span32 - 1
  /\ last = 0 /\ sampled = FALSE /\ told = 0
  /\ since = Calm /\ of = Calm

PageFault ==
  /\ since.faults < MaxFaults
  /\ counter' = (counter + 1) % Span32
  /\ since' = [faults |-> since.faults + 1,
               wrapped |-> since.wrapped \/ counter + 1 = Span32]
  /\ UNCHANGED <<last, sampled, told, of>>

\* mutant: the reading is kept only when there was one before
LastKept == IF sampled THEN counter ELSE last

LastRead == counter

EmitPressure ==
  /\ told' = IF sampled THEN (counter + Span64 - last) % Span64 ELSE 0
  /\ of' = IF sampled THEN since ELSE Calm
  /\ last' = LastRead
  /\ sampled' = TRUE
  /\ since' = Calm
  /\ UNCHANGED counter

PressureNext == PageFault \/ EmitPressure

PressureSpec == PressureInit /\ [][PressureNext]_pressureVars
-----------------------------------------------------------------------------
(* EmitPressure: a sample tells the page faults since the one before, but  *)
(* for one sample after the counter has wrapped, which tells of some 2^64. *)
FaultsExact ==
  IF of.wrapped THEN told > Span64 - Span32 ELSE told = of.faults

\* How far the counter has moved since it was last read: inductive.
Moved ==
  sampled => counter = last + since.faults - (IF since.wrapped THEN Span32 ELSE 0)

PressureInv == PressureTypeOK /\ FaultsExact /\ Moved
=============================================================================
