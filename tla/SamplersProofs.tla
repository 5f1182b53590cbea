--------------------------- MODULE SamplersProofs ---------------------------
(***************************************************************************)
(* The samplers, for any periods, windows, frames, scripts, cells and      *)
(* states: that no loop catches up, that the table keeps every script,     *)
(* that no time is counted twice, what the rolling median is the median    *)
(* of, and what a stutter record says of the game around it.               *)
(***************************************************************************)
EXTENDS PacedLoops, CellEvents, StateSnapshot, MemoryPressure, PapyrusAttribution,
        FrameSampler, FiniteSetTheorems, SequenceTheorems, TLAPS

-----------------------------------------------------------------------------
(* Two facts about numbers. The first is what takes the place of an        *)
(* induction: a set of counterexamples would have a least one.             *)

\* A set of numbers has a least one.
LEMMA LeastOf ==
  ASSUME NEW S \in SUBSET Nat, S # {}
  PROVE  Min(S) \in S /\ \A y \in S : Min(S) <= y
<1>1. \E x \in S : \A y \in S : <<y, x>> \notin OpToRel(<, Nat)
  BY NatLessThanWellFounded, WFMin
<1>2. PICK x \in S : \A y \in S : ~(y < x)
  BY <1>1 DEF OpToRel
<1>3. \A y \in S : x <= y
  BY <1>2
<1> QED BY <1>2, <1>3 DEF Min

\* A difference below the span is its own remainder.
LEMMA SmallModulo ==
  ASSUME NEW s \in Nat \ {0}, NEW a \in 0 .. s - 1
  PROVE  /\ a % s = a
         /\ (a + s) % s = a
OBVIOUS

-----------------------------------------------------------------------------
(***************************************************************************)
(* That no sampler catches up, for any periods and any set of loops.       *)
(* NoCatchUp speaks of two samples of the past. DueAhead is what makes it  *)
(* inductive: the next deadline is as many periods beyond every earlier    *)
(* sample as there were samples after it, so the sample taken at that      *)
(* deadline is far enough from all of them.                                *)
(***************************************************************************)

\* One more period, in a product.
LEMMA PeriodsAdd ==
  ASSUME NEW d \in Deadline
  PROVE  /\ \A k \in Int : /\ Periods(d, k) \in Int
                           /\ Periods(d, k + 1) = Periods(d, k) + Period[d]
         /\ Periods(d, 0) = 0
BY LoopAssumption DEF Periods

\* The deadline a loop waits for.
LEMMA CurrentIsDeadline ==
  ASSUME LoopTypeOK, NEW l \in Loop
  PROVE  Current(l) \in Of(l) /\ Current(l) \in Deadline
<1>1. /\ Deadlines[l] \in Seq(Deadline) /\ looked[l] \in Nat
      /\ looked[l] < Len(Deadlines[l])
  BY LoopAssumption DEF LoopTypeOK
<1>2. looked[l] + 1 \in DOMAIN Deadlines[l]
  BY <1>1
<1> QED BY <1>1, <1>2 DEF Current, Of

\* The deadline moves on by a period at least, and never into the past.
LEMMA NextIsLater ==
  ASSUME NEW d \in Deadline, NEW now \in Nat, LoopTypeOK
  PROVE  /\ NextDeadline(d, now) \in Nat
         /\ NextDeadline(d, now) >= now
         /\ NextDeadline(d, now) >= due[d] + Period[d]
BY LoopAssumption DEF LoopTypeOK, NextDeadline

\* The next deadline is a time.
LEMMA AdvanceTypes ==
  ASSUME LoopTypeOK, NEW l \in Loop, Advance(l)
  PROVE  /\ at' \in [Loop -> {"idle", "check", "due", "exited"}]
         /\ looked' \in [Loop -> Nat]
         /\ \A m \in Loop : looked'[m] < Len(Deadlines[m])
         /\ \A m \in Loop : at'[m] = "idle" => at[m] = "idle"
<1>1. \A m \in Loop : Len(Deadlines[m]) \in Nat /\ Len(Deadlines[m]) > 0
  BY LoopAssumption
<1>2. CASE looked[l] + 1 = Len(Deadlines[l])
  <2>1. at' = [at EXCEPT ![l] = "check"] /\ looked' = [looked EXCEPT ![l] = 0]
    BY <1>2 DEF Advance
  <2> QED BY <1>1, <2>1 DEF LoopTypeOK
<1>3. CASE looked[l] + 1 # Len(Deadlines[l])
  <2>1. looked' = [looked EXCEPT ![l] = looked[l] + 1] /\ at' = at
    BY <1>3 DEF Advance
  <2>2. looked[l] \in Nat /\ looked[l] + 1 < Len(Deadlines[l])
    BY <1>1, <1>3 DEF LoopTypeOK
  <2> QED BY <1>1, <2>1, <2>2 DEF LoopTypeOK
<1> QED BY <1>2, <1>3

\* No loop has begun.
THEOREM LoopInvInit == LoopInit => LoopInv
<1> SUFFICES ASSUME LoopInit PROVE LoopInv
  OBVIOUS
<1>1. LoopTypeOK
  BY LoopAssumption DEF LoopInit, LoopTypeOK
<1>2. \A d \in Deadline : fired[d] = <<>> /\ DOMAIN fired[d] = {}
  BY DEF LoopInit
<1>3. \A l \in Loop : Of(l) \subseteq Deadline
  BY DEF Deadline
<1> QED BY <1>1, <1>2, <1>3 DEF LoopInv, NoCatchUp, DueAhead, IdleFresh

\* Steps that take no sample and move no deadline.
LEMMA QuietStep ==
  ASSUME LoopInv, LoopTypeOK', UNCHANGED <<due, fired>>,
         \A l \in Loop : at'[l] = "idle" => at[l] = "idle"
  PROVE  LoopInv'
BY DEF LoopInv, NoCatchUp, DueAhead, IdleFresh

\* A sample: the deadline it was taken at is ahead of the ones before it.
LEMMA SampleStep ==
  ASSUME LoopInv, NEW l \in Loop, Sample(l), LoopTypeOK'
  PROVE  LoopInv'
<1> DEFINE d == Current(l)
           n == Len(fired[d])
           p == Period[d]
<1>0. LoopTypeOK /\ NoCatchUp /\ DueAhead /\ IdleFresh
  BY DEF LoopInv
<1>1. /\ d \in Deadline /\ d \in Of(l) /\ p \in Nat \ {0}
      /\ fired[d] \in Seq(Nat) /\ n \in Nat
      /\ read[l] \in Nat /\ due[d] \in Nat
  BY <1>0, CurrentIsDeadline, LoopAssumption DEF LoopTypeOK
<1>2. /\ at[l] = "due" /\ read[l] >= due[d]
      /\ due' = [due EXCEPT ![d] = NextDeadline(d, read[l])]
      /\ fired' = [fired EXCEPT ![d] = Append(fired[d], read[l])]
      /\ Advance(l)
  BY DEF Sample
<1>3. /\ \A e \in Deadline \ {d} : due'[e] = due[e] /\ fired'[e] = fired[e]
      /\ due'[d] = NextDeadline(d, read[l])
      /\ Len(fired'[d]) = n + 1 /\ DOMAIN fired'[d] = 1 .. n + 1
      /\ \A i \in 1 .. n : fired'[d][i] = fired[d][i] /\ fired[d][i] \in Nat
      /\ fired'[d][n + 1] = read[l]
  BY <1>0, <1>1, <1>2 DEF LoopTypeOK
<1>4. due'[d] \in Nat /\ due'[d] >= read[l] /\ due'[d] >= due[d] + p
  BY <1>0, <1>1, <1>3, NextIsLater
<1>5. /\ \A i \in 1 .. n : due[d] >= fired[d][i] + Periods(d, n - i)
      /\ \A i, j \in 1 .. n : i < j => fired[d][j] >= fired[d][i] + Periods(d, j - i - 1)
  <2>1. DOMAIN fired[d] = 1 .. n
    BY <1>1
  <2>2. \A i \in 1 .. n : due[d] >= fired[d][i] + Periods(d, n - i)
    BY <1>0, <1>1, <2>1 DEF DueAhead
  <2>3. \A i, j \in 1 .. n : i < j =>
          fired[d][j] >= fired[d][i] + Periods(d, j - i - 1)
    BY <1>0, <1>1, <2>1 DEF NoCatchUp
  <2> QED BY <2>2, <2>3
<1>g. \A k \in Int : Periods(d, k) \in Int /\ Periods(d, k + 1) = Periods(d, k) + p
  BY <1>1, PeriodsAdd
<1>z. Periods(d, 0) = 0
  BY <1>1, PeriodsAdd
<1>6. NoCatchUp'
  <2>1. \A i, j \in 1 .. n + 1 : i < j =>
          fired'[d][j] >= fired'[d][i] + Periods(d, j - i - 1)
    <3> HIDE DEF d, n, p
    <3> SUFFICES ASSUME NEW i \in 1 .. n + 1, NEW j \in 1 .. n + 1, i < j
                 PROVE  fired'[d][j] >= fired'[d][i] + Periods(d, j - i - 1)
      OBVIOUS
    <3>1. i \in 1 .. n /\ fired'[d][i] = fired[d][i] /\ fired[d][i] \in Nat
      BY <1>1, <1>3
    <3>2. CASE j \in 1 .. n
      BY <1>3, <1>5, <3>1, <3>2
    <3>3. CASE j = n + 1
      <4>1. j - i - 1 = n - i /\ n - i \in Int
        BY <1>1, <3>1, <3>3
      <4>2. fired'[d][j] = read[l] /\ due[d] >= fired[d][i] + Periods(d, n - i)
        BY <1>3, <1>5, <3>1, <3>3
      <4>3. /\ read[l] >= due[d] /\ read[l] \in Nat /\ due[d] \in Nat
            /\ Periods(d, n - i) \in Int
        BY <1>1, <1>2, <1>g, <4>1
      <4> QED BY <3>1, <4>1, <4>2, <4>3
    <3> QED BY <1>1, <3>2, <3>3
  <2> SUFFICES ASSUME NEW e \in Deadline, NEW i \in DOMAIN fired'[e],
                      NEW j \in DOMAIN fired'[e], i < j
               PROVE  fired'[e][j] >= fired'[e][i] + Periods(e, j - i - 1)
    BY DEF NoCatchUp
  <2>2. CASE e # d
    BY <1>0, <1>3, <2>2 DEF NoCatchUp
  <2>3. CASE e = d
    BY <1>3, <2>1, <2>3
  <2> QED BY <2>2, <2>3
<1>7. DueAhead'
  <2>1. \A i \in 1 .. n + 1 : due'[d] >= fired'[d][i] + Periods(d, n + 1 - i)
    <3> HIDE DEF d, n, p
    <3> SUFFICES ASSUME NEW i \in 1 .. n + 1
                 PROVE  due'[d] >= fired'[d][i] + Periods(d, n + 1 - i)
      OBVIOUS
    <3>1. CASE i \in 1 .. n
      <4>1. n - i \in Int /\ n + 1 - i = (n - i) + 1
        BY <1>1, <3>1
      <4>2. Periods(d, n + 1 - i) = Periods(d, n - i) + p /\ Periods(d, n - i) \in Int
        BY <1>g, <4>1
      <4>3. /\ due'[d] \in Nat /\ due'[d] >= due[d] + p /\ due[d] \in Nat /\ p \in Nat
            /\ due[d] >= fired[d][i] + Periods(d, n - i)
            /\ fired'[d][i] = fired[d][i] /\ fired[d][i] \in Nat
        BY <1>1, <1>3, <1>4, <1>5, <3>1
      <4> QED BY <4>2, <4>3
    <3>2. CASE i = n + 1
      <4>1. Periods(d, n + 1 - i) = 0
        BY <1>1, <1>z, <3>2
      <4> QED BY <1>1, <1>3, <1>4, <3>2, <4>1
    <3> QED BY <1>1, <3>1, <3>2
  <2> SUFFICES ASSUME NEW e \in Deadline, NEW i \in DOMAIN fired'[e]
               PROVE  due'[e] >= fired'[e][i] + Periods(e, Len(fired'[e]) - i)
    BY DEF DueAhead
  <2>2. CASE e # d
    BY <1>0, <1>3, <2>2 DEF DueAhead
  <2>3. CASE e = d
    <3>1. i \in 1 .. n + 1 /\ Len(fired'[d]) = n + 1
      BY <1>3, <2>3
    <3> DEFINE ahead == Periods(d, n + 1 - i)
    <3>2. due'[d] >= fired'[d][i] + ahead
      BY <2>1, <3>1
    <3>3. Periods(e, Len(fired'[e]) - i) = ahead
      BY <2>3, <3>1
    <3> HIDE DEF d, n, ahead
    <3> QED BY <2>3, <3>2, <3>3
  <2> QED BY <2>2, <2>3
<1>8. IdleFresh'
  <2>1. \A m \in Loop : at'[m] = "idle" => at[m] = "idle" /\ m # l
    BY <1>0, <1>2, AdvanceTypes DEF Advance, LoopTypeOK
  <2>2. \A m \in Loop : m # l => d \notin Of(m)
    BY <1>1, LoopAssumption
  <2>3. \A m \in Loop : Of(m) \subseteq Deadline
    BY DEF Deadline
  <2> QED BY <1>0, <1>3, <2>1, <2>2, <2>3 DEF IdleFresh
<1> QED BY <1>6, <1>7, <1>8 DEF LoopInv

\* Start sets the deadlines of a loop that has taken no sample.
LEMMA StartStep ==
  ASSUME LoopInv, NEW l \in Loop, StartLoop(l), LoopTypeOK'
  PROVE  LoopInv'
<1>0. LoopTypeOK /\ NoCatchUp /\ DueAhead /\ IdleFresh
  BY DEF LoopInv
<1>1. /\ at[l] = "idle" /\ at' = [at EXCEPT ![l] = "check"] /\ fired' = fired
      /\ due' = [d \in Deadline |-> IF d \in Of(l) THEN clock ELSE due[d]]
  BY DEF StartLoop
<1>2. \A d \in Of(l) : fired[d] = <<>>
  BY <1>0, <1>1 DEF IdleFresh
<1>3. NoCatchUp'
  BY <1>0, <1>1 DEF NoCatchUp
<1>4. DueAhead'
  BY <1>0, <1>1, <1>2 DEF DueAhead
<1>5. IdleFresh'
  BY <1>0, <1>1 DEF IdleFresh, LoopTypeOK
<1> QED BY <1>3, <1>4, <1>5 DEF LoopInv

\* Type correctness, one step per action.
LEMMA LoopTypesStep ==
  ASSUME LoopTypeOK, [LoopNext]_loopVars
  PROVE  LoopTypeOK'
<1> USE DEF LoopTypeOK
<1>1. ASSUME NEW l \in Loop, StartLoop(l) PROVE LoopTypeOK'
  BY <1>1 DEF StartLoop
<1>2. ASSUME NEW l \in Loop, StopLoop(l) PROVE LoopTypeOK'
  BY <1>2 DEF StopLoop
<1>3. ASSUME NEW l \in Loop, LoopExits(l) PROVE LoopTypeOK'
  BY <1>3 DEF LoopExits
<1>4. ASSUME NEW l \in Loop, ReadClock(l) PROVE LoopTypeOK'
  BY <1>4 DEF ReadClock
<1>5. ASSUME NEW l \in Loop, Sample(l) PROVE LoopTypeOK'
  <2> DEFINE d == Current(l)
  <2>1. /\ Advance(l) /\ UNCHANGED <<clock, sampling, read>>
        /\ due' = [due EXCEPT ![d] = NextDeadline(d, read[l])]
        /\ fired' = [fired EXCEPT ![d] = Append(fired[d], read[l])]
    BY <1>5 DEF Sample
  <2>2. d \in Deadline /\ NextDeadline(d, read[l]) \in Nat /\ read[l] \in Nat
    BY CurrentIsDeadline, NextIsLater
  <2>3. due' \in [Deadline -> Nat] /\ fired' \in [Deadline -> Seq(Nat)]
    BY <2>1, <2>2
  <2> QED BY <2>1, <2>3, AdvanceTypes
<1>6. ASSUME NEW l \in Loop, NotYet(l) PROVE LoopTypeOK'
  BY <1>6, AdvanceTypes DEF NotYet
<1>7. ASSUME TimePasses PROVE LoopTypeOK'
  BY <1>7, LoopAssumption DEF TimePasses
<1>8. ASSUME UNCHANGED loopVars PROVE LoopTypeOK'
  BY <1>8 DEF loopVars
<1> QED BY <1>1, <1>2, <1>3, <1>4, <1>5, <1>6, <1>7, <1>8 DEF LoopNext

\* Every step of a loop keeps its deadline ahead of its samples.
THEOREM LoopInvStep == LoopInv /\ [LoopNext]_loopVars => LoopInv'
<1> SUFFICES ASSUME LoopInv, [LoopNext]_loopVars PROVE LoopInv'
  OBVIOUS
<1>0. LoopTypeOK /\ LoopTypeOK'
  BY LoopTypesStep DEF LoopInv
<1>1. ASSUME NEW l \in Loop, StartLoop(l) PROVE LoopInv'
  BY <1>0, <1>1, StartStep
<1>2. ASSUME NEW l \in Loop, StopLoop(l) PROVE LoopInv'
  BY <1>0, <1>2, QuietStep DEF StopLoop
<1>3. ASSUME NEW l \in Loop, LoopExits(l) PROVE LoopInv'
  BY <1>0, <1>3, QuietStep DEF LoopExits, LoopTypeOK
<1>4. ASSUME NEW l \in Loop, ReadClock(l) PROVE LoopInv'
  BY <1>0, <1>4, QuietStep DEF ReadClock, LoopTypeOK
<1>5. ASSUME NEW l \in Loop, Sample(l) PROVE LoopInv'
  BY <1>0, <1>5, SampleStep
<1>6. ASSUME NEW l \in Loop, NotYet(l) PROVE LoopInv'
  BY <1>0, <1>6, QuietStep, AdvanceTypes DEF NotYet
<1>7. ASSUME TimePasses PROVE LoopInv'
  BY <1>0, <1>7, QuietStep DEF TimePasses
<1>8. ASSUME UNCHANGED loopVars PROVE LoopInv'
  BY <1>0, <1>8, QuietStep DEF loopVars
<1> QED BY <1>1, <1>2, <1>3, <1>4, <1>5, <1>6, <1>7, <1>8 DEF LoopNext

(* The loops of MemorySampler, StateSampler and PapyrusSampler: whatever   *)
(* the periods and however long a sample or a turn takes, a sampler never  *)
(* makes up for the samples it has missed.                                 *)
THEOREM NeverCatchesUp == LoopSpec => []NoCatchUp
<1>1. LoopInv => NoCatchUp
  BY DEF LoopInv
<1> QED BY <1>1, LoopInvInit, LoopInvStep, PTL DEF LoopSpec

\* A loop is where its code has places, and waits for one of its own deadlines.
THEOREM LoopTyped == LoopSpec => []LoopTypeOK
<1>1. LoopInv => LoopTypeOK
  BY DEF LoopInv
<1> QED BY <1>1, LoopInvInit, LoopInvStep, PTL DEF LoopSpec

-----------------------------------------------------------------------------
(***************************************************************************)
(* What a stutter record says of the game around it, for any number of     *)
(* cells, events and states: the cell in flight, the coherence of the      *)
(* snapshot, the page faults.                                              *)
(***************************************************************************)
(* The cell in flight.  The property is inductive as it stands: of the     *)
(* actions, only an attach and a completed load touch what it speaks of.   *)

\* The cell in flight is the one whose attach was the last one seen.
THEOREM CellInFlight == CellSpec => []InFlightIsLastAttach
<1>1. CellInit => InFlightIsLastAttach
  BY DEF CellInit, InFlightIsLastAttach
<1>2. InFlightIsLastAttach /\ [CellNext]_cellVars => InFlightIsLastAttach'
  <2> SUFFICES ASSUME InFlightIsLastAttach, [CellNext]_cellVars
               PROVE  InFlightIsLastAttach'
    OBVIOUS
  <2>1. ASSUME NEW c \in Cell, CellAttached(c)
        PROVE  InFlightIsLastAttach'
    <3>1. cellInFlight' = NameOf[c] /\ attachedLast' = c /\ completed' = FALSE
      BY <2>1 DEF CellAttached
    <3>2. c # Nobody
      BY CellAssumption
    <3> QED BY <3>1, <3>2 DEF InFlightIsLastAttach
  <2>2. ASSUME NEW c \in Cell, CellDetached(c)
        PROVE  InFlightIsLastAttach'
    BY <2>2 DEF CellDetached, InFlightIsLastAttach
  <2>3. ASSUME NEW c \in Cell, FullyLoaded(c)
        PROVE  InFlightIsLastAttach'
    BY <2>3 DEF FullyLoaded, InFlightIsLastAttach
  <2>4. CASE NoteCellAttachComplete
    <3> DEFINE name == NameOf[completing.cell]
    <3>1. /\ cellInFlight' = IF cellInFlight = name THEN NoName ELSE cellInFlight
          /\ attachedLast' = attachedLast
          /\ completed' = (completed \/ (attachedLast # Nobody /\ NameOf[attachedLast] = name))
      BY <2>4 DEF NoteCellAttachComplete, AfterComplete
    <3>2. CASE attachedLast = Nobody \/ completed
      BY <3>1, <3>2 DEF InFlightIsLastAttach
    <3>3. CASE attachedLast # Nobody /\ ~completed
      BY <3>1, <3>3 DEF InFlightIsLastAttach
    <3> QED BY <3>2, <3>3
  <2>5. CASE StutterBlames
    BY <2>5 DEF StutterBlames, InFlightIsLastAttach
  <2>6. CASE UNCHANGED cellVars
    BY <2>6 DEF cellVars, InFlightIsLastAttach
  <2> QED BY <2>1, <2>2, <2>3, <2>4, <2>5, <2>6 DEF CellNext
<1> QED BY <1>1, <1>2, PTL DEF CellSpec

(***************************************************************************)
(* The cells, what is noted of them and the cell in flight stay within     *)
(* their types: no start is of an event yet to come, and every name is a   *)
(* cell's or none.                                                         *)
(***************************************************************************)
THEOREM CellTyped == CellSpec => []CellTypeOK
<1> USE DEF CellTypeOK
<1>1. CellInit => CellTypeOK
  <2> SUFFICES ASSUME CellInit PROVE CellTypeOK
    OBVIOUS
  <2>1. 0 \in 0 .. MaxCellEvents /\ 0 \in 0 .. 0
    BY CellAssumption
  <2>2. completing \in [cell : Cell \union {Nobody}, start : 0 .. 0]
    BY <2>1 DEF CellInit, NotLoading
  <2> QED BY <2>1, <2>2 DEF CellInit, Name
<1>2. CellTypeOK /\ [CellNext]_cellVars => CellTypeOK'
  <2> SUFFICES ASSUME CellTypeOK, [CellNext]_cellVars PROVE CellTypeOK'
    OBVIOUS
  <2>1. ASSUME GameEvent
        PROVE  /\ cellEvents' \in 0 .. MaxCellEvents
               /\ attachStart \in [Cell -> 0 .. cellEvents']
               /\ completing \in [cell : Cell \union {Nobody}, start : 0 .. cellEvents']
               /\ 0 \in 0 .. cellEvents' /\ cellEvents' \in 0 .. cellEvents'
    <3>1. cellEvents' = cellEvents + 1 /\ cellEvents \in Nat /\ cellEvents < MaxCellEvents
      BY <2>1 DEF GameEvent
    <3>2. 0 .. cellEvents \subseteq 0 .. cellEvents'
      BY <3>1
    <3>3. attachStart \in [Cell -> 0 .. cellEvents']
      BY <3>2
    <3>4. completing \in [cell : Cell \union {Nobody}, start : 0 .. cellEvents']
      BY <3>2
    <3> QED BY <3>1, <3>3, <3>4, CellAssumption
  <2>2. ASSUME NEW c \in Cell, CellAttached(c)
        PROVE  CellTypeOK'
    BY <2>1, <2>2 DEF CellAttached, Name
  <2>3. ASSUME NEW c \in Cell, CellDetached(c)
        PROVE  CellTypeOK'
    BY <2>1, <2>3 DEF CellDetached, TakeStart
  <2>4. ASSUME NEW c \in Cell, FullyLoaded(c)
        PROVE  CellTypeOK'
    BY <2>1, <2>4 DEF FullyLoaded
  <2>5. CASE NoteCellAttachComplete
    <3>1. cellInFlight' \in {cellInFlight, NoName}
      BY <2>5 DEF NoteCellAttachComplete, AfterComplete
    <3>2. NotLoading \in [cell : Cell \union {Nobody}, start : 0 .. cellEvents]
      BY DEF NotLoading
    <3>3. completed' \in BOOLEAN
      BY <2>5 DEF NoteCellAttachComplete
    <3> QED BY <2>5, <3>1, <3>2, <3>3 DEF NoteCellAttachComplete, Name
  <2>6. CASE StutterBlames
    BY <2>6 DEF StutterBlames
  <2>7. CASE UNCHANGED cellVars
    BY <2>7 DEF cellVars
  <2> QED BY <2>2, <2>3, <2>4, <2>5, <2>6, <2>7 DEF CellNext
<1> QED BY <1>1, <1>2, PTL DEF CellSpec

-----------------------------------------------------------------------------
(* The snapshot.  SnapshotIsOneState speaks of the end of OnFrame only:    *)
(* CacheIsOneState says what the cache holds while a sample is being       *)
(* stored, and what has been read of it in the middle of OnFrame.          *)

\* No state yet, and nothing in the cache.
THEOREM StateInvInit == StateInit => StateInv
<1> SUFFICES ASSUME StateInit PROVE StateInv
  OBVIOUS
<1>1. 0 \in 0 .. MaxStates /\ 0 \in 0 .. MaxTasks
  BY StateAssumption
<1>2. StateTypeOK
  BY <1>1 DEF StateInit, StateTypeOK
<1>3. CacheIsOneState
  BY DEF StateInit, CacheIsOneState
<1> QED BY <1>2, <1>3 DEF StateInv

\* UpdateState and OnFrame run on one thread, so that neither sees the other half done.
THEOREM StateInvStep == StateInv /\ [StateNext]_stateVars => StateInv'
<1> SUFFICES ASSUME StateInv, [StateNext]_stateVars PROVE StateInv'
  OBVIOUS
<1> USE StateAssumption DEF StateInv, StateTypeOK, CacheIsOneState, Free, OnMainThread
<1>1. CASE GameMoves
  BY <1>1 DEF GameMoves
<1>2. CASE ScheduleSample
  BY <1>2 DEF ScheduleSample
<1>3. CASE SampleNobody
  BY <1>3 DEF SampleNobody
<1>4. CASE StoreActors
  BY <1>4 DEF StoreActors
<1>5. CASE StoreCell
  BY <1>5 DEF StoreCell
<1>6. CASE ReadActors
  BY <1>6 DEF ReadActors
<1>7. CASE ReadCell
  BY <1>7 DEF ReadCell
<1>8. CASE SubmitStutter
  BY <1>8 DEF SubmitStutter
<1>9. CASE UNCHANGED stateVars
  BY <1>9 DEF stateVars
<1> QED BY <1>1, <1>2, <1>3, <1>4, <1>5, <1>6, <1>7, <1>8, <1>9 DEF StateNext

\* UpdateState and OnFrame: a stutter's snapshot is of one state record.
THEOREM SnapshotCoherent == StateSpec => []SnapshotIsOneState
<1>1. StateInv => SnapshotIsOneState
  BY DEF StateInv, StateTypeOK, CacheIsOneState, SnapshotIsOneState
<1> QED BY <1>1, StateInvInit, StateInvStep, PTL DEF StateSpec

\* The main thread's tasks and the cache stay within their types.
THEOREM StateTyped == StateSpec => []StateTypeOK
<1>1. StateInv => StateTypeOK
  BY DEF StateInv
<1> QED BY <1>1, StateInvInit, StateInvStep, PTL DEF StateSpec

-----------------------------------------------------------------------------
(* The page faults. Moved relates the two readings that are subtracted.    *)


\* No fault has been counted.
THEOREM PressureInvInit == PressureInit => PressureInv
<1> SUFFICES ASSUME PressureInit PROVE PressureInv
  OBVIOUS
<1>1. 0 \in 0 .. Span32 - 1 /\ 0 \in 0 .. Span64 - 1 /\ 0 \in 0 .. MaxFaults
  BY PressureAssumption
<1>2. Calm \in [faults : 0 .. MaxFaults, wrapped : BOOLEAN]
  BY <1>1 DEF Calm
<1>3. PressureTypeOK
  BY <1>1, <1>2 DEF PressureInit, PressureTypeOK
<1>4. FaultsExact /\ Moved
  BY DEF PressureInit, FaultsExact, Moved, Calm
<1> QED BY <1>3, <1>4 DEF PressureInv

\* A sample takes the reading over; a fault in between moves the counter by one.
THEOREM PressureInvStep == PressureInv /\ [PressureNext]_pressureVars => PressureInv'
<1> SUFFICES ASSUME PressureInv, [PressureNext]_pressureVars PROVE PressureInv'
  OBVIOUS
<1> USE PressureAssumption
<1>1. CASE PageFault
  <2>1. counter \in 0 .. Span32 - 1 /\ last \in 0 .. Span32 - 1
    BY DEF PressureInv, PressureTypeOK
  <2>2. counter' = IF counter + 1 = Span32 THEN 0 ELSE counter + 1
    <3>1. CASE counter + 1 = Span32
      <4>1. 0 \in 0 .. Span32 - 1
        OBVIOUS
      <4>2. (0 + Span32) % Span32 = 0
        BY <4>1, SmallModulo
      <4> QED BY <1>1, <2>1, <3>1, <4>2 DEF PageFault
    <3>2. CASE counter + 1 # Span32
      <4>1. counter + 1 \in 0 .. Span32 - 1
        BY <2>1, <3>2
      <4> QED BY <1>1, <3>2, <4>1, SmallModulo DEF PageFault
    <3> QED BY <3>1, <3>2
  <2>3. /\ since.faults \in 0 .. MaxFaults /\ since.faults < MaxFaults
        /\ since'.faults = since.faults + 1
        /\ since'.wrapped = (since.wrapped \/ counter + 1 = Span32)
        /\ since.wrapped \in BOOLEAN
    BY <1>1 DEF PageFault, PressureInv, PressureTypeOK
  <2>4. PressureTypeOK'
    BY <1>1, <2>1, <2>2, <2>3 DEF PageFault, PressureInv, PressureTypeOK
  <2>5. FaultsExact'
    BY <1>1 DEF PageFault, PressureInv, FaultsExact
  <2>6. Moved'
    <3> SUFFICES ASSUME sampled
                 PROVE  counter' = last + since'.faults
                                   - (IF since'.wrapped THEN Span32 ELSE 0)
      BY <1>1 DEF PageFault, Moved
    <3>1. counter = last + since.faults - (IF since.wrapped THEN Span32 ELSE 0)
      BY DEF PressureInv, Moved
    <3>2. CASE since.wrapped
      <4>1. counter + 1 # Span32
        BY <2>1, <2>3, <3>1, <3>2
      <4>2. since'.wrapped = TRUE
        BY <2>3, <3>2
      <4>3. counter' = counter + 1
        BY <2>2, <4>1
      <4>4. counter = last + since.faults - Span32
        BY <3>1, <3>2
      <4>5. counter' = last + since'.faults - Span32
        BY <2>1, <2>3, <4>3, <4>4, PressureAssumption
      <4> QED BY <4>2, <4>5
    <3>3. CASE ~since.wrapped
      <4>1. counter = last + since.faults
        BY <2>1, <2>3, <3>1, <3>3
      <4>2. CASE counter + 1 = Span32
        <5>1. since'.wrapped = TRUE
          BY <2>3, <4>2
        <5>2. counter' = last + since'.faults - Span32
          BY <2>1, <2>2, <2>3, <4>1, <4>2
        <5> QED BY <5>1, <5>2
      <4>3. CASE counter + 1 # Span32
        <5>1. since'.wrapped = FALSE
          BY <2>3, <3>3, <4>3
        <5>2. counter' = last + since'.faults
          BY <2>1, <2>2, <2>3, <4>1, <4>3
        <5>3. counter' = last + since'.faults - 0
          BY <2>1, <2>3, <5>2
        <5> QED BY <5>1, <5>3
      <4> QED BY <4>2, <4>3
    <3> QED BY <3>2, <3>3
  <2> QED BY <2>4, <2>5, <2>6 DEF PressureInv
<1>2. CASE EmitPressure
  <2>1. /\ counter \in 0 .. Span32 - 1 /\ last \in 0 .. Span32 - 1
        /\ sampled \in BOOLEAN
        /\ since \in [faults : 0 .. MaxFaults, wrapped : BOOLEAN]
    BY DEF PressureInv, PressureTypeOK
  <2>2. /\ counter' = counter /\ last' = counter /\ sampled' = TRUE
        /\ since' = [faults |-> 0, wrapped |-> FALSE]
        /\ of' = IF sampled THEN since ELSE [faults |-> 0, wrapped |-> FALSE]
        /\ told' = IF sampled THEN (counter + Span64 - last) % Span64 ELSE 0
    BY <1>2 DEF EmitPressure, LastRead, Calm
  <2>3. Moved'
    BY <2>1, <2>2 DEF Moved
  <2>4. CASE ~sampled
    BY <2>1, <2>2, <2>3, <2>4 DEF PressureInv, PressureTypeOK, FaultsExact
  <2>5. CASE sampled
    <3>1. counter = last + since.faults - (IF since.wrapped THEN Span32 ELSE 0)
      BY <2>5 DEF PressureInv, Moved
    <3>2. CASE since.wrapped
      <4>1. counter + Span64 - last = Span64 + since.faults - Span32
        BY <2>1, <3>1, <3>2
      <4>2. counter + Span64 - last \in 0 .. Span64 - 1
        BY <2>1, <4>1
      <4>3. Span64 \in Nat \ {0}
        OBVIOUS
      <4>4. told' = counter + Span64 - last
        BY <2>2, <2>5, <4>2, <4>3, SmallModulo
      <4>5. counter + Span64 - last > Span64 - Span32
        BY <2>1
      <4> QED BY <2>1, <2>2, <2>3, <2>5, <3>2, <4>2, <4>4, <4>5
              DEF PressureInv, PressureTypeOK, FaultsExact
    <3>3. CASE ~since.wrapped
      <4>1. counter + Span64 - last = since.faults + Span64
        BY <2>1, <3>1, <3>3
      <4>2. since.faults \in 0 .. Span64 - 1
        BY <2>1
      <4>3. Span64 \in Nat \ {0}
        OBVIOUS
      <4>4. told' = since.faults
        BY <2>2, <2>5, <4>1, <4>2, <4>3, SmallModulo
      <4> QED BY <2>1, <2>2, <2>3, <2>5, <3>3, <4>2, <4>4
              DEF PressureInv, PressureTypeOK, FaultsExact
    <3> QED BY <3>2, <3>3
  <2> QED BY <2>1, <2>4, <2>5
<1>3. CASE UNCHANGED pressureVars
  BY <1>3 DEF pressureVars, PressureInv, PressureTypeOK, FaultsExact, Moved
<1> QED BY <1>1, <1>2, <1>3 DEF PressureNext

\* EmitPressure: the faults reported are those since the last sample, but for
\* the sample after the counter has wrapped.
THEOREM FaultsReported == PressureSpec => []FaultsExact
<1>1. PressureInv => FaultsExact
  BY DEF PressureInv
<1> QED BY <1>1, PressureInvInit, PressureInvStep, PTL DEF PressureSpec

\* The counter and its readings stay within the width of a DWORD.
THEOREM PressureTyped == PressureSpec => []PressureTypeOK
<1>1. PressureInv => PressureTypeOK
  BY DEF PressureInv
<1> QED BY <1>1, PressureInvInit, PressureInvStep, PTL DEF PressureSpec

-----------------------------------------------------------------------------
(***************************************************************************)
(* The table of the script times.  What the decay cannot do is bring an    *)
(* entry of a microsecond and a call to nothing, for 0.55 rounds to one;   *)
(* so every entry keeps at least that.                                     *)
(***************************************************************************)
TableInv ==
  /\ DOMAIN table \subseteq Script
  /\ \A s \in DOMAIN table : table[s] \in Entry /\ table[s].us >= 1 /\ table[s].calls >= 1
  /\ spent \in [Script -> Nat]
  /\ KeepsEveryScript

\* round(n * 0.55) is nothing for nothing only.
LEMMA DecayedStays ==
  ASSUME NEW n \in Nat
  PROVE  Decayed(n) \in Nat /\ (n >= 1 => Decayed(n) >= 1)
BY DEF Decayed

\* What the decay leaves of a table of such entries is a table of the same scripts.
LEMMA DecayKeeps ==
  ASSUME TableInv
  PROVE  /\ DOMAIN DecayTable(table) = DOMAIN table
         /\ \A s \in DOMAIN table : /\ DecayTable(table)[s] \in Entry
                                    /\ DecayTable(table)[s].us >= 1
                                    /\ DecayTable(table)[s].calls >= 1
<1> DEFINE d == [s \in DOMAIN table |-> [us    |-> Decayed(table[s].us),
                                         calls |-> Decayed(table[s].calls)]]
           live == {s \in DOMAIN d : d[s].us # 0 \/ d[s].calls # 0}
<1>1. \A s \in DOMAIN table : d[s] \in Entry /\ d[s].us >= 1 /\ d[s].calls >= 1
  <2> TAKE s \in DOMAIN table
  <2>1. table[s].us \in Nat /\ table[s].us >= 1 /\ table[s].calls \in Nat /\ table[s].calls >= 1
    BY DEF TableInv, Entry
  <2>2. d[s].us = Decayed(table[s].us) /\ d[s].calls = Decayed(table[s].calls)
    OBVIOUS
  <2>3. Decayed(table[s].us) \in Nat /\ Decayed(table[s].us) >= 1
    BY <2>1, DecayedStays
  <2>4. Decayed(table[s].calls) \in Nat /\ Decayed(table[s].calls) >= 1
    BY <2>1, DecayedStays
  <2> QED BY <2>2, <2>3, <2>4 DEF Entry
<1>2. DOMAIN d = DOMAIN table
  OBVIOUS
<1>3. DecayTable(table) = Restrict(d, live)
  BY DEF DecayTable
<1> HIDE DEF d
<1>4. live = DOMAIN table
  BY <1>1, <1>2
<1>5. Restrict(d, live) = [x \in DOMAIN table |-> d[x]]
  BY <1>4 DEF Restrict
<1> QED BY <1>1, <1>3, <1>5

\* The table is empty at first.
LEMMA TableInit == PapyrusInit => TableInv
<1> SUFFICES ASSUME PapyrusInit PROVE TableInv
  OBVIOUS
<1>1. DOMAIN table = {} /\ \A s \in Script : spent[s] = 0
  BY DEF PapyrusInit, EmptyTable
<1>2. spent \in [Script -> Nat]
  BY DEF PapyrusInit
<1> QED BY <1>1, <1>2 DEF TableInv, KeepsEveryScript

\* A call adds a microsecond at least; only the decay takes, and it leaves one.
LEMMA TableStep ==
  ASSUME TableInv, [PapyrusNext]_papyrusVars
  PROVE  TableInv'
<1>1. ASSUME UNCHANGED <<table, spent>>
      PROVE  TableInv'
  BY <1>1 DEF TableInv, KeepsEveryScript
<1>2. CASE StartSampler \/ StopSampler
  BY <1>1, <1>2 DEF StartSampler, StopSampler
<1>3. CASE EmitTop
  <2>1. table' = DecayTable(table) /\ spent' = spent
    BY <1>3 DEF EmitTop
  <2> QED BY <2>1, DecayKeeps DEF TableInv, KeepsEveryScript
<1>4. CASE StopResets
  <2>1. DOMAIN table' = {} /\ spent' = [s \in Script |-> 0]
    BY <1>4 DEF StopResets, EmptyTable
  <2> QED BY <2>1 DEF TableInv, KeepsEveryScript
<1>5. ASSUME NEW s \in Script, NEW us \in Times, CallReturns(s, us)
      PROVE  TableInv'
  <2>1. us \in Nat /\ us >= 1
    BY PapyrusAssumption DEF PapyrusAssumption
  <2>2. table' = Add(table, s, us) /\ spent' = [spent EXCEPT ![s] = @ + us]
    BY <1>5 DEF CallReturns
  <2>3. /\ spent' \in [Script -> Nat] /\ spent'[s] > 0
        /\ \A r \in Script \ {s} : spent'[r] = spent[r]
    BY <2>1, <2>2 DEF TableInv
  <2>4. /\ DOMAIN table' = DOMAIN table \union {s}
        /\ table'[s] \in Entry /\ table'[s].us >= 1 /\ table'[s].calls >= 1
        /\ \A r \in DOMAIN table \ {s} : table'[r] = table[r]
    <3>1. CASE s \in DOMAIN table
      <4> DEFINE e == [us |-> table[s].us + us, calls |-> table[s].calls + 1]
      <4>1. table' = [table EXCEPT ![s] = e]
        BY <2>2, <3>1 DEF Add
      <4>2. /\ table[s].us \in Nat /\ table[s].us >= 1
            /\ table[s].calls \in Nat /\ table[s].calls >= 1
        BY <3>1 DEF TableInv, Entry
      <4>3. e \in Entry /\ e.us >= 1 /\ e.calls >= 1
        BY <2>1, <4>2 DEF Entry
      <4> HIDE DEF e
      <4> QED BY <3>1, <4>1, <4>3
    <3>2. CASE s \notin DOMAIN table
      <4> DEFINE e == [us |-> us, calls |-> 1]
      <4>1. table' = [r \in DOMAIN table \union {s} |-> IF r = s THEN e ELSE table[r]]
        BY <2>2, <3>2 DEF Add
      <4>2. e \in Entry /\ e.us >= 1 /\ e.calls >= 1
        BY <2>1 DEF Entry
      <4> HIDE DEF e
      <4> QED BY <3>2, <4>1, <4>2
    <3> QED BY <3>1, <3>2
  <2> QED BY <2>3, <2>4 DEF TableInv, KeepsEveryScript
<1>6. CASE UNCHANGED papyrusVars
  BY <1>1, <1>6 DEF papyrusVars
<1> QED BY <1>2, <1>3, <1>4, <1>5, <1>6 DEF PapyrusNext

(* SnapshotTopAndDecay, for any scripts and times: a script that has spent *)
(* time since the last Reset is in the table.                              *)
THEOREM ScriptsKept == PapyrusSpec => []KeepsEveryScript
<1>1. PapyrusInit => TableInv
  BY TableInit
<1>2. TableInv /\ [PapyrusNext]_papyrusVars => TableInv'
  BY TableStep
<1>3. TableInv => KeepsEveryScript
  BY DEF TableInv
<1> QED BY <1>1, <1>2, <1>3, PTL DEF PapyrusSpec

\* What TableInv leaves out of PapyrusTypeOK; a table of finitely many scripts
\* has a top.
PapyrusInv ==
  /\ TableInv /\ IsFiniteSet(DOMAIN table)
  /\ sampler \in {"off", "running", "stopping", "stopped"} /\ hooked \in BOOLEAN
  /\ top \in Seq(Script) /\ Len(top) <= TopN
  /\ fresh \subseteq Script /\ calls \in 0 .. MaxCalls

\* The top of a table: TopN of its scripts, or all of them.
LEMMA TopsAre ==
  ASSUME NEW t, IsFiniteSet(DOMAIN t), DOMAIN t \subseteq Script, NEW q \in Tops(t)
  PROVE  q \in Seq(Script) /\ Len(q) <= TopN
<1> DEFINE c == Cardinality(DOMAIN t)
           S == {TopN, c}
<1>1. c \in Nat /\ TopN \in Nat
  BY FS_CardinalityType, PapyrusAssumption DEF PapyrusAssumption
<1>2. S \in SUBSET Nat /\ S # {}
  BY <1>1
<1>3. Min(S) \in S /\ \A y \in S : Min(S) <= y
  BY <1>2, LeastOf
<1>4. q \in [1 .. Min(S) -> DOMAIN t]
  BY DEF Tops
<1> DEFINE n == Min(S)
<1>5. n \in Nat /\ n <= TopN
  BY <1>2, <1>3
<1>6. q \in [1 .. n -> Script]
  BY <1>4
<1> HIDE DEF n, S
<1> QED BY <1>5, <1>6

\* No script has been called.
LEMMA PapyrusStart == PapyrusInit => PapyrusInv
<1> SUFFICES ASSUME PapyrusInit PROVE PapyrusInv
  OBVIOUS
<1>1. DOMAIN table = {}
  BY DEF PapyrusInit, EmptyTable
<1>2. 0 \in 0 .. MaxCalls /\ 0 <= TopN
  BY PapyrusAssumption DEF PapyrusAssumption
<1>3. <<>> \in Seq(Script) /\ Len(<<>>) = 0
  OBVIOUS
<1>4. top \in Seq(Script) /\ Len(top) <= TopN
  BY <1>2, <1>3 DEF PapyrusInit
<1> QED BY <1>1, <1>2, <1>4, TableInit, FS_EmptySet DEF PapyrusInit, PapyrusInv

\* Every step.
LEMMA PapyrusStep ==
  ASSUME PapyrusInv, [PapyrusNext]_papyrusVars
  PROVE  PapyrusInv'
<1>1. TableInv'
  BY TableStep DEF PapyrusInv
<1>2. CASE StartSampler \/ StopSampler
  BY <1>1, <1>2 DEF PapyrusInv, StartSampler, StopSampler
<1>3. CASE EmitTop
  <2>1. DOMAIN table' = DOMAIN table
    BY <1>3, DecayKeeps DEF EmitTop, PapyrusInv
  <2>2. top' \in Seq(Script) /\ Len(top') <= TopN
    BY <1>3, TopsAre DEF EmitTop, PapyrusInv, TableInv
  <2> QED BY <1>1, <1>3, <2>1, <2>2 DEF PapyrusInv, EmitTop
<1>4. CASE StopResets
  <2>1. IsFiniteSet(DOMAIN table')
    BY <1>4, FS_EmptySet DEF StopResets, EmptyTable
  <2> QED BY <1>1, <1>4, <2>1 DEF PapyrusInv, StopResets
<1>5. ASSUME NEW s \in Script, NEW us \in Times, CallReturns(s, us)
      PROVE  PapyrusInv'
  <2>1. DOMAIN table' \in {DOMAIN table, DOMAIN table \union {s}}
    BY <1>5 DEF CallReturns, Add
  <2>2. IsFiniteSet(DOMAIN table')
    BY <2>1, FS_AddElement DEF PapyrusInv
  <2>3. calls' \in 0 .. MaxCalls
    BY <1>5, PapyrusAssumption DEF CallReturns, PapyrusInv, PapyrusAssumption
  <2> QED BY <1>1, <1>5, <2>2, <2>3 DEF PapyrusInv, CallReturns
<1>6. CASE UNCHANGED papyrusVars
  BY <1>1, <1>6 DEF PapyrusInv, papyrusVars
<1> QED BY <1>2, <1>3, <1>4, <1>5, <1>6 DEF PapyrusNext

(***************************************************************************)
(* The table and the records of the script times stay within their types:  *)
(* a papyrus.top has at most TopN scripts, each of them a script.          *)
(***************************************************************************)
THEOREM PapyrusTyped == PapyrusSpec => []PapyrusTypeOK
<1>1. PapyrusInv => PapyrusTypeOK
  BY DEF PapyrusInv, TableInv, PapyrusTypeOK
<1> QED BY <1>1, PapyrusStart, PapyrusStep, PTL DEF PapyrusSpec

-----------------------------------------------------------------------------
(***************************************************************************)
(* The accumulators and the bytes.                                         *)
(***************************************************************************)
CountInv ==
  /\ acc \in [Subsystem -> Nat] /\ snap \in [Subsystem -> Nat \union {None}]
  /\ added \in [Subsystem -> Nat] /\ reported \in [Subsystem -> Nat]
  /\ bytes \in Nat /\ bytesRead \in Nat /\ bytesReported \in Nat
  /\ summary \in Nat \union {None}
  /\ step = "breakdown" => \A s \in Subsystem : snap[s] # None
  /\ NothingCountedTwice

\* The accumulator that is drained next is the first that has not been.
LEMMA Drained ==
  ASSUME CountInv, NextToDrain > 0
  PROVE  /\ NextToDrain \in DOMAIN Subsystems
         /\ Subsystems[NextToDrain] \in Subsystem
         /\ snap[Subsystems[NextToDrain]] = None
         /\ \A i \in DOMAIN Subsystems : i < NextToDrain => snap[Subsystems[i]] # None
<1> DEFINE I == {i \in 1 .. Len(Subsystems) : snap[Subsystems[i]] = None}
<1>1. Len(Subsystems) \in Nat /\ DOMAIN Subsystems = 1 .. Len(Subsystems)
  BY FrameAssumption DEF FrameAssumption
<1>2. NextToDrain = IF I # {} THEN Min(I) ELSE 0
  BY DEF NextToDrain, SelectInSeq
<1>3. I \in SUBSET Nat
  BY <1>1
<1>4. I # {}
  BY <1>2
<1>5. Min(I) \in I /\ \A y \in I : Min(I) <= y
  BY <1>3, <1>4, LeastOf
<1> DEFINE m == Min(I)
<1>6. m \in 1 .. Len(Subsystems) /\ snap[Subsystems[m]] = None
  BY <1>5
<1>7. \A i \in DOMAIN Subsystems : i < m => snap[Subsystems[i]] # None
  <2> SUFFICES ASSUME NEW i \in DOMAIN Subsystems, i < m, snap[Subsystems[i]] = None
               PROVE  FALSE
    OBVIOUS
  <2>1. i \in I
    BY <1>1
  <2> HIDE DEF I
  <2> QED BY <1>1, <1>5, <1>6, <2>1
<1>8. NextToDrain = m
  BY <1>2, <1>4
<1> HIDE DEF I, m
<1> QED BY <1>1, <1>6, <1>7, <1>8 DEF Subsystem, ToSet

\* The archive reads have an accumulator.
LEMMA StreamingCounts == Streaming \in Subsystem
<1>1. Subsystems \in Seq(Subsystem) /\ Len(Subsystems) \in DOMAIN Subsystems
  BY FrameAssumption DEF FrameAssumption, Subsystem
<1> QED BY <1>1, FrameAssumption DEF FrameAssumption, Last

\* Nothing has been counted at first.
LEMMA CountInit == FrameInit => CountInv
BY DEF FrameInit, CountInv, NothingCountedTwice, Undrained, None

\* A hook adds to an accumulator, and an archive read to the bytes too.
LEMMA CountAdds ==
  ASSUME CountInv, NEW s \in Subsystem,
         acc' = [acc EXCEPT ![s] = @ + 1], added' = [added EXCEPT ![s] = @ + 1],
         UNCHANGED <<snap, reported, step, bytesReported, summary>>,
         NEW k \in Nat, bytes' = bytes + k, bytesRead' = bytesRead + k
  PROVE  CountInv'
<1>1. /\ acc' \in [Subsystem -> Nat] /\ added' \in [Subsystem -> Nat]
      /\ acc'[s] = acc[s] + 1 /\ added'[s] = added[s] + 1
      /\ \A r \in Subsystem \ {s} : acc'[r] = acc[r] /\ added'[r] = added[r]
  BY DEF CountInv
<1>2. \A r \in Subsystem :
        added'[r] = reported[r] + (IF snap[r] = None THEN 0 ELSE snap[r]) + acc'[r]
  <2> TAKE r \in Subsystem
  <2>1. /\ added[r] = reported[r] + (IF snap[r] = None THEN 0 ELSE snap[r]) + acc[r]
        /\ added[r] \in Nat /\ acc[r] \in Nat /\ reported[r] \in Nat
        /\ snap[r] \in Nat \union {None}
    BY DEF CountInv, NothingCountedTwice
  <2> QED BY <1>1, <2>1 DEF None
<1>3. bytesRead' = bytesReported + (IF summary = None THEN 0 ELSE summary) + bytes'
  <2> DEFINE taken == IF summary = None THEN 0 ELSE summary
  <2>1. bytesRead = bytesReported + taken + bytes
    BY Zenon DEF CountInv, NothingCountedTwice
  <2>2. summary \in Nat \union {None} /\ bytesRead \in Nat /\ bytesReported \in Nat /\ bytes \in Nat
    BY Zenon DEF CountInv
  <2>3. taken \in Nat
    BY <2>2
  <2> HIDE DEF taken
  <2>4. bytesRead' = bytesReported + taken + bytes'
    BY <2>1, <2>2, <2>3
  <2> QED BY <2>4 DEF taken
<1> QED BY <1>1, <1>2, <1>3 DEF CountInv, NothingCountedTwice

\* One exchange moves what has been added since the last from the accumulator
\* to the snapshot; after the last of them the snapshot is complete.
LEMMA CountDrain ==
  ASSUME CountInv, Drain
  PROVE  CountInv'
<1> DEFINE i == NextToDrain
           s == Subsystems[i]
<1>1. /\ i > 0 /\ snap' = [snap EXCEPT ![s] = acc[s]] /\ acc' = [acc EXCEPT ![s] = 0]
      /\ step' = IF i = Len(Subsystems) THEN "breakdown" ELSE "drain"
      /\ UNCHANGED <<added, reported, bytes, bytesRead, bytesReported, summary>>
  BY DEF Drain, readVars, sumVars
<1>2. /\ i \in DOMAIN Subsystems /\ s \in Subsystem /\ snap[s] = None
      /\ \A j \in DOMAIN Subsystems : j < i => snap[Subsystems[j]] # None
  BY <1>1, Drained
<1> HIDE DEF i, s
<1>3. /\ snap' \in [Subsystem -> Nat \union {None}] /\ acc' \in [Subsystem -> Nat]
      /\ snap'[s] = acc[s] /\ acc'[s] = 0 /\ acc[s] \in Nat
      /\ \A r \in Subsystem \ {s} : snap'[r] = snap[r] /\ acc'[r] = acc[r]
  BY <1>1, <1>2 DEF CountInv
<1>4. \A r \in Subsystem :
        added[r] = reported[r] + (IF snap'[r] = None THEN 0 ELSE snap'[r]) + acc'[r]
  <2> TAKE r \in Subsystem
  <2>1. /\ added[r] = reported[r] + (IF snap[r] = None THEN 0 ELSE snap[r]) + acc[r]
        /\ added[r] \in Nat /\ acc[r] \in Nat /\ reported[r] \in Nat
    BY DEF CountInv, NothingCountedTwice
  <2> QED BY <1>2, <1>3, <2>1 DEF None
<1>5. ASSUME i = Len(Subsystems), NEW r \in Subsystem
      PROVE  snap'[r] # None
  <2>1. PICK j \in DOMAIN Subsystems : r = Subsystems[j]
    BY DEF Subsystem, ToSet
  <2>2. j \in Nat /\ j <= Len(Subsystems) /\ Len(Subsystems) \in Nat
    BY FrameAssumption DEF FrameAssumption
  <2>3. CASE r = s
    BY <1>3, <2>3 DEF None
  <2>4. CASE r # s
    <3>1. j # i
      BY <2>1, <2>4 DEF s
    <3>2. j < i
      BY <1>5, <2>2, <3>1
    <3> QED BY <1>2, <1>3, <2>1, <2>4, <3>2
  <2> QED BY <2>3, <2>4
<1>6. step' = "breakdown" => \A r \in Subsystem : snap'[r] # None
  BY <1>1, <1>5
<1> QED BY <1>1, <1>3, <1>4, <1>6 DEF CountInv, NothingCountedTwice

\* A complete snapshot becomes the record.
LEMMA CountEmit ==
  ASSUME CountInv, EmitBreakdown
  PROVE  CountInv'
<1>1. /\ \A s \in Subsystem : snap[s] \in Nat
      /\ reported' = [s \in Subsystem |-> reported[s] + snap[s]]
      /\ snap' = Undrained /\ step' = "game"
      /\ UNCHANGED <<acc, added, bytes, bytesRead, bytesReported, summary>>
  BY DEF EmitBreakdown, CountInv, readVars, sumVars
<1>2. reported' \in [Subsystem -> Nat]
  BY <1>1 DEF CountInv
<1>3. snap' \in [Subsystem -> Nat \union {None}] /\ \A s \in Subsystem : snap'[s] = None
  BY <1>1 DEF Undrained
<1>4. \A s \in Subsystem : added[s] = reported'[s] + acc[s]
  <2> TAKE s \in Subsystem
  <2>1. /\ added[s] = reported[s] + snap[s] + acc[s] /\ snap[s] # None
        /\ added[s] \in Nat /\ acc[s] \in Nat /\ reported[s] \in Nat /\ snap[s] \in Nat
    BY <1>1 DEF CountInv, NothingCountedTwice, None
  <2> QED BY <1>1, <2>1
<1>5. \A s \in Subsystem :
        added'[s] = reported'[s] + (IF snap'[s] = None THEN 0 ELSE snap'[s]) + acc'[s]
  <2> TAKE s \in Subsystem
  <2>1. reported'[s] \in Nat /\ acc[s] \in Nat
    BY <1>2 DEF CountInv
  <2> QED BY <1>1, <1>3, <1>4, <2>1
<1> QED BY <1>1, <1>2, <1>3, <1>5 DEF CountInv, NothingCountedTwice

\* Every step, of whichever thread.
LEMMA CountStep ==
  ASSUME CountInv, [FrameNext]_frameVars
  PROVE  CountInv'
<1>1. ASSUME UNCHANGED <<acc, snap, added, reported, bytes, bytesRead, bytesReported, summary>>,
             step' # "breakdown" \/ step' = step
      PROVE  CountInv'
  BY <1>1 DEF CountInv, NothingCountedTwice
<1>2. ASSUME NEW s \in Subsystem \ {Streaming}, AddTime(s)
      PROVE  CountInv'
  <2>1. /\ acc' = [acc EXCEPT ![s] = @ + 1] /\ added' = [added EXCEPT ![s] = @ + 1]
        /\ UNCHANGED <<snap, reported, step, bytesReported, summary>>
        /\ bytes' = bytes + 0 /\ bytesRead' = bytesRead + 0
    BY <1>2 DEF AddTime, hookVars, readVars, sumVars, CountInv
  <2> QED BY <2>1, CountAdds
<1>3. ASSUME NEW r \in Reader, ReadBegins(r) \/ ReadEnds(r)
      PROVE  CountInv'
  BY <1>1, <1>3 DEF ReadBegins, ReadEnds, hookVars, sumVars
<1>4. ASSUME NEW r \in Reader, ReadCounted(r)
      PROVE  CountInv'
  <2>1. UNCHANGED <<snap, reported, step, bytesReported, summary>>
    BY <1>4 DEF ReadCounted, hookVars, sumVars
  <2>2. CASE UNCHANGED <<acc, added, bytes, bytesRead>>
    BY <1>1, <2>1, <2>2
  <2>3. CASE ~UNCHANGED <<acc, added, bytes, bytesRead>>
    <3>1. /\ acc' = [acc EXCEPT ![Streaming] = @ + 1]
          /\ added' = [added EXCEPT ![Streaming] = @ + 1]
          /\ bytes' = bytes + 1 /\ bytesRead' = bytesRead + 1
      BY <1>4, <2>3 DEF ReadCounted
    <3> QED BY <2>1, <3>1, StreamingCounts, CountAdds
  <2> QED BY <2>2, <2>3
<1>5. CASE SummaryTakes
  <2>1. /\ summary = None /\ summary' = bytes /\ bytes' = 0
        /\ UNCHANGED <<step, acc, snap, added, reported, bytesRead, bytesReported>>
    BY <1>5 DEF SummaryTakes, hookVars
  <2> QED BY <2>1 DEF CountInv, NothingCountedTwice, None
<1>6. CASE SummaryEmits
  <2>1. /\ summary # None /\ bytesReported' = bytesReported + summary /\ summary' = None
        /\ UNCHANGED <<step, acc, snap, added, reported, bytes, bytesRead>>
    BY <1>6 DEF SummaryEmits, hookVars, readVars
  <2> QED BY <2>1 DEF CountInv, NothingCountedTwice, None
<1>7. ASSUME NEW d \in Durations, FrameEnds(d)
      PROVE  CountInv'
  BY <1>1, <1>7 DEF FrameEnds, readVars, sumVars
<1>8. CASE Drain
  BY <1>8, CountDrain
<1>9. CASE EmitBreakdown
  BY <1>9, CountEmit
<1>10. CASE UNCHANGED frameVars
  BY <1>1, <1>10 DEF frameVars
<1> QED BY <1>2, <1>3, <1>4, <1>5, <1>6, <1>7, <1>8, <1>9, <1>10 DEF FrameNext

(* ConsumeFrame and SummaryLoop, for any subsystems and readers: what a     *)
(* hook has counted is in one record, or still to be in one.               *)
THEOREM CountedOnce == FrameSpec => []NothingCountedTwice
<1>1. FrameInit => CountInv
  BY CountInit
<1>2. CountInv /\ [FrameNext]_frameVars => CountInv'
  BY CountStep
<1>3. CountInv => NothingCountedTwice
  BY DEF CountInv
<1> QED BY <1>1, <1>2, <1>3, PTL DEF FrameSpec

-----------------------------------------------------------------------------
(***************************************************************************)
(* The rolling median.  The window is the last kWindow frames, turned: the *)
(* first windowIdx places hold the newest of them, and the others those    *)
(* before.                                                                 *)
(***************************************************************************)
RecentOf(fs) == SubSeq(fs, Max({1, Len(fs) - kWindow + 1}), Len(fs))

\* The frame that a place of a full window holds.
FrameAt(fs, idx, j) == IF j <= idx THEN Len(fs) - idx + j ELSE Len(fs) - kWindow - idx + j

Turned(fs, w, idx) ==
  /\ fs \in Seq(Durations) /\ w \in Seq(Durations) /\ idx \in 0 .. kWindow - 1
  /\ Len(fs) < kWindow => w = fs /\ idx = 0
  /\ Len(fs) >= kWindow =>
       Len(w) = kWindow /\ \A j \in 1 .. kWindow : w[j] = fs[FrameAt(fs, idx, j)]

WindowInv ==
  /\ Turned(frames, window, windowIdx)
  /\ frames # <<>> => p50 = Median(RecentOf(frames))
  /\ step = "game" /\ frames # <<>> => stutter = IsStutter

\* The larger of two numbers.
LEMMA MaxOfTwo ==
  ASSUME NEW a \in Int, NEW b \in Int
  PROVE  Max({a, b}) = IF a >= b THEN a ELSE b
<1> DEFINE m == IF a >= b THEN a ELSE b
<1>1. m \in {a, b} /\ \A y \in {a, b} : m >= y
  OBVIOUS
<1>2. \A x \in {a, b} : (\A y \in {a, b} : x >= y) => x = m
  OBVIOUS
<1> QED BY <1>1, <1>2 DEF Max

\* The recent frames are all of them, or the last kWindow.
LEMMA RecentIs ==
  ASSUME NEW fs \in Seq(Durations)
  PROVE  /\ RecentOf(fs) \in Seq(Durations)
         /\ Len(fs) <= kWindow => RecentOf(fs) = fs
         /\ Len(fs) >= kWindow =>
              /\ Len(RecentOf(fs)) = kWindow
              /\ \A r \in 1 .. kWindow : RecentOf(fs)[r] = fs[Len(fs) - kWindow + r]
<1> DEFINE n == Len(fs)
           m == Max({1, n - kWindow + 1})
<1>1. n \in Nat /\ kWindow \in Nat /\ kWindow > 0
  BY FrameAssumption DEF FrameAssumption
<1>2. m = IF 1 >= n - kWindow + 1 THEN 1 ELSE n - kWindow + 1
  BY <1>1, MaxOfTwo
<1>3. RecentOf(fs) = SubSeq(fs, m, n)
  BY DEF RecentOf
<1>4. \A i \in m .. n : fs[i] \in Durations
  BY <1>1, <1>2
<1> HIDE DEF m
<1>5. m \in 1 .. n + 1 /\ n - m + 1 \in Nat
  BY <1>1, <1>2
<1>6. \A i \in m .. n : fs[i] \in Durations
  BY <1>4
<1>7. /\ SubSeq(fs, m, n) \in Seq(Durations)
      /\ Len(SubSeq(fs, m, n)) = n - m + 1
      /\ \A i \in 1 .. n - m + 1 : SubSeq(fs, m, n)[i] = fs[i + m - 1]
  BY <1>1, <1>5
<1>8. RecentOf(fs) \in Seq(Durations) /\ Len(RecentOf(fs)) = n - m + 1
  BY <1>3, <1>7
<1>9. ASSUME n <= kWindow
      PROVE  RecentOf(fs) = fs
  <2>1. m = 1
    BY <1>1, <1>2, <1>9
  <2>2. Len(RecentOf(fs)) = n /\ \A i \in 1 .. n : RecentOf(fs)[i] = fs[i]
    BY <1>1, <1>3, <1>7, <2>1
  <2> QED BY <1>8, <2>2
<1>10. ASSUME n >= kWindow
       PROVE  /\ Len(RecentOf(fs)) = kWindow
              /\ \A r \in 1 .. kWindow : RecentOf(fs)[r] = fs[n - kWindow + r]
  <2>1. m = n - kWindow + 1
    BY <1>1, <1>2, <1>10
  <2>2. n - m + 1 = kWindow
    BY <1>1, <2>1
  <2>3. \A r \in 1 .. kWindow : r + m - 1 = n - kWindow + r
    BY <1>1, <2>1
  <2>4. \A r \in 1 .. kWindow : RecentOf(fs)[r] = fs[r + m - 1]
    BY <1>3, <1>7, <2>2
  <2> QED BY <1>8, <2>2, <2>3, <2>4
<1> QED BY <1>8, <1>9, <1>10

-----------------------------------------------------------------------------
(* Counting in a sequence and in a rearrangement of it.                    *)

\* v is w with its places exchanged.
Rearranges(v, w) == \E move \in Bijection(DOMAIN w, DOMAIN v) : \A j \in DOMAIN w : v[move[j]] = w[j]

\* The places of the values in a set are as many in both.
LEMMA SameCount ==
  ASSUME NEW w \in Seq(Nat), NEW v \in Seq(Nat), Rearranges(v, w), NEW P
  PROVE  /\ IsFiniteSet({j \in DOMAIN w : w[j] \in P})
         /\ Cardinality({r \in DOMAIN v : v[r] \in P}) = Cardinality({j \in DOMAIN w : w[j] \in P})
<1> DEFINE A == {j \in DOMAIN w : w[j] \in P}
           B == {r \in DOMAIN v : v[r] \in P}
<1>1. PICK move \in Bijection(DOMAIN w, DOMAIN v) : \A j \in DOMAIN w : v[move[j]] = w[j]
  BY DEF Rearranges
<1>2. /\ move \in [DOMAIN w -> DOMAIN v]
      /\ \A i, j \in DOMAIN w : move[i] = move[j] => i = j
      /\ \A r \in DOMAIN v : \E j \in DOMAIN w : move[j] = r
  BY <1>1 DEF Bijection, Injection, Surjection, IsInjective
<1> DEFINE f == [j \in A |-> move[j]]
<1>3. f \in [A -> B]
  BY <1>1, <1>2
<1>4. \A i, j \in A : f[i] = f[j] => i = j
  BY <1>2
<1>5. \A r \in B : \E j \in A : f[j] = r
  BY <1>1, <1>2
<1>6. f \in Bijection(A, B)
  <2> HIDE DEF f, A, B
  <2> QED BY <1>3, <1>4, <1>5 DEF Bijection, Injection, Surjection, IsInjective
<1>7. IsFiniteSet(A)
  <2>1. Len(w) \in Int /\ 1 \in Int
    OBVIOUS
  <2>2. IsFiniteSet(1 .. Len(w))
    BY <2>1, FS_Interval
  <2>3. A \in SUBSET (1 .. Len(w))
    OBVIOUS
  <2> QED BY <2>2, <2>3, FS_Subset
<1> HIDE DEF A, B, f
<1>8. ExistsBijection(A, B)
  BY <1>6 DEF ExistsBijection
<1>9. Cardinality(B) = Cardinality(A)
  BY <1>7, <1>8, FS_Bijection
<1> QED BY <1>7, <1>9 DEF A, B

\* So the middle values, and the median, are the same.
LEMMA SameMedian ==
  ASSUME NEW w \in Seq(Nat), NEW v \in Seq(Nat), Rearranges(v, w), Len(v) = Len(w)
  PROVE  Median(v) = Median(w)
<1>1. ToSet(v) = ToSet(w)
  <2>1. PICK move \in Bijection(DOMAIN w, DOMAIN v) : \A j \in DOMAIN w : v[move[j]] = w[j]
    BY DEF Rearranges
  <2>2. /\ move \in [DOMAIN w -> DOMAIN v]
        /\ \A r \in DOMAIN v : \E j \in DOMAIN w : move[j] = r
    BY <2>1 DEF Bijection, Injection, Surjection
  <2> QED BY <2>1, <2>2 DEF ToSet
<1>2. ASSUME NEW x \in ToSet(w)
      PROVE  /\ Cardinality({i \in DOMAIN v : v[i] < x}) = Cardinality({i \in DOMAIN w : w[i] < x})
             /\ Cardinality({i \in DOMAIN v : v[i] <= x}) = Cardinality({i \in DOMAIN w : w[i] <= x})
  <2> DEFINE below == {y \in Nat : y < x}
             upto  == {y \in Nat : y <= x}
  <2>1. /\ \A i \in DOMAIN v : v[i] \in Nat
        /\ \A i \in DOMAIN w : w[i] \in Nat
    OBVIOUS
  <2>2. /\ {i \in DOMAIN v : v[i] < x} = {i \in DOMAIN v : v[i] \in below}
        /\ {i \in DOMAIN w : w[i] < x} = {i \in DOMAIN w : w[i] \in below}
        /\ {i \in DOMAIN v : v[i] <= x} = {i \in DOMAIN v : v[i] \in upto}
        /\ {i \in DOMAIN w : w[i] <= x} = {i \in DOMAIN w : w[i] \in upto}
    BY <2>1
  <2> HIDE DEF below, upto
  <2>3. Cardinality({i \in DOMAIN v : v[i] \in below}) = Cardinality({i \in DOMAIN w : w[i] \in below})
    BY SameCount
  <2>4. Cardinality({i \in DOMAIN v : v[i] \in upto}) = Cardinality({i \in DOMAIN w : w[i] \in upto})
    BY SameCount
  <2> QED BY <2>2, <2>3, <2>4
<1>3. Middle(v) = Middle(w)
  BY <1>1, <1>2 DEF Middle
<1> QED BY <1>3 DEF Median

\* A turned window rearranges the recent frames.
LEMMA WindowRearranges ==
  ASSUME NEW fs, NEW w, NEW idx, Turned(fs, w, idx)
  PROVE  /\ Len(RecentOf(fs)) = Len(w) /\ Rearranges(RecentOf(fs), w)
         /\ RecentOf(fs) \in Seq(Durations) /\ w \in Seq(Durations)
<1>1. /\ kWindow \in Nat \ {0} /\ idx \in 0 .. kWindow - 1
      /\ w \in Seq(Durations) /\ fs \in Seq(Durations) /\ Len(fs) \in Nat
  BY FrameAssumption DEF FrameAssumption, Turned
<1>0. RecentOf(fs) \in Seq(Durations) /\ w \in Seq(Durations)
  BY <1>1, RecentIs
<1>2. CASE Len(fs) < kWindow
  <2>1. w = fs /\ RecentOf(fs) = fs
    BY <1>1, <1>2, RecentIs DEF Turned
  <2> DEFINE f == [j \in DOMAIN fs |-> j]
  <2>2. f \in Bijection(DOMAIN fs, DOMAIN fs)
    BY DEF Bijection, Injection, Surjection, IsInjective
  <2>3. \A j \in DOMAIN fs : fs[f[j]] = fs[j]
    OBVIOUS
  <2> HIDE DEF f
  <2>4. Rearranges(RecentOf(fs), w)
    BY <2>1, <2>2, <2>3 DEF Rearranges
  <2> QED BY <1>0, <2>1, <2>4
<1>3. CASE Len(fs) >= kWindow
  <2>1. /\ Len(w) = kWindow /\ Len(RecentOf(fs)) = kWindow
        /\ RecentOf(fs) \in Seq(Durations)
        /\ \A j \in 1 .. kWindow : w[j] = fs[FrameAt(fs, idx, j)]
        /\ \A r \in 1 .. kWindow : RecentOf(fs)[r] = fs[Len(fs) - kWindow + r]
    BY <1>1, <1>3, RecentIs DEF Turned
  <2>2. DOMAIN w = 1 .. kWindow /\ DOMAIN RecentOf(fs) = 1 .. kWindow
    BY <1>1, <2>1
  <2> DEFINE slot(j) == IF j <= idx THEN kWindow - idx + j ELSE j - idx
             f == [j \in 1 .. kWindow |-> slot(j)]
  <2>3. \A j \in 1 .. kWindow : slot(j) \in 1 .. kWindow
    BY <1>1
  <2>4. \A i, j \in 1 .. kWindow : slot(i) = slot(j) => i = j
    BY <1>1
  <2>5. \A r \in 1 .. kWindow : \E j \in 1 .. kWindow : slot(j) = r
    <3> TAKE r \in 1 .. kWindow
    <3>1. CASE r <= kWindow - idx
      <4>1. r + idx \in 1 .. kWindow /\ slot(r + idx) = r
        BY <1>1, <3>1
      <4> QED BY <4>1
    <3>2. CASE r > kWindow - idx
      <4> DEFINE j == r - (kWindow - idx)
      <4>1. j \in 1 .. kWindow /\ slot(j) = r
        BY <1>1, <3>2
      <4> QED BY <4>1
    <3> QED BY <1>1, <3>1, <3>2
  <2>6. \A j \in 1 .. kWindow : Len(fs) - kWindow + slot(j) = FrameAt(fs, idx, j)
    BY <1>1 DEF FrameAt
  <2> HIDE DEF slot
  <2>7. f \in Bijection(1 .. kWindow, 1 .. kWindow)
    <3>1. f \in [1 .. kWindow -> 1 .. kWindow]
      BY <2>3
    <3>2. \A i, j \in 1 .. kWindow : f[i] = f[j] => i = j
      BY <2>4
    <3>3. \A r \in 1 .. kWindow : \E j \in 1 .. kWindow : f[j] = r
      BY <2>5
    <3> HIDE DEF f
    <3> QED BY <3>1, <3>2, <3>3 DEF Bijection, Injection, Surjection, IsInjective
  <2>8. \A j \in 1 .. kWindow : RecentOf(fs)[f[j]] = w[j]
    BY <2>1, <2>3, <2>6
  <2> HIDE DEF f
  <2>9. Rearranges(RecentOf(fs), w)
    BY <2>2, <2>7, <2>8 DEF Rearranges
  <2> QED BY <1>0, <2>1, <2>9
<1> QED BY <1>1, <1>2, <1>3


\* The index goes round.
LEMMA TurnOfPlace ==
  ASSUME NEW k \in Nat \ {0}, NEW i \in 0 .. k - 1
  PROVE  (i + 1) % k = IF i + 1 = k THEN 0 ELSE i + 1
<1>1. CASE i + 1 = k
  <2>1. (0 + k) % k = 0
    BY SmallModulo
  <2> QED BY <1>1, <2>1
<1>2. CASE i + 1 # k
  <2>1. i + 1 \in 0 .. k - 1
    BY <1>2
  <2> QED BY <1>2, <2>1, SmallModulo
<1> QED BY <1>1, <1>2

\* Sliding turns the window by a place.
LEMMA SlideTurns ==
  ASSUME NEW fs, NEW w, NEW idx, Turned(fs, w, idx), NEW d \in Durations, NEW w2, NEW idx2,
         IF Len(w) < kWindow
         THEN w2 = Append(w, d) /\ idx2 = idx
         ELSE w2 = [w EXCEPT ![idx + 1] = d] /\ idx2 = (idx + 1) % kWindow
  PROVE  Turned(Append(fs, d), w2, idx2)
<1> DEFINE gs == Append(fs, d)
<1>1. /\ kWindow \in Nat \ {0} /\ idx \in 0 .. kWindow - 1
      /\ w \in Seq(Durations) /\ fs \in Seq(Durations) /\ Len(fs) \in Nat
  BY FrameAssumption DEF FrameAssumption, Turned
<1>2. /\ gs \in Seq(Durations) /\ Len(gs) = Len(fs) + 1
      /\ \A i \in 1 .. Len(fs) : gs[i] = fs[i]
      /\ gs[Len(fs) + 1] = d
  BY <1>1
<1>0. gs = Append(fs, d)
  OBVIOUS
<1>n. Len(fs) \in Int /\ kWindow \in Int /\ idx \in Int /\ Len(gs) = Len(fs) + 1
  BY <1>1, <1>2
<1> HIDE DEF gs
<1> SUFFICES Turned(gs, w2, idx2)
  BY <1>0
<1>3. CASE Len(fs) < kWindow
  <2>1. w = fs /\ idx = 0
    BY <1>3 DEF Turned
  <2>2. w2 = gs /\ idx2 = 0
    BY <1>0, <1>3, <2>1
  <2>3. \A j \in 1 .. kWindow : FrameAt(gs, 0, j) = Len(fs) + 1 - kWindow + j
    BY <1>1, <1>2 DEF FrameAt
  <2>4. Len(fs) + 1 >= kWindow => Len(fs) + 1 = kWindow
    BY <1>1, <1>3
  <2>5. Len(fs) + 1 >= kWindow => Len(w2) = kWindow /\ \A j \in 1 .. kWindow : w2[j] = gs[FrameAt(gs, 0, j)]
    <3> HAVE Len(fs) + 1 >= kWindow
    <3>1. Len(fs) + 1 = kWindow
      BY <2>4
    <3>2. \A j \in 1 .. kWindow : FrameAt(gs, 0, j) = j
      BY <1>n, <2>3, <3>1
    <3> QED BY <1>2, <2>2, <3>1, <3>2
  <2>6. 0 \in 0 .. kWindow - 1
    BY <1>1
  <2> QED BY <1>2, <2>2, <2>5, <2>6 DEF Turned
<1>4. CASE Len(fs) >= kWindow
  <2>1. Len(w) = kWindow /\ \A j \in 1 .. kWindow : w[j] = fs[FrameAt(fs, idx, j)]
    BY <1>4 DEF Turned
  <2>2. w2 = [w EXCEPT ![idx + 1] = d] /\ idx2 = (idx + 1) % kWindow
    BY <1>1, <2>1
  <2>3. idx2 = IF idx + 1 = kWindow THEN 0 ELSE idx + 1
    BY <1>1, <2>2, TurnOfPlace
  <2>4. /\ w2 \in Seq(Durations) /\ Len(w2) = kWindow
        /\ w2[idx + 1] = d
        /\ \A j \in 1 .. kWindow : j # idx + 1 => w2[j] = w[j]
    BY <1>1, <2>1, <2>2
  <2>5. ASSUME NEW j \in 1 .. kWindow
        PROVE  w2[j] = gs[FrameAt(gs, idx2, j)]
    <3>1. CASE j = idx + 1
      <4>1. FrameAt(gs, idx2, j) = Len(fs) + 1
        BY <1>1, <1>2, <2>3, <3>1 DEF FrameAt
      <4> QED BY <1>2, <2>4, <3>1, <4>1
    <3>2. CASE j # idx + 1
      <4>1. FrameAt(gs, idx2, j) = FrameAt(fs, idx, j)
        <5>1. /\ FrameAt(gs, idx2, j) =
                   IF j <= idx2 THEN Len(gs) - idx2 + j ELSE Len(gs) - kWindow - idx2 + j
              /\ FrameAt(fs, idx, j) =
                   IF j <= idx THEN Len(fs) - idx + j ELSE Len(fs) - kWindow - idx + j
          BY DEF FrameAt
        <5>2. CASE idx + 1 = kWindow
          <6>1. j <= idx /\ ~(j <= 0) /\ idx2 = 0
            BY <1>1, <2>3, <3>2, <5>2
          <6>2. Len(gs) - kWindow - 0 + j = Len(fs) - idx + j
            BY <1>n, <5>2
          <6> QED BY <5>1, <6>1, <6>2
        <5>3. CASE idx + 1 # kWindow
          <6>1. idx2 = idx + 1 /\ (j <= idx2 <=> j <= idx)
            BY <1>1, <2>3, <3>2, <5>3
          <6>2. /\ Len(gs) - idx2 + j = Len(fs) - idx + j
                /\ Len(gs) - kWindow - idx2 + j = Len(fs) - kWindow - idx + j
            BY <1>n, <6>1
          <6> QED BY <5>1, <6>1, <6>2
        <5> QED BY <5>2, <5>3
      <4>2. FrameAt(fs, idx, j) \in 1 .. Len(fs)
        BY <1>1, <1>4, <3>2 DEF FrameAt
      <4> QED BY <1>2, <2>1, <2>4, <3>2, <4>1, <4>2
    <3> QED BY <3>1, <3>2
  <2>6. idx2 \in 0 .. kWindow - 1
    BY <1>1, <2>3
  <2>7. ~(Len(gs) < kWindow)
    BY <1>1, <1>2, <1>4
  <2> QED BY <1>2, <2>4, <2>5, <2>6, <2>7 DEF Turned
<1> QED BY <1>1, <1>3, <1>4

\* The times are numbers.
LEMMA DurationsAreNumbers == ASSUME NEW w \in Seq(Durations) PROVE w \in Seq(Nat)
<1>1. Durations \subseteq Nat
  BY FrameAssumption DEF FrameAssumption
<1> QED BY <1>1, SeqMonotonic

\* Nothing has been measured at first.
LEMMA WindowInit == FrameInit => WindowInv
<1> SUFFICES ASSUME FrameInit PROVE WindowInv
  OBVIOUS
<1>1. frames = <<>> /\ window = <<>> /\ windowIdx = 0
  BY DEF FrameInit
<1>2. kWindow \in Nat /\ kWindow > 0
  BY FrameAssumption DEF FrameAssumption
<1>3. <<>> \in Seq(Durations) /\ Len(<<>>) = 0
  OBVIOUS
<1>4. Turned(frames, window, windowIdx)
  BY <1>1, <1>2, <1>3 DEF Turned
<1> QED BY <1>1, <1>4 DEF WindowInv

\* A frame slides the window and takes the median of what is then in it.
LEMMA WindowStep ==
  ASSUME WindowInv, [FrameNext]_frameVars
  PROVE  WindowInv'
<1>1. ASSUME UNCHANGED <<frames, window, windowIdx, p50, dt, step, stutter>>
      PROVE  WindowInv'
  BY <1>1 DEF WindowInv, IsStutter
<1>2. ASSUME NEW s \in Subsystem \ {Streaming}, AddTime(s)
      PROVE  WindowInv'
  BY <1>1, <1>2 DEF AddTime, hookVars, medianVars
<1>3. ASSUME NEW r \in Reader, ReadBegins(r) \/ ReadEnds(r) \/ ReadCounted(r)
      PROVE  WindowInv'
  BY <1>1, <1>3 DEF ReadBegins, ReadEnds, ReadCounted, hookVars, medianVars
<1>4. CASE SummaryTakes \/ SummaryEmits
  BY <1>1, <1>4 DEF SummaryTakes, SummaryEmits, hookVars, medianVars
<1>5. ASSUME NEW d \in Durations, FrameEnds(d)
      PROVE  WindowInv'
  <2>1. /\ frames' = Append(frames, d) /\ p50' = Median(window') /\ step' = "drain"
        /\ IF Len(window) < kWindow
           THEN window' = Append(window, d) /\ windowIdx' = windowIdx
           ELSE /\ window' = [window EXCEPT ![windowIdx + 1] = d]
                /\ windowIdx' = (windowIdx + 1) % kWindow
    BY <1>5 DEF FrameEnds, UpdateRollingP50, Slide
  <2>2. Turned(frames, window, windowIdx)
    BY DEF WindowInv
  <2>3. Turned(frames', window', windowIdx')
    BY <2>1, <2>2, SlideTurns
  <2>4. /\ Len(RecentOf(frames')) = Len(window') /\ Rearranges(RecentOf(frames'), window')
        /\ RecentOf(frames') \in Seq(Durations) /\ window' \in Seq(Durations)
    BY <2>3, WindowRearranges
  <2>5. Median(RecentOf(frames')) = Median(window')
    BY <2>4, DurationsAreNumbers, SameMedian
  <2> QED BY <2>1, <2>3, <2>5 DEF WindowInv
<1>6. CASE Drain
  <2>1. UNCHANGED <<frames, window, windowIdx, p50>> /\ step' # "game"
    BY <1>6 DEF Drain, medianVars
  <2> QED BY <2>1 DEF WindowInv
<1>7. CASE EmitBreakdown
  <2>1. UNCHANGED <<frames, window, windowIdx, p50, dt>> /\ stutter' = IsStutter
    BY <1>7 DEF EmitBreakdown
  <2> QED BY <2>1 DEF WindowInv, IsStutter
<1>8. CASE UNCHANGED frameVars
  BY <1>1, <1>8 DEF frameVars
<1> QED BY <1>2, <1>3, <1>4, <1>5, <1>6, <1>7, <1>8 DEF FrameNext

\* The invariant of the window, of every state.
LEMMA WindowHolds == FrameSpec => []WindowInv
<1>1. FrameInit => WindowInv
  BY WindowInit
<1>2. WindowInv /\ [FrameNext]_frameVars => WindowInv'
  BY WindowStep
<1> QED BY <1>1, <1>2, PTL DEF FrameSpec

(* UpdateRollingP50, for windows of any size: the window holds the times of *)
(* the last kWindow frames, each as often, and the median is theirs.       *)
THEOREM MedianOfRecent == FrameSpec => []WindowIsRecent
<1>1. WindowInv => WindowIsRecent
  <2> SUFFICES ASSUME WindowInv PROVE WindowIsRecent
    OBVIOUS
  <2> DEFINE recent == RecentOf(frames)
  <2>1. /\ Rearranges(recent, window)
        /\ recent \in Seq(Durations) /\ window \in Seq(Durations)
    BY WindowRearranges DEF WindowInv
  <2>2. recent \in Seq(Nat) /\ window \in Seq(Nat)
    BY <2>1, DurationsAreNumbers
  <2>3. frames # <<>> => p50 = Median(recent)
    BY DEF WindowInv
  <2>4. recent = SubSeq(frames, Max({1, Len(frames) - kWindow + 1}), Len(frames))
    BY DEF RecentOf
  <2> HIDE DEF recent
  <2>5. ASSUME NEW d \in Durations
        PROVE  Cardinality({i \in DOMAIN window : window[i] = d})
                 = Cardinality({i \in DOMAIN recent : recent[i] = d})
    <3>1. Cardinality({r \in DOMAIN recent : recent[r] \in {d}})
            = Cardinality({j \in DOMAIN window : window[j] \in {d}})
      BY <2>1, <2>2, SameCount
    <3>2. /\ {i \in DOMAIN window : window[i] = d} = {i \in DOMAIN window : window[i] \in {d}}
          /\ {i \in DOMAIN recent : recent[i] = d} = {i \in DOMAIN recent : recent[i] \in {d}}
      OBVIOUS
    <3> QED BY <3>1, <3>2
  <2> QED BY <2>3, <2>4, <2>5 DEF WindowIsRecent
<1> QED BY <1>1, WindowHolds, PTL

-----------------------------------------------------------------------------
(* A game that has become slow.                                            *)

\* A value that fills more than half of the places, the last ones, is the median.
LEMMA MajorityIsMedian ==
  ASSUME NEW w \in Seq(Nat), NEW d \in Nat, NEW h \in Nat,
         h <= Len(w), Len(w) \div 2 < h,
         \A r \in Len(w) - h + 1 .. Len(w) : w[r] = d
  PROVE  Median(w) = d
<1> DEFINE L == Len(w)
           T == L - h + 1 .. L
           R == 1 .. L - h
           below(v) == {i \in DOMAIN w : w[i] < v}
           upto(v)  == {i \in DOMAIN w : w[i] <= v}
<1>1. L \in Nat /\ DOMAIN w = 1 .. L /\ \A i \in 1 .. L : w[i] \in Nat
  OBVIOUS
<1>2. L - h <= L \div 2 /\ L \div 2 \in Nat /\ h >= 1
  BY <1>1
<1>3. /\ IsFiniteSet(T) /\ Cardinality(T) = h
      /\ IsFiniteSet(R) /\ Cardinality(R) = L - h
      /\ IsFiniteSet(1 .. L)
  <2>1. L - h + 1 \in Int /\ L \in Int /\ 1 \in Int /\ L - h \in Int
    BY <1>1
  <2>2. IsFiniteSet(T) /\ Cardinality(T) = IF L - h + 1 > L THEN 0 ELSE L - (L - h + 1) + 1
    BY <2>1, FS_Interval
  <2>3. IsFiniteSet(R) /\ Cardinality(R) = IF 1 > L - h THEN 0 ELSE L - h - 1 + 1
    BY <2>1, FS_Interval
  <2>4. IsFiniteSet(1 .. L)
    BY <2>1, FS_Interval
  <2>5. ~(L - h + 1 > L) /\ L - (L - h + 1) + 1 = h /\ L - h - 1 + 1 = L - h /\ L - h >= 0
    BY <1>1, <1>2
  <2>6. Cardinality(T) = h
    BY <2>2, <2>5
  <2>7. Cardinality(R) = L - h
    <3> DEFINE q == L - h
    <3>1. q \in Int /\ q >= 0 /\ Cardinality(R) = IF 1 > q THEN 0 ELSE q - 1 + 1
      BY <2>1, <2>3, <2>5
    <3> HIDE DEF q
    <3>2. Cardinality(R) = q
      BY <3>1
    <3> QED BY <3>2 DEF q
  <2> QED BY <2>2, <2>3, <2>4, <2>6, <2>7
<1>4. \A i \in 1 .. L : i \in T \/ i \in R
  BY <1>1
<1>5. T \in SUBSET (1 .. L)
  BY <1>1, <1>2
<1>6. \A r \in T : w[r] = d
  OBVIOUS
<1> HIDE DEF T, R, L
<1>7. \A v : below(v) \in SUBSET (1 .. L) /\ upto(v) \in SUBSET (1 .. L)
  BY <1>1
<1>8. \A v : IsFiniteSet(below(v)) /\ IsFiniteSet(upto(v))
  BY <1>3, <1>7, FS_Subset
<1>9. \A v \in Nat : v >= d => T \subseteq upto(v)
  BY <1>1, <1>5, <1>6
<1>10. \A v \in Nat : v > d => T \subseteq below(v)
  BY <1>1, <1>5, <1>6
<1>11. \A v \in Nat : v < d => upto(v) \subseteq R
  BY <1>1, <1>4, <1>6
<1>12. \A v \in Nat : v <= d => below(v) \subseteq R
  BY <1>1, <1>4, <1>6
<1> HIDE DEF below, upto
<1>13. ToSet(w) \subseteq Nat /\ d \in ToSet(w)
  <2>1. L \in T
    BY <1>1, <1>2 DEF T
  <2> QED BY <1>1, <1>5, <1>6, <2>1 DEF ToSet
<1>14. Middle(w) = {v \in ToSet(w) : /\ Cardinality(below(v)) <= L \div 2
                                     /\ L \div 2 < Cardinality(upto(v))}
  BY DEF Middle, below, upto, L
<1>15. d \in Middle(w)
  <2>1. T \in SUBSET upto(d) /\ below(d) \in SUBSET R
    BY <1>9, <1>12
  <2>2. h <= Cardinality(upto(d)) /\ Cardinality(upto(d)) \in Nat
    BY <1>3, <1>8, <2>1, FS_Subset, FS_CardinalityType
  <2>3. Cardinality(below(d)) <= L - h /\ Cardinality(below(d)) \in Nat
    BY <1>3, <1>8, <2>1, FS_Subset, FS_CardinalityType
  <2>4. L \div 2 < h
    BY DEF L
  <2>5. Cardinality(below(d)) <= L \div 2 /\ L \div 2 < Cardinality(upto(d))
    BY <1>1, <1>2, <2>2, <2>3, <2>4
  <2> QED BY <1>13, <1>14, <2>5
<1>16. ASSUME NEW v \in Middle(w)
       PROVE  v = d
  <2>1. /\ v \in Nat /\ Cardinality(below(v)) <= L \div 2
        /\ L \div 2 < Cardinality(upto(v))
    BY <1>13, <1>14
  <2>2. Cardinality(below(v)) \in Nat /\ Cardinality(upto(v)) \in Nat
    BY <1>8, FS_CardinalityType
  <2>3. L \div 2 < h
    BY DEF L
  <2>4. CASE v < d
    <3>1. upto(v) \in SUBSET R
      BY <1>11, <2>1, <2>4
    <3>2. Cardinality(upto(v)) <= L - h
      BY <1>3, <3>1, FS_Subset
    <3> QED BY <1>1, <1>2, <2>1, <2>2, <3>2
  <2>5. CASE v > d
    <3>1. T \in SUBSET below(v)
      BY <1>10, <2>1, <2>5
    <3>2. h <= Cardinality(below(v))
      BY <1>3, <1>8, <3>1, FS_Subset
    <3> QED BY <1>1, <1>2, <2>1, <2>2, <2>3, <3>2
  <2>6. ~(v < d) /\ ~(v > d)
    BY <2>4, <2>5
  <2> QED BY <2>1, <2>6
<1>17. Middle(w) = {d}
  BY <1>15, <1>16
<1> QED BY <1>17 DEF Median

\* A frame that takes as long as the median is none.
LEMMA MedianIsNoStutter ==
  ASSUME dt \in Durations, p50 = dt
  PROVE  ~IsStutter
<1>1. dt \in Nat /\ dt >= 1 /\ Ratio \in Nat /\ Ratio >= 3
  BY FrameAssumption DEF FrameAssumption
<1>2. PICK m \in Nat : Ratio = m + 3
  <2>1. Ratio - 3 \in Nat /\ Ratio = (Ratio - 3) + 3
    BY <1>1
  <2> QED BY <2>1
<1>3. m * dt \in Nat
  BY <1>1, <1>2
<1>4. Ratio * dt = m * dt + 3 * dt
  BY <1>1, <1>2
<1>5. 2 * dt < Ratio * dt
  BY <1>1, <1>3, <1>4
<1>6. 2 * dt \in Int /\ Ratio * dt \in Int
  BY <1>1
<1>7. ~(2 * dt >= Ratio * dt)
  BY <1>5, <1>6
<1> QED BY <1>7 DEF IsStutter

(* StutterFlagger::OnFrame, for windows of any size and any ratio above     *)
(* one: when more than half a window of frames took the same time, that     *)
(* time is the median, and the last of them is not flagged.                *)
THEOREM SlowNotFlagged == FrameSpec => []SlowIsNoStutter
<1>1. WindowInv => SlowIsNoStutter
  <2> DEFINE half == kWindow \div 2 + 1
             n == Len(frames)
             final == SubSeq(frames, n - half + 1, n)
             w == RecentOf(frames)
             L == Len(w)
  <2> SUFFICES ASSUME WindowInv, step = "game", n >= half, \A i \in DOMAIN final : final[i] = dt
               PROVE  ~stutter
    BY DEF SlowIsNoStutter
  <2>1. /\ frames \in Seq(Durations) /\ n \in Nat
        /\ kWindow \in Nat \ {0} /\ half \in Nat /\ half >= 1 /\ half <= kWindow
        /\ kWindow \div 2 < half
    BY FrameAssumption DEF FrameAssumption, WindowInv, Turned
  <2>2. /\ w \in Seq(Durations)
        /\ n <= kWindow => w = frames
        /\ n >= kWindow => /\ L = kWindow
                           /\ \A r \in 1 .. kWindow : w[r] = frames[n - kWindow + r]
    BY <2>1, RecentIs
  <2> HIDE DEF half
  <2>3. /\ Len(final) = half
        /\ \A i \in 1 .. half : final[i] = frames[n - half + i]
    BY <2>1
  <2>4. \A j \in n - half + 1 .. n : frames[j] = dt
    <3> TAKE j \in n - half + 1 .. n
    <3>1. j - (n - half) \in 1 .. half /\ n - half + (j - (n - half)) = j
      BY <2>1
    <3>2. j - (n - half) \in DOMAIN final
      BY <2>1, <2>3, <3>1
    <3> HIDE DEF final
    <3> QED BY <2>3, <3>1, <3>2
  <2> HIDE DEF final, w
  <2>5. /\ L \in Nat /\ half <= L /\ L \div 2 < half
        /\ \A r \in L - half + 1 .. L : w[r] = dt
    <3>1. CASE n < kWindow
      <4>1. L = n /\ w = frames
        BY <2>1, <2>2, <3>1
      <4>2. n \div 2 <= kWindow \div 2
        BY <2>1, <3>1
      <4>3. n \div 2 < half
        BY <2>1, <4>2
      <4> QED BY <2>1, <2>4, <4>1, <4>3
    <3>2. CASE n >= kWindow
      <4>1. L = kWindow /\ \A r \in 1 .. kWindow : w[r] = frames[n - kWindow + r]
        BY <2>2, <3>2
      <4>2. ASSUME NEW r \in kWindow - half + 1 .. kWindow
            PROVE  w[r] = dt
        <5>1. r \in 1 .. kWindow /\ n - kWindow + r \in n - half + 1 .. n
          BY <2>1, <3>2
        <5> QED BY <2>4, <4>1, <5>1
      <4> QED BY <2>1, <4>1, <4>2
    <3> QED BY <2>1, <3>1, <3>2
  <2>6. dt \in Durations /\ dt \in Nat
    <3>1. n \in n - half + 1 .. n /\ n \in 1 .. n
      BY <2>1
    <3>2. frames[n] = dt
      BY <2>4, <3>1
    <3>3. dt \in Durations
      BY <2>1, <3>1, <3>2
    <3> QED BY <3>3, FrameAssumption DEF FrameAssumption
  <2>7. w \in Seq(Nat)
    BY <2>2, DurationsAreNumbers
  <2>8. Median(w) = dt
    BY <2>1, <2>5, <2>6, <2>7, MajorityIsMedian
  <2>9. frames # <<>>
    BY <2>1
  <2>10. p50 = dt /\ stutter = IsStutter
    BY <2>8, <2>9 DEF WindowInv, w
  <2> QED BY <2>6, <2>10, MedianIsNoStutter
<1> QED BY <1>1, WindowHolds, PTL
-----------------------------------------------------------------------------
(***************************************************************************)
(* The types of the frame.  The depth of the archive reads is the number   *)
(* of readers in one, so it is never negative; the bytes are what has been *)
(* added to the accumulator of the reads; the median is the time of a      *)
(* frame, for some value is in the middle of any window.                   *)
(***************************************************************************)
InRead == {r \in Reader : reader[r] = "reading"}

FrameInv ==
  /\ CountInv /\ WindowInv
  /\ step \in {"game", "drain", "breakdown"} /\ stutter \in BOOLEAN
  /\ dt \in Durations \union {0} /\ p50 \in Durations \union {0}
  /\ reader \in [Reader -> {"idle", "reading", "read"}]
  /\ inFlight = Cardinality(InRead)
  /\ bytesRead = added[Streaming] /\ added[Streaming] <= MaxAdded

\* A value is in the middle: the least that is not below the middle place.
LEMMA SomeMiddle ==
  ASSUME NEW w \in Seq(Nat), w # <<>>
  PROVE  Median(w) \in ToSet(w)
<1> DEFINE L == Len(w)
           below(v) == {i \in DOMAIN w : w[i] < v}
           upto(v)  == {i \in DOMAIN w : w[i] <= v}
<1>1. L \in Nat /\ L >= 1 /\ DOMAIN w = 1 .. L /\ \A i \in 1 .. L : w[i] \in Nat
  OBVIOUS
<1>2. L \div 2 < L /\ L \div 2 \in Nat
  BY <1>1
<1>3. IsFiniteSet(1 .. L) /\ Cardinality(1 .. L) = L
  <2>1. 1 \in Int /\ L \in Int /\ ~(1 > L) /\ L - 1 + 1 = L
    BY <1>1
  <2> QED BY <2>1, FS_Interval
<1> HIDE DEF L
<1>4. /\ \A v : below(v) \in SUBSET (1 .. L) /\ upto(v) \in SUBSET (1 .. L)
      /\ \A v : \A i \in 1 .. L : i \in upto(v) <=> w[i] <= v
      /\ \A v : \A i \in 1 .. L : i \in below(v) <=> w[i] < v
  BY <1>1
<1> HIDE DEF below, upto
<1>5. \A v : /\ IsFiniteSet(below(v)) /\ IsFiniteSet(upto(v))
             /\ Cardinality(below(v)) \in Nat /\ Cardinality(upto(v)) \in Nat
             /\ Cardinality(upto(v)) <= L
  BY <1>3, <1>4, FS_Subset, FS_CardinalityType
\* the largest has them all below or equal
<1>6. \E i \in 1 .. L : upto(w[i]) = 1 .. L
  <2> DEFINE D == {L - Cardinality(upto(w[i])) : i \in 1 .. L}
  <2>0. \A i \in 1 .. L : L - Cardinality(upto(w[i])) \in Nat
    BY <1>1, <1>5
  <2>1. D \in SUBSET Nat
    BY <2>0
  <2>2. D # {}
    <3>1. 1 \in 1 .. L
      BY <1>1
    <3> QED BY <3>1
  <2>3. Min(D) \in D /\ \A y \in D : Min(D) <= y
    BY <2>1, <2>2, LeastOf
  <2>4. PICK i \in 1 .. L : Min(D) = L - Cardinality(upto(w[i]))
    BY <2>3
  <2>5. \A j \in 1 .. L : L - Cardinality(upto(w[i])) <= L - Cardinality(upto(w[j]))
    BY <2>3, <2>4
  <2> HIDE DEF D
  <2>6. ASSUME NEW j \in 1 .. L, w[j] > w[i]
        PROVE  FALSE
    <3>1. upto(w[i]) \in SUBSET upto(w[j]) /\ j \in upto(w[j]) /\ j \notin upto(w[i])
      <4>1. \A k \in 1 .. L : w[k] <= w[i] => w[k] <= w[j]
        BY <1>1, <2>6
      <4>2. w[j] <= w[j] /\ ~(w[j] <= w[i])
        BY <1>1, <2>6
      <4>3. \A k \in upto(w[i]) : k \in 1 .. L
        BY <1>4
      <4>4. \A k \in upto(w[i]) : k \in upto(w[j])
        BY <1>4, <4>1, <4>3
      <4> QED BY <1>4, <4>2, <4>4
    <3>2. upto(w[i]) # upto(w[j])
      BY <3>1
    <3>3. Cardinality(upto(w[i])) < Cardinality(upto(w[j]))
      <4>1. /\ Cardinality(upto(w[i])) <= Cardinality(upto(w[j]))
            /\ Cardinality(upto(w[i])) = Cardinality(upto(w[j])) => upto(w[i]) = upto(w[j])
        BY <1>5, <3>1, FS_Subset
      <4> QED BY <1>5, <3>2, <4>1
    <3>4. Cardinality(upto(w[i])) \in Nat /\ Cardinality(upto(w[j])) \in Nat
      BY <1>5
    <3>5. L - Cardinality(upto(w[i])) <= L - Cardinality(upto(w[j]))
      BY <2>5
    <3> QED BY <1>1, <3>3, <3>4, <3>5
  <2>7. \A j \in 1 .. L : w[j] <= w[i]
    BY <1>1, <2>6
  <2> QED BY <1>4, <2>4, <2>7
<1> DEFINE V == {v \in ToSet(w) : L \div 2 < Cardinality(upto(v))}
<1>7. V \in SUBSET Nat /\ V # {}
  <2>1. \A i \in 1 .. L : w[i] \in ToSet(w)
    BY <1>1 DEF ToSet
  <2>2. PICK i \in 1 .. L : upto(w[i]) = 1 .. L
    BY <1>6
  <2>3. w[i] \in V
    BY <1>2, <1>3, <2>1, <2>2
  <2>4. ToSet(w) \subseteq Nat
    BY <1>1 DEF ToSet
  <2> QED BY <2>3, <2>4
<1>8. Min(V) \in V /\ \A y \in V : Min(V) <= y
  BY <1>7, LeastOf
<1> DEFINE m == Min(V)
<1>9. m \in ToSet(w) /\ m \in Nat /\ L \div 2 < Cardinality(upto(m))
  BY <1>7, <1>8
<1>10. \A i \in 1 .. L : w[i] < m => Cardinality(upto(w[i])) <= L \div 2
  <2> SUFFICES ASSUME NEW i \in 1 .. L, w[i] < m, ~(Cardinality(upto(w[i])) <= L \div 2)
               PROVE  FALSE
    OBVIOUS
  <2>1. w[i] \in ToSet(w)
    BY <1>1 DEF ToSet
  <2>2. L \div 2 < Cardinality(upto(w[i]))
    BY <1>2, <1>5
  <2>3. w[i] \in V
    BY <2>1, <2>2
  <2> HIDE DEF V
  <2> QED BY <1>1, <1>8, <1>9, <2>3
<1> HIDE DEF V, m
\* those below it are those up to the next smaller, if there is one
<1>11. Cardinality(below(m)) <= L \div 2
  <2>1. CASE below(m) = {}
    BY <1>2, <2>1, FS_EmptySet
  <2>2. CASE below(m) # {}
    <3> DEFINE E == {m - w[i] : i \in below(m)}
    <3>1. E \in SUBSET Nat /\ E # {}
      <4>1. \A i \in below(m) : i \in 1 .. L /\ w[i] \in Nat /\ w[i] < m
        BY <1>1, <1>4
      <4>2. \A i \in below(m) : m - w[i] \in Nat
        BY <1>9, <4>1
      <4> QED BY <2>2, <4>2
    <3>2. Min(E) \in E /\ \A y \in E : Min(E) <= y
      BY <3>1, LeastOf
    <3>3. PICK i \in below(m) : Min(E) = m - w[i]
      BY <3>2
    <3>4. \A j \in below(m) : m - w[i] <= m - w[j]
      BY <3>2, <3>3
    <3> HIDE DEF E
    <3>5. i \in 1 .. L /\ w[i] < m
      BY <1>4, <3>3
    <3>6. \A j \in 1 .. L : w[j] < m <=> w[j] <= w[i]
      <4> TAKE j \in 1 .. L
      <4>1. w[i] \in Nat /\ w[j] \in Nat /\ m \in Nat
        BY <1>1, <1>9, <3>5
      <4>2. w[j] < m => w[j] <= w[i]
        <5> HAVE w[j] < m
        <5>1. j \in below(m)
          BY <1>4
        <5> QED BY <3>4, <4>1, <5>1
      <4> QED BY <3>5, <4>1, <4>2
    <3>7. below(m) = upto(w[i])
      <4>1. \A k \in 1 .. L : k \in below(m) <=> k \in upto(w[i])
        BY <1>4, <3>6
      <4>2. below(m) \in SUBSET (1 .. L) /\ upto(w[i]) \in SUBSET (1 .. L)
        BY <1>4
      <4> QED BY <4>1, <4>2
    <3> QED BY <1>10, <3>5, <3>7
  <2> QED BY <2>1, <2>2
<1>12. m \in Middle(w)
  BY <1>9, <1>11 DEF Middle, L, below, upto
<1>13. Median(w) \in Middle(w)
  BY <1>12 DEF Median
<1> QED BY <1>13 DEF Middle

\* Nobody reads at first.
LEMMA FrameStart == FrameInit => FrameInv
<1> SUFFICES ASSUME FrameInit PROVE FrameInv
  OBVIOUS
<1>1. InRead = {}
  BY DEF FrameInit, InRead
<1>2. inFlight = Cardinality(InRead)
  BY <1>1, FS_EmptySet DEF FrameInit
<1>3. added[Streaming] = 0 /\ bytesRead = 0 /\ 0 <= MaxAdded
  BY StreamingCounts, FrameAssumption DEF FrameInit, FrameAssumption
<1> QED BY <1>2, <1>3, CountInit, WindowInit DEF FrameInit, FrameInv

\* A reader begins or ends an archive read, or counts it.
LEMMA ReadTypes ==
  ASSUME FrameInv, NEW r \in Reader, ReadBegins(r) \/ ReadEnds(r) \/ ReadCounted(r)
  PROVE  /\ reader' \in [Reader -> {"idle", "reading", "read"}]
         /\ inFlight' = Cardinality(InRead')
<1>1. /\ reader \in [Reader -> {"idle", "reading", "read"}]
      /\ inFlight = Cardinality(InRead)
  BY DEF FrameInv
<1>2. IsFiniteSet(InRead) /\ Cardinality(InRead) \in Nat
  <2>1. IsFiniteSet(Reader) /\ InRead \in SUBSET Reader
    BY FrameAssumption DEF FrameAssumption, InRead
  <2> QED BY <2>1, FS_Subset, FS_CardinalityType
<1>3. CASE ReadBegins(r)
  <2>1. InRead' = InRead \union {r} /\ r \notin InRead
    BY <1>1, <1>3 DEF ReadBegins, InRead
  <2>2. Cardinality(InRead \union {r}) = Cardinality(InRead) + 1
    BY <1>2, <2>1, FS_AddElement
  <2> QED BY <1>1, <1>3, <2>1, <2>2 DEF ReadBegins
<1>4. CASE ReadEnds(r)
  <2>1. InRead' = InRead \ {r} /\ r \in InRead
    BY <1>1, <1>4 DEF ReadEnds, InRead
  <2>2. Cardinality(InRead \ {r}) = Cardinality(InRead) - 1
    BY <1>2, <2>1, FS_RemoveElement
  <2> QED BY <1>1, <1>4, <2>1, <2>2 DEF ReadEnds
<1>5. CASE ReadCounted(r)
  <2>1. InRead' = InRead
    BY <1>1, <1>5 DEF ReadCounted, InRead
  <2> QED BY <1>1, <1>5, <2>1 DEF ReadCounted
<1> QED BY <1>3, <1>4, <1>5

\* Every step.
LEMMA FrameStep ==
  ASSUME FrameInv, [FrameNext]_frameVars
  PROVE  FrameInv'
<1>1. CountInv' /\ WindowInv'
  BY CountStep, WindowStep DEF FrameInv
<1>2. added \in [Subsystem -> Nat] /\ bytesRead \in Nat /\ MaxAdded \in Nat
      /\ Streaming \in Subsystem
  BY StreamingCounts, FrameAssumption DEF FrameInv, CountInv, FrameAssumption
<1>3. ASSUME NEW s \in Subsystem \ {Streaming}, AddTime(s)
      PROVE  FrameInv'
  <2>1. added'[Streaming] = added[Streaming]
    BY <1>2, <1>3 DEF AddTime
  <2> QED BY <1>1, <1>3, <2>1 DEF FrameInv, AddTime, hookVars, medianVars, readVars, InRead
<1>4. ASSUME NEW r \in Reader, ReadBegins(r) \/ ReadEnds(r) \/ ReadCounted(r)
      PROVE  FrameInv'
  <2>1. bytesRead' = added'[Streaming] /\ added'[Streaming] <= MaxAdded
    BY <1>2, <1>4 DEF FrameInv, ReadBegins, ReadEnds, ReadCounted
  <2> QED BY <1>1, <1>4, <2>1, ReadTypes
          DEF FrameInv, ReadBegins, ReadEnds, ReadCounted, hookVars, medianVars
<1>5. CASE SummaryTakes \/ SummaryEmits
  BY <1>1, <1>5 DEF FrameInv, SummaryTakes, SummaryEmits, hookVars, medianVars, readVars, InRead
<1>6. ASSUME NEW d \in Durations, FrameEnds(d)
      PROVE  FrameInv'
  <2>1. window' \in Seq(Durations) /\ window' # <<>>
    <3>1. Turned(frames', window', windowIdx') /\ frames' = Append(frames, d)
      BY <1>1, <1>6 DEF WindowInv, FrameEnds
    <3>2. frames \in Seq(Durations) /\ kWindow \in Nat \ {0}
      BY FrameAssumption DEF FrameInv, WindowInv, Turned, FrameAssumption
    <3>3. window' \in Seq(Durations) /\ (Len(frames') < kWindow => window' = frames')
          /\ (Len(frames') >= kWindow => Len(window') = kWindow)
      BY <3>1 DEF Turned
    <3>4. frames' # <<>> /\ Len(frames') \in Nat
      BY <3>1, <3>2
    <3> QED BY <3>2, <3>3, <3>4
  <2>2. p50' \in ToSet(window')
    BY <1>6, <2>1, DurationsAreNumbers, SomeMiddle DEF FrameEnds, UpdateRollingP50
  <2>3. p50' \in Durations
    BY <2>1, <2>2 DEF ToSet
  <2> QED BY <1>1, <1>6, <2>3 DEF FrameInv, FrameEnds, readVars, InRead
<1>7. CASE Drain
  BY <1>1, <1>7 DEF FrameInv, Drain, medianVars, readVars, InRead
<1>8. CASE EmitBreakdown
  <2>1. stutter' \in BOOLEAN
    BY <1>8 DEF EmitBreakdown, IsStutter
  <2> QED BY <1>1, <1>8, <2>1 DEF FrameInv, EmitBreakdown, readVars, InRead
<1>9. CASE UNCHANGED frameVars
  BY <1>1, <1>9 DEF FrameInv, frameVars, InRead
<1> QED BY <1>3, <1>4, <1>5, <1>6, <1>7, <1>8, <1>9 DEF FrameNext

(***************************************************************************)
(* The frame hook, the accumulators and the readers stay within their      *)
(* types, whichever threads add and read: in_flight counts the readers in  *)
(* a read, and rolling_p50_ms is the time of a frame.                      *)
(***************************************************************************)
THEOREM FrameTyped == FrameSpec => []FrameTypeOK
<1>1. FrameInv => FrameTypeOK
  <2> SUFFICES ASSUME FrameInv PROVE FrameTypeOK
    OBVIOUS
  <2>1. inFlight \in 0 .. Cardinality(Reader)
    <3>1. IsFiniteSet(Reader) /\ InRead \in SUBSET Reader
      BY FrameAssumption DEF FrameAssumption, InRead
    <3>2. Cardinality(InRead) <= Cardinality(Reader)
          /\ Cardinality(InRead) \in Nat /\ Cardinality(Reader) \in Nat
      BY <3>1, FS_Subset, FS_CardinalityType
    <3> QED BY <3>2 DEF FrameInv
  <2>2. window \in Seq(Durations) /\ Len(window) <= kWindow /\ windowIdx \in 0 .. kWindow - 1
    BY FrameAssumption DEF FrameInv, WindowInv, Turned, FrameAssumption
  <2>3. bytes \in 0 .. MaxAdded /\ summary \in {None} \union 0 .. MaxAdded
    <3> DEFINE taken == IF summary = None THEN 0 ELSE summary
    <3>1. bytesRead = bytesReported + taken + bytes
      BY Zenon DEF FrameInv, CountInv, NothingCountedTwice
    <3>2. /\ summary \in Nat \union {None} /\ bytesRead \in Nat /\ bytesReported \in Nat
          /\ bytes \in Nat /\ bytesRead <= MaxAdded /\ MaxAdded \in Nat
      BY FrameAssumption DEF FrameInv, CountInv, FrameAssumption
    <3>3. taken \in Nat
      BY <3>2
    <3> HIDE DEF taken
    <3>4. bytes \in 0 .. MaxAdded /\ taken \in 0 .. MaxAdded
      BY <3>1, <3>2, <3>3
    <3> QED BY <3>2, <3>4 DEF taken
  <2> QED BY <2>1, <2>2, <2>3 DEF FrameInv, CountInv, FrameTypeOK
<1> QED BY <1>1, FrameStart, FrameStep, PTL DEF FrameSpec
=============================================================================
