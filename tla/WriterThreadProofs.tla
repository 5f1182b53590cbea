------------------------- MODULE WriterThreadProofs -------------------------
(***************************************************************************)
(* Proofs about WriterThread, for every number of records, every capacity  *)
(* of the ring, any clock and number of rotations kept: from Submit to     *)
(* Broadcast nothing is lost, duplicated or reordered; Stop drains what    *)
(* was accepted before it; every file is an unbroken run of what was       *)
(* broadcast; the file that the crash handler closed survives.  What the   *)
(* recorder does of this is proved in RollingRecorderProofs.               *)
(***************************************************************************)
EXTENDS WriterThread, SequenceTheorems, TLAPS

\* The recorder again, with what is proved of it.
R == INSTANCE RollingRecorderProofs WITH running <- recording

(***************************************************************************)
(* Sequences: what is taken off one end of a split and put on the other    *)
(* leaves the whole as it was.                                             *)
(***************************************************************************)
LEMMA TakeHead ==
  ASSUME NEW S, NEW q \in Seq(S), q # <<>>
  PROVE  /\ q = <<Head(q)>> \o Tail(q)
         /\ Head(q) \in S
         /\ Tail(q) \in Seq(S)
  <1>1. Head(q) \in S /\ Tail(q) \in Seq(S)
    BY HeadTailProperties
  <1>2. q = <<Head(q)>> \o Tail(q)
    OBVIOUS
  <1> QED BY <1>1, <1>2

(***************************************************************************)
(* Pushing at the far end of a split sequence.                             *)
(***************************************************************************)
LEMMA PushSplit ==
  ASSUME NEW S, NEW a \in Seq(S), NEW b \in Seq(S), NEW c \in Seq(S), NEW x \in S
  PROVE  a \o b \o Append(c, x) = Append(a \o b \o c, x)
  OBVIOUS

-----------------------------------------------------------------------------
\* The variables WriterInv is about.
coreVars == <<queue, next, accepted, running, loop, rec, broadcast, stop, owed>>

\* An action that changes none of them preserves WriterInv.
LEMMA StutterStep ==
  ASSUME WriterInv, UNCHANGED coreVars
  PROVE  WriterInv'
  BY DEF WriterInv, TeeInOrder, InHand, coreVars

\* Nothing has been accepted.
LEMMA InitInv == Init => WriterInv
  <1> SUFFICES ASSUME Init PROVE WriterInv
    OBVIOUS
  <1> USE WriterAssumption DEF WriterAssumption
  <1>1. next = 1
    BY DEF Init, Recorder!Init
  <1>2. /\ queue = <<>> /\ broadcast = <<>> /\ accepted = <<>> /\ InHand = <<>>
        /\ running /\ loop = "check" /\ stop = "idle" /\ owed = 0
    BY DEF Init, Ring!Init, InHand
  <1> QED BY <1>1, <1>2 DEF WriterInv, TeeInOrder, Draining

\* A Submit, whoever makes it, adds a record at the far end or is refused.
LEMMA SubmitStep ==
  ASSUME WriterInv, Submit, UNCHANGED <<running, loop, rec, broadcast, stop, owed>>
  PROVE  WriterInv'
  <1> USE WriterAssumption DEF WriterAssumption
  <1>0. next \in Record /\ next' \in 1 .. MaxRecords + 1
    BY DEF Submit, WriterInv, Record
  <1>1. InHand' = InHand /\ InHand \in Seq(Record)
    BY DEF InHand, WriterInv
  <1>2. CASE queue' = Append(queue, next) /\ accepted' = Append(accepted, next)
    <2>1. queue' \in Seq(Record) /\ accepted' \in Seq(Record)
      BY <1>0, <1>2 DEF WriterInv
    <2>2. Len(accepted') = Len(accepted) + 1
      BY <1>0, <1>2 DEF WriterInv
    <2>3. TeeInOrder'
      <3>1. broadcast \o InHand \o Append(queue, next)
              = Append(broadcast \o InHand \o queue, next)
        BY <1>0, <1>1, PushSplit DEF WriterInv
      <3> QED BY <1>1, <1>2, <3>1 DEF WriterInv, TeeInOrder
    <2>4. Len(accepted) \in Nat
      BY DEF WriterInv
    <2> QED BY <1>0, <2>1, <2>2, <2>3, <2>4 DEF WriterInv
  <1>3. CASE UNCHANGED <<queue, accepted>>
    BY <1>0, <1>1, <1>3 DEF WriterInv, TeeInOrder
  <1> QED BY <1>2, <1>3 DEF Submit, Ring!Accept, Ring!Refuse

\* A TryPop that finds a record takes it in hand; one that finds none, in
\* the drain, leaves nothing accepted that was not broadcast.
LEMMA PopStep ==
  ASSUME WriterInv, NEW from, NEW some, NEW none,
         Pop(from, some, none),
         \/ from = "pop" /\ some = "broadcast" /\ none = "check"
         \/ from = "drainPop" /\ some = "drainBroadcast" /\ none = "exited"
  PROVE  WriterInv'
  <1>1. /\ loop = from
        /\ UNCHANGED <<next, accepted, running, broadcast, stop, owed>>
    BY DEF Pop, LoopGoto, stopVars
  <1>2. InHand = <<>>
    BY <1>1 DEF InHand
  <1>3. CASE queue # <<>>
    <2>1. /\ queue = <<Head(queue)>> \o Tail(queue)
          /\ Head(queue) \in Record /\ Tail(queue) \in Seq(Record)
      BY <1>3, TakeHead DEF WriterInv
    <2>2. loop' = some /\ rec' = Head(queue) /\ queue' = Tail(queue)
      BY <1>3 DEF Pop, LoopGoto, Ring!Take
    <2>3. InHand' = <<Head(queue)>>
      BY <2>2 DEF InHand
    <2>4. TeeInOrder'
      BY <1>1, <1>2, <2>1, <2>2, <2>3 DEF WriterInv, TeeInOrder
    <2> QED BY <1>1, <2>1, <2>2, <2>4 DEF WriterInv, Draining
  <1>4. CASE queue = <<>>
    <2>1. loop' = none /\ UNCHANGED <<queue, rec>>
      BY <1>4 DEF Pop, LoopGoto
    <2>2. broadcast = accepted
      BY <1>2, <1>4 DEF WriterInv, TeeInOrder
    <2>3. InHand' = <<>>
      BY <2>1 DEF InHand
    <2>4. TeeInOrder'
      BY <1>1, <1>2, <2>1, <2>3 DEF WriterInv, TeeInOrder
    <2> QED BY <1>1, <2>1, <2>2, <2>4 DEF WriterInv, Draining
  <1> QED BY <1>3, <1>4

\* Broadcast moves the record in hand to the end of what was broadcast.
LEMMA BroadcastStep ==
  ASSUME WriterInv, NEW from, NEW to,
         Broadcast(from, to),
         \/ from = "broadcast" /\ to = "append"
         \/ from = "drainBroadcast" /\ to = "drainAppend"
  PROVE  WriterInv'
  <1>1. /\ loop = from /\ loop' = to
        /\ broadcast' = Append(broadcast, rec)
        /\ UNCHANGED <<queue, next, accepted, running, rec, stop, owed>>
    BY DEF Broadcast, LoopGoto, stopVars, ringVars
  <1>2. rec \in Record
    BY <1>1 DEF WriterInv
  <1>3. InHand = <<rec>> /\ InHand' = <<>>
    BY <1>1 DEF InHand
  <1>4. broadcast' \in Seq(Record)
    BY <1>1, <1>2 DEF WriterInv
  <1>5. TeeInOrder'
    BY <1>1, <1>2, <1>3 DEF WriterInv, TeeInOrder
  <1> QED BY <1>1, <1>2, <1>4, <1>5 DEF WriterInv, Draining

\* The other steps of Loop move it between places where it has no record.
LEMMA CheckStep ==
  ASSUME WriterInv, CheckRunning
  PROVE  WriterInv'
  <1>1. /\ loop = "check" /\ loop' = IF running THEN "pop" ELSE "drainPop"
        /\ UNCHANGED <<queue, next, accepted, running, rec, broadcast, stop, owed>>
    BY DEF CheckRunning, LoopGoto, stopVars, ringVars
  <1> QED BY <1>1 DEF WriterInv, TeeInOrder, InHand, Draining

\* The record in hand stays in hand while the recorder takes it.
LEMMA AppendStep ==
  ASSUME WriterInv, NEW from, NEW to,
         AppendToRecorder(from, to),
         \/ from = "append" /\ to = "check"
         \/ from = "drainAppend" /\ to = "drainPop"
  PROVE  WriterInv'
  <1>1. /\ loop = from /\ loop' = to
        /\ UNCHANGED <<queue, next, accepted, running, broadcast, stop, owed>>
    BY DEF AppendToRecorder, LoopGoto, stopVars, ringVars
  <1> QED BY <1>1 DEF WriterInv, TeeInOrder, InHand, Draining

\* Loop pops a record, then broadcasts and appends it.
LEMMA LoopStep ==
  ASSUME WriterInv, Loop
  PROVE  WriterInv'
  <1>1. CASE CheckRunning
    BY <1>1, CheckStep
  <1>2. CASE Pop("pop", "broadcast", "check")
    BY <1>2, PopStep
  <1>3. CASE Broadcast("broadcast", "append")
    BY <1>3, BroadcastStep
  <1>4. CASE AppendToRecorder("append", "check")
    BY <1>4, AppendStep
  <1>5. CASE Drain
    <2>1. CASE Pop("drainPop", "drainBroadcast", "exited")
      BY <2>1, PopStep
    <2>2. CASE Broadcast("drainBroadcast", "drainAppend")
      BY <2>2, BroadcastStep
    <2>3. CASE AppendToRecorder("drainAppend", "drainPop")
      BY <2>3, AppendStep
    <2> QED BY <1>5, <2>1, <2>2, <2>3 DEF Drain
  <1> QED BY <1>1, <1>2, <1>3, <1>4, <1>5 DEF Loop

\* Stop clears _running, and owes what was accepted until then.
LEMMA StopStep ==
  ASSUME WriterInv, StopBegin \/ StopJoins
  PROVE  WriterInv'
  <1>1. CASE StopBegin
    <2>1. /\ stop = "idle" /\ stop' = "joining" /\ running' = FALSE
          /\ owed' = Len(accepted)
          /\ UNCHANGED <<queue, next, accepted, loop, rec, broadcast>>
      BY <1>1 DEF StopBegin, ringVars
    <2>2. loop \notin Draining \union {"exited"}
      BY <2>1 DEF WriterInv
    <2>3. Len(accepted) \in Nat
      BY DEF WriterInv
    <2> QED BY <2>1, <2>2, <2>3 DEF WriterInv, TeeInOrder, InHand, Draining
  <1>2. CASE StopJoins
    <2>1. /\ loop = "exited" /\ stop' = "done"
          /\ UNCHANGED <<queue, next, accepted, running, loop, rec, broadcast, owed>>
      BY <1>2 DEF StopJoins, ringVars, threadVars
    <2> QED BY <2>1 DEF WriterInv, TeeInOrder, InHand
  <1> QED BY <1>1, <1>2

\* Every step keeps WriterInv.
LEMMA NextStep ==
  ASSUME WriterInv, [Next]_vars
  PROVE  WriterInv'
  <1>1. CASE Loading
    BY <1>1, StutterStep
    DEF Loading, LoadRecorder, AttachRecorder, InstallHandler, coreVars,
        ringVars, threadVars, stopVars
  <1>2. CASE SubmitSample
    BY <1>2, SubmitStep DEF SubmitSample, threadVars, stopVars
  <1>3. CASE Loop
    BY <1>3, LoopStep
  <1>4. CASE StopBegin \/ StopJoins
    BY <1>4, StopStep
  <1>5. CASE Handler
    <2>1. CASE HandlerSubmits
      BY <2>1, SubmitStep DEF HandlerSubmits, threadVars, stopVars
    <2>2. CASE Fault \/ HandlerRotates \/ Resume
      BY <2>2, StutterStep
      DEF Fault, HandlerRotates, Resume, coreVars, ringVars, threadVars, stopVars
    <2> QED BY <1>5, <2>1, <2>2 DEF Handler
  <1>6. CASE SaveSession
    BY <1>6, StutterStep DEF SaveSession, coreVars, ringVars, threadVars, stopVars
  <1>7. CASE Tick
    BY <1>7, StutterStep DEF Tick, Recorder!Tick, coreVars, threadVars, stopVars
  <1>8. CASE UNCHANGED vars
    BY <1>8, StutterStep DEF vars, coreVars, ringVars, threadVars, stopVars
  <1> QED BY <1>1, <1>2, <1>3, <1>4, <1>5, <1>6, <1>7, <1>8 DEF Next

(***************************************************************************)
(* The invariant of Loop and Stop holds, whatever the capacity of the ring *)
(* and however the producers, the writer thread, Stop, the crash handler   *)
(* and the recorder interleave.                                            *)
(***************************************************************************)
THEOREM WriterInvariant == Spec => []WriterInv
  <1>1. Init => WriterInv
    BY InitInv
  <1>2. WriterInv /\ [Next]_vars => WriterInv'
    BY NextStep
  <1> QED BY <1>1, <1>2, PTL DEF Spec

(***************************************************************************)
(* From Submit to Broadcast no record the ring accepted is lost,           *)
(* duplicated or reordered.                                                *)
(***************************************************************************)
THEOREM TeeOrdered == Spec => []TeeInOrder
  <1>1. WriterInv => TeeInOrder
    BY DEF WriterInv
  <1> QED BY <1>1, WriterInvariant, PTL

(***************************************************************************)
(* When Stop returns, every record accepted before it was called has been  *)
(* broadcast: Loop's drain.                                                *)
(***************************************************************************)
THEOREM StopDrains == Spec => []DrainedOnStop
  <1>1. WriterInv => DrainedOnStop
    BY DEF WriterInv, DrainedOnStop
  <1> QED BY <1>1, WriterInvariant, PTL

-----------------------------------------------------------------------------
(* The recorder that RollingRecorderProofs is about is this one.           *)

\* What RollingRecorderProofs proves is of this module's recorder.
LEMMA SameRecorder ==
  /\ Recorder!Start <=> R!Start
  /\ Recorder!RotateNow <=> R!RotateNow
  /\ \A r : Recorder!AppendRecord(r) <=> R!AppendRecord(r)
  /\ \A n : Recorder!PinCurrent(n) <=> R!PinCurrent(n)
<1>1. Recorder!State = R!State /\ (Recorder!Expired <=> R!Expired) /\ Recorder!Time = R!Time
  BY DEF Recorder!State, R!State, Recorder!Expired, R!Expired, Recorder!Time, R!Time
<1>2. \A st : Recorder!Become(st) <=> R!Become(st)
  BY DEF Recorder!Become, R!Become
<1>3. \A s : Recorder!Newest(s) = R!Newest(s) /\ Recorder!Oldest(s) = R!Oldest(s)
  BY DEF Recorder!Newest, R!Newest, Recorder!Oldest, R!Oldest
<1>4. \A st : Recorder!PruneOldFiles(st) = R!PruneOldFiles(st)
  <2> TAKE st
  <2> DEFINE a == [st.file EXCEPT !.rotated = Recorder!Newest(@)]
             b == [st.file EXCEPT !.rotated = R!Newest(@)]
             c == [t \in Recorder!Time |-> IF t \in Recorder!ToSet(Recorder!Oldest(st.file.rotated))
                                             THEN Absent ELSE st.disk[t]]
             d == [t \in R!Time |-> IF t \in R!ToSet(R!Oldest(st.file.rotated))
                                      THEN Absent ELSE st.disk[t]]
             e == [st.history EXCEPT !.closed = Recorder!Newest(@)]
             f == [st.history EXCEPT !.closed = R!Newest(@)]
  <2>1. a = b /\ e = f
    BY <1>3
  <2>2. c = d
    BY <1>1, <1>3, Zenon DEF Recorder!ToSet, R!ToSet
  <2>3. Recorder!PruneOldFiles(st) = [file |-> a, disk |-> c, history |-> e]
    BY Zenon DEF Recorder!PruneOldFiles
  <2>4. R!PruneOldFiles(st) = [file |-> b, disk |-> d, history |-> f]
    BY Zenon DEF R!PruneOldFiles
  <2> HIDE DEF a, b, c, d, e, f
  <2> QED BY <2>1, <2>2, <2>3, <2>4
<1>5. \A st : Recorder!CloseCurrent(st) = R!CloseCurrent(st)
  BY <1>4, Zenon DEF Recorder!CloseCurrent, R!CloseCurrent
<1>6. \A st : Recorder!OpenNewFile(st) = R!OpenNewFile(st)
  BY DEF Recorder!OpenNewFile, R!OpenNewFile
<1>7. \A st, r : Recorder!Write(st, r) = R!Write(st, r)
  BY <1>5, Zenon DEF Recorder!Write, R!Write
<1>8. Recorder!Start <=> R!Start
  BY <1>1, <1>2, <1>6, Zenon DEF Recorder!Start, R!Start
<1>9. Recorder!RotateNow <=> R!RotateNow
  BY <1>1, <1>2, <1>5, <1>6, Zenon DEF Recorder!RotateNow, R!RotateNow
<1>10. \A r : Recorder!AppendRecord(r) <=> R!AppendRecord(r)
  BY <1>1, <1>2, <1>5, <1>6, <1>7, Zenon DEF Recorder!AppendRecord, R!AppendRecord
<1>11. \A n : Recorder!PinCurrent(n) <=> R!PinCurrent(n)
  BY <1>1, <1>2, <1>5, <1>6, <1>7, Zenon DEF Recorder!PinCurrent, R!PinCurrent
<1> QED BY <1>8, <1>9, <1>10, <1>11

\* Its constants are as that module assumes.
LEMMA RecorderAssumed == R!RecorderAssumption
BY RecorderIsAssumed DEF Recorder!RecorderAssumption, R!RecorderAssumption

-----------------------------------------------------------------------------
(* Files as runs of the broadcast records.                                 *)

Content == Seq(Record)

(***************************************************************************)
(* Runs of a sequence b, up to its n-th record.                            *)
(***************************************************************************)
RunTo(s, b, n) == \E i, j \in 0 .. n : s = SubSeq(b, i + 1, j)

\* A run that ends with the n-th, so that the next one continues it.
RunUpTo(s, b, n) == s = <<>> \/ \E i \in 0 .. n : s = SubSeq(b, i + 1, n)

Above(s, t) == \A k \in DOMAIN s, l \in DOMAIN t : s[k] > t[l]

\* Files, the newest first: runs, each after the ones that follow it.
Runs(fs, b, n) ==
  /\ \A i \in DOMAIN fs : RunTo(fs[i], b, n)
  /\ \A i, j \in DOMAIN fs : i < j => Above(fs[i], fs[j])

Increasing(b) == \A i, j \in DOMAIN b : i < j => b[i] < b[j]

\* The empty file is a run of anything.
LEMMA EmptyRun ==
  ASSUME NEW b \in Content, NEW n \in Nat
  PROVE  RunTo(<<>>, b, n)
<1>1. SubSeq(b, 0 + 1, 0) = <<>> /\ 0 \in 0 .. n
  OBVIOUS
<1> QED BY <1>1 DEF RunTo

\* A run stays one when more is broadcast.
LEMMA RunGrows ==
  ASSUME NEW b \in Content, NEW x \in Record, NEW n \in 0 .. Len(b), NEW s,
         RunTo(s, b, n)
  PROVE  RunTo(s, Append(b, x), n)
<1>1. PICK i \in 0 .. n, j \in 0 .. n : s = SubSeq(b, i + 1, j)
  BY DEF RunTo
<1>2. SubSeq(Append(b, x), i + 1, j) = SubSeq(b, i + 1, j)
  BY DEF Content
<1> QED BY <1>1, <1>2 DEF RunTo

\* A run of the first n records is one of more.
LEMMA RunWidens ==
  ASSUME NEW b, NEW n \in Nat, NEW m \in Nat, n <= m, NEW s, RunTo(s, b, n)
  PROVE  RunTo(s, b, m)
<1>1. PICK i \in 0 .. n, j \in 0 .. n : s = SubSeq(b, i + 1, j)
  BY DEF RunTo
<1>2. i \in 0 .. m /\ j \in 0 .. m
  OBVIOUS
<1> QED BY <1>1, <1>2 DEF RunTo

\* So does a run that ends with the n-th record.
LEMMA RunUpToGrows ==
  ASSUME NEW b \in Content, NEW x \in Record, NEW n \in 0 .. Len(b), NEW s,
         RunUpTo(s, b, n)
  PROVE  RunUpTo(s, Append(b, x), n)
<1>1. ASSUME NEW i \in 0 .. n, s = SubSeq(b, i + 1, n)
      PROVE  SubSeq(Append(b, x), i + 1, n) = SubSeq(b, i + 1, n)
  BY DEF Content
<1> QED BY <1>1 DEF RunUpTo

\* The next record continues a run that ends with the n-th.
LEMMA RunExtends ==
  ASSUME NEW b \in Content, NEW n \in Nat, n < Len(b), NEW s,
         RunUpTo(s, b, n)
  PROVE  RunUpTo(Append(s, b[n + 1]), b, n + 1)
<1>1. CASE s = <<>>
  <2>1. Append(<<>>, b[n + 1]) = SubSeq(b, n + 1, n + 1)
    BY DEF Content
  <2> QED BY <1>1, <2>1 DEF RunUpTo
<1>2. CASE \E i \in 0 .. n : s = SubSeq(b, i + 1, n)
  <2>1. PICK i \in 0 .. n : s = SubSeq(b, i + 1, n)
    BY <1>2
  <2>2. Append(SubSeq(b, i + 1, n), b[n + 1]) = SubSeq(b, i + 1, n + 1)
    BY DEF Content
  <2>3. i \in 0 .. n + 1
    OBVIOUS
  <2> QED BY <2>1, <2>2, <2>3 DEF RunUpTo
<1> QED BY <1>1, <1>2 DEF RunUpTo

\* A run that ends with the n-th record is a run.
LEMMA UpToIsTo ==
  ASSUME NEW b \in Content, NEW n \in Nat, NEW s, RunUpTo(s, b, n)
  PROVE  RunTo(s, b, n)
<1>1. n \in 0 .. n
  OBVIOUS
<1> QED BY <1>1, EmptyRun DEF RunTo, RunUpTo

\* The records of a run are among the first n.
LEMMA RunOfFirst ==
  ASSUME NEW b \in Content, NEW n \in 0 .. Len(b), NEW s, RunTo(s, b, n), NEW k \in DOMAIN s
  PROVE  \E m \in 1 .. n : s[k] = b[m]
<1>1. PICK i \in 0 .. n, j \in 0 .. n : s = SubSeq(b, i + 1, j)
  BY DEF RunTo
<1>2. CASE i < j
  <2>1. k \in 1 .. j - i /\ s[k] = b[i + k]
    BY <1>1, <1>2 DEF Content
  <2>2. i + k \in 1 .. n
    BY <2>1
  <2> QED BY <2>1, <2>2
<1>3. CASE i >= j
  <2>1. s = <<>>
    BY <1>1, <1>3 DEF Content
  <2>2. DOMAIN <<>> = {}
    OBVIOUS
  <2> QED BY <2>1, <2>2
<1> QED BY <1>2, <1>3

\* The first files of a list are runs like the whole list.
LEMMA RunsBegin ==
  ASSUME NEW b, NEW n, NEW fs, Runs(fs, b, n), NEW gs, R!FirstOf(gs, fs)
  PROVE  Runs(gs, b, n)
BY DEF Runs, R!FirstOf

\* A new file, with nothing in it.
LEMMA RunsOpen ==
  ASSUME NEW b \in Content, NEW n \in Nat, NEW fs \in Seq(Content), Runs(fs, b, n)
  PROVE  Runs(<< <<>> >> \o fs, b, n)
<1> DEFINE gs == << <<>> >> \o fs
<1>1. /\ DOMAIN gs = 1 .. Len(fs) + 1 /\ gs[1] = <<>>
      /\ \A i \in DOMAIN fs : gs[i + 1] = fs[i]
      /\ DOMAIN fs = 1 .. Len(fs) /\ Len(fs) \in Nat
  OBVIOUS
<1> HIDE DEF gs
<1>2. \A i \in DOMAIN gs : i = 1 \/ (i - 1 \in DOMAIN fs /\ gs[i] = fs[i - 1])
  <2> SUFFICES ASSUME NEW i \in DOMAIN gs, i # 1
               PROVE  i - 1 \in DOMAIN fs /\ gs[i] = fs[i - 1]
    OBVIOUS
  <2>1. i - 1 \in DOMAIN fs /\ (i - 1) + 1 = i
    BY <1>1
  <2> QED BY <1>1, <2>1
<1>3. ASSUME NEW i \in DOMAIN gs
      PROVE  RunTo(gs[i], b, n)
  BY <1>1, <1>2, EmptyRun DEF Runs
<1>4. ASSUME NEW i \in DOMAIN gs, NEW j \in DOMAIN gs, i < j
      PROVE  Above(gs[i], gs[j])
  <2>1. j # 1
    BY <1>1, <1>4
  <2>2. CASE i = 1
    <3>1. DOMAIN <<>> = {}
      OBVIOUS
    <3> QED BY <1>1, <2>2, <3>1 DEF Above
  <2>3. CASE i # 1
    <3>1. i - 1 < j - 1
      BY <1>1, <1>4
    <3> QED BY <1>2, <2>1, <2>3, <3>1 DEF Runs
  <2> QED BY <2>2, <2>3
<1> QED BY <1>3, <1>4 DEF Runs, gs

\* The next record, written to the newest file.
LEMMA RunsExtend ==
  ASSUME NEW b \in Content, Increasing(b), NEW n \in Nat, n < Len(b),
         NEW s \in Content, NEW fs \in Seq(Content), Runs(<<s>> \o fs, b, n),
         RunUpTo(s, b, n)
  PROVE  Runs(<<Append(s, b[n + 1])>> \o fs, b, n + 1)
<1> DEFINE old == <<s>> \o fs
           x == b[n + 1]
           more == Append(s, x)
           new == <<more>> \o fs
<1>1. x \in Record /\ more \in Content
  BY DEF Content
<1>2. /\ DOMAIN old = 1 .. Len(fs) + 1 /\ DOMAIN new = 1 .. Len(fs) + 1
      /\ old[1] = s /\ new[1] = more /\ Len(fs) \in Nat
      /\ \A i \in 2 .. Len(fs) + 1 : old[i] = fs[i - 1] /\ new[i] = fs[i - 1]
  BY <1>1
<1>3. RunUpTo(more, b, n + 1)
  BY RunExtends
<1>4. /\ DOMAIN more = 1 .. Len(s) + 1 /\ DOMAIN s = 1 .. Len(s) /\ Len(s) \in Nat
      /\ \A k \in DOMAIN s : more[k] = s[k]
      /\ more[Len(s) + 1] = x
  BY <1>1 DEF Content
<1>5. n \in 0 .. Len(b) /\ n + 1 \in n .. Len(b) /\ n + 1 \in Nat
  BY DEF Content
<1>6. \A m \in 1 .. n : b[m] < x
  <2> TAKE m \in 1 .. n
  <2>1. m \in DOMAIN b /\ n + 1 \in DOMAIN b /\ m < n + 1
    BY DEF Content
  <2> QED BY <2>1 DEF Increasing
<1> HIDE DEF old, new, more, x
<1>7. Runs(old, b, n)
  BY DEF old
<1>8. ASSUME NEW i \in DOMAIN new
      PROVE  RunTo(new[i], b, n + 1)
  <2>1. CASE i = 1
    BY <1>2, <1>3, <1>5, <2>1, UpToIsTo
  <2>2. CASE i # 1
    <3>1. i \in DOMAIN old /\ new[i] = old[i]
      BY <1>2, <2>2
    <3>2. RunTo(old[i], b, n)
      BY <1>7, <3>1 DEF Runs
    <3>3. n <= n + 1
      OBVIOUS
    <3> QED BY <1>5, <3>1, <3>2, <3>3, RunWidens
  <2> QED BY <2>1, <2>2
<1>9. ASSUME NEW i \in DOMAIN new, NEW j \in DOMAIN new, i < j
      PROVE  Above(new[i], new[j])
  <2>1. j # 1 /\ j \in DOMAIN old /\ new[j] = old[j]
    BY <1>2, <1>9
  <2>2. CASE i # 1
    <3>1. i \in DOMAIN old /\ new[i] = old[i]
      BY <1>2, <2>2
    <3> QED BY <1>7, <1>9, <2>1, <3>1 DEF Runs
  <2>3. CASE i = 1
    <3>1. Above(s, old[j]) /\ RunTo(old[j], b, n)
      BY <1>2, <1>7, <1>9, <2>1, <2>3 DEF Runs
    <3>2. ASSUME NEW k \in DOMAIN more, NEW l \in DOMAIN old[j]
          PROVE  more[k] > old[j][l]
      <4>1. CASE k \in DOMAIN s
        BY <1>4, <3>1, <4>1 DEF Above
      <4>2. CASE k \notin DOMAIN s
        <5>1. k = Len(s) + 1
          BY <1>4, <4>2
        <5>2. PICK m \in 1 .. n : old[j][l] = b[m]
          BY <1>5, <3>1, RunOfFirst
        <5>3. b[m] < x
          BY <1>6
        <5>4. b[m] \in Record /\ x \in Record
          BY <1>1, <1>5 DEF Content
        <5>5. b[m] \in Nat /\ x \in Nat
          BY <5>4, WriterAssumption DEF Record, WriterAssumption
        <5> QED BY <1>4, <5>1, <5>2, <5>3, <5>5
      <4> QED BY <4>1, <4>2
    <3> QED BY <1>2, <2>1, <2>3, <3>2 DEF Above
  <2> QED BY <2>2, <2>3
<1> QED BY <1>8, <1>9 DEF Runs, new, more, x

\* More has been broadcast.
LEMMA RunsGrow ==
  ASSUME NEW b \in Content, NEW x \in Record, NEW n \in 0 .. Len(b), NEW fs, Runs(fs, b, n)
  PROVE  Runs(fs, Append(b, x), n)
BY RunGrows DEF Runs

\* Files of the first n records are files of more.
LEMMA RunsWiden ==
  ASSUME NEW b, NEW n \in Nat, NEW m \in Nat, n <= m, NEW fs, Runs(fs, b, n)
  PROVE  Runs(fs, b, m)
BY RunWidens DEF Runs

-----------------------------------------------------------------------------
(* What the recorder holds of the broadcast records.                       *)

Holds(st, b, n) ==
  /\ st.file.gz => RunUpTo(st.file.buf, b, n)
  /\ Runs(R!FilesOf(st), b, n)

\* Types of the parts of a state that these proofs name.
LEMMA PartTypes ==
  ASSUME NEW st, R!Whole(st)
  PROVE  /\ st \in R!States /\ st.file.gz \in BOOLEAN /\ st.file.buf \in Content
         /\ st.history.closed \in Seq(Content) /\ R!FilesOf(st) \in Seq(Content)
BY R!StateTypes, R!FilesType DEF R!Whole, R!Sound, R!Content, Content, R!Record, Record

\* CloseCurrent leaves runs on the list.
LEMMA CloseHolds ==
  ASSUME NEW st, R!Whole(st), NEW b, NEW n, Holds(st, b, n)
  PROVE  Holds(R!CloseCurrent(st), b, n)
<1>1. R!CloseCurrent(st).file.gz = FALSE
  BY RecorderAssumed, R!CloseSound
<1>2. R!FirstOf(R!FilesOf(R!CloseCurrent(st)), R!FilesOf(st))
  BY RecorderAssumed, R!CloseFiles
<1> QED BY <1>1, <1>2, RunsBegin DEF Holds

\* OpenNewFile starts the list with an empty file, or leaves it.
LEMMA OpenHolds ==
  ASSUME NEW st, R!Whole(st), ~st.file.gz, NEW b \in Content, NEW n \in Nat, Holds(st, b, n),
         NEW op \in R!OpenNewFile(st)
  PROVE  Holds(op, b, n) /\ op.file.buf = <<>>
<1>1. R!FilesOf(op) \in {R!FilesOf(st), << <<>> >> \o R!FilesOf(st)} /\ op.file.buf = <<>>
  BY PartTypes, R!OpenFiles
<1>2. Runs(R!FilesOf(op), b, n)
  BY <1>1, PartTypes, RunsOpen DEF Holds
<1> QED BY <1>1, <1>2 DEF Holds, RunUpTo

\* Write puts the next record at the end of the open file, or closes it.
LEMMA WriteHolds ==
  ASSUME NEW st, R!Whole(st), st.file.gz, NEW b \in Content, Increasing(b),
         NEW n \in Nat, n < Len(b), Holds(st, b, n),
         NEW w \in R!Write(st, b[n + 1])
  PROVE  Holds(w, b, n + 1)
<1>1. CASE w = R!CloseCurrent(st)
  <2>1. Holds(w, b, n)
    BY <1>1, CloseHolds
  <2>2. w.file.gz = FALSE
    BY <1>1, RecorderAssumed, R!CloseSound
  <2>3. n + 1 \in Nat /\ n <= n + 1
    OBVIOUS
  <2> QED BY <2>1, <2>2, <2>3, RunsWiden DEF Holds
<1>2. CASE w # R!CloseCurrent(st)
  <2>1. w.file.gz = st.file.gz /\ w.file.buf = Append(st.file.buf, b[n + 1])
        /\ w.history = st.history
    <3> DEFINE x == b[n + 1]
    <3>1. st \in R!States /\ w \in R!Write(st, x)
      BY PartTypes
    <3> HIDE DEF x
    <3>2. /\ w.history = st.history /\ w.file.gz = st.file.gz
          /\ w.file.buf = Append(st.file.buf, x)
      BY <1>2, <3>1, R!WriteFiles
    <3> QED BY <3>2 DEF x
  <2>2. /\ R!FilesOf(st) = <<st.file.buf>> \o st.history.closed
        /\ R!FilesOf(w) = <<Append(st.file.buf, b[n + 1])>> \o st.history.closed
    BY <2>1 DEF R!FilesOf
  <2>3. Runs(R!FilesOf(w), b, n + 1)
    BY <2>2, PartTypes, RunsExtend DEF Holds
  <2>4. RunUpTo(w.file.buf, b, n + 1)
    BY <2>1, RunExtends DEF Holds
  <2> QED BY <2>3, <2>4 DEF Holds
<1> QED BY <1>1, <1>2

\* More is broadcast, or a record is left out while nothing is open.
LEMMA HoldsOn ==
  ASSUME NEW st, NEW b \in Content, NEW n \in 0 .. Len(b), Holds(st, b, n)
  PROVE  /\ \A x \in Record : Holds(st, Append(b, x), n)
         /\ \A m \in n .. Len(b) : (st.file.gz => st.file.buf = <<>>) => Holds(st, b, m)
<1>1. ASSUME NEW x \in Record
      PROVE  Holds(st, Append(b, x), n)
  BY RunsGrow, RunUpToGrows DEF Holds
<1>2. ASSUME NEW m \in n .. Len(b), st.file.gz => st.file.buf = <<>>
      PROVE  Holds(st, b, m)
  <2>1. n \in Nat /\ m \in Nat /\ n <= m
    BY DEF Content
  <2>2. Runs(R!FilesOf(st), b, m)
    BY <2>1, RunsWiden DEF Holds
  <2> QED BY <1>2, <2>2 DEF Holds, RunUpTo
<1> QED BY <1>1, <1>2

-----------------------------------------------------------------------------
(***************************************************************************)
(* Why every file is a run: the records reach the recorder in the order in *)
(* which they were broadcast, one by one, and the open file ends with the  *)
(* last of them.  While the thread is about to append, the last broadcast  *)
(* record is the one it has in hand.                                       *)
(***************************************************************************)
Appending == {"append", "drainAppend"}
Recorded == IF loop \in Appending THEN Len(broadcast) - 1 ELSE Len(broadcast)

FilesInv ==
  /\ WriterInv
  /\ R!RecorderInv
  /\ Increasing(accepted) /\ \A i \in DOMAIN accepted : accepted[i] < next
  /\ loop \in Appending => broadcast # <<>> /\ rec = broadcast[Len(broadcast)]
  /\ file.gz => file.buf = <<>> \/ attached
  /\ Holds(R!State, broadcast, Recorded)
  /\ \A p \in R!Pin : pins[p] # Absent => RunTo(pins[p], broadcast, Recorded)

\* The number recorded is a number of broadcast records.
LEMMA RecordedIs ==
  ASSUME FilesInv
  PROVE  /\ broadcast \in Content /\ Len(broadcast) \in Nat
         /\ Recorded \in 0 .. Len(broadcast) /\ Recorded \in Nat
         /\ Increasing(broadcast)
<1>1. broadcast \in Content /\ Len(broadcast) \in Nat
  BY DEF FilesInv, WriterInv, Content
<1>2. broadcast # <<>> => Len(broadcast) > 0
  BY <1>1 DEF Content
<1>3. Recorded \in 0 .. Len(broadcast) /\ Recorded \in Nat
  BY <1>1, <1>2 DEF FilesInv, Recorded
<1>4. Increasing(broadcast)
  <2>1. InHand \in Seq(Record) /\ queue \in Seq(Record)
    BY DEF FilesInv, WriterInv, InHand
  <2>2. /\ DOMAIN broadcast \subseteq DOMAIN (broadcast \o InHand \o queue)
        /\ \A i \in DOMAIN broadcast : (broadcast \o InHand \o queue)[i] = broadcast[i]
    BY <1>1, <2>1 DEF Content
  <2>3. broadcast \o InHand \o queue = accepted
    BY DEF FilesInv, WriterInv, TeeInOrder
  <2> QED BY <2>2, <2>3 DEF Increasing, FilesInv
<1> QED BY <1>1, <1>3, <1>4

\* What FilesInv says of the recorder.
LEMMA RecorderNow ==
  ASSUME FilesInv
  PROVE  /\ R!State.file = file /\ R!State.disk = disk /\ R!State.history = history
         /\ R!Whole(R!State) /\ R!State \in R!States
         /\ file.gz \in BOOLEAN /\ file.buf \in Content /\ file.current \in R!Time
         /\ now \in R!Time
         /\ recording \in BOOLEAN /\ (~recording => ~file.gz)
<1>1. R!State.file = file /\ R!State.disk = disk /\ R!State.history = history
  BY DEF R!State
<1>2. /\ R!Whole(R!State) /\ recording \in BOOLEAN /\ (~recording => ~file.gz)
      /\ now \in R!Time
  BY DEF FilesInv, R!RecorderInv
<1>3. R!State \in R!States /\ file.gz \in BOOLEAN /\ file.buf \in Content
  BY <1>1, <1>2, PartTypes
<1>4. file.current \in R!Time
  BY <1>1, <1>3, R!StateTypes
<1> QED BY <1>1, <1>2, <1>3, <1>4

\* An action that changes nothing of this but the clock, or who is where.
LEMMA FilesStutter ==
  ASSUME FilesInv, WriterInv', R!RecorderInv',
         UNCHANGED <<accepted, next, broadcast, file, disk, pins, history>>,
         loop \in Appending => UNCHANGED <<loop, rec>>,
         loop' \in Appending => UNCHANGED loop,
         attached => attached'
  PROVE  FilesInv'
<1>1. Recorded' = Recorded
  BY DEF Recorded
<1>2. R!State' = R!State
  BY DEF R!State
<1>3. Holds(R!State, broadcast, Recorded)'
  BY <1>1, <1>2 DEF FilesInv, Holds, R!FilesOf
<1>4. \A p \in R!Pin : pins'[p] # Absent => RunTo(pins'[p], broadcast', Recorded')
  BY <1>1 DEF FilesInv
<1>5. (loop \in Appending => broadcast # <<>> /\ rec = broadcast[Len(broadcast)])'
  BY DEF FilesInv
<1> QED BY <1>3, <1>4, <1>5 DEF FilesInv, Increasing, RunTo, R!Pin, R!Time

\* A file is closed and another one opened, or could not be.
LEMMA FilesReopen ==
  ASSUME FilesInv, WriterInv', R!RecorderInv',
         UNCHANGED <<accepted, next, broadcast, loop, rec, attached>>,
         NEW op \in R!OpenNewFile(R!CloseCurrent(R!State)), R!Become(op),
         \A p \in R!Pin : pins'[p] \in {pins[p], file.buf, Absent},
         \A p \in R!Pin : pins'[p] # pins[p] => file.gz
  PROVE  FilesInv'
<1> DEFINE n == Recorded
           b == broadcast
<1>1. /\ b \in Content /\ n \in Nat /\ R!Whole(R!State) /\ R!State.file = file
      /\ Holds(R!State, b, n)
  BY RecordedIs, RecorderNow DEF FilesInv
<1>2. R!Whole(R!CloseCurrent(R!State)) /\ R!CloseCurrent(R!State).file.gz = FALSE
  BY <1>1, RecorderAssumed, R!CloseSound
<1>3. Holds(R!CloseCurrent(R!State), b, n)
  BY <1>1, CloseHolds
<1> HIDE DEF n, b
<1>4. Holds(op, b, n) /\ op.file.buf = <<>>
  BY <1>1, <1>2, <1>3, OpenHolds
<1>5. R!State' = op /\ file' = op.file
  <2>1. R!Whole(op)
    <3>1. now \in R!Time
      BY RecorderNow
    <3> QED BY <1>2, <3>1, R!OpenSound
  <2>2. op \in R!States
    BY <2>1, PartTypes
  <2> QED BY <2>2, R!BecomeIs DEF R!Become
<1>6. Recorded' = n /\ broadcast' = b
  BY DEF Recorded, n, b
<1>7. ASSUME NEW p \in R!Pin, pins'[p] # Absent
      PROVE  RunTo(pins'[p], b, n)
  <2>1. CASE pins'[p] = pins[p]
    BY <1>7, <2>1 DEF FilesInv, b, n
  <2>2. CASE pins'[p] # pins[p]
    <3>1. pins'[p] = file.buf /\ file.gz
      BY <1>7, <2>2
    <3>2. RunUpTo(file.buf, b, n)
      BY <1>1, <3>1 DEF Holds
    <3> QED BY <1>1, <3>1, <3>2, UpToIsTo
  <2> QED BY <2>1, <2>2
<1>8. Holds(R!State', broadcast', Recorded')
  BY <1>4, <1>5, <1>6
<1>9. file'.gz => file'.buf = <<>>
  BY <1>4, <1>5
<1>10. \A p \in R!Pin : pins'[p] # Absent => RunTo(pins'[p], broadcast', Recorded')
  BY <1>6, <1>7
<1> QED BY <1>8, <1>9, <1>10 DEF FilesInv, Increasing, R!Pin, R!Time, Holds, RunTo, Runs, RunUpTo

\* A Submit, of a record later than all the others.
LEMMA FilesSubmit ==
  ASSUME FilesInv, WriterInv', R!RecorderInv', Submit,
         UNCHANGED <<broadcast, loop, rec, attached, file, disk, pins, history>>
  PROVE  FilesInv'
<1>1. Recorded' = Recorded /\ R!State' = R!State
  BY DEF Recorded, R!State
<1>2. Holds(R!State, broadcast, Recorded)'
  BY <1>1 DEF FilesInv, Holds, R!FilesOf
<1>3. \A p \in R!Pin : pins'[p] # Absent => RunTo(pins'[p], broadcast', Recorded')
  BY <1>1 DEF FilesInv
<1>4. accepted \in Content /\ next \in Record /\ next \in Nat /\ next' = next + 1
  BY WriterAssumption DEF FilesInv, WriterInv, Content, Record, Submit, WriterAssumption
<1>5. \A i \in DOMAIN accepted : accepted[i] \in Nat
  BY <1>4, WriterAssumption DEF Content, Record, WriterAssumption
<1>6. Increasing(accepted') /\ \A i \in DOMAIN accepted' : accepted'[i] < next'
  <2>1. CASE accepted' = Append(accepted, next)
    <3>1. /\ DOMAIN accepted' = 1 .. Len(accepted) + 1 /\ DOMAIN accepted = 1 .. Len(accepted)
          /\ \A i \in DOMAIN accepted : accepted'[i] = accepted[i]
          /\ accepted'[Len(accepted) + 1] = next /\ Len(accepted) \in Nat
      BY <1>4, <2>1 DEF Content
    <3>2. \A i \in DOMAIN accepted' :
            \/ i \in DOMAIN accepted /\ accepted'[i] < next
            \/ i = Len(accepted) + 1 /\ accepted'[i] = next
      BY <3>1 DEF FilesInv
    <3>3. \A i \in DOMAIN accepted' : accepted'[i] < next'
      BY <1>4, <1>5, <3>1, <3>2
    <3>4. ASSUME NEW i \in DOMAIN accepted', NEW j \in DOMAIN accepted', i < j
          PROVE  accepted'[i] < accepted'[j]
      <4>1. i \in DOMAIN accepted
        BY <3>1, <3>4
      <4> QED BY <3>1, <3>2, <3>4, <4>1 DEF FilesInv, Increasing
    <3> QED BY <3>3, <3>4 DEF Increasing
  <2>2. CASE UNCHANGED accepted
    BY <1>4, <1>5, <2>2 DEF FilesInv, Increasing
  <2> QED BY <2>1, <2>2 DEF Submit
<1>7. (loop \in Appending => broadcast # <<>> /\ rec = broadcast[Len(broadcast)])'
  BY DEF FilesInv
<1>8. (file.gz => file.buf = <<>> \/ attached)'
  BY DEF FilesInv
<1> QED BY <1>2, <1>3, <1>6, <1>7, <1>8 DEF FilesInv, R!Pin, R!Time

\* A record is broadcast, and is the one to be appended.
LEMMA FilesBroadcast ==
  ASSUME FilesInv, WriterInv', R!RecorderInv', NEW from, NEW to, Broadcast(from, to),
         from \in {"broadcast", "drainBroadcast"}, to \in Appending
  PROVE  FilesInv'
<1>1. /\ loop = from /\ loop' = to /\ rec' = rec
      /\ broadcast' = Append(broadcast, rec)
      /\ UNCHANGED <<accepted, next, attached, file, disk, pins, history>>
  BY DEF Broadcast, LoopGoto, ringVars, recorderVars
<1>2. rec \in Record /\ loop \notin Appending
  BY <1>1 DEF FilesInv, WriterInv, Appending
<1>3. /\ broadcast \in Content /\ Len(broadcast) \in Nat /\ Recorded = Len(broadcast)
  BY <1>2, RecordedIs DEF Recorded
<1>4. /\ Len(broadcast') = Len(broadcast) + 1 /\ broadcast' # <<>>
      /\ broadcast'[Len(broadcast')] = rec
  BY <1>1, <1>2, <1>3 DEF Content
<1>5. Recorded' = Recorded /\ Recorded \in 0 .. Len(broadcast)
  BY <1>1, <1>3, <1>4 DEF Recorded
<1>6. Holds(R!State, Append(broadcast, rec), Recorded)
  BY <1>2, <1>3, <1>5, HoldsOn DEF FilesInv
<1>7. Holds(R!State, broadcast, Recorded)'
  <2>1. R!State' = R!State
    BY <1>1 DEF R!State
  <2> QED BY <1>1, <1>5, <1>6, <2>1 DEF Holds, R!FilesOf
<1>8. \A p \in R!Pin : pins[p] # Absent => RunTo(pins[p], Append(broadcast, rec), Recorded)
  BY <1>2, <1>3, <1>5, RunGrows DEF FilesInv
<1>9. (file.gz => file.buf = <<>> \/ attached)'
  BY <1>1 DEF FilesInv
<1>10. Increasing(accepted') /\ \A i \in DOMAIN accepted' : accepted'[i] < next'
  BY <1>1 DEF FilesInv
<1>11. (\A p \in R!Pin : pins[p] # Absent => RunTo(pins[p], broadcast, Recorded))'
  BY <1>1, <1>5, <1>8 DEF R!Pin, R!Time
<1>12. rec' = broadcast'[Len(broadcast')] /\ broadcast' # <<>>
  BY <1>1, <1>4
<1> QED BY <1>7, <1>9, <1>10, <1>11, <1>12 DEF FilesInv

\* The record in hand is appended, or left out when no file is open.
LEMMA FilesAppend ==
  ASSUME FilesInv, WriterInv', R!RecorderInv', NEW from, NEW to, AppendToRecorder(from, to),
         from \in Appending, to \notin Appending
  PROVE  FilesInv'
<1> DEFINE n == Recorded
           b == broadcast
<1>1. /\ loop = from /\ loop' = to
      /\ UNCHANGED <<accepted, next, broadcast, attached>>
      /\ IF attached THEN Recorder!AppendRecord(rec) ELSE UNCHANGED recorderVars
  BY DEF AppendToRecorder, LoopGoto, ringVars
<1>2. /\ b \in Content /\ Len(b) \in Nat /\ n = Len(b) - 1 /\ n \in Nat /\ n < Len(b)
      /\ n \in 0 .. Len(b) /\ n + 1 \in n .. Len(b) /\ n + 1 = Len(b) /\ n + 1 \in Nat
      /\ Increasing(b) /\ rec = b[n + 1]
  BY <1>1, RecordedIs DEF FilesInv, Recorded
<1>3. Recorded' = n + 1 /\ broadcast' = b
  BY <1>1, <1>2 DEF Recorded
<1>4. /\ R!State.file = file /\ R!Whole(R!State) /\ R!State \in R!States
      /\ Holds(R!State, b, n) /\ file.gz \in BOOLEAN
  BY RecorderNow DEF FilesInv
<1>5. \A p \in R!Pin : pins[p] # Absent => RunTo(pins[p], b, n)
  BY DEF FilesInv
<1>6. (~file.gz => Holds(R!State, b, n + 1)) /\ (~attached => Holds(R!State, b, n + 1))
  <2>1. (file.gz => file.buf = <<>>) => Holds(R!State, b, n + 1)
    <3> HIDE DEF n, b
    <3> QED BY <1>2, <1>4, HoldsOn
  <2> QED BY <1>4, <2>1 DEF FilesInv
<1> HIDE DEF n, b
<1>7. \A p \in R!Pin : pins[p] # Absent => RunTo(pins[p], b, n + 1)
  <2>1. n <= n + 1
    BY <1>2
  <2> QED BY <1>2, <1>5, <2>1, RunWidens
<1>8. /\ Holds(R!State', b, n + 1) /\ UNCHANGED pins
      /\ file'.gz => file'.buf = <<>> \/ attached
  <2>1. CASE ~attached
    <3>1. UNCHANGED <<file, disk, history, pins>>
      BY <1>1, <2>1 DEF recorderVars
    <3>2. R!State' = R!State
      BY <3>1 DEF R!State
    <3> QED BY <1>6, <2>1, <3>1, <3>2 DEF FilesInv
  <2>2. CASE attached /\ ~recording
    <3>1. UNCHANGED <<file, disk, history, pins>>
      BY <1>1, <2>2 DEF Recorder!AppendRecord
    <3>2. R!State' = R!State /\ ~file.gz
      BY <2>2, <3>1, RecorderNow DEF R!State
    <3> QED BY <1>6, <2>2, <3>1, <3>2
  <2>3. CASE attached /\ recording
    <3>1. R!AppendRecord(rec)
      BY <1>1, <2>3, SameRecorder
    <3>2. PICK st \in IF file.gz /\ R!Expired
                        THEN R!OpenNewFile(R!CloseCurrent(R!State)) ELSE {R!State} :
            \E after \in IF st.file.gz THEN R!Write(st, rec) ELSE {st} : R!Become(after)
      BY <2>3, <3>1 DEF R!AppendRecord
    <3>3. PICK after \in IF st.file.gz THEN R!Write(st, rec) ELSE {st} : R!Become(after)
      BY <3>2
    <3>4. UNCHANGED pins
      BY <3>1 DEF R!AppendRecord
    <3>5. R!Whole(st) /\ Holds(st, b, n) /\ (~st.file.gz => Holds(st, b, n + 1))
      <4>1. CASE file.gz /\ R!Expired
        <5>1. st \in R!OpenNewFile(R!CloseCurrent(R!State))
          BY <3>2, <4>1
        <5>2. /\ R!Whole(R!CloseCurrent(R!State)) /\ R!CloseCurrent(R!State).file.gz = FALSE
              /\ Holds(R!CloseCurrent(R!State), b, n)
          BY <1>4, RecorderAssumed, R!CloseSound, CloseHolds
        <5>3. Holds(st, b, n) /\ st.file.buf = <<>>
          BY <1>2, <5>1, <5>2, OpenHolds
        <5>4. R!Whole(st)
          BY <5>1, <5>2, RecorderNow, R!OpenSound
        <5>5. Holds(st, b, n + 1)
          BY <1>2, <5>3, HoldsOn
        <5> QED BY <5>3, <5>4, <5>5
      <4>2. CASE ~(file.gz /\ R!Expired)
        <5>1. st = R!State
          BY <3>2, <4>2
        <5> QED BY <1>4, <1>6, <5>1
      <4> QED BY <4>1, <4>2
    <3>6. rec \in Record
      BY <1>2 DEF Content
    <3>7. st.file.gz \in BOOLEAN
      BY <3>5, PartTypes
    <3>8. R!Whole(after) /\ Holds(after, b, n + 1)
      <4>1. CASE st.file.gz
        <5>1. after \in R!Write(st, b[n + 1])
          BY <1>2, <3>3, <4>1
        <5>2. Holds(after, b, n + 1)
          BY <1>2, <3>5, <4>1, <5>1, WriteHolds
        <5>3. R!Whole(after)
          BY <1>2, <3>5, <3>6, <5>1, RecorderAssumed, R!WriteSound DEF R!Record, Record
        <5> QED BY <5>2, <5>3
      <4>2. CASE ~st.file.gz
        BY <3>3, <3>5, <4>2
      <4> QED BY <3>7, <4>1, <4>2
    <3>9. R!State' = after
      <4>1. after \in R!States
        BY <3>8, PartTypes
      <4> QED BY <3>3, <4>1, R!BecomeIs
    <3> QED BY <2>3, <3>4, <3>8, <3>9
  <2> QED BY <2>1, <2>2, <2>3
<1>9. Holds(R!State, broadcast, Recorded)'
  BY <1>3, <1>8
<1>10. (\A p \in R!Pin : pins[p] # Absent => RunTo(pins[p], broadcast, Recorded))'
  BY <1>3, <1>7, <1>8 DEF R!Pin, R!Time
<1>11. Increasing(accepted') /\ \A i \in DOMAIN accepted' : accepted'[i] < next'
  BY <1>1 DEF FilesInv
<1>12. loop' \notin Appending /\ (file'.gz => file'.buf = <<>> \/ attached')
  BY <1>1, <1>8
<1> QED BY <1>9, <1>10, <1>11, <1>12 DEF FilesInv

\* The recorder's invariant, in a step of any thread.
LEMMA RecorderStays ==
  ASSUME FilesInv, WriterInv', [Next]_vars
  PROVE  R!RecorderInv'
<1>1. R!RecorderInv /\ now \in R!Time
  BY RecorderNow DEF FilesInv
<1>2. next' \in 1 .. MaxRecords + 1
  BY DEF WriterInv
<1>3. ASSUME UNCHANGED <<recorderVars, now>>
      PROVE  R!RecorderInv'
  <2>1. UNCHANGED <<recording, file, disk, pins, history, now>>
    BY <1>3 DEF recorderVars
  <2>2. R!State' = R!State
    BY <2>1 DEF R!State
  <2> QED BY <1>1, <1>2, <2>1, <2>2
      DEF R!RecorderInv, R!Whole, R!Sound, R!States, R!NamesTold, R!Kept, R!Pruned,
          R!OpenIsThere, R!Few, R!Time, R!Pin, R!Content, R!Record, R!File, R!History,
          R!Listed
<1>4. ASSUME R!Operation, UNCHANGED <<now, next>>
      PROVE  R!RecorderInv'
  BY <1>1, <1>4, RecorderAssumed, R!RecorderStep DEF R!Next
<1>5. CASE Loading
  <2>1. CASE LoadRecorder
    <3>1. R!Start /\ UNCHANGED <<now, next>>
      BY <2>1, SameRecorder DEF LoadRecorder, ringVars
    <3> QED BY <1>4, <3>1 DEF R!Operation
  <2>2. CASE AttachRecorder \/ InstallHandler
    BY <1>3, <2>2 DEF AttachRecorder, InstallHandler
  <2> QED BY <1>5, <2>1, <2>2 DEF Loading
<1>6. CASE SubmitSample
  BY <1>3, <1>6 DEF SubmitSample
<1>7. CASE Loop
  <2>1. ASSUME NEW from, NEW to, AppendToRecorder(from, to), from \in Appending
        PROVE  R!RecorderInv'
    <3>1. /\ UNCHANGED <<now, next>>
          /\ IF attached THEN Recorder!AppendRecord(rec) ELSE UNCHANGED recorderVars
      BY <2>1 DEF AppendToRecorder, ringVars
    <3>2. CASE attached /\ recording
      <4>1. R!AppendRecord(rec)
        BY <3>1, <3>2, SameRecorder
      <4>2. rec \in Record
        <5>1. rec = broadcast[Len(broadcast)] /\ broadcast # <<>>
          BY <2>1 DEF FilesInv, AppendToRecorder, LoopGoto
        <5>2. broadcast \in Seq(Record)
          BY DEF FilesInv, WriterInv
        <5> QED BY <5>1, <5>2
      <4>3. R!Whole(R!State)'
        BY <1>1, <3>2, <4>1, <4>2, RecorderAssumed, R!AppendSound
        DEF R!RecorderInv, R!Record, Record
      <4>4. UNCHANGED <<recording, pins>>
        BY <4>1 DEF R!AppendRecord
      <4> QED BY <1>1, <1>2, <3>1, <3>2, <4>3, <4>4
          DEF R!RecorderInv, R!Time, R!Pin, R!Content, R!Record
    <3>3. CASE ~(attached /\ recording)
      <4>1. UNCHANGED <<recorderVars, now>>
        BY <3>1, <3>3 DEF recorderVars, Recorder!AppendRecord
      <4> QED BY <1>3, <4>1
    <3> QED BY <3>2, <3>3
  <2>2. CASE AppendToRecorder("append", "check") \/ AppendToRecorder("drainAppend", "drainPop")
    BY <2>1, <2>2 DEF Appending
  <2>3. CASE ~(AppendToRecorder("append", "check") \/ AppendToRecorder("drainAppend", "drainPop"))
    <3>1. UNCHANGED <<recorderVars, now>>
      BY <1>7, <2>3 DEF Loop, Drain, CheckRunning, Pop, Broadcast
    <3> QED BY <1>3, <3>1
  <2> QED BY <2>2, <2>3
<1>8. CASE StopBegin \/ StopJoins
  BY <1>3, <1>8 DEF StopBegin, StopJoins
<1>9. CASE Handler
  <2>1. CASE HandlerRotates
    <3>1. UNCHANGED <<now, next>> /\ (Recorder!RotateNow \/ UNCHANGED recorderVars)
      BY <2>1 DEF HandlerRotates, ringVars
    <3>2. CASE Recorder!RotateNow
      BY <1>4, <3>1, <3>2, SameRecorder DEF R!Operation
    <3>3. CASE UNCHANGED recorderVars
      BY <1>3, <3>1, <3>3
    <3> QED BY <3>1, <3>2, <3>3
  <2>2. CASE Fault \/ HandlerSubmits \/ Resume
    BY <1>3, <2>2 DEF Fault, HandlerSubmits, Resume
  <2> QED BY <1>9, <2>1, <2>2 DEF Handler
<1>10. CASE SaveSession
  <2>1. PICK name \in PinNames : Recorder!PinCurrent(name)
    BY <1>10 DEF SaveSession
  <2>2. R!PinCurrent(name) /\ UNCHANGED <<now, next>>
    BY <1>10, <2>1, SameRecorder DEF SaveSession, ringVars
  <2> QED BY <1>4, <2>2 DEF R!Operation
<1>11. CASE Tick
  <2>1. R!Tick
    BY <1>11 DEF Tick, Recorder!Tick, R!Tick, Recorder!recorderVars, R!recorderVars
  <2> QED BY <1>1, <2>1, RecorderAssumed, R!RecorderStep DEF R!Next
<1>12. CASE UNCHANGED vars
  BY <1>3, <1>12 DEF vars
<1> QED BY <1>5, <1>6, <1>7, <1>8, <1>9, <1>10, <1>11, <1>12 DEF Next

\* Nothing has been recorded.
LEMMA FilesInit == Init => FilesInv
<1> SUFFICES ASSUME Init PROVE FilesInv
  OBVIOUS
<1>1. WriterInv
  BY InitInv
<1>2. R!RecorderInv
  <2>1. R!Init
    BY DEF Init, Recorder!Init, R!Init, Recorder!Time, R!Time, Recorder!Pin, R!Pin
  <2> QED BY <2>1, RecorderAssumed, R!RecorderInvInit
<1>3. /\ file.gz = FALSE /\ history.closed = <<>> /\ R!State.file = file
      /\ R!State.history = history /\ \A p \in R!Pin : pins[p] = Absent
  BY DEF Init, Recorder!Init, R!State, Recorder!Pin, R!Pin, Recorder!Time, R!Time
<1>4. accepted = <<>> /\ loop = "check" /\ DOMAIN <<>> = {}
  BY DEF Init
<1>5. Holds(R!State, broadcast, Recorded)
  BY <1>3, <1>4 DEF Holds, R!FilesOf, Runs
<1> QED BY <1>1, <1>2, <1>3, <1>4, <1>5 DEF FilesInv, Increasing, Appending

\* Every step keeps FilesInv.
LEMMA FilesStep ==
  ASSUME FilesInv, [Next]_vars
  PROVE  FilesInv'
<1>1. WriterInv'
  BY NextStep DEF FilesInv
<1>2. R!RecorderInv'
  BY <1>1, RecorderStays
<1>3. ASSUME UNCHANGED <<accepted, next, broadcast, recorderVars, loop, rec>>, attached => attached'
      PROVE  FilesInv'
  BY <1>1, <1>2, <1>3, FilesStutter DEF recorderVars
<1>4. ASSUME NEW op \in R!OpenNewFile(R!CloseCurrent(R!State)), R!Become(op),
             UNCHANGED <<accepted, next, broadcast, loop, rec, attached, pins>>
      PROVE  FilesInv'
  BY <1>1, <1>2, <1>4, FilesReopen
<1>5. R!State.file = file /\ R!Whole(R!State) /\ R!State \in R!States /\ file.gz \in BOOLEAN
      /\ (~recording => ~file.gz) /\ file.buf \in Content
  BY RecorderNow
<1>6. CASE Loading
  <2>1. CASE LoadRecorder
    <3>1. R!Start
      BY <2>1, SameRecorder DEF LoadRecorder
    <3>2. PICK op \in R!OpenNewFile(R!State) : R!Become(op)
      BY <3>1 DEF R!Start
    <3>3. R!CloseCurrent(R!State) = R!State
      BY <1>5, <3>1, RecorderAssumed, R!CloseFiles DEF R!Start
    <3>4. UNCHANGED <<accepted, next, broadcast, loop, rec, attached, pins>>
      BY <2>1, <3>1 DEF LoadRecorder, R!Start, ringVars, threadVars
    <3> QED BY <1>4, <3>2, <3>3, <3>4
  <2>2. CASE AttachRecorder
    BY <1>3, <2>2 DEF AttachRecorder, ringVars, threadVars
  <2>3. CASE InstallHandler
    BY <1>3, <2>3 DEF InstallHandler, ringVars, threadVars
  <2> QED BY <1>6, <2>1, <2>2, <2>3 DEF Loading
<1>7. CASE SubmitSample
  BY <1>1, <1>2, <1>7, FilesSubmit DEF SubmitSample, threadVars, recorderVars
<1>8. CASE Loop
  <2>1. CASE CheckRunning \/ Pop("pop", "broadcast", "check")
             \/ Pop("drainPop", "drainBroadcast", "exited")
    <3>1. UNCHANGED <<accepted, next, broadcast, recorderVars, attached>>
      BY <2>1 DEF CheckRunning, Pop, ringVars
    <3>2. loop \notin Appending /\ loop' \notin Appending
      BY <2>1 DEF CheckRunning, Pop, LoopGoto, Appending
    <3> QED BY <1>1, <1>2, <3>1, <3>2, FilesStutter DEF recorderVars
  <2>2. CASE Broadcast("broadcast", "append")
    BY <1>1, <1>2, <2>2, FilesBroadcast DEF Appending
  <2>3. CASE Broadcast("drainBroadcast", "drainAppend")
    BY <1>1, <1>2, <2>3, FilesBroadcast DEF Appending
  <2>4. CASE AppendToRecorder("append", "check")
    BY <1>1, <1>2, <2>4, FilesAppend DEF Appending
  <2>5. CASE AppendToRecorder("drainAppend", "drainPop")
    BY <1>1, <1>2, <2>5, FilesAppend DEF Appending
  <2> QED BY <1>8, <2>1, <2>2, <2>3, <2>4, <2>5 DEF Loop, Drain
<1>9. CASE StopBegin \/ StopJoins
  BY <1>3, <1>9 DEF StopBegin, StopJoins, ringVars, threadVars
<1>10. CASE Handler
  <2>1. CASE HandlerRotates
    <3>1. UNCHANGED <<accepted, next, broadcast, loop, rec, attached>>
          /\ (Recorder!RotateNow \/ UNCHANGED recorderVars)
      BY <2>1 DEF HandlerRotates, ringVars, threadVars
    <3>2. CASE Recorder!RotateNow /\ file.gz
      <4>1. R!RotateNow
        BY <3>2, SameRecorder
      <4>2. PICK op \in R!OpenNewFile(R!CloseCurrent(R!State)) : R!Become(op)
        BY <3>2, <4>1 DEF R!RotateNow
      <4>3. UNCHANGED pins
        BY <4>1 DEF R!RotateNow
      <4> QED BY <1>4, <3>1, <4>2, <4>3
    <3>3. CASE Recorder!RotateNow /\ ~file.gz
      <4>1. R!RotateNow
        BY <3>3, SameRecorder
      <4>2. R!Become(R!State) /\ UNCHANGED <<recording, pins>>
        BY <3>3, <4>1 DEF R!RotateNow
      <4>3. UNCHANGED recorderVars
        BY <4>2 DEF R!Become, R!State, recorderVars
      <4> QED BY <1>3, <3>1, <4>3
    <3>4. CASE UNCHANGED recorderVars
      BY <1>3, <3>1, <3>4
    <3> QED BY <3>1, <3>2, <3>3, <3>4
  <2>2. CASE HandlerSubmits
    BY <1>1, <1>2, <2>2, FilesSubmit DEF HandlerSubmits, threadVars, recorderVars
  <2>3. CASE Fault \/ Resume
    BY <1>3, <2>3 DEF Fault, Resume, ringVars, threadVars
  <2> QED BY <1>10, <2>1, <2>2, <2>3 DEF Handler
<1>11. CASE SaveSession
  <2>1. PICK name \in PinNames : R!PinCurrent(name)
    BY <1>11, SameRecorder DEF SaveSession
  <2>2. UNCHANGED <<accepted, next, broadcast, loop, rec, attached>>
    BY <1>11 DEF SaveSession, ringVars, threadVars
  <2> DEFINE copy == R!CloseCurrent(R!State).disk[file.current]
  <2>3. file.gz /\ (pins' = pins \/ pins' = [pins EXCEPT ![<<name, now>>] = copy])
    BY <2>1 DEF R!PinCurrent
  <2>4. copy \in {file.buf, Absent}
    BY <1>5, <2>3, RecorderAssumed, R!CloseWrites
  <2>5. PICK op \in R!OpenNewFile(R!CloseCurrent(R!State)) : R!Become(op)
    BY <2>1 DEF R!PinCurrent
  <2>6. \A p \in R!Pin : pins'[p] \in {pins[p], file.buf, Absent}
    <3> HIDE DEF copy
    <3>1. pins \in [R!Pin -> R!Content \union {Absent}]
      BY DEF FilesInv, R!RecorderInv
    <3> QED BY <2>3, <2>4, <3>1
  <2> QED BY <1>1, <1>2, <2>2, <2>3, <2>5, <2>6, FilesReopen
<1>12. CASE Tick
  <2>1. UNCHANGED <<accepted, next, broadcast, recorderVars, loop, rec, attached>>
    BY <1>12 DEF Tick, Recorder!Tick, Recorder!recorderVars, recorderVars, threadVars
  <2> QED BY <1>3, <2>1
<1>13. CASE UNCHANGED vars
  BY <1>3, <1>13 DEF vars, ringVars, threadVars
<1> QED BY <1>6, <1>7, <1>8, <1>9, <1>10, <1>11, <1>12, <1>13 DEF Next

(***************************************************************************)
(* The invariant of Loop and the recorder holds, however the producers,    *)
(* the commands, the crash handler and the clock interleave with them, and *)
(* whatever open, write or copy fails.                                     *)
(***************************************************************************)
THEOREM FilesInvariant == Spec => []FilesInv
<1>1. Init => FilesInv
  BY FilesInit
<1>2. FilesInv /\ [Next]_vars => FilesInv'
  BY FilesStep
<1> QED BY <1>1, <1>2, PTL DEF Spec

\* The invariant in the words of the property.
LEMMA HeldAreRuns ==
  ASSUME FilesInv
  PROVE  FilesAreRuns
<1>1. /\ R!State.file = file /\ R!State.history = history
      /\ file.gz \in BOOLEAN /\ history.closed \in Seq(Content)
      /\ Recorded \in 0 .. Len(broadcast) /\ Recorded \in Nat /\ Len(broadcast) \in Nat
  BY RecorderNow, RecordedIs, PartTypes
<1>2. Files = R!FilesOf(R!State)
  <2>1. <<>> \o history.closed = history.closed
    BY <1>1
  <2> QED BY <1>1, <2>1 DEF Files, R!FilesOf
<1>3. Runs(Files, broadcast, Recorded)
  BY <1>2 DEF FilesInv, Holds
<1>4. ASSUME NEW s, RunTo(s, broadcast, Recorded)
      PROVE  RunOf(s, broadcast)
  <2>1. RunTo(s, broadcast, Len(broadcast))
    <3>1. Recorded <= Len(broadcast)
      BY <1>1
    <3> QED BY <1>1, <1>4, <3>1, RunWidens
  <2> QED BY <2>1 DEF RunTo, RunOf
<1>5. \A i \in DOMAIN Files : RunOf(Files[i], broadcast)
  BY <1>3, <1>4 DEF Runs
<1>6. \A p \in DOMAIN pins : pins[p] # Absent => RunOf(pins[p], broadcast)
  <2>1. DOMAIN pins = R!Pin
    BY DEF FilesInv, R!RecorderInv
  <2> QED BY <1>4, <2>1 DEF FilesInv
<1>7. \A i, j \in DOMAIN Files :
        i < j => \A m \in ToSet(Files[i]), n \in ToSet(Files[j]) : m > n
  BY <1>3 DEF Runs, Above, ToSet
<1> QED BY <1>5, <1>6, <1>7 DEF FilesAreRuns

(***************************************************************************)
(* Every file, the pinned ones too, holds an unbroken run of the broadcast *)
(* records, and the newer of two session files the later ones: Loop's      *)
(* Append after Broadcast, and Append's closing of a file that failed.     *)
(***************************************************************************)
THEOREM RunsRecorded == Spec => []FilesAreRuns
<1>1. FilesInv => FilesAreRuns
  BY HeldAreRuns
<1> QED BY <1>1, FilesInvariant, PTL

-----------------------------------------------------------------------------
(***************************************************************************)
(* The crash handler.  The file it closed is on the list of rotated files  *)
(* until it is pruned, or its name has been used again.                    *)
(***************************************************************************)
Found(st, c) ==
  \/ \E i \in DOMAIN st.history.closed : st.history.closed[i] = c
  \/ st.history.reused # {}
  \/ Len(st.history.closed) = KeepRotations

CrashInv ==
  /\ handler # "returned" => atCrash = <<>>
  /\ atCrash # <<>> => Found(R!State, atCrash)

\* What is found, or pruned, stays so when another file is closed and opened.
LEMMA CloseFinds ==
  ASSUME NEW st, R!Whole(st), NEW c, Found(st, c) \/ (st.file.gz /\ st.file.buf = c)
  PROVE  Found(R!CloseCurrent(st), c)
<1> DEFINE cl == st.history.closed
           fs == R!FilesOf(st)
           new == R!CloseCurrent(st).history.closed
<1>1. /\ cl \in Seq(Content) /\ st.file.gz \in BOOLEAN /\ fs \in Seq(Content)
      /\ st.file.buf \in Content /\ KeepRotations \in Nat \ {0}
  BY PartTypes, RecorderAssumed DEF R!RecorderAssumption
<1>2. CASE ~st.file.gz
  BY <1>2, RecorderAssumed, R!CloseFiles
<1>3. CASE st.file.gz
  <2>1. new = R!Newest(fs) /\ R!CloseCurrent(st).history.reused = st.history.reused
    BY <1>3, RecorderAssumed, R!CloseFiles
  <2>2. /\ Len(R!Newest(fs)) = IF Len(fs) < KeepRotations THEN Len(fs) ELSE KeepRotations
        /\ \A i \in DOMAIN R!Newest(fs) : R!Newest(fs)[i] = fs[i]
        /\ \A i \in DOMAIN fs : i <= KeepRotations => i \in DOMAIN R!Newest(fs)
    BY <1>1, RecorderAssumed, R!NewestIs
  <2>3. fs = <<st.file.buf>> \o cl
    BY <1>3 DEF R!FilesOf
  <2>4. /\ Len(fs) = Len(cl) + 1 /\ fs[1] = st.file.buf /\ DOMAIN fs = 1 .. Len(cl) + 1
        /\ Len(cl) \in Nat /\ DOMAIN cl = 1 .. Len(cl)
        /\ \A i \in DOMAIN cl : fs[i + 1] = cl[i]
    <3>1. \A S : \A x \in S : \A seq \in Seq(S) :
            /\ Len(<<x>> \o seq) = Len(seq) + 1
            /\ DOMAIN (<<x>> \o seq) = 1 .. Len(seq) + 1 /\ DOMAIN seq = 1 .. Len(seq)
            /\ (<<x>> \o seq)[1] = x
            /\ \A i \in DOMAIN seq : (<<x>> \o seq)[i + 1] = seq[i]
      BY R!FirstIs
    <3> HIDE DEF cl, fs, new
    <3>2. Len(cl) \in Nat
      BY <1>1
    <3> QED BY <1>1, <2>3, <3>1, <3>2
  <2> HIDE DEF cl, fs, new
  <2>5. CASE st.file.buf = c
    <3>1. 1 \in DOMAIN fs /\ 1 <= KeepRotations
      BY <1>1, <2>4
    <3> QED BY <2>1, <2>2, <2>4, <2>5, <3>1 DEF Found, new
  <2>6. CASE \E i \in DOMAIN cl : cl[i] = c
    <3>1. PICK i \in DOMAIN cl : cl[i] = c
      BY <2>6
    <3>2. i + 1 \in DOMAIN fs /\ fs[i + 1] = c
      BY <2>4, <3>1
    <3>3. CASE i + 1 <= KeepRotations
      BY <2>1, <2>2, <3>2, <3>3 DEF Found, new
    <3>4. CASE ~(i + 1 <= KeepRotations)
      <4>1. ~(Len(fs) < KeepRotations)
        BY <1>1, <2>4, <3>1, <3>4
      <4> QED BY <2>1, <2>2, <4>1 DEF Found, new
    <3> QED BY <3>3, <3>4
  <2>7. CASE st.history.reused # {}
    BY <2>1, <2>7 DEF Found
  <2>8. CASE Len(cl) = KeepRotations
    <3>1. ~(Len(fs) < KeepRotations)
      BY <1>1, <2>4, <2>8
    <3> QED BY <2>1, <2>2, <3>1 DEF Found, new
  <2> QED BY <2>5, <2>6, <2>7, <2>8 DEF Found, cl
<1> QED BY <1>1, <1>2, <1>3

\* And stays so when the next file is opened.
LEMMA ReopenFinds ==
  ASSUME NEW st, R!Whole(st), NEW c, Found(st, c) \/ (st.file.gz /\ st.file.buf = c),
         NEW op \in R!OpenNewFile(R!CloseCurrent(st))
  PROVE  Found(op, c)
<1>1. Found(R!CloseCurrent(st), c)
  BY CloseFinds
<1>2. /\ R!Whole(R!CloseCurrent(st)) /\ R!CloseCurrent(st).file.gz = FALSE
      /\ R!CloseCurrent(st) \in R!States
  BY RecorderAssumed, R!CloseSound, PartTypes
<1>3. /\ op.history.closed = R!CloseCurrent(st).history.closed
      /\ R!CloseCurrent(st).history.reused \subseteq op.history.reused
  BY <1>2, R!OpenFiles
<1> QED BY <1>1, <1>3 DEF Found

\* Becoming a state makes it the state.
LEMMA ReopenBecomes ==
  ASSUME FilesInv, NEW op \in R!OpenNewFile(R!CloseCurrent(R!State)), R!Become(op)
  PROVE  R!State' = op /\ R!Whole(op)
<1>1. R!Whole(R!CloseCurrent(R!State)) /\ R!CloseCurrent(R!State).file.gz = FALSE
  BY RecorderNow, RecorderAssumed, R!CloseSound
<1>2. R!Whole(op)
  BY <1>1, RecorderNow, R!OpenSound
<1>3. op \in R!States
  BY <1>2, PartTypes
<1> QED BY <1>2, <1>3, R!BecomeIs

\* A record that is appended loses nothing that was closed.
LEMMA AppendFinds ==
  ASSUME FilesInv, recording, NEW r \in Record, R!AppendRecord(r), NEW c, Found(R!State, c)
  PROVE  Found(R!State', c)
<1>1. PICK st \in IF file.gz /\ R!Expired
                    THEN R!OpenNewFile(R!CloseCurrent(R!State)) ELSE {R!State} :
        \E after \in IF st.file.gz THEN R!Write(st, r) ELSE {st} : R!Become(after)
  BY DEF R!AppendRecord
<1>2. PICK after \in IF st.file.gz THEN R!Write(st, r) ELSE {st} : R!Become(after)
  BY <1>1
<1>3. R!Whole(R!State) /\ now \in R!Time
  BY RecorderNow
<1>4. R!Whole(st) /\ Found(st, c)
  <2>1. CASE file.gz /\ R!Expired
    <3>1. st \in R!OpenNewFile(R!CloseCurrent(R!State))
      BY <1>1, <2>1
    <3>2. R!Whole(R!CloseCurrent(R!State)) /\ R!CloseCurrent(R!State).file.gz = FALSE
      BY <1>3, RecorderAssumed, R!CloseSound
    <3> QED BY <1>3, <3>1, <3>2, R!OpenSound, ReopenFinds
  <2>2. CASE ~(file.gz /\ R!Expired)
    BY <1>1, <1>3, <2>2
  <2> QED BY <2>1, <2>2
<1>5. R!Whole(after) /\ Found(after, c)
  <2>1. CASE ~st.file.gz
    BY <1>2, <1>4, <2>1
  <2>2. CASE st.file.gz /\ after = R!CloseCurrent(st)
    BY <1>4, <2>2, CloseFinds, RecorderAssumed, R!CloseSound
  <2>3. CASE st.file.gz /\ after # R!CloseCurrent(st)
    <3>1. after \in R!Write(st, r) /\ st \in R!States
      BY <1>2, <1>4, <2>3, PartTypes
    <3>2. after.history = st.history
      BY <2>3, <3>1, R!WriteFiles
    <3>3. R!Whole(after)
      BY <1>4, <3>1, RecorderAssumed, R!WriteSound DEF R!Record, Record
    <3> QED BY <1>4, <3>2, <3>3 DEF Found
  <2>4. st.file.gz \in BOOLEAN
    BY <1>4, PartTypes
  <2> QED BY <2>1, <2>2, <2>3, <2>4
<1>6. after \in R!States
  BY <1>5, PartTypes
<1>7. R!State' = after
  BY <1>2, <1>6, R!BecomeIs
<1> QED BY <1>5, <1>7

\* Only HandlerRotates sets atCrash, to the file it closes.
LEMMA CrashStep ==
  ASSUME FilesInv, CrashInv, [Next]_vars
  PROVE  CrashInv'
<1>1. ASSUME UNCHANGED <<recorderVars, atCrash>>, handler = "returned" => handler' = "returned"
      PROVE  CrashInv'
  <2>1. R!State' = R!State
    BY <1>1 DEF R!State, recorderVars
  <2> QED BY <1>1, <2>1 DEF CrashInv, Found
<1>2. ASSUME NEW op \in R!OpenNewFile(R!CloseCurrent(R!State)), R!Become(op),
             UNCHANGED <<handler, atCrash>>
      PROVE  CrashInv'
  <2>1. R!State' = op
    BY <1>2, ReopenBecomes
  <2>2. Found(R!State, atCrash) => Found(op, atCrash)
    BY RecorderNow, ReopenFinds
  <2> QED BY <1>2, <2>1, <2>2 DEF CrashInv
<1>3. R!State.file = file /\ R!Whole(R!State) /\ file.gz \in BOOLEAN
      /\ (~recording => ~file.gz) /\ recording \in BOOLEAN
  BY RecorderNow
<1>4. CASE Loading
  <2>1. CASE LoadRecorder
    <3>1. R!Start
      BY <2>1, SameRecorder DEF LoadRecorder
    <3>2. PICK op \in R!OpenNewFile(R!State) : R!Become(op)
      BY <3>1 DEF R!Start
    <3>3. R!CloseCurrent(R!State) = R!State
      BY <1>3, <3>1, RecorderAssumed, R!CloseFiles DEF R!Start
    <3>4. UNCHANGED <<handler, atCrash>>
      BY <2>1 DEF LoadRecorder, crashVars
    <3> QED BY <1>2, <3>2, <3>3, <3>4
  <2>2. CASE AttachRecorder \/ InstallHandler
    BY <1>1, <2>2 DEF AttachRecorder, InstallHandler, crashVars
  <2> QED BY <1>4, <2>1, <2>2 DEF Loading
<1>5. CASE SubmitSample
  BY <1>1, <1>5 DEF SubmitSample, crashVars
<1>6. CASE Loop
  <2>1. ASSUME NEW from, NEW to, AppendToRecorder(from, to), from \in Appending
        PROVE  CrashInv'
    <3>1. /\ UNCHANGED <<handler, atCrash>> /\ loop = from
          /\ IF attached THEN Recorder!AppendRecord(rec) ELSE UNCHANGED recorderVars
      BY <2>1 DEF AppendToRecorder, LoopGoto, crashVars
    <3>2. CASE attached /\ recording
      <4>1. R!AppendRecord(rec)
        BY <3>1, <3>2, SameRecorder
      <4>2. rec \in Record
        <5>1. rec = broadcast[Len(broadcast)] /\ broadcast # <<>>
          BY <2>1, <3>1 DEF FilesInv
        <5>2. broadcast \in Seq(Record)
          BY DEF FilesInv, WriterInv
        <5> QED BY <5>1, <5>2
      <4> QED BY <3>1, <3>2, <4>1, <4>2, AppendFinds DEF CrashInv
    <3>3. CASE ~(attached /\ recording)
      <4>1. UNCHANGED recorderVars
        BY <3>1, <3>3 DEF recorderVars, Recorder!AppendRecord
      <4> QED BY <1>1, <3>1, <4>1
    <3> QED BY <3>2, <3>3
  <2>2. CASE AppendToRecorder("append", "check") \/ AppendToRecorder("drainAppend", "drainPop")
    BY <2>1, <2>2 DEF Appending
  <2>3. CASE ~(AppendToRecorder("append", "check") \/ AppendToRecorder("drainAppend", "drainPop"))
    <3>1. UNCHANGED <<recorderVars, crashVars>>
      BY <1>6, <2>3 DEF Loop, Drain, CheckRunning, Pop, Broadcast
    <3> QED BY <1>1, <3>1 DEF crashVars
  <2> QED BY <2>2, <2>3
<1>7. CASE StopBegin \/ StopJoins
  BY <1>1, <1>7 DEF StopBegin, StopJoins, crashVars
<1>8. CASE Handler
  <2>1. CASE HandlerRotates
    <3>1. handler = "rotate"
      BY <2>1 DEF HandlerRotates, HandlerGoto
    <3>2. CASE Recorder!RotateNow /\ atCrash' = IF file.gz THEN file.buf ELSE <<>>
      <4>1. R!RotateNow
        BY <3>2, SameRecorder
      <4>2. CASE file.gz
        <5>1. PICK op \in R!OpenNewFile(R!CloseCurrent(R!State)) : R!Become(op)
          BY <4>1, <4>2 DEF R!RotateNow
        <5>2. R!State' = op
          BY <5>1, ReopenBecomes
        <5>3. Found(op, file.buf)
          BY <1>3, <4>2, <5>1, ReopenFinds
        <5>4. handler' = "returned" /\ atCrash' = file.buf
          BY <2>1, <3>2, <4>2 DEF HandlerRotates, HandlerGoto
        <5> QED BY <5>2, <5>3, <5>4 DEF CrashInv
      <4>3. CASE ~file.gz
        <5>1. atCrash' = <<>> /\ handler' = "returned"
          BY <2>1, <3>2, <4>3 DEF HandlerRotates, HandlerGoto
        <5> QED BY <5>1 DEF CrashInv
      <4> QED BY <1>3, <4>2, <4>3
    <3>3. CASE UNCHANGED <<recorderVars, atCrash>>
      <4>1. atCrash = <<>> /\ atCrash' = <<>>
        BY <3>1, <3>3 DEF CrashInv
      <4> QED BY <4>1 DEF CrashInv
    <3> QED BY <2>1, <3>2, <3>3 DEF HandlerRotates
  <2>2. CASE Fault \/ HandlerSubmits \/ Resume
    BY <1>1, <2>2 DEF Fault, HandlerSubmits, Resume, HandlerGoto
  <2> QED BY <1>8, <2>1, <2>2 DEF Handler
<1>9. CASE SaveSession
  <2>1. PICK name \in PinNames : R!PinCurrent(name)
    BY <1>9, SameRecorder DEF SaveSession
  <2>2. PICK op \in R!OpenNewFile(R!CloseCurrent(R!State)) : R!Become(op)
    BY <2>1 DEF R!PinCurrent
  <2>3. UNCHANGED <<handler, atCrash>>
    BY <1>9 DEF SaveSession, crashVars
  <2> QED BY <1>2, <2>2, <2>3
<1>10. CASE Tick
  BY <1>1, <1>10 DEF Tick, Recorder!Tick, Recorder!recorderVars, recorderVars, crashVars
<1>11. CASE UNCHANGED vars
  BY <1>1, <1>11 DEF vars, crashVars
<1> QED BY <1>4, <1>5, <1>6, <1>7, <1>8, <1>9, <1>10, <1>11 DEF Next

\* Before the crash there is nothing to find.
LEMMA CrashInit == Init => CrashInv
BY DEF Init, CrashInv

(***************************************************************************)
(* The file that the handler closed, if it is still listed and no name was *)
(* used twice, is on disk under its own name, whatever of the open file is *)
(* lost.                                                                   *)
(***************************************************************************)
LEMMA ListedSurvives ==
  ASSUME FilesInv, NEW i \in DOMAIN history.closed, history.reused = {},
         NEW left \in Recorder!Torn
  PROVE  \E t \in Recorder!Time : left[t] = history.closed[i]
<1> DEFINE t == file.rotated[i]
<1>1. /\ R!State.file = file /\ R!State.disk = disk /\ R!State.history = history
      /\ R!NamesTold(R!State) /\ R!Kept(R!State) /\ R!State \in R!States
  BY RecorderNow DEF R!Whole, R!Sound
<1>2. file.rotated \in Seq(R!Time) /\ history.closed \in Seq(Content)
  BY <1>1, R!StateTypes DEF R!Content, Content, R!Record, Record
<1>3. Len(history.closed) = Len(file.rotated)
  BY <1>1 DEF R!NamesTold
<1>4. i \in DOMAIN file.rotated
  BY <1>2, <1>3
<1>5. t \in R!Time
  BY <1>2, <1>4
<1>6. disk[t] = history.closed[i]
  BY <1>1, <1>4 DEF R!Kept, R!Listed
<1>7. file.gz => t # file.current
  BY <1>1, <1>4 DEF R!NamesTold, R!Listed
<1>8. PICK n : left = [u \in Recorder!Time |->
                         IF file.gz /\ u = file.current THEN SubSeq(file.buf, 1, n)
                                                        ELSE disk[u]]
  BY DEF Recorder!Torn
<1>9. Recorder!Time = R!Time
  BY DEF Recorder!Time, R!Time
<1> HIDE DEF t
<1>10. left[t] = disk[t]
  BY <1>5, <1>7, <1>8, <1>9
<1> QED BY <1>5, <1>6, <1>9, <1>10

\* The invariants in the words of the property.
LEMMA FoundIsKept ==
  ASSUME FilesInv, CrashInv
  PROVE  CrashKeepsWindow
<1>1. R!State.history = history
  BY RecorderNow
<1>2. SUFFICES ASSUME atCrash # <<>>, history.reused = {}
               PROVE  \/ \A left \in Recorder!Torn : \E t \in Recorder!Time : left[t] = atCrash
                      \/ /\ Len(history.closed) = KeepRotations
                         /\ ~Contains(history.closed, atCrash)
  BY DEF CrashKeepsWindow
<1>3. CASE \E i \in DOMAIN history.closed : history.closed[i] = atCrash
  BY <1>2, <1>3, ListedSurvives
<1>4. CASE ~ \E i \in DOMAIN history.closed : history.closed[i] = atCrash
  <2>1. history.closed \in Seq(Content)
    BY <1>1, RecorderNow, PartTypes
  <2>2. ~Contains(history.closed, atCrash)
    BY <1>4, <2>1 DEF Contains
  <2>3. Len(history.closed) = KeepRotations
    BY <1>1, <1>2, <1>4 DEF CrashInv, Found
  <2> QED BY <2>2, <2>3
<1> QED BY <1>3, <1>4

(***************************************************************************)
(* When the crash handler has returned, what was recorded before the crash *)
(* is on disk even if the process ends now, unless the file was pruned     *)
(* since or a name was used twice: RotateNow, which closes the file.       *)
(***************************************************************************)
THEOREM CrashWindowKept == Spec => []CrashKeepsWindow
<1>1. Init => CrashInv
  BY CrashInit
<1>2. FilesInv /\ CrashInv /\ [Next]_vars => CrashInv'
  BY CrashStep
<1>3. FilesInv /\ CrashInv => CrashKeepsWindow
  BY FoundIsKept
<1> QED BY <1>1, <1>2, <1>3, FilesInvariant, PTL DEF Spec

-----------------------------------------------------------------------------
(* The types.                                                              *)

\* What WriterInv and RecorderInv leave out of TypeOK.
TypeInv ==
  /\ Len(queue) <= Capacity
  /\ drops \in 0 .. MaxRecords
  /\ Len(accepted) < next
  /\ running \in BOOLEAN /\ attached \in BOOLEAN
  /\ load \in {"recorder", "attach", "install", "ready"}
  /\ loop \in {"check", "pop", "broadcast", "append",
               "drainPop", "drainBroadcast", "drainAppend", "exited"}
  /\ rec \in Record \union {NoRecord}
  /\ stop \in {"idle", "joining", "done"}
  /\ handler \in {"armed", "submit", "rotate", "returned"}
  /\ crashed \in {"none", "writer", "other"}
  /\ atCrash \in Content
  /\ crashRecord \in Record \union {NoRecord}

\* The drop counter wraps around.
LEMMA CountedOn ==
  ASSUME NEW d \in 0 .. MaxRecords
  PROVE  (d + 1) % (MaxRecords + 1) \in 0 .. MaxRecords
BY WriterAssumption DEF WriterAssumption

\* A Submit keeps to the ring's capacity.
LEMMA TypeSubmit ==
  ASSUME FilesInv, TypeInv, Submit
  PROVE  /\ (Len(queue) <= Capacity)' /\ (drops \in 0 .. MaxRecords)' /\ (Len(accepted) < next)'
         /\ next \in Record
<1> USE WriterAssumption DEF WriterAssumption
<1>1. /\ next \in Record /\ next' = next + 1 /\ queue \in Seq(Record) /\ accepted \in Seq(Record)
  BY DEF FilesInv, WriterInv, Submit, Record
<1>2. CASE Ring!Accept(next) /\ accepted' = Append(accepted, next)
  BY <1>1, <1>2 DEF TypeInv, Ring!Accept, Record
<1>3. CASE Ring!Refuse /\ UNCHANGED accepted
  BY <1>1, <1>3, CountedOn DEF TypeInv, Ring!Refuse, Record
<1> QED BY <1>1, <1>2, <1>3 DEF Submit

\* Every step keeps the types.
LEMMA TypeStep ==
  ASSUME FilesInv, TypeInv, [Next]_vars
  PROVE  TypeInv'
<1>1. queue \in Seq(Record) /\ file.buf \in Content
  BY RecorderNow DEF FilesInv, WriterInv
<1>2. CASE Loading
  BY <1>2 DEF TypeInv, Loading, LoadRecorder, AttachRecorder, InstallHandler, ringVars,
              threadVars, stopVars, crashVars
<1>3. CASE SubmitSample
  BY <1>3, TypeSubmit DEF TypeInv, SubmitSample, threadVars, stopVars, crashVars
<1>4. CASE Loop
  <2>1. UNCHANGED <<drops, next, accepted, running, attached, load, stop, crashVars>>
    BY <1>4 DEF Loop, Drain, CheckRunning, Pop, Broadcast, AppendToRecorder, Ring!Take,
                ringVars, stopVars
  <2>2. queue' = queue \/ (queue # <<>> /\ queue' = Tail(queue) /\ rec' = Head(queue))
    BY <1>4 DEF Loop, Drain, CheckRunning, Pop, Broadcast, AppendToRecorder, Ring!Take,
                ringVars, stopVars
  <2>3. (Len(queue) <= Capacity)'
    BY <1>1, <2>2, WriterAssumption DEF TypeInv, WriterAssumption
  <2>4. loop' \in {"check", "pop", "broadcast", "append",
                   "drainPop", "drainBroadcast", "drainAppend", "exited"}
    BY <1>4 DEF TypeInv, Loop, Drain, CheckRunning, Pop, Broadcast, AppendToRecorder, LoopGoto
  <2>5. rec' \in {rec, NoRecord} \/ (queue # <<>> /\ rec' = Head(queue))
    BY <1>4 DEF Loop, Drain, CheckRunning, Pop, Broadcast, AppendToRecorder
  <2>6. rec' \in Record \union {NoRecord}
    BY <1>1, <2>5 DEF TypeInv
  <2> QED BY <2>1, <2>3, <2>4, <2>6 DEF TypeInv, crashVars
<1>5. CASE StopBegin \/ StopJoins
  BY <1>5 DEF TypeInv, StopBegin, StopJoins, ringVars, threadVars, crashVars
<1>6. CASE Handler
  <2>1. CASE HandlerSubmits
    <3>1. crashRecord' \in Record \union {NoRecord}
      BY <2>1, TypeSubmit DEF HandlerSubmits
    <3> QED BY <2>1, <3>1, TypeSubmit DEF TypeInv, HandlerSubmits, HandlerGoto, threadVars, stopVars
  <2>2. CASE HandlerRotates
    <3>1. atCrash' \in Content
      <4>1. <<>> \in Content
        BY DEF Content
      <4> QED BY <1>1, <2>2, <4>1 DEF TypeInv, HandlerRotates
    <3> QED BY <2>2, <3>1 DEF TypeInv, HandlerRotates, HandlerGoto, ringVars, threadVars, stopVars
  <2>3. CASE Fault
    BY <2>3 DEF TypeInv, Fault, HandlerGoto, ringVars, threadVars, stopVars
  <2>4. CASE Resume
    BY <2>4 DEF TypeInv, Resume, ringVars, threadVars, stopVars
  <2> QED BY <1>6, <2>1, <2>2, <2>3, <2>4 DEF Handler
<1>7. CASE SaveSession
  BY <1>7 DEF TypeInv, SaveSession, ringVars, threadVars, stopVars, crashVars
<1>8. CASE Tick
  BY <1>8 DEF TypeInv, Tick, Recorder!Tick, threadVars, stopVars, crashVars
<1>9. CASE UNCHANGED vars
  BY <1>9 DEF TypeInv, vars, ringVars, threadVars, stopVars, crashVars
<1> QED BY <1>2, <1>3, <1>4, <1>5, <1>6, <1>7, <1>8, <1>9 DEF Next

\* The types, initially.
LEMMA TypeInit == Init => TypeInv
<1> SUFFICES ASSUME Init PROVE TypeInv
  OBVIOUS
<1>1. <<>> \in Content /\ Len(<<>>) = 0 /\ 0 \in 0 .. MaxRecords /\ 0 <= Capacity
  BY WriterAssumption DEF Content, WriterAssumption
<1>2. queue = <<>> /\ drops = 0 /\ accepted = <<>> /\ next = 1 /\ atCrash = <<>>
  BY DEF Init, Ring!Init, Recorder!Init
<1>3. Len(queue) <= Capacity /\ drops \in 0 .. MaxRecords /\ Len(accepted) < next
      /\ atCrash \in Content
  BY <1>1, <1>2
<1>4. /\ running = TRUE /\ attached = FALSE /\ load = "recorder" /\ loop = "check"
      /\ rec = NoRecord /\ stop = "idle" /\ handler = "armed" /\ crashed = "none"
      /\ crashRecord = NoRecord
  BY DEF Init
<1> QED BY <1>3, <1>4 DEF TypeInv

\* The invariants together are TypeOK.
LEMMA Typed ==
  ASSUME FilesInv, TypeInv
  PROVE  TypeOK
<1>1. Ring!TypeOK
  BY WriterAssumption DEF WriterAssumption, FilesInv, WriterInv, TypeInv, Ring!TypeOK
<1>2. Recorder!TypeOK
  <2>1. R!TypeOK
    BY R!TypesHold DEF FilesInv
  <2> QED BY <2>1 DEF R!TypeOK, Recorder!TypeOK, R!Time, Recorder!Time, R!Content, Recorder!Content,
                      R!Record, Recorder!Record, R!Pin, Recorder!Pin
<1>3. owed \in 0 .. MaxRecords
  <2>1. owed \in Nat /\ owed <= Len(accepted) /\ Len(accepted) < next /\ Len(accepted) \in Nat
        /\ next \in 1 .. MaxRecords + 1
    BY DEF FilesInv, WriterInv, TypeInv
  <2> QED BY <2>1, WriterAssumption DEF WriterAssumption
<1>4. accepted \in Seq(Record) /\ broadcast \in Seq(Record)
  BY DEF FilesInv, WriterInv
<1> QED BY <1>1, <1>2, <1>3, <1>4, Zenon DEF TypeOK, TypeInv, Content

(***************************************************************************)
(* The ring holds at most Capacity records, Loop, Stop and the handler are *)
(* only where the code has places for them, and the recorder's members     *)
(* keep their types, _rotated no more than KeepRotations files.            *)
(***************************************************************************)
THEOREM TypeCorrect == Spec => []TypeOK
<1>1. Init => TypeInv
  BY TypeInit
<1>2. FilesInv /\ TypeInv /\ [Next]_vars => TypeInv'
  BY TypeStep
<1>3. FilesInv /\ TypeInv => TypeOK
  BY Typed
<1> QED BY <1>1, <1>2, <1>3, FilesInvariant, PTL DEF Spec
-----------------------------------------------------------------------------
(* The ring and the recorder, used by all of this, do what they promise.   *)

\* A Submit pushes a record of the ring's.
LEMMA SubmitPushes ==
  ASSUME WriterInv, Submit
  PROVE  Ring!Next
<1>1. next \in Record
  BY WriterAssumption DEF WriterInv, Submit, Record, WriterAssumption
<1> QED BY <1>1 DEF Submit, Ring!Next, Ring!Push

\* A step of the program is a push, a pop or none of the ring's.
LEMMA QueueStep ==
  ASSUME WriterInv, [Next]_vars
  PROVE  [Ring!Next]_(Ring!queueVars)
<1> USE DEF Ring!queueVars
<1>1. CASE Loading
  BY <1>1 DEF Loading, LoadRecorder, AttachRecorder, InstallHandler, ringVars
<1>2. CASE SubmitSample
  BY <1>2, SubmitPushes DEF SubmitSample
<1>3. CASE Loop
  <2>1. ASSUME NEW from, NEW some, NEW none, Pop(from, some, none)
        PROVE  Ring!Take \/ UNCHANGED <<queue, drops>>
    BY <2>1 DEF Pop
  <2>2. CASE \E from, to : Broadcast(from, to) \/ AppendToRecorder(from, to)
    BY <2>2 DEF Broadcast, AppendToRecorder, ringVars
  <2>3. CASE CheckRunning
    BY <2>3 DEF CheckRunning, ringVars
  <2>4. CASE Pop("pop", "broadcast", "check") \/ Pop("drainPop", "drainBroadcast", "exited")
    BY <2>1, <2>4 DEF Ring!Next
  <2> QED BY <1>3, <2>2, <2>3, <2>4 DEF Loop, Drain
<1>4. CASE StopBegin \/ StopJoins
  BY <1>4 DEF StopBegin, StopJoins, ringVars
<1>5. CASE Handler
  <2>1. CASE HandlerSubmits
    BY <2>1, SubmitPushes DEF HandlerSubmits
  <2>2. CASE Fault \/ HandlerRotates \/ Resume
    BY <2>2 DEF Fault, HandlerRotates, Resume, ringVars
  <2> QED BY <1>5, <2>1, <2>2 DEF Handler
<1>6. CASE SaveSession
  BY <1>6 DEF SaveSession, ringVars
<1>7. CASE Tick
  BY <1>7 DEF Tick
<1>8. CASE UNCHANGED vars
  BY <1>8 DEF vars, ringVars
<1> QED BY <1>1, <1>2, <1>3, <1>4, <1>5, <1>6, <1>7, <1>8 DEF Next

(***************************************************************************)
(* The queue between the producers, the crash handler and Loop is a        *)
(* BoundedQueue in every behaviour of the program: Submit only pushes      *)
(* records of its own and Loop only pops.                                  *)
(***************************************************************************)
THEOREM RingIsBoundedQueue == Spec => Ring!Spec
<1>1. Init => Ring!Init
  BY DEF Init
<1>2. WriterInv /\ [Next]_vars => [Ring!Next]_(Ring!queueVars)
  BY QueueStep
<1> QED BY <1>1, <1>2, WriterInvariant, PTL DEF Spec, Ring!Spec

(***************************************************************************)
(* What the recorder promises of its rotated files holds in the program    *)
(* too: with the writer thread that appends, commands that pin, and a      *)
(* crash handler that rotates in the middle of it.                         *)
(***************************************************************************)
THEOREM SessionFilesKept == Spec => []R!FilesKeptAndPruned
<1>1. FilesInv => R!FilesKeptAndPruned
  BY RecorderAssumed, R!KeptAndPruned DEF FilesInv
<1> QED BY <1>1, FilesInvariant, PTL

\* Only a save_session command makes a pinned file.
LEMMA SessionPinStep ==
  ASSUME FilesInv, [Next]_vars
  PROVE  [\A p \in R!Pin : pins'[p] # pins[p] => pins'[p] = file.buf]_vars
<1>1. CASE SaveSession
  <2>1. PICK name \in PinNames : R!PinCurrent(name)
    BY <1>1, SameRecorder DEF SaveSession
  <2>2. R!Next
    BY <1>1, <2>1 DEF R!Next, R!Operation, SaveSession, ringVars
  <2>3. [\A p \in R!Pin : pins'[p] # pins[p] => pins'[p] = file.buf]_(R!vars)
    BY <2>2, RecorderAssumed, R!PinStep DEF FilesInv
  <2>4. UNCHANGED R!vars => pins' = pins
    BY DEF R!vars, R!recorderVars
  <2> QED BY <2>3, <2>4
<1>2. CASE ~SaveSession
  <2>1. \A r : Recorder!AppendRecord(r) => UNCHANGED pins
    BY DEF Recorder!AppendRecord
  <2>2. UNCHANGED pins
    BY <1>2, <2>1 DEF Next, Loading, LoadRecorder, AttachRecorder, InstallHandler, SubmitSample,
          Loop, CheckRunning, Pop, Broadcast, AppendToRecorder, Drain, StopBegin, StopJoins,
          Handler, Fault, HandlerSubmits, HandlerRotates, Resume, Tick, vars, recorderVars,
          Recorder!Start, Recorder!RotateNow, Recorder!Tick, Recorder!recorderVars
  <2> QED BY <2>2
<1> QED BY <1>1, <1>2

(***************************************************************************)
(* A file that a save_session command pins holds, when it is made, the     *)
(* records of the window being recorded, whatever the writer thread and    *)
(* the crash handler are in the middle of: PinCurrent, under _writeMtx.    *)
(***************************************************************************)
THEOREM SessionPinsAreWindows ==
  Spec => [][\A p \in R!Pin : pins'[p] # pins[p] => pins'[p] = file.buf]_vars
BY FilesInvariant, SessionPinStep, PTL DEF Spec
=============================================================================
