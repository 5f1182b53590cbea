-------------------------- MODULE PipeServerProofs --------------------------
(***************************************************************************)
(* For any number of connections, records and instances and any high       *)
(* watermark, whatever the clients and Stop do: NothingLost, CountsExact,  *)
(* the types, and that the server implements the delivery service.         *)
(*                                                                         *)
(* The first two do not need to know which sessions are listed: what the   *)
(* writer, Broadcast and Stop do to a session keeps them, listed or not.   *)
(* The types need the lists, and the service who is on them.               *)
(***************************************************************************)
EXTENDS PipeServer, SequenceTheorems, FiniteSetTheorems, NaturalsInduction,
        WellFoundedInduction, TLAPS

(***************************************************************************)
(* What was given to a session is what was written to it, what the writer  *)
(* has in hand for it, and a rest: while it is alive, its outbound buffer. *)
(***************************************************************************)
Flows(s) ==
  \E rest \in Seq(Record) :
    /\ delivered[s] \o (InFlight(s) \o rest) = offered[s]
    /\ alive[s] => rest = outbound[s]

FlowInv ==
  /\ alive \in [Sessions -> BOOLEAN]
  /\ {outbound, offered, delivered} \subseteq [Sessions -> Seq(Record)]
  /\ sent \in 0 .. MaxRecords /\ (mtx = "broadcast" => sent \in Record)
  /\ \A s \in Sessions : InFlight(s) \in Seq(Record) /\ Flows(s)

\* Broadcast counts what it puts in a buffer, the writer what it takes.
BacklogInv ==
  \A s \in Sessions :
    backlog[s] = Len(outbound[s]) /\ backlog[s] <= HighWatermark

\* The sessions that are counted: their reader runs.
Counted == {s \in Sessions : reader[s] \notin {"none", "exited"}}

\* A reader is started once, for the session being set up.
SetUpInv ==
  /\ listening \in {"none", "waiting", "taken"}
  /\ listening # "none" => acceptor = "listen"
  /\ acceptor \in {"register", "spawn", "assign"} => pending \in Sessions
  /\ running /\ listening = "taken" => pending \in Sessions
  /\ stop # "idle" => ~running
  /\ acceptor # "assign" /\ pending \in Sessions => reader[pending] = "none"
  /\ pending \in Sessions => peer[pending] # "unused"
  /\ DOMAIN peer = Sessions
  /\ \A s \in Sessions : peer[s] = "unused" => reader[s] = "none"

CountInv ==
  /\ DOMAIN reader = Sessions
  /\ stop # "done" => count = Cardinality(Counted)

-----------------------------------------------------------------------------
(* Sequences.                                                              *)

\* The head of a buffer moves to the end of what was written.
LEMMA HeadMoves ==
  \A a, b, c \in Seq(Record) :
    b # <<>> =>
      /\ Append(a, Head(b)) \in Seq(Record) /\ Tail(b) \in Seq(Record)
      /\ Append(a, Head(b)) \o (Tail(b) \o c) = a \o (b \o c)
<1> SUFFICES ASSUME NEW a \in Seq(Record), NEW b \in Seq(Record), NEW c \in Seq(Record),
                    b # <<>>
             PROVE  /\ Append(a, Head(b)) \in Seq(Record) /\ Tail(b) \in Seq(Record)
                    /\ Append(a, Head(b)) \o (Tail(b) \o c) = a \o (b \o c)
  OBVIOUS
<1>1. Head(b) \in Record /\ Tail(b) \in Seq(Record)
  BY HeadTailProperties
<1> DEFINE x == Head(b)
           t == Tail(b)
<1>2. b = <<x>> \o t
  OBVIOUS
<1>3. Append(a, x) = a \o <<x>> /\ Append(a, x) \in Seq(Record) /\ <<x>> \in Seq(Record)
  BY <1>1, AppendIsConcat, AppendProperties
<1> HIDE DEF x, t
<1>4. t \in Seq(Record)
  BY <1>1 DEF t
<1>5. b \o c = <<x>> \o (t \o c)
  BY <1>2, <1>3, <1>4, ConcatAssociative
<1>6. t \o c \in Seq(Record)
  BY <1>4, ConcatProperties
<1>7. (a \o <<x>>) \o (t \o c) = a \o (<<x>> \o (t \o c))
  BY <1>3, <1>6, ConcatAssociative
<1> QED BY <1>1, <1>3, <1>5, <1>7 DEF x, t

\* A record added to the last of three parts is added to the whole.
LEMMA AddLast ==
  \A a, b, c \in Seq(Record) : \A x \in Record :
    a \o (b \o Append(c, x)) = Append(a \o (b \o c), x)
OBVIOUS

\* Joining sequences may be grouped either way.
LEMMA Regroup ==
  \A a, b, c \in Seq(Record) : (a \o b) \o c = a \o (b \o c)
BY ConcatAssociative

\* What a sequence begins with is a prefix of it.
LEMMA PrefixOf ==
  ASSUME NEW S, NEW a \in Seq(S), NEW b \in Seq(S)
  PROVE  IsPrefix(a, a \o b)
BY DEF IsPrefix

-----------------------------------------------------------------------------
(* Records on their way to a client.                                       *)

\* A session may die; nothing else changes.
LEMMA FlowStays ==
  ASSUME FlowInv, alive' \in [Sessions -> BOOLEAN],
         \A s \in Sessions : alive'[s] => alive[s],
         UNCHANGED <<outbound, offered, delivered>>,
         \A s \in Sessions : InFlight(s)' = InFlight(s),
         sent' \in 0 .. MaxRecords, mtx' = "broadcast" => sent' \in Record
  PROVE  FlowInv'
<1> USE DEF FlowInv, Flows
<1>1. \A s \in Sessions : InFlight(s)' \in Seq(Record)
  OBVIOUS
<1>2. ASSUME NEW s \in Sessions PROVE Flows(s)'
  <2>1. PICK rest \in Seq(Record) :
          /\ delivered[s] \o (InFlight(s) \o rest) = offered[s]
          /\ alive[s] => rest = outbound[s]
    OBVIOUS
  <2>2. /\ delivered'[s] \o (InFlight(s)' \o rest) = offered'[s]
        /\ alive'[s] => rest = outbound'[s]
    BY <2>1
  <2> QED BY <2>2
<1> QED BY <1>1, <1>2

\* One session alone changes.
LEMMA FlowOfOne ==
  ASSUME FlowInv, NEW s \in Sessions, Flows(s)', InFlight(s)' \in Seq(Record),
         alive' \in [Sessions -> BOOLEAN],
         {outbound', offered', delivered'} \subseteq [Sessions -> Seq(Record)],
         \A r \in Sessions \ {s} :
           /\ InFlight(r)' = InFlight(r) /\ alive'[r] = alive[r]
           /\ outbound'[r] = outbound[r] /\ offered'[r] = offered[r]
           /\ delivered'[r] = delivered[r],
         sent' = sent, mtx' = mtx
  PROVE  FlowInv'
<1> USE DEF FlowInv
<1>1. ASSUME NEW r \in Sessions PROVE InFlight(r)' \in Seq(Record) /\ Flows(r)'
  <2>1. CASE r = s
    BY <2>1
  <2>2. CASE r # s
    <3>1. PICK rest \in Seq(Record) :
            /\ delivered[r] \o (InFlight(r) \o rest) = offered[r]
            /\ alive[r] => rest = outbound[r]
      BY DEF Flows
    <3>2. /\ delivered'[r] \o (InFlight(r)' \o rest) = offered'[r]
          /\ alive'[r] => rest = outbound'[r]
      BY <2>2, <3>1
    <3>3. InFlight(r)' \in Seq(Record)
      BY <2>2
    <3> QED BY <3>2, <3>3 DEF Flows
  <2> QED BY <2>1, <2>2
<1> QED BY <1>1

\* The types FlowInv gives, for citing.
LEMMA FlowTypes ==
  ASSUME FlowInv
  PROVE  /\ alive \in [Sessions -> BOOLEAN]
         /\ outbound \in [Sessions -> Seq(Record)]
         /\ offered \in [Sessions -> Seq(Record)]
         /\ delivered \in [Sessions -> Seq(Record)]
         /\ sent \in 0 .. MaxRecords /\ (mtx = "broadcast" => sent \in Record)
BY DEF FlowInv

\* WriterLoop swaps the outbound buffer of a live session out.
LEMMA VisitFlows ==
  ASSUME FlowInv, Visit
  PROVE  FlowInv'
<1>1. /\ writer = "visit"
      /\ UNCHANGED <<alive, offered, delivered, sent, mtx>>
  BY DEF Visit, sessionVars, bcastVars, bufferVars
<1>2. \A r \in Sessions : InFlight(r) = <<>>
  BY <1>1 DEF InFlight
<1>3. CASE snap = <<>> \/ Dead(Head(snap))
  <2>1. writer' # "write" /\ outbound' = outbound
    BY <1>1, <1>3 DEF Visit, bufferVars
  <2>2. \A r \in Sessions : InFlight(r)' = <<>>
    BY <2>1 DEF InFlight
  <2> QED BY <1>1, <1>2, <2>1, <2>2, FlowStays, FlowTypes
<1>4. CASE snap # <<>> /\ ~Dead(Head(snap))
  <2>0. PICK s : s = Head(snap)
    OBVIOUS
  <2>1. /\ snap' = snap /\ local' = outbound[s] /\ alive[s] /\ writer' = "write"
        /\ outbound' = [outbound EXCEPT ![s] = <<>>]
    BY <1>4, <2>0 DEF Visit, TakeOutbound, Dead
  <2>2. \A r \in Sessions : InFlight(r)' = IF s = r THEN outbound[s] ELSE <<>>
    BY <2>0, <2>1 DEF InFlight
  <2>3. CASE s \in Sessions
    <3>1. InFlight(s)' = outbound[s] /\ InFlight(s) = <<>>
      BY <1>2, <2>2, <2>3
    <3>2. outbound[s] \in Seq(Record) /\ delivered[s] \in Seq(Record)
      BY <2>3, FlowTypes
    <3>3. delivered[s] \o (<<>> \o outbound[s]) = offered[s]
      BY <2>1, <2>3, <3>1 DEF FlowInv, Flows
    <3>4. <<>> \o outbound[s] = outbound[s] \o <<>>
      BY <3>2, ConcatEmptySeq
    <3>5. outbound'[s] = <<>>
      BY <2>1, <2>3, FlowTypes
    <3>6. Flows(s)'
      <4>1. delivered'[s] \o (InFlight(s)' \o <<>>) = offered'[s]
        BY <1>1, <3>1, <3>3, <3>4
      <4>2. <<>> \in Seq(Record)
        OBVIOUS
      <4> QED BY <3>5, <4>1, <4>2 DEF Flows
    <3>7. outbound' \in [Sessions -> Seq(Record)]
      <4>1. <<>> \in Seq(Record) /\ outbound \in [Sessions -> Seq(Record)]
        BY FlowTypes
      <4>2. outbound' = [outbound EXCEPT ![s] = <<>>]
        BY <2>1
      <4> QED BY <4>1, <4>2
    <3>8. \A r \in Sessions \ {s} : outbound'[r] = outbound[r] /\ InFlight(r)' = InFlight(r)
      BY <1>2, <2>1, <2>2, FlowTypes
    <3>9. {outbound', offered', delivered'} \subseteq [Sessions -> Seq(Record)]
      BY <1>1, <3>7, FlowTypes
    <3>10. \A r \in Sessions \ {s} : alive'[r] = alive[r] /\ offered'[r] = offered[r]
                                     /\ delivered'[r] = delivered[r]
      BY <1>1
    <3>11. alive' \in [Sessions -> BOOLEAN]
      BY <1>1, FlowTypes
    <3> QED BY <1>1, <2>3, <3>1, <3>2, <3>6, <3>8, <3>9, <3>10, <3>11, FlowOfOne
  <2>4. CASE s \notin Sessions
    <3>1. outbound' = outbound
      BY <2>1, <2>4, FlowTypes
    <3>2. \A r \in Sessions : InFlight(r)' = InFlight(r)
      BY <1>2, <2>2, <2>4
    <3> QED BY <1>1, <3>1, <3>2, FlowStays, FlowTypes
  <2> QED BY <2>3, <2>4
<1> QED BY <1>3, <1>4

\* WriteFile has written a record.
LEMMA WriteFlows ==
  ASSUME FlowInv, WriteRecord
  PROVE  FlowInv'
<1>0. PICK s : s = Head(snap)
  OBVIOUS
<1>1. /\ writer = "write" /\ local # <<>>
      /\ delivered' = [delivered EXCEPT ![s] = Append(@, Head(local))]
      /\ local' = Tail(local)
      /\ UNCHANGED <<alive, outbound, offered, sent, mtx, writer, snap>>
  BY <1>0 DEF WriteRecord, sessionVars, bcastVars, bufferVars
<1>2. \A r \in Sessions : r # s => InFlight(r)' = InFlight(r)
  BY <1>0, <1>1 DEF InFlight
<1>3. CASE s \in Sessions
  <2>1. InFlight(s) = local /\ InFlight(s)' = Tail(local)
    BY <1>0, <1>1 DEF InFlight
  <2>2. local \in Seq(Record) /\ delivered[s] \in Seq(Record)
    BY <1>3, <2>1, FlowTypes DEF FlowInv
  <2>3. delivered'[s] = Append(delivered[s], Head(local))
    BY <1>1, <1>3, FlowTypes
  <2>4. PICK rest \in Seq(Record) :
          /\ delivered[s] \o (local \o rest) = offered[s]
          /\ alive[s] => rest = outbound[s]
    BY <1>3, <2>1 DEF FlowInv, Flows
  <2>5. /\ delivered'[s] \in Seq(Record) /\ Tail(local) \in Seq(Record)
        /\ delivered'[s] \o (Tail(local) \o rest) = delivered[s] \o (local \o rest)
    <3>1. local # <<>>
      BY <1>1
    <3>2. /\ Append(delivered[s], Head(local)) \in Seq(Record)
          /\ Tail(local) \in Seq(Record)
          /\ Append(delivered[s], Head(local)) \o (Tail(local) \o rest)
               = delivered[s] \o (local \o rest)
      BY <2>2, <3>1, HeadMoves, Zenon
    <3> QED BY <2>3, <3>2
  <2>6. Flows(s)'
    <3>1. /\ delivered'[s] \o (InFlight(s)' \o rest) = offered'[s]
          /\ alive'[s] => rest = outbound'[s]
      BY <1>1, <2>1, <2>4, <2>5
    <3> QED BY <3>1 DEF Flows
  <2>7. delivered' \in [Sessions -> Seq(Record)]
    BY <1>1, <2>3, <2>5, FlowTypes
  <2>8. \A r \in Sessions \ {s} : delivered'[r] = delivered[r]
    BY <1>1, FlowTypes
  <2>9. {outbound', offered', delivered'} \subseteq [Sessions -> Seq(Record)]
    BY <1>1, <2>7, FlowTypes
  <2>10. alive' \in [Sessions -> BOOLEAN]
    BY <1>1, FlowTypes
  <2> QED BY <1>1, <1>2, <1>3, <2>1, <2>5, <2>6, <2>8, <2>9, <2>10, FlowOfOne
<1>4. CASE s \notin Sessions
  <2>1. delivered' = delivered
    BY <1>1, <1>4, FlowTypes
  <2>2. \A r \in Sessions : InFlight(r)' = InFlight(r)
    BY <1>2, <1>4
  <2> QED BY <1>1, <2>1, <2>2, FlowStays, FlowTypes
<1> QED BY <1>3, <1>4

\* WriteFile has failed: what the writer had in hand is dropped, the session dead.
LEMMA FailFlows ==
  ASSUME FlowInv, WriteFails
  PROVE  FlowInv'
<1>0. PICK s : s = Head(snap)
  OBVIOUS
<1>1. /\ writer = "write" /\ writer' = "visit"
      /\ alive' = [alive EXCEPT ![s] = FALSE]
      /\ UNCHANGED <<outbound, offered, delivered, sent, mtx>>
  BY <1>0 DEF WriteFails, bufferVars, bcastVars
<1>2. \A r \in Sessions : InFlight(r)' = <<>> /\ (r # s => InFlight(r) = <<>>)
  BY <1>0, <1>1 DEF InFlight
<1>3. /\ alive' \in [Sessions -> BOOLEAN]
      /\ \A r \in Sessions \ {s} : alive'[r] = alive[r]
      /\ {outbound', offered', delivered'} \subseteq [Sessions -> Seq(Record)]
  BY <1>1, FlowTypes
<1>4. CASE s \in Sessions
  <2>1. PICK rest \in Seq(Record) : delivered[s] \o (InFlight(s) \o rest) = offered[s]
    BY <1>4 DEF FlowInv, Flows
  <2>2. InFlight(s) \o rest \in Seq(Record)
    BY <1>4, ConcatProperties DEF FlowInv
  <2>3. <<>> \o (InFlight(s) \o rest) = InFlight(s) \o rest
    BY <2>2, ConcatEmptySeq
  <2>4. delivered'[s] \o (InFlight(s)' \o (InFlight(s) \o rest)) = offered'[s]
    BY <1>1, <1>2, <1>4, <2>1, <2>3
  <2>5. ~alive'[s]
    BY <1>1, <1>4, FlowTypes
  <2>6. Flows(s)'
    BY <2>2, <2>4, <2>5 DEF Flows
  <2>7. InFlight(s)' \in Seq(Record)
    <3>1. InFlight(s)' = <<>> /\ <<>> \in Seq(Record)
      BY <1>2, <1>4
    <3> QED BY <3>1, Zenon
  <2> QED BY <1>1, <1>2, <1>3, <1>4, <2>6, <2>7, FlowOfOne
<1>5. CASE s \notin Sessions
  <2>1. \A r \in Sessions : InFlight(r)' = InFlight(r) /\ alive'[r] = alive[r]
    BY <1>2, <1>3, <1>5
  <2> QED BY <1>1, <1>3, <2>1, FlowStays, FlowTypes
<1> QED BY <1>4, <1>5

\* Broadcast appends to the outbound buffer of a live session.
LEMMA OfferFlows ==
  ASSUME FlowInv, Offer
  PROVE  FlowInv'
<1>0. PICK s : s = Head(bcast)
  OBVIOUS
<1>1. /\ mtx = "broadcast"
      /\ UNCHANGED <<alive, delivered, sent, mtx, writer, snap, local>>
  BY DEF Offer, sessionVars, writerVars
<1>2. \A r \in Sessions : InFlight(r)' = InFlight(r)
  BY <1>1 DEF InFlight
<1>3. sent \in Record
  BY <1>1, FlowTypes
<1>4. CASE UNCHANGED <<outbound, offered>>
  BY <1>1, <1>2, <1>4, FlowStays, FlowTypes
<1>5. CASE /\ alive[s] /\ outbound' = [outbound EXCEPT ![s] = Append(@, sent)]
           /\ offered' = [offered EXCEPT ![s] = Append(@, sent)]
  <2>1. CASE s \notin Sessions
    <3>1. outbound' = outbound /\ offered' = offered
      BY <1>5, <2>1, FlowTypes
    <3> QED BY <1>4, <3>1
  <2>2. CASE s \in Sessions
    <3>1. /\ outbound[s] \in Seq(Record) /\ offered[s] \in Seq(Record)
          /\ delivered[s] \in Seq(Record) /\ InFlight(s) \in Seq(Record)
      BY <2>2, FlowTypes DEF FlowInv
    <3>2. /\ outbound'[s] = Append(outbound[s], sent)
          /\ offered'[s] = Append(offered[s], sent)
      BY <1>5, <2>2, FlowTypes
    <3>3. Append(outbound[s], sent) \in Seq(Record) /\ Append(offered[s], sent) \in Seq(Record)
      BY <1>3, <3>1, AppendProperties
    <3>4. delivered[s] \o (InFlight(s) \o outbound[s]) = offered[s]
      BY <1>5, <2>2 DEF FlowInv, Flows
    <3>5. delivered[s] \o (InFlight(s) \o Append(outbound[s], sent))
            = Append(delivered[s] \o (InFlight(s) \o outbound[s]), sent)
      BY <1>3, <3>1, AddLast, Zenon
    <3>6. delivered'[s] \o (InFlight(s)' \o outbound'[s]) = offered'[s]
      BY <1>1, <1>2, <2>2, <3>2, <3>4, <3>5
    <3>7. Flows(s)'
      BY <3>2, <3>3, <3>6 DEF Flows
    <3>8. outbound' \in [Sessions -> Seq(Record)] /\ offered' \in [Sessions -> Seq(Record)]
      BY <1>5, <2>2, <3>3, FlowTypes
    <3>9. {outbound', offered', delivered'} \subseteq [Sessions -> Seq(Record)]
      BY <1>1, <3>8, FlowTypes
    <3>10. \A r \in Sessions \ {s} : outbound'[r] = outbound[r] /\ offered'[r] = offered[r]
      BY <1>5, FlowTypes
    <3>11. \A r \in Sessions \ {s} : alive'[r] = alive[r] /\ delivered'[r] = delivered[r]
      BY <1>1
    <3>12. alive' \in [Sessions -> BOOLEAN] /\ InFlight(s)' \in Seq(Record)
      BY <1>1, <1>2, <2>2, <3>1, FlowTypes
    <3> QED BY <1>1, <1>2, <2>2, <3>7, <3>9, <3>10, <3>11, <3>12, FlowOfOne
  <2> QED BY <2>1, <2>2
<1> QED BY <1>0, <1>4, <1>5 DEF Offer, Offers, bufferVars

\* The steps that change neither a buffer nor a place in one.
LEMMA OthersFlow ==
  ASSUME FlowInv,
         alive' \in [Sessions -> BOOLEAN], \A s \in Sessions : alive'[s] => alive[s],
         UNCHANGED <<bufferVars, writerVars, sent>>, mtx' = "broadcast" => mtx = "broadcast"
  PROVE  FlowInv'
<1>1. \A s \in Sessions : InFlight(s)' = InFlight(s)
  BY DEF InFlight, writerVars
<1> QED BY <1>1, FlowStays, FlowTypes DEF bufferVars, writerVars

\* Every step keeps FlowInv: one case for each of the writer's and Broadcast's
\* steps that touch a buffer, and one for all others.
THEOREM FlowStep ==
  ASSUME FlowInv, [Next]_vars
  PROVE  FlowInv'
<1> USE DEF acceptorVars, sessionVars, bcastVars, stopVars
<1>1. CASE Acceptor
  <2>1. UNCHANGED <<alive, bufferVars, writerVars, sent, mtx>>
    BY <1>1 DEF Acceptor, AcceptorCheck, CreatePipeInstance, Connected, ConnectFails,
                Register, SpawnReader, AssignReader
  <2> QED BY <2>1, OthersFlow, FlowTypes
<1>2. CASE Writer
  <2>1. CASE SnapshotAndReap
    <3>1. /\ writer = "snapshot" /\ writer' = "visit"
          /\ UNCHANGED <<alive, outbound, offered, delivered, sent, mtx>>
      BY <2>1 DEF SnapshotAndReap, bufferVars
    <3>2. \A s \in Sessions : InFlight(s)' = InFlight(s)
      BY <3>1 DEF InFlight
    <3> QED BY <3>1, <3>2, FlowStays, FlowTypes
  <2>2. CASE WriteDone
    <3>1. /\ writer' = "visit" /\ local = <<>>
          /\ UNCHANGED <<alive, outbound, offered, delivered, sent, mtx>>
      BY <2>2 DEF WriteDone, bufferVars
    <3>2. \A s \in Sessions : InFlight(s)' = InFlight(s)
      BY <3>1 DEF InFlight
    <3> QED BY <3>1, <3>2, FlowStays, FlowTypes
  <2> QED BY <1>2, <2>1, <2>2, VisitFlows, WriteFlows, FailFlows DEF Writer
<1>3. CASE Broadcasting
  <2>1. CASE BroadcastBegin
    <3>1. /\ sent < MaxRecords /\ sent' = sent + 1
          /\ UNCHANGED <<alive, bufferVars, writerVars>>
      BY <2>1 DEF BroadcastBegin
    <3>2. sent' \in Record /\ sent' \in 0 .. MaxRecords
      BY <3>1, FlowTypes, PipeAssumption DEF Record
    <3>3. \A s \in Sessions : InFlight(s)' = InFlight(s)
      BY <3>1 DEF InFlight, writerVars
    <3> QED BY <3>1, <3>2, <3>3, FlowStays, FlowTypes DEF bufferVars, writerVars
  <2>2. CASE BroadcastEnd
    <3>1. UNCHANGED <<alive, bufferVars, writerVars, sent>> /\ mtx' = "free"
      BY <2>2 DEF BroadcastEnd
    <3> QED BY <3>1, OthersFlow, FlowTypes
  <2> QED BY <1>3, <2>1, <2>2, OfferFlows DEF Broadcasting
<1>4. CASE StopBegin \/ Stopping
  <2>1. UNCHANGED <<bufferVars, writerVars, sent>> /\ (mtx' = "broadcast" => mtx = "broadcast")
    BY <1>4 DEF StopBegin, Stopping, StopWakes, StopJoinsAcceptor, StopJoinsWriter,
                StopCloses, StopJoinsReader, StopEnds
  <2>2. alive' = alive \/ alive' = [alive EXCEPT ![Head(doomed)] = FALSE]
    BY <1>4 DEF StopBegin, Stopping, StopWakes, StopJoinsAcceptor, StopJoinsWriter,
                StopCloses, StopJoinsReader, StopEnds
  <2>3. alive' \in [Sessions -> BOOLEAN] /\ \A s \in Sessions : alive'[s] => alive[s]
    BY <2>2, FlowTypes
  <2> QED BY <2>1, <2>3, OthersFlow
<1>5. ASSUME NEW s \in Sessions, Reader(s) \/ ReadCommand(s) \/ Client(s)
      PROVE  FlowInv'
  <2>1. UNCHANGED <<bufferVars, writerVars, sent, mtx>>
    BY <1>5 DEF Reader, ReaderCheck, ReadFails, ReaderDies, ReaderEnds, ReadCommand,
                Client, ClientConnect, ClientStall, ClientClose
  <2>2. alive' = alive \/ alive' = [alive EXCEPT ![s] = FALSE]
    BY <1>5 DEF Reader, ReaderCheck, ReadFails, ReaderDies, ReaderEnds, ReadCommand,
                Client, ClientConnect, ClientStall, ClientClose
  <2>3. alive' \in [Sessions -> BOOLEAN] /\ \A r \in Sessions : alive'[r] => alive[r]
    BY <2>2, FlowTypes
  <2> QED BY <2>1, <2>3, OthersFlow
<1>6. CASE UNCHANGED vars
  BY <1>6, OthersFlow, FlowTypes DEF vars
<1> QED BY <1>1, <1>2, <1>3, <1>4, <1>5, <1>6 DEF Next

\* Nothing has been given to anyone, and nothing is on its way.
THEOREM FlowInit == Init => FlowInv
<1> SUFFICES ASSUME Init PROVE FlowInv
  OBVIOUS
<1>1. \A s \in Sessions : InFlight(s) = <<>>
  BY DEF Init, InFlight
<1>2. \A s \in Sessions : Flows(s)
  <2> SUFFICES ASSUME NEW s \in Sessions PROVE Flows(s)
    OBVIOUS
  <2>1. delivered[s] = <<>> /\ offered[s] = <<>> /\ outbound[s] = <<>>
    BY DEF Init
  <2>2. <<>> \o (<<>> \o <<>>) = <<>> /\ <<>> \in Seq(Record)
    OBVIOUS
  <2> QED BY <1>1, <2>1, <2>2 DEF Flows
<1>3. {outbound, offered, delivered} \subseteq [Sessions -> Seq(Record)]
  BY DEF Init
<1>4. sent \in 0 .. MaxRecords /\ mtx # "broadcast"
  BY PipeAssumption DEF Init
<1>5. alive \in [Sessions -> BOOLEAN]
  BY DEF Init
<1>6. \A s \in Sessions : InFlight(s) \in Seq(Record)
  <2>1. <<>> \in Seq(Record)
    OBVIOUS
  <2> QED BY <1>1, <2>1, Zenon
<1> QED BY <1>2, <1>3, <1>4, <1>5, <1>6 DEF FlowInv

(***************************************************************************)
(* Broadcast and WriterLoop, sharing the buffers: what a live client got,  *)
(* what is being written to it and its buffer make up what it was given; a *)
(* dead one got a prefix of that.                                          *)
(***************************************************************************)
THEOREM NothingIsLost == Spec => []NothingLost
<1>1. FlowInv => NothingLost
  <2> SUFFICES ASSUME FlowInv, NEW s \in Sessions
               PROVE  IF alive[s]
                        THEN delivered[s] \o InFlight(s) \o outbound[s] = offered[s]
                        ELSE IsPrefix(delivered[s], offered[s])
    BY DEF NothingLost
  <2>1. PICK rest \in Seq(Record) :
          /\ delivered[s] \o (InFlight(s) \o rest) = offered[s]
          /\ alive[s] => rest = outbound[s]
    BY DEF FlowInv, Flows
  <2>2. delivered[s] \in Seq(Record) /\ InFlight(s) \in Seq(Record)
    BY FlowTypes DEF FlowInv
  <2>3. (delivered[s] \o InFlight(s)) \o rest = offered[s]
    BY <2>1, <2>2, Regroup, Zenon
  <2>4. InFlight(s) \o rest \in Seq(Record)
    BY <2>2, ConcatProperties
  <2>5. IsPrefix(delivered[s], offered[s])
    BY <2>1, <2>2, <2>4, PrefixOf
  <2> QED BY <2>1, <2>3, <2>5
<1> QED BY <1>1, FlowInit, FlowStep, PTL DEF Spec

-----------------------------------------------------------------------------
(* The two counts.                                                         *)

\* Broadcast and WriterLoop keep outboundPending with the buffer.
LEMMA BacklogStep ==
  ASSUME FlowInv, backlog \in [Sessions -> Nat], BacklogInv, [Next]_vars
  PROVE  backlog' \in [Sessions -> Nat] /\ BacklogInv'
<1>1. CASE UNCHANGED <<outbound, backlog>>
  BY <1>1 DEF BacklogInv
<1>2. CASE Visit
  <2>1. PICK s : s = Head(snap)
    OBVIOUS
  <2>2. CASE /\ outbound' = [outbound EXCEPT ![s] = <<>>]
             /\ backlog' = [backlog EXCEPT ![s] = 0]
    <3>1. \A r \in Sessions :
            \/ r # s /\ outbound'[r] = outbound[r] /\ backlog'[r] = backlog[r]
            \/ outbound'[r] = <<>> /\ backlog'[r] = 0
      BY <2>2, FlowTypes
    <3>2. backlog' \in [Sessions -> Nat]
      BY <2>2
    <3>3. Len(<<>>) = 0 /\ 0 <= HighWatermark
      BY PipeAssumption
    <3> QED BY <3>1, <3>2, <3>3 DEF BacklogInv
  <2> QED BY <1>1, <1>2, <2>1, <2>2 DEF Visit, TakeOutbound, bufferVars
<1>3. CASE Offer
  <2>1. PICK s : s = Head(bcast)
    OBVIOUS
  <2>2. CASE /\ backlog[s] + 1 <= HighWatermark
             /\ outbound' = [outbound EXCEPT ![s] = Append(@, sent)]
             /\ backlog' = [backlog EXCEPT ![s] = @ + 1]
    <3>1. \A r \in Sessions :
            \/ outbound'[r] = outbound[r] /\ backlog'[r] = backlog[r]
            \/ /\ r = s /\ outbound'[r] = Append(outbound[r], sent)
               /\ backlog'[r] = backlog[r] + 1
      BY <2>2, FlowTypes
    <3>2. backlog' \in [Sessions -> Nat]
      <4>1. backlog' = [backlog EXCEPT ![s] = @ + 1]
        BY <2>2
      <4>2. backlog \in [Sessions -> Nat]
        OBVIOUS
      <4>3. CASE s \in Sessions
        <5>1. backlog[s] + 1 \in Nat
          BY <4>2, <4>3
        <5>2. backlog' = [backlog EXCEPT ![s] = backlog[s] + 1]
          BY <4>1
        <5> QED BY <4>2, <5>1, <5>2
      <4>4. CASE s \notin Sessions
        <5>1. backlog' = backlog
          BY <4>1, <4>2, <4>4
        <5> QED BY <4>2, <5>1
      <4> QED BY <4>3, <4>4
    <3>3. \A r \in Sessions : Len(Append(outbound[r], sent)) = Len(outbound[r]) + 1
      BY FlowTypes
    <3> QED BY <2>2, <3>1, <3>2, <3>3 DEF BacklogInv
  <2> QED BY <1>1, <1>3, <2>1, <2>2 DEF Offer, Offers, bufferVars
<1>4. \/ Visit \/ Offer \/ UNCHANGED <<outbound, backlog>>
  <2>1. CASE Acceptor
    BY <2>1 DEF Acceptor, AcceptorCheck, CreatePipeInstance, Connected, ConnectFails,
                Register, SpawnReader, AssignReader, bufferVars
  <2>2. CASE Writer
    BY <2>2 DEF Writer, SnapshotAndReap, WriteRecord, WriteFails, WriteDone, bufferVars
  <2>3. CASE Broadcasting
    BY <2>3 DEF Broadcasting, BroadcastBegin, BroadcastEnd, bufferVars
  <2>4. CASE StopBegin \/ Stopping
    BY <2>4 DEF StopBegin, Stopping, StopWakes, StopJoinsAcceptor, StopJoinsWriter,
                StopCloses, StopJoinsReader, StopEnds, bufferVars
  <2>5. CASE \E s \in Sessions : Reader(s) \/ ReadCommand(s) \/ Client(s)
    BY <2>5 DEF Reader, ReaderCheck, ReadFails, ReaderDies, ReaderEnds, ReadCommand,
                Client, ClientConnect, ClientStall, ClientClose, bufferVars
  <2>6. CASE UNCHANGED vars
    BY <2>6 DEF vars, bufferVars
  <2> QED BY <2>1, <2>2, <2>3, <2>4, <2>5, <2>6 DEF Next
<1> QED BY <1>1, <1>2, <1>3, <1>4

\* The acceptor without a connection holds no session.
LEMMA NotASession == NoSession \notin Sessions
BY DEF NoSession, Sessions

\* AcceptorLoop sets up one connection at a time.
LEMMA SetUpStep ==
  ASSUME SetUpInv, DOMAIN reader = Sessions, [Next]_vars
  PROVE  SetUpInv' /\ DOMAIN reader' = Sessions
<1> USE DEF SetUpInv, acceptorVars, sessionVars, stopVars
<1>1. CASE AcceptorCheck
  BY <1>1 DEF AcceptorCheck
<1>2. CASE CreatePipeInstance
  BY <1>2 DEF CreatePipeInstance
<1>3. CASE Connected
  BY <1>3, NotASession DEF Connected
<1>4. CASE ConnectFails
  BY <1>4, NotASession DEF ConnectFails
<1>5. CASE Register
  BY <1>5 DEF Register
<1>6. CASE SpawnReader
  BY <1>6 DEF SpawnReader
<1>7. CASE AssignReader
  BY <1>7, NotASession DEF AssignReader
<1>8. CASE UNCHANGED <<acceptor, pending, listening, peer, running, stop>>
           /\ DOMAIN reader' = Sessions
           /\ \A s \in Sessions : reader[s] = "none" => reader'[s] = "none"
  BY <1>8
<1>9. CASE Writer \/ Broadcasting
  <2>1. UNCHANGED <<acceptor, pending, listening, peer, running, stop>>
    BY <1>9 DEF Writer, Broadcasting, SnapshotAndReap, Visit, WriteRecord, WriteFails,
                WriteDone, BroadcastBegin, Offer, BroadcastEnd
  <2>2. reader' = reader \/ WriteFails
    BY <1>9 DEF Writer, Broadcasting, SnapshotAndReap, Visit, WriteRecord,
                WriteDone, BroadcastBegin, Offer, BroadcastEnd
  <2>3. DOMAIN reader' = Sessions /\ \A s \in Sessions : reader[s] = "none" => reader'[s] = "none"
    BY <2>2 DEF WriteFails
  <2> QED BY <1>8, <2>1, <2>3
<1>10. CASE StopBegin \/ Stopping
  <2>1. UNCHANGED <<acceptor, pending, peer>>
    BY <1>10 DEF StopBegin, Stopping, StopWakes, StopJoinsAcceptor, StopJoinsWriter,
                 StopCloses, StopJoinsReader, StopEnds
  <2>2. /\ listening' = listening \/ (listening = "waiting" /\ listening' = "taken")
        /\ stop' # "idle" /\ (running' = FALSE \/ (running' = running /\ stop # "idle"))
    BY <1>10 DEF StopBegin, Stopping, StopWakes, StopJoinsAcceptor, StopJoinsWriter,
                 StopCloses, StopJoinsReader, StopEnds
  <2>3. reader' = reader \/ StopCloses
    BY <1>10 DEF StopBegin, Stopping, StopWakes, StopJoinsAcceptor, StopJoinsWriter,
                 StopJoinsReader, StopEnds
  <2>4. DOMAIN reader' = Sessions /\ \A s \in Sessions : reader[s] = "none" => reader'[s] = "none"
    BY <2>3 DEF StopCloses
  <2> QED BY <2>1, <2>2, <2>4
<1>11. ASSUME NEW s \in Sessions, Reader(s) \/ ReadCommand(s)
       PROVE  SetUpInv' /\ DOMAIN reader' = Sessions
  <2>1. UNCHANGED <<acceptor, pending, listening, peer, running, stop>>
    BY <1>11 DEF Reader, ReaderCheck, ReadFails, ReaderDies, ReaderEnds, ReadCommand
  <2>2. /\ DOMAIN reader' = Sessions
        /\ \A r \in Sessions : reader[r] = "none" => reader'[r] = "none"
    BY <1>11 DEF Reader, ReaderGoto, ReaderCheck, ReadFails, ReaderDies, ReaderEnds,
                 ReadCommand
  <2> QED BY <1>8, <2>1, <2>2
<1>12. ASSUME NEW s \in Sessions, ClientConnect(s)
       PROVE  SetUpInv' /\ DOMAIN reader' = Sessions
  <2>1. /\ peer[s] = "unused" /\ listening = "waiting" /\ listening' = "taken"
        /\ pending' = s /\ peer' = [peer EXCEPT ![s] = "open"]
        /\ UNCHANGED <<acceptor, reader, running, stop>>
    BY <1>12 DEF ClientConnect
  <2>2. acceptor = "listen" /\ reader[s] = "none"
    BY <2>1
  <2>3. peer'[s] = "open" /\ DOMAIN peer' = Sessions
        /\ \A r \in Sessions : peer'[r] = "unused" => peer[r] = "unused"
    BY <2>1
  <2> QED BY <2>1, <2>2, <2>3
<1>13. ASSUME NEW s \in Sessions, ClientStall(s) \/ ClientClose(s)
       PROVE  SetUpInv' /\ DOMAIN reader' = Sessions
  <2>1. UNCHANGED <<acceptor, pending, listening, reader, running, stop>>
    BY <1>13 DEF ClientStall, ClientClose
  <2>2. DOMAIN peer' = Sessions /\ \A r \in Sessions : peer'[r] = "unused" <=> peer[r] = "unused"
    BY <1>13 DEF ClientStall, ClientClose
  <2> QED BY <2>1, <2>2
<1>14. CASE UNCHANGED vars
  BY <1>14 DEF vars
<1> QED
  BY <1>1, <1>2, <1>3, <1>4, <1>5, <1>6, <1>7, <1>9, <1>10, <1>11, <1>12, <1>13, <1>14
  DEF Next, Acceptor, Client

\* Finitely many sessions are counted, so that they have a cardinality.
LEMMA CountedFinite ==
  /\ IsFiniteSet(Sessions) /\ Cardinality(Sessions) = MaxSessions
  /\ IsFiniteSet(Counted) /\ Cardinality(Counted) \in 0 .. MaxSessions
<1>1. IsFiniteSet(Sessions) /\ Cardinality(Sessions) = MaxSessions
  BY FS_Interval, PipeAssumption DEF Sessions
<1>2. Counted \in SUBSET Sessions
  BY DEF Counted
<1>3. /\ IsFiniteSet(Counted) /\ Cardinality(Counted) <= MaxSessions
      /\ Cardinality(Counted) \in Nat
  BY <1>1, <1>2, FS_Subset, FS_CardinalityType
<1> QED BY <1>1, <1>3, PipeAssumption

\* A count that no step of its own changes.
LEMMA CountStays ==
  ASSUME CountInv, DOMAIN reader' = Sessions, count' = count,
         stop' # "done" => stop # "done",
         \A s \in Sessions :
           reader'[s] \in {"none", "exited"} <=> reader[s] \in {"none", "exited"}
  PROVE  CountInv'
<1>1. Counted' = Counted
  BY DEF Counted
<1> QED BY <1>1 DEF CountInv

\* SpawnReader counts a session before its reader runs.
LEMMA CountIn ==
  ASSUME MaxSessions < CountSpan, SetUpInv, CountInv, SpawnReader
  PROVE  CountInv'
<1>1. /\ pending \in Sessions /\ reader[pending] = "none" /\ DOMAIN reader = Sessions
      /\ reader' = [reader EXCEPT ![pending] = "check"]
      /\ count' = (count + 1) % CountSpan /\ stop' = stop
  BY DEF SpawnReader, SetUpInv, CountInv, stopVars
<1>2. Counted' = Counted \union {pending} /\ pending \notin Counted
  BY <1>1 DEF Counted
<1>3. Cardinality(Counted') = Cardinality(Counted) + 1
  BY <1>2, CountedFinite, FS_AddElement
<1>4. Cardinality(Counted') \in 0 .. MaxSessions
  <2>1. Counted' \in SUBSET Sessions
    BY DEF Counted
  <2> QED BY <2>1, CountedFinite, FS_Subset, FS_CardinalityType
<1>5. ASSUME stop # "done" PROVE count' = Cardinality(Counted')
  <2>1. count = Cardinality(Counted)
    BY <1>5 DEF CountInv
  <2>2. count + 1 = Cardinality(Counted')
    BY <1>3, <2>1
  <2>3. Cardinality(Counted') \in 0 .. CountSpan - 1 /\ CountSpan \in Nat \ {0}
    BY <1>4, PipeAssumption
  <2>4. Cardinality(Counted') % CountSpan = Cardinality(Counted')
    BY <2>3
  <2> QED BY <1>1, <2>2, <2>4
<1> QED BY <1>1, <1>5 DEF CountInv

\* fetch_sub undoes fetch_add where the count does not wrap.
LEMMA WrapDown ==
  ASSUME NEW k \in Nat \ {0}, NEW m \in 0 .. k - 1
  PROVE  (m + k) % k = m
<1>1. m + k = k * 1 + m
  OBVIOUS
<1>2. (m + k) \div k = 1
  OBVIOUS
<1> QED BY <1>1, <1>2

\* HandleClient counts it out when it ends.
LEMMA CountOut ==
  ASSUME MaxSessions < CountSpan, CountInv, NEW s \in Sessions, ReaderEnds(s)
  PROVE  CountInv'
<1>1. /\ reader[s] = "closing" /\ DOMAIN reader = Sessions
      /\ reader' = [reader EXCEPT ![s] = "exited"]
      /\ count' = (count + CountSpan - 1) % CountSpan /\ stop' = stop
  BY DEF ReaderEnds, ReaderGoto, Uncount, CountInv, stopVars
<1>2. Counted' = Counted \ {s} /\ s \in Counted
  BY <1>1 DEF Counted
<1>3. Cardinality(Counted') = Cardinality(Counted) - 1
  BY <1>2, CountedFinite, FS_RemoveElement
<1>4. Cardinality(Counted') \in Nat
  <2>1. IsFiniteSet(Counted')
    BY <1>2, CountedFinite, FS_RemoveElement
  <2> QED BY <2>1, FS_CardinalityType
<1>5. ASSUME stop # "done" PROVE count' = Cardinality(Counted')
  <2>1. count = Cardinality(Counted)
    BY <1>5 DEF CountInv
  <2> DEFINE n == Cardinality(Counted)
  <2>2. n \in 1 .. MaxSessions /\ Cardinality(Counted') = n - 1
    BY <1>3, <1>4, CountedFinite
  <2>3. count' = (n + CountSpan - 1) % CountSpan
    BY <1>1, <2>1
  <2> HIDE DEF n
  <2>4. CountSpan \in Nat \ {0} /\ n - 1 \in 0 .. CountSpan - 1
    BY <2>2, PipeAssumption
  <2>5. (n + CountSpan - 1) % CountSpan = n - 1
    <3>1. n + CountSpan - 1 = (n - 1) + CountSpan
      BY <2>2, PipeAssumption
    <3>2. ((n - 1) + CountSpan) % CountSpan = n - 1
      BY <2>4, WrapDown
    <3> QED BY <3>1, <3>2
  <2> QED BY <2>2, <2>3, <2>5
<1> QED BY <1>1, <1>5 DEF CountInv

\* Every step keeps the count of the sessions that have begun and not ended.
LEMMA CountStep ==
  ASSUME MaxSessions < CountSpan, SetUpInv, CountInv, [Next]_vars
  PROVE  CountInv'
<1>0. DOMAIN reader = Sessions /\ DOMAIN reader' = Sessions
  BY SetUpStep DEF CountInv
<1> USE DEF acceptorVars, sessionVars, stopVars
<1>1. CASE Acceptor
  <2>1. CASE ~SpawnReader
    <3>1. UNCHANGED <<reader, count, stop>>
      BY <1>1, <2>1 DEF Acceptor, AcceptorCheck, CreatePipeInstance, Connected,
                        ConnectFails, Register, AssignReader
    <3> QED BY <1>0, <3>1, CountStays
  <2> QED BY <2>1, CountIn
<1>2. CASE Writer \/ Broadcasting
  <2>1. UNCHANGED <<count, stop>>
    BY <1>2 DEF Writer, Broadcasting, SnapshotAndReap, Visit, WriteRecord, WriteFails,
                WriteDone, BroadcastBegin, Offer, BroadcastEnd
  <2>2. reader' = reader \/ WriteFails
    BY <1>2 DEF Writer, Broadcasting, SnapshotAndReap, Visit, WriteRecord,
                WriteDone, BroadcastBegin, Offer, BroadcastEnd
  <2>3. \A s \in Sessions :
          reader'[s] \in {"none", "exited"} <=> reader[s] \in {"none", "exited"}
    BY <1>0, <2>2 DEF WriteFails
  <2> QED BY <1>0, <2>1, <2>3, CountStays
<1>3. CASE StopBegin \/ Stopping
  <2>1. CASE StopEnds
    <3>1. stop' = "done"
      BY <2>1 DEF StopEnds
    <3> QED BY <1>0, <3>1 DEF CountInv
  <2>2. CASE ~StopEnds
    <3>1. count' = count /\ stop # "done"
      BY <1>3, <2>2 DEF StopBegin, Stopping, StopWakes, StopJoinsAcceptor,
                        StopJoinsWriter, StopCloses, StopJoinsReader
    <3>2. reader' = reader \/ StopCloses
      BY <1>3, <2>2 DEF StopBegin, Stopping, StopWakes, StopJoinsAcceptor,
                        StopJoinsWriter, StopJoinsReader
    <3>3. \A s \in Sessions :
            reader'[s] \in {"none", "exited"} <=> reader[s] \in {"none", "exited"}
      BY <1>0, <3>2 DEF StopCloses
    <3> QED BY <1>0, <3>1, <3>3, CountStays
  <2> QED BY <2>1, <2>2
<1>4. ASSUME NEW s \in Sessions, Reader(s) \/ ReadCommand(s) \/ Client(s), ~ReaderEnds(s)
      PROVE  CountInv'
  <2>1. UNCHANGED <<count, stop>>
    BY <1>4 DEF Reader, ReaderCheck, ReadFails, ReaderDies, ReadCommand, Client,
                ClientConnect, ClientStall, ClientClose
  <2>2. \/ reader' = reader
        \/ \E from, to \in {"check", "reading", "broken", "closing"} :
             ReaderGoto(s, from, to)
    BY <1>4 DEF Reader, ReaderCheck, ReadFails, ReaderDies, ReadCommand, Client,
                ClientConnect, ClientStall, ClientClose
  <2>3. \A r \in Sessions :
          reader'[r] \in {"none", "exited"} <=> reader[r] \in {"none", "exited"}
    BY <1>0, <2>2 DEF ReaderGoto
  <2> QED BY <1>0, <2>1, <2>3, CountStays
<1>5. CASE UNCHANGED vars
  BY <1>0, <1>5, CountStays DEF vars
<1> QED BY <1>1, <1>2, <1>3, <1>4, <1>5, CountOut DEF Next

\* No session, no backlog.
LEMMA CountsInit == Init => backlog \in [Sessions -> Nat] /\ BacklogInv /\ SetUpInv /\ CountInv
<1> SUFFICES ASSUME Init
             PROVE  backlog \in [Sessions -> Nat] /\ BacklogInv /\ SetUpInv /\ CountInv
  OBVIOUS
<1>1. backlog \in [Sessions -> Nat] /\ \A s \in Sessions : backlog[s] = 0 /\ outbound[s] = <<>>
  BY DEF Init
<1>2. BacklogInv
  <2>1. Len(<<>>) = 0 /\ 0 <= HighWatermark
    BY PipeAssumption
  <2> QED BY <1>1, <2>1 DEF BacklogInv
<1>3. SetUpInv
  BY NotASession DEF Init, SetUpInv
<1>4. CountInv
  <2>1. Counted = {} /\ count = 0 /\ DOMAIN reader = Sessions
    BY DEF Init, Counted
  <2> QED BY <2>1, FS_EmptySet DEF CountInv
<1> QED BY <1>1, <1>2, <1>3, <1>4

(***************************************************************************)
(* outboundPending and _connectedCount, each kept by threads that share no *)
(* lock with one another, are exact; the latter if fewer connections are   *)
(* made than the unsigned count has values.                                *)
(***************************************************************************)
THEOREM CountsAreExact ==
  ASSUME MaxSessions < CountSpan
  PROVE  Spec => []CountsExact
<1> DEFINE Inv == /\ FlowInv /\ backlog \in [Sessions -> Nat] /\ BacklogInv
                  /\ SetUpInv /\ CountInv
<1>1. Init => Inv
  BY FlowInit, CountsInit
<1>2. Inv /\ [Next]_vars => Inv'
  <2> SUFFICES ASSUME Inv, [Next]_vars PROVE Inv'
    OBVIOUS
  <2>1. FlowInv'
    BY FlowStep
  <2>2. backlog' \in [Sessions -> Nat] /\ BacklogInv'
    BY BacklogStep
  <2>3. SetUpInv'
    BY SetUpStep DEF CountInv
  <2>4. CountInv'
    BY CountStep
  <2> QED BY <2>1, <2>2, <2>3, <2>4
<1>3. Inv => CountsExact
  BY DEF BacklogInv, CountInv, Counted, CountsExact
<1> HIDE DEF Inv
<1> QED BY <1>1, <1>2, <1>3, PTL DEF Spec
-----------------------------------------------------------------------------
(* Types.                                                                  *)

\* A set of numbers that is not empty has a least one.
LEMMA LeastOf ==
  ASSUME NEW S \in SUBSET Nat, S # {}
  PROVE  \E x \in S : \A y \in S : x <= y
<1>1. \E x \in S : \A y \in S : <<y, x>> \notin OpToRel(<, Nat)
  BY NatLessThanWellFounded, WFMin
<1>2. PICK x \in S : \A y \in S : ~(y < x)
  BY <1>1 DEF OpToRel
<1> QED BY <1>2

\* What is left of the first i clients, for i up to N: upTo of Survivors.
LeftOf(g, N) ==
  g = [i \in 0 .. N |->
        IF i = 0 THEN <<>>
        ELSE IF Dead(clients[i]) THEN g[i - 1]
        ELSE Append(g[i - 1], clients[i])]

\* The erase is defined for a list of any length: a shortest for which it is
\* not would have one more client than one for which it is.
LEMMA LeftExists ==
  ASSUME NEW N \in Nat
  PROVE  \E g : LeftOf(g, N)
<1> DEFINE S == {m \in Nat : ~ \E g : LeftOf(g, m)}
<1>1. ASSUME S # {} PROVE FALSE
  <2>1. PICK m \in S : \A y \in S : m <= y
    BY <1>1, LeastOf
  <2>2. m \in Nat /\ ~ \E g : LeftOf(g, m)
    BY <2>1
  <2>3. CASE m = 0
    <3> DEFINE g == [i \in 0 .. 0 |-> <<>>]
    <3>1. LeftOf(g, 0)
      BY DEF LeftOf
    <3> QED BY <2>2, <2>3, <3>1
  <2>4. CASE m # 0
    <3>1. m - 1 \in Nat /\ ~(m <= m - 1)
      BY <2>2, <2>4
    <3>2. m - 1 \notin S
      BY <2>1, <3>1
    <3>3. PICK f : LeftOf(f, m - 1)
      BY <3>1, <3>2
    <3> DEFINE e == IF Dead(clients[m]) THEN f[m - 1] ELSE Append(f[m - 1], clients[m])
               g == [i \in 0 .. m |-> IF i = m THEN e ELSE f[i]]
    <3>4. \A i \in 0 .. m - 1 : f[i] =
            IF i = 0 THEN <<>> ELSE IF Dead(clients[i]) THEN f[i - 1]
            ELSE Append(f[i - 1], clients[i])
      BY <3>3 DEF LeftOf
    <3>5. \A i \in 0 .. m - 1 : g[i] = f[i]
      BY <2>2
    <3>6. g[m] = e
      BY <2>2
    <3>7. g = [i \in 0 .. m |-> g[i]]
      OBVIOUS
    <3> HIDE DEF g
    <3>8. \A i \in 0 .. m : g[i] =
            IF i = 0 THEN <<>> ELSE IF Dead(clients[i]) THEN g[i - 1]
            ELSE Append(g[i - 1], clients[i])
      <4> TAKE i \in 0 .. m
      <4>1. CASE i = m
        <5>1. g[i - 1] = f[m - 1] /\ i # 0
          BY <2>2, <2>4, <3>1, <3>5, <4>1
        <5> QED BY <3>6, <4>1, <5>1
      <4>2. CASE i # m
        <5>1. i \in 0 .. m - 1 /\ (i # 0 => i - 1 \in 0 .. m - 1)
          BY <2>2, <4>2
        <5> QED BY <3>4, <3>5, <5>1
      <4> QED BY <4>1, <4>2
    <3>9. LeftOf(g, m)
      BY <3>7, <3>8, Zenon DEF LeftOf
    <3> QED BY <2>2, <3>9
  <2> QED BY <2>3, <2>4
<1> QED BY <1>1

\* What WriterLoop keeps of a list of sessions is one.
LEMMA SurvivorsType ==
  ASSUME clients \in Seq(Sessions)
  PROVE  Survivors \in Seq(Sessions)
<1> DEFINE n == Len(clients)
           F == CHOOSE f : LeftOf(f, n)
<1>1. n \in Nat /\ \A i \in 1 .. n : clients[i] \in Sessions
  OBVIOUS
<1>2. LeftOf(F, n)
  BY <1>1, LeftExists
<1>3. Survivors = F[n]
  BY DEF Survivors, LeftOf
<1> HIDE DEF F, n
<1>4. \A i \in 0 .. n : F[i] =
        IF i = 0 THEN <<>> ELSE IF Dead(clients[i]) THEN F[i - 1]
        ELSE Append(F[i - 1], clients[i])
  BY <1>2 DEF LeftOf
<1> DEFINE S == {i \in 0 .. n : F[i] \notin Seq(Sessions)}
<1>5. ASSUME S # {} PROVE FALSE
  <2>0. S \in SUBSET Nat
    OBVIOUS
  <2>1. PICK i \in S : \A y \in S : i <= y
    BY <1>5, <2>0, LeastOf
  <2>2. i \in 0 .. n /\ F[i] \notin Seq(Sessions)
    BY <2>1
  <2>3. i # 0
    <3>1. <<>> \in Seq(Sessions)
      OBVIOUS
    <3> QED BY <1>4, <2>2, <3>1
  <2>4. i - 1 \in 0 .. n /\ i \in 1 .. n /\ ~(i <= i - 1)
    BY <1>1, <2>2, <2>3
  <2>5. F[i - 1] \in Seq(Sessions)
    BY <2>1, <2>4
  <2>6. Append(F[i - 1], clients[i]) \in Seq(Sessions)
    BY <1>1, <2>4, <2>5, AppendProperties
  <2>7. F[i] = F[i - 1] \/ F[i] = Append(F[i - 1], clients[i])
    BY <1>4, <2>2, <2>3
  <2> QED BY <2>2, <2>5, <2>6, <2>7
<1>6. n \in 0 .. n
  BY <1>1
<1> QED BY <1>3, <1>5, <1>6

\* The single values, and where each thread is.
PlaceTypes ==
  /\ running \in BOOLEAN
  /\ mtx \in {"free", "broadcast", "stop"}
  /\ count \in 0 .. CountSpan - 1
  /\ acceptor \in {"check", "create", "listen", "register", "spawn",
                   "assign", "exited"}
  /\ pending \in Sessions \union {NoSession}
  /\ writer \in {"snapshot", "visit", "write", "exited"}
  /\ stop \in {"idle", "wake", "acceptor", "writer", "clients", "join", "done"}

\* What is known of each session.
SessionTypes ==
  /\ handle \in [Sessions -> BOOLEAN]
  /\ open \in [Sessions -> BOOLEAN]
  /\ reader \in [Sessions -> {"none", "check", "reading", "broken",
                              "closing", "exited"}]
  /\ thread \in [Sessions -> {"none", "joinable", "detached", "joined"}]
  /\ peer \in [Sessions -> {"unused", "open", "stalled", "closed"}]

\* The lists of sessions.  Whoever is in the middle of visiting one has it at
\* the head of his list.
ListTypes ==
  /\ clients \in Seq(Sessions)
  /\ snap \in Seq(Sessions) /\ (writer = "write" => snap # <<>>)
  /\ local \in Seq(Record)
  /\ bcast \in Seq(Sessions)
  /\ doomed \in Seq(Sessions) /\ (stop = "join" => doomed # <<>>)

\* The head of a list of sessions is one, and the tail a list of them.
LEMMA HeadTail ==
  ASSUME NEW S, NEW q \in Seq(S), q # <<>>
  PROVE  Head(q) \in S /\ Tail(q) \in Seq(S)
BY HeadTailProperties

\* fetch_add and fetch_sub keep the count in the range of an unsigned.
LEMMA CountTypes ==
  ASSUME count \in 0 .. CountSpan - 1
  PROVE  /\ (count + 1) % CountSpan \in 0 .. CountSpan - 1
         /\ (count + CountSpan - 1) % CountSpan \in 0 .. CountSpan - 1
         /\ 0 \in 0 .. CountSpan - 1
<1>1. CountSpan \in Nat \ {0} /\ count \in Nat
  BY PipeAssumption
<1>2. count + 1 \in Nat /\ count + CountSpan - 1 \in Nat
  BY <1>1
<1>3. \A a \in Nat : a % CountSpan \in 0 .. CountSpan - 1
  BY <1>1
<1> QED BY <1>1, <1>2, <1>3

LEMMA PlacesStep ==
  ASSUME PlaceTypes, [Next]_vars
  PROVE  PlaceTypes'
<1> USE DEF PlaceTypes, acceptorVars, stopVars, writerVars
<1>1. CASE Acceptor
  <2>1. pending' \in {pending, NoSession}
    BY <1>1 DEF Acceptor, AcceptorCheck, CreatePipeInstance, Connected, ConnectFails,
                Register, SpawnReader, AssignReader
  <2>2. count' \in {count, (count + 1) % CountSpan}
    BY <1>1 DEF Acceptor, AcceptorCheck, CreatePipeInstance, Connected, ConnectFails,
                Register, SpawnReader, AssignReader
  <2>3. acceptor' \in {"check", "create", "listen", "register", "spawn", "assign", "exited"}
    BY <1>1 DEF Acceptor, AcceptorCheck, CreatePipeInstance, Connected, ConnectFails,
                Register, SpawnReader, AssignReader
  <2>4. UNCHANGED <<running, mtx, writer, stop>>
    BY <1>1 DEF Acceptor, AcceptorCheck, CreatePipeInstance, Connected, ConnectFails,
                Register, SpawnReader, AssignReader
  <2>5. count' \in 0 .. CountSpan - 1
    BY <2>2, CountTypes
  <2> QED BY <2>1, <2>3, <2>4, <2>5
<1>2. CASE Writer
  <2>1. writer' \in {"snapshot", "visit", "write", "exited"}
    BY <1>2 DEF Writer, SnapshotAndReap, Visit, WriteRecord, WriteFails, WriteDone
  <2>2. UNCHANGED <<running, mtx, count, acceptor, pending, stop>>
    BY <1>2 DEF Writer, SnapshotAndReap, Visit, WriteRecord, WriteFails, WriteDone
  <2> QED BY <2>1, <2>2
<1>3. CASE Broadcasting
  <2>1. mtx' \in {"free", "broadcast", "stop"}
    BY <1>3 DEF Broadcasting, BroadcastBegin, Offer, BroadcastEnd
  <2>2. UNCHANGED <<running, count, acceptor, pending, writer, stop>>
    BY <1>3 DEF Broadcasting, BroadcastBegin, Offer, BroadcastEnd
  <2> QED BY <2>1, <2>2
<1>4. CASE StopBegin \/ Stopping
  <2>1. running' \in BOOLEAN /\ mtx' \in {"free", "broadcast", "stop"}
    BY <1>4 DEF StopBegin, Stopping, StopWakes, StopJoinsAcceptor, StopJoinsWriter,
                StopCloses, StopJoinsReader, StopEnds
  <2>2. stop' \in {"idle", "wake", "acceptor", "writer", "clients", "join", "done"}
    BY <1>4 DEF StopBegin, Stopping, StopWakes, StopJoinsAcceptor, StopJoinsWriter,
                StopCloses, StopJoinsReader, StopEnds
  <2>3. count' \in {count, 0} /\ UNCHANGED <<acceptor, pending, writer>>
    BY <1>4 DEF StopBegin, Stopping, StopWakes, StopJoinsAcceptor, StopJoinsWriter,
                StopCloses, StopJoinsReader, StopEnds
  <2>4. count' \in 0 .. CountSpan - 1
    BY <2>3, CountTypes
  <2> QED BY <2>1, <2>2, <2>3, <2>4
<1>5. ASSUME NEW s \in Sessions, Reader(s) \/ ReadCommand(s) \/ Client(s)
      PROVE  PlaceTypes'
  <2>1. pending' \in {pending, s}
    BY <1>5 DEF Reader, ReaderCheck, ReadFails, ReaderDies, ReaderEnds, ReadCommand,
                Client, ClientConnect, ClientStall, ClientClose
  <2>2. count' \in {count, (count + CountSpan - 1) % CountSpan}
    BY <1>5 DEF Reader, ReaderCheck, ReadFails, ReaderDies, ReaderEnds, ReadCommand,
                Client, ClientConnect, ClientStall, ClientClose, Uncount
  <2>3. UNCHANGED <<running, mtx, acceptor, writer, stop>>
    BY <1>5 DEF Reader, ReaderCheck, ReadFails, ReaderDies, ReaderEnds, ReadCommand,
                Client, ClientConnect, ClientStall, ClientClose
  <2>4. count' \in 0 .. CountSpan - 1
    BY <2>2, CountTypes
  <2> QED BY <2>1, <2>3, <2>4
<1>6. CASE UNCHANGED vars
  BY <1>6 DEF vars
<1> QED BY <1>1, <1>2, <1>3, <1>4, <1>5, <1>6 DEF Next

LEMMA SessionsStep ==
  ASSUME SessionTypes, [Next]_vars
  PROVE  SessionTypes'
<1> USE DEF SessionTypes, sessionVars
<1> DEFINE Readers == {"none", "check", "reading", "broken", "closing", "exited"}
           Threads == {"none", "joinable", "detached", "joined"}
<1>1. CASE Acceptor
  <2>1. /\ open' \in {open, [s \in Sessions |-> open[s] /\ s # pending],
                      [open EXCEPT ![pending] = FALSE]}
        /\ reader' \in {reader, [reader EXCEPT ![pending] = "check"]}
        /\ thread' \in {thread, [thread EXCEPT ![pending] = "joinable"]}
        /\ UNCHANGED <<handle, peer>>
    BY <1>1 DEF Acceptor, AcceptorCheck, CreatePipeInstance, Connected, ConnectFails,
                Register, SpawnReader, AssignReader
  <2>2. open' \in [Sessions -> BOOLEAN]
    BY <2>1
  <2>3. reader' \in [Sessions -> Readers]
    BY <2>1
  <2>4. thread' \in [Sessions -> Threads]
    BY <2>1
  <2> QED BY <2>1, <2>2, <2>3, <2>4
<1>2. CASE Writer
  <2>1. /\ UNCHANGED <<handle, open, peer>>
        /\ thread' = thread \/ SnapshotAndReap
        /\ reader' = reader \/ WriteFails
    BY <1>2 DEF Writer, SnapshotAndReap, Visit, WriteRecord, WriteFails, WriteDone
  <2>2. thread' \in [Sessions -> Threads]
    BY <2>1 DEF SnapshotAndReap
  <2>3. reader' \in [Sessions -> Readers]
    BY <2>1 DEF WriteFails
  <2> QED BY <2>1, <2>2, <2>3
<1>3. CASE Broadcasting
  BY <1>3 DEF Broadcasting, BroadcastBegin, Offer, BroadcastEnd
<1>4. CASE StopBegin \/ Stopping
  <2>1. /\ UNCHANGED peer
        /\ UNCHANGED <<handle, open, reader>> \/ StopCloses
        /\ thread' = thread \/ StopJoinsReader
    BY <1>4 DEF StopBegin, Stopping, StopWakes, StopJoinsAcceptor, StopJoinsWriter,
                StopCloses, StopJoinsReader, StopEnds
  <2>2. handle' \in [Sessions -> BOOLEAN] /\ open' \in [Sessions -> BOOLEAN]
    BY <2>1 DEF StopCloses
  <2>3. reader' \in [Sessions -> Readers]
    BY <2>1 DEF StopCloses
  <2>4. thread' \in [Sessions -> Threads]
    BY <2>1 DEF StopJoinsReader
  <2> QED BY <2>1, <2>2, <2>3, <2>4
<1>5. ASSUME NEW s \in Sessions, Reader(s) \/ ReadCommand(s)
      PROVE  SessionTypes'
  <2>1. /\ UNCHANGED <<peer, thread>>
        /\ open' \in {open, [open EXCEPT ![s] = FALSE]}
        /\ handle' \in {handle, [handle EXCEPT ![s] = FALSE]}
    BY <1>5 DEF Reader, ReaderCheck, ReadFails, ReaderDies, ReaderEnds, ReadCommand
  <2>2. \E to \in Readers : reader' = [reader EXCEPT ![s] = to]
    BY <1>5 DEF Reader, ReaderGoto, ReaderCheck, ReadFails, ReaderDies, ReaderEnds,
                ReadCommand
  <2>3. reader' \in [Sessions -> Readers]
    BY <2>2
  <2>4. open' \in [Sessions -> BOOLEAN] /\ handle' \in [Sessions -> BOOLEAN]
    BY <2>1
  <2> QED BY <2>1, <2>3, <2>4
<1>6. ASSUME NEW s \in Sessions, Client(s)
      PROVE  SessionTypes'
  <2>1. UNCHANGED <<handle, reader, thread>>
    BY <1>6 DEF Client, ClientConnect, ClientStall, ClientClose
  <2>2. open' \in {open, [open EXCEPT ![s] = TRUE]}
    BY <1>6 DEF Client, ClientConnect, ClientStall, ClientClose
  <2>3. \E p \in {"open", "stalled", "closed"} : peer' = [peer EXCEPT ![s] = p]
    BY <1>6 DEF Client, ClientConnect, ClientStall, ClientClose
  <2>4. open' \in [Sessions -> BOOLEAN]
    BY <2>2
  <2>5. peer' \in [Sessions -> {"unused", "open", "stalled", "closed"}]
    BY <2>3
  <2> QED BY <2>1, <2>4, <2>5
<1>7. CASE UNCHANGED vars
  BY <1>7 DEF vars
<1> QED BY <1>1, <1>2, <1>3, <1>4, <1>5, <1>6, <1>7 DEF Next

LEMMA ListsStep ==
  ASSUME ListTypes, FlowInv, SetUpInv, [Next]_vars
  PROVE  ListTypes'
<1> USE DEF ListTypes
<1>1. CASE Acceptor
  <2>1. UNCHANGED <<snap, local, writer, bcast, doomed, stop>>
    BY <1>1 DEF Acceptor, AcceptorCheck, CreatePipeInstance, Connected, ConnectFails,
                Register, SpawnReader, AssignReader, writerVars, bcastVars, stopVars
  <2>2. clients' = clients \/ Register
    BY <1>1 DEF Acceptor, AcceptorCheck, CreatePipeInstance, Connected, ConnectFails,
                SpawnReader, AssignReader
  <2>3. ASSUME Register PROVE clients' \in Seq(Sessions)
    <3>1. clients' = Append(clients, pending) /\ pending \in Sessions
      BY <2>3 DEF Register, SetUpInv
    <3> QED BY <3>1, AppendProperties
  <2> QED BY <2>1, <2>2, <2>3
<1>2. CASE Writer
  <2>0. UNCHANGED <<bcast, doomed, stop>>
    BY <1>2 DEF Writer, SnapshotAndReap, Visit, WriteRecord, WriteFails, WriteDone,
                bcastVars, stopVars
  <2>1. CASE SnapshotAndReap
    <3>1. snap' = clients /\ clients' = Survivors /\ local' = local /\ writer' = "visit"
      BY <2>1 DEF SnapshotAndReap
    <3> QED BY <2>0, <3>1, SurvivorsType
  <2>2. CASE Visit
    <3>1. clients' = clients
      BY <2>2 DEF Visit
    <3>2. CASE snap = <<>>
      <4>1. writer' # "write" /\ UNCHANGED <<snap, local>>
        BY <2>2, <3>2 DEF Visit
      <4> QED BY <2>0, <3>1, <4>1
    <3>3. CASE snap # <<>> /\ Dead(Head(snap))
      <4>1. writer' # "write" /\ snap' = Tail(snap) /\ local' = local
        BY <2>2, <3>3 DEF Visit
      <4>2. Tail(snap) \in Seq(Sessions)
        BY <3>3, HeadTail
      <4> QED BY <2>0, <3>1, <4>1, <4>2
    <3>4. CASE snap # <<>> /\ ~Dead(Head(snap))
      <4>1. snap' = snap /\ local' = outbound[Head(snap)]
        BY <2>2, <3>4 DEF Visit, TakeOutbound
      <4>2. local' \in Seq(Record)
        BY <3>4, <4>1, HeadTail, FlowTypes
      <4> QED BY <2>0, <3>1, <3>4, <4>1, <4>2
    <3> QED BY <3>2, <3>3, <3>4
  <2>3. CASE WriteRecord
    <3>1. UNCHANGED <<clients, snap, writer>> /\ local # <<>> /\ local' = Tail(local)
      BY <2>3 DEF WriteRecord
    <3>2. local' \in Seq(Record)
      BY <3>1, HeadTail
    <3> QED BY <2>0, <3>1, <3>2
  <2>4. CASE WriteFails \/ WriteDone
    <3>1. /\ clients' = clients /\ writer = "write" /\ writer' = "visit"
          /\ snap' = Tail(snap) /\ local' \in {local, <<>>}
      BY <2>4 DEF WriteFails, WriteDone
    <3>2. snap' \in Seq(Sessions)
      BY <3>1, HeadTail
    <3>3. local' \in Seq(Record)
      <4>1. <<>> \in Seq(Record)
        OBVIOUS
      <4> QED BY <3>1, <4>1, Zenon
    <3> QED BY <2>0, <3>1, <3>2, <3>3
  <2> QED BY <1>2, <2>1, <2>2, <2>3, <2>4 DEF Writer
<1>3. CASE Broadcasting
  <2>1. UNCHANGED <<clients, snap, local, writer, doomed, stop>>
    BY <1>3 DEF Broadcasting, BroadcastBegin, Offer, BroadcastEnd, writerVars, stopVars
  <2>2. \/ bcast' = bcast \/ bcast' = clients
        \/ bcast # <<>> /\ bcast' = Tail(bcast)
    BY <1>3 DEF Broadcasting, BroadcastBegin, Offer, BroadcastEnd, bcastVars
  <2>3. bcast' \in Seq(Sessions)
    BY <2>2, HeadTail
  <2> QED BY <2>1, <2>3
<1>4. CASE StopBegin \/ Stopping
  <2>1. UNCHANGED <<snap, local, writer, bcast>> /\ clients' \in {clients, <<>>}
    BY <1>4 DEF StopBegin, Stopping, StopWakes, StopJoinsAcceptor, StopJoinsWriter,
                StopCloses, StopJoinsReader, StopEnds, writerVars, bcastVars
  <2>2. \/ doomed' = doomed /\ (stop' = "join" => doomed # <<>>)
        \/ doomed' = clients /\ stop' = "clients"
        \/ stop = "join" /\ doomed' = Tail(doomed) /\ stop' = "clients"
    BY <1>4 DEF StopBegin, Stopping, StopWakes, StopJoinsAcceptor, StopJoinsWriter,
                StopCloses, StopJoinsReader, StopEnds
  <2>3. doomed' \in Seq(Sessions) /\ (stop' = "join" => doomed' # <<>>)
    BY <2>2, HeadTail
  <2>4. clients' \in Seq(Sessions)
    <3>1. <<>> \in Seq(Sessions)
      OBVIOUS
    <3> QED BY <2>1, <3>1, Zenon
  <2> QED BY <2>1, <2>3, <2>4
<1>5. CASE \E s \in Sessions : Reader(s) \/ ReadCommand(s) \/ Client(s)
  BY <1>5 DEF Reader, ReaderCheck, ReadFails, ReaderDies, ReaderEnds, ReadCommand,
              Client, ClientConnect, ClientStall, ClientClose, writerVars, bcastVars,
              stopVars
<1>6. CASE UNCHANGED vars
  BY <1>6 DEF vars, writerVars, bcastVars, stopVars
<1> QED BY <1>1, <1>2, <1>3, <1>4, <1>5, <1>6 DEF Next

LEMMA TypesInit == Init => PlaceTypes /\ SessionTypes /\ ListTypes
<1> SUFFICES ASSUME Init PROVE PlaceTypes /\ SessionTypes /\ ListTypes
  OBVIOUS
<1>1. PlaceTypes
  <2>1. 0 \in 0 .. CountSpan - 1
    BY PipeAssumption
  <2> QED BY <2>1 DEF Init, PlaceTypes
<1>2. SessionTypes
  BY DEF Init, SessionTypes
<1>3. ListTypes
  BY DEF Init, ListTypes
<1> QED BY <1>1, <1>2, <1>3

(***************************************************************************)
(* Every variable has its type, whatever the clients and Stop do: the      *)
(* lists name sessions only, whoever visits one has one to visit, and the  *)
(* reaping leaves a list of sessions.  The acceptor registers a session    *)
(* only while it holds one (SetUpInv).                                     *)
(***************************************************************************)
THEOREM TypeCorrect == Spec => []TypeOK
<1> DEFINE Inv == /\ FlowInv /\ backlog \in [Sessions -> Nat] /\ BacklogInv
                  /\ SetUpInv /\ DOMAIN reader = Sessions
                  /\ PlaceTypes /\ SessionTypes /\ ListTypes
<1>1. Init => Inv
  BY FlowInit, CountsInit, TypesInit DEF CountInv
<1>2. Inv /\ [Next]_vars => Inv'
  <2> SUFFICES ASSUME Inv, [Next]_vars PROVE Inv'
    OBVIOUS
  <2>1. FlowInv' /\ backlog' \in [Sessions -> Nat] /\ BacklogInv'
    BY FlowStep, BacklogStep
  <2>2. SetUpInv' /\ DOMAIN reader' = Sessions
    BY SetUpStep
  <2>3. PlaceTypes' /\ SessionTypes' /\ ListTypes'
    BY PlacesStep, SessionsStep, ListsStep
  <2> QED BY <2>1, <2>2, <2>3
<1>3. Inv => TypeOK
  BY FlowTypes DEF PlaceTypes, SessionTypes, ListTypes, SetUpInv, TypeOK
<1> HIDE DEF Inv
<1> QED BY <1>1, <1>2, <1>3, PTL DEF Spec
-----------------------------------------------------------------------------
(* Who is listed.                                                          *)

\* A session that has been listed: it is, or is dead.
Joined(s) == Contains(clients, s) \/ Dead(s)

Distinct(q) == \A i, j \in DOMAIN q : q[i] = q[j] => i = j

\* Whoever is read from, visited, or about to be closed has been listed; the
\* one being set up not yet, before it is registered.  Stop gets to all listed.
MemberInv ==
  /\ \A s \in Sessions : reader[s] # "none" => Joined(s)
  /\ acceptor = "spawn" => Joined(pending)
  /\ \A s \in Sessions :
       Contains(snap, s) \/ Contains(bcast, s) \/ Contains(doomed, s) => Joined(s)
  /\ \A s \in Sessions : peer[s] = "unused" => ~Joined(s)
  /\ acceptor \notin {"spawn", "assign"} /\ pending \in Sessions => ~Joined(pending)
  /\ stop \in {"clients", "join"} =>
       /\ mtx = "stop"
       /\ \A s \in Sessions : Contains(clients, s) => Dead(s) \/ Contains(doomed, s)
  /\ stop = "join" => Dead(Head(doomed))

LEMMA ContainsAppend ==
  ASSUME NEW S, NEW q \in Seq(S), NEW x \in S
  PROVE  \A s : Contains(Append(q, x), s) <=> Contains(q, s) \/ s = x
<1>1. /\ Len(q) \in Nat /\ Len(Append(q, x)) = Len(q) + 1
      /\ \A i \in 1 .. Len(q) : Append(q, x)[i] = q[i]
      /\ Append(q, x)[Len(q) + 1] = x
  OBVIOUS
<1> DEFINE n == Len(q)
           a == Append(q, x)
<1> SUFFICES ASSUME NEW s PROVE Contains(a, s) <=> Contains(q, s) \/ s = x
  OBVIOUS
<1>2. n \in Nat /\ Len(a) = n + 1 /\ a[n + 1] = x /\ \A i \in 1 .. n : a[i] = q[i]
  BY <1>1
<1>3. Contains(q, s) <=> \E i \in 1 .. n : q[i] = s
  BY DEF Contains
<1>4. Contains(a, s) <=> \E i \in 1 .. n + 1 : a[i] = s
  BY <1>2 DEF Contains
<1> HIDE DEF n, a
<1> QED BY <1>2, <1>3, <1>4

LEMMA DistinctAppend ==
  ASSUME NEW S, NEW q \in Seq(S), NEW x \in S, Distinct(q), ~Contains(q, x)
  PROVE  Distinct(Append(q, x))
<1> DEFINE n == Len(q)
           a == Append(q, x)
<1>1. /\ n \in Nat /\ DOMAIN a = 1 .. n + 1 /\ a[n + 1] = x
      /\ \A i \in 1 .. n : a[i] = q[i]
  OBVIOUS
<1>2. \A i \in 1 .. n : q[i] # x
  BY DEF Contains
<1>3. \A i, j \in 1 .. n : q[i] = q[j] => i = j
  BY DEF Distinct
<1> HIDE DEF n, a
<1>4. \A i \in 1 .. n + 1 : i \in 1 .. n \/ i = n + 1
  BY <1>1
<1>5. \A i, j \in 1 .. n + 1 : a[i] = a[j] => i = j
  BY <1>1, <1>2, <1>3, <1>4
<1>6. Distinct(a)
  BY <1>1, <1>5 DEF Distinct
<1> QED BY <1>6 DEF a

\* The head of a list and its tail.
LEMMA TailOf ==
  ASSUME NEW S, NEW q \in Seq(S), q # <<>>
  PROVE  /\ Contains(q, Head(q))
         /\ \A s : Contains(q, s) <=> s = Head(q) \/ Contains(Tail(q), s)
         /\ Distinct(q) => Distinct(Tail(q)) /\ ~Contains(Tail(q), Head(q))
<1> DEFINE n == Len(q)
           t == Tail(q)
<1>1. n \in Nat \ {0} /\ Head(q) = q[1] /\ Len(t) = n - 1 /\ DOMAIN t = 1 .. n - 1
      /\ DOMAIN q = 1 .. n
  OBVIOUS
<1>2. \A i \in 1 .. n - 1 : t[i] = q[i + 1]
  OBVIOUS
<1>3. \A s : (Contains(q, s) <=> \E i \in 1 .. n : q[i] = s)
             /\ (Contains(t, s) <=> \E i \in 1 .. n - 1 : t[i] = s)
  BY <1>1 DEF Contains
<1> HIDE DEF n, t
<1>4. 1 \in 1 .. n /\ \A i \in 1 .. n - 1 : i + 1 \in 1 .. n
  BY <1>1
<1>5. \A i \in 1 .. n : i = 1 \/ (i - 1 \in 1 .. n - 1 /\ t[i - 1] = q[i])
  <2> TAKE i \in 1 .. n
  <2>1. i # 1 => i - 1 \in 1 .. n - 1 /\ (i - 1) + 1 = i
    BY <1>1
  <2> QED BY <1>2, <2>1
<1>6. \A s : Contains(q, s) <=> s = Head(q) \/ Contains(t, s)
  <2> TAKE s
  <2>1. ASSUME Contains(q, s) PROVE s = Head(q) \/ Contains(t, s)
    <3>1. PICK i \in 1 .. n : q[i] = s
      BY <1>3, <2>1
    <3> QED BY <1>1, <1>3, <1>5, <3>1
  <2>2. ASSUME Contains(t, s) PROVE Contains(q, s)
    <3>1. PICK i \in 1 .. n - 1 : t[i] = s
      BY <1>3, <2>2
    <3>2. i + 1 \in 1 .. n /\ q[i + 1] = s
      BY <1>2, <1>4, <3>1
    <3> QED BY <1>3, <3>2
  <2>3. Contains(q, Head(q))
    BY <1>1, <1>3, <1>4
  <2> QED BY <2>1, <2>2, <2>3
<1>7. ASSUME Distinct(q) PROVE Distinct(t) /\ ~Contains(t, Head(q))
  <2>1. \A i, j \in 1 .. n : q[i] = q[j] => i = j
    BY <1>1, <1>7 DEF Distinct
  <2>2. \A i, j \in 1 .. n - 1 : t[i] = t[j] => i = j
    <3> TAKE i, j \in 1 .. n - 1
    <3> HAVE t[i] = t[j]
    <3>1. q[i + 1] = q[j + 1] /\ i + 1 \in 1 .. n /\ j + 1 \in 1 .. n
      BY <1>2, <1>4
    <3>2. i + 1 = j + 1
      BY <2>1, <3>1
    <3> QED BY <3>2
  <2>3. \A i \in 1 .. n - 1 : t[i] # q[1]
    <3> TAKE i \in 1 .. n - 1
    <3>1. i + 1 # 1 /\ i + 1 \in 1 .. n
      BY <1>4
    <3> QED BY <1>2, <1>4, <2>1, <3>1
  <2> QED BY <1>1, <1>3, <2>2, <2>3 DEF Distinct
<1>8. Contains(q, Head(q))
  BY <1>6
<1> QED BY <1>6, <1>7, <1>8 DEF t

\* The erase keeps the live sessions, and them only, each once.
LEMMA SurvivorsKept ==
  ASSUME clients \in Seq(Sessions)
  PROVE  /\ \A s \in Sessions : Contains(Survivors, s) <=> Contains(clients, s) /\ ~Dead(s)
         /\ Distinct(clients) => Distinct(Survivors)
<1> DEFINE n == Len(clients)
           F == CHOOSE f : LeftOf(f, n)
           Upto(i, s) == \E j \in 1 .. i : clients[j] = s
<1>1. n \in Nat /\ DOMAIN clients = 1 .. n /\ \A i \in 1 .. n : clients[i] \in Sessions
  OBVIOUS
<1>2. LeftOf(F, n)
  BY <1>1, LeftExists
<1>3. Survivors = F[n]
  BY DEF Survivors, LeftOf
<1> HIDE DEF F
<1>4. \A i \in 0 .. n : F[i] =
        IF i = 0 THEN <<>> ELSE IF Dead(clients[i]) THEN F[i - 1]
        ELSE Append(F[i - 1], clients[i])
  BY <1>2 DEF LeftOf
<1> DEFINE Good(i) == /\ F[i] \in Seq(Sessions)
                      /\ \A s \in Sessions : Contains(F[i], s) <=> Upto(i, s) /\ ~Dead(s)
                      /\ Distinct(clients) => Distinct(F[i])
           S == {i \in 0 .. n : ~Good(i)}
<1>5. ASSUME S # {} PROVE FALSE
  <2>0. S \in SUBSET Nat
    OBVIOUS
  <2>1. PICK i \in S : \A y \in S : i <= y
    BY <1>5, <2>0, LeastOf
  <2>2. i \in 0 .. n /\ ~Good(i)
    BY <2>1
  <2>3. CASE i = 0
    <3>1. F[i] = <<>>
      BY <1>4, <2>2, <2>3
    <3>2. <<>> \in Seq(Sessions) /\ DOMAIN <<>> = {} /\ Len(<<>>) = 0
      OBVIOUS
    <3>3. \A s : ~Contains(<<>>, s) /\ ~Upto(0, s)
      BY <3>2 DEF Contains
    <3>4. Distinct(<<>>)
      BY <3>2 DEF Distinct
    <3> HIDE DEF Upto
    <3> QED BY <2>2, <2>3, <3>1, <3>2, <3>3, <3>4
  <2>4. CASE i # 0
    <3>1. i - 1 \in 0 .. n /\ i \in 1 .. n /\ ~(i <= i - 1)
      BY <1>1, <2>2, <2>4
    <3>2. Good(i - 1)
      BY <2>1, <3>1
    <3>3. \A s : Upto(i, s) <=> Upto(i - 1, s) \/ s = clients[i]
      <4>1. \A j \in 1 .. i : j \in 1 .. i - 1 \/ j = i
        BY <3>1
      <4>2. i \in 1 .. i /\ \A j \in 1 .. i - 1 : j \in 1 .. i
        BY <3>1
      <4> QED BY <4>1, <4>2
    <3>4. F[i] = IF Dead(clients[i]) THEN F[i - 1] ELSE Append(F[i - 1], clients[i])
      BY <1>4, <2>2, <2>4
    <3>5. clients[i] \in Sessions
      BY <1>1, <3>1
    <3>6. Distinct(clients) => ~Upto(i - 1, clients[i])
      <4> HAVE Distinct(clients)
      <4>1. \A j \in 1 .. i - 1 : j \in 1 .. n /\ j # i
        BY <1>1, <3>1
      <4> QED BY <1>1, <3>1, <4>1 DEF Distinct
    <3> DEFINE f == F[i - 1]
    <3>7. /\ f \in Seq(Sessions) /\ (Distinct(clients) => Distinct(f))
          /\ \A s \in Sessions : Contains(f, s) <=> Upto(i - 1, s) /\ ~Dead(s)
      BY <3>2
    <3> HIDE DEF Upto, Good
    <3>8. CASE Dead(clients[i])
      <4>1. F[i] = f
        BY <3>4, <3>8
      <4> HIDE DEF f
      <4>2. \A s \in Sessions : Contains(f, s) <=> Upto(i, s) /\ ~Dead(s)
        BY <3>3, <3>7, <3>8
      <4>3. Good(i)
        BY <3>7, <4>1, <4>2 DEF Good
      <4> QED BY <2>2, <4>3
    <3>9. CASE ~Dead(clients[i])
      <4>1. F[i] = Append(f, clients[i])
        BY <3>4, <3>9
      <4> HIDE DEF f
      <4>2. Append(f, clients[i]) \in Seq(Sessions)
        BY <3>5, <3>7, AppendProperties
      <4>3. \A s : Contains(Append(f, clients[i]), s) <=> Contains(f, s) \/ s = clients[i]
        BY <3>5, <3>7, ContainsAppend
      <4>4. \A s \in Sessions : Contains(Append(f, clients[i]), s) <=> Upto(i, s) /\ ~Dead(s)
        BY <3>3, <3>7, <3>9, <4>3
      <4>5. Distinct(clients) => Distinct(Append(f, clients[i]))
        <5> HAVE Distinct(clients)
        <5>1. ~Contains(f, clients[i])
          BY <3>5, <3>6, <3>7
        <5> QED BY <3>5, <3>7, <5>1, DistinctAppend
      <4>6. Good(i)
        BY <4>1, <4>2, <4>4, <4>5 DEF Good
      <4> QED BY <2>2, <4>6
    <3> QED BY <3>8, <3>9
  <2> QED BY <2>3, <2>4
<1>6. Good(n)
  <2>1. n \in 0 .. n
    BY <1>1
  <2> HIDE DEF Good, n
  <2> QED BY <1>5, <2>1
<1>7. \A s : Contains(clients, s) <=> Upto(n, s)
  BY DEF Contains
<1> HIDE DEF n, Upto
<1> QED BY <1>3, <1>6, <1>7

\* Sessions are marked dead by those who have to do with them, and stay dead.
LEMMA Kills ==
  ASSUME ListTypes, FlowInv, MemberInv, [Next]_vars
  PROVE  \A s \in Sessions :
           /\ Dead(s) => Dead(s)'
           /\ Dead(s)' => Dead(s) \/ Joined(s)
<1> USE FlowTypes DEF sessionVars
<1>1. CASE UNCHANGED alive
  BY <1>1 DEF Dead
<1>2. ASSUME NEW k, alive' = [alive EXCEPT ![k] = FALSE], k \in Sessions => Joined(k)
      PROVE  \A s \in Sessions : (Dead(s) => Dead(s)') /\ (Dead(s)' => Dead(s) \/ Joined(s))
  BY <1>2 DEF Dead
<1>3. CASE Acceptor
  <2>1. UNCHANGED alive
    BY <1>3 DEF Acceptor, AcceptorCheck, CreatePipeInstance, Connected, ConnectFails,
                Register, SpawnReader, AssignReader
  <2> QED BY <1>1, <2>1
<1>4. CASE Writer
  <2>1. UNCHANGED alive \/ WriteFails
    BY <1>4 DEF Writer, SnapshotAndReap, Visit, WriteRecord, WriteDone
  <2>2. CASE WriteFails
    <3>1. writer = "write" /\ alive' = [alive EXCEPT ![Head(snap)] = FALSE]
      BY <2>2 DEF WriteFails
    <3>2. snap \in Seq(Sessions) /\ snap # <<>>
      BY <3>1 DEF ListTypes
    <3>3. Head(snap) \in Sessions /\ Contains(snap, Head(snap))
      BY <3>2, TailOf, HeadTail
    <3>4. Joined(Head(snap))
      BY <3>3 DEF MemberInv
    <3> QED BY <1>2, <3>1, <3>4
  <2> QED BY <1>1, <2>1, <2>2
<1>5. CASE Broadcasting
  <2>1. UNCHANGED alive
    BY <1>5 DEF Broadcasting, BroadcastBegin, Offer, BroadcastEnd
  <2> QED BY <1>1, <2>1
<1>6. CASE StopBegin \/ Stopping
  <2>1. UNCHANGED alive \/ StopCloses
    BY <1>6 DEF StopBegin, Stopping, StopWakes, StopJoinsAcceptor, StopJoinsWriter,
                StopJoinsReader, StopEnds
  <2>2. CASE StopCloses
    <3>1. doomed # <<>> /\ alive' = [alive EXCEPT ![Head(doomed)] = FALSE]
      BY <2>2 DEF StopCloses
    <3>2. doomed \in Seq(Sessions)
      BY DEF ListTypes
    <3>3. Head(doomed) \in Sessions /\ Contains(doomed, Head(doomed))
      BY <3>1, <3>2, TailOf, HeadTail
    <3>4. Joined(Head(doomed))
      BY <3>3 DEF MemberInv
    <3> QED BY <1>2, <3>1, <3>4
  <2> QED BY <1>1, <2>1, <2>2
<1>7. ASSUME NEW r \in Sessions, Reader(r) \/ ReadCommand(r) \/ Client(r)
      PROVE  \A s \in Sessions : (Dead(s) => Dead(s)') /\ (Dead(s)' => Dead(s) \/ Joined(s))
  <2>1. UNCHANGED alive \/ ReaderDies(r)
    BY <1>7 DEF Reader, ReaderCheck, ReadFails, ReaderEnds, ReadCommand,
                Client, ClientConnect, ClientStall, ClientClose
  <2>2. CASE ReaderDies(r)
    <3>1. reader[r] = "broken" /\ alive' = [alive EXCEPT ![r] = FALSE]
      BY <2>2 DEF ReaderDies, ReaderGoto
    <3>2. Joined(r)
      BY <3>1 DEF MemberInv
    <3> QED BY <1>2, <3>1, <3>2
  <2> QED BY <1>1, <2>1, <2>2
<1>8. CASE UNCHANGED vars
  BY <1>1, <1>8 DEF vars
<1> QED BY <1>3, <1>4, <1>5, <1>6, <1>7, <1>8 DEF Next

\* The list: a session is added when it is set up, and only dead ones go.
LEMMA ListMoves ==
  ASSUME ListTypes, SetUpInv, MemberInv, [Next]_vars
  PROVE  \A s \in Sessions :
           /\ Contains(clients, s) => Contains(clients', s) \/ Dead(s)
           /\ Contains(clients', s) => Contains(clients, s) \/ (Register /\ s = pending)
           /\ Register /\ s = pending => Contains(clients', s)
<1> DEFINE Goal == \A s \in Sessions :
             /\ Contains(clients, s) => Contains(clients', s) \/ Dead(s)
             /\ Contains(clients', s) => Contains(clients, s) \/ (Register /\ s = pending)
             /\ Register /\ s = pending => Contains(clients', s)
<1>0. clients \in Seq(Sessions)
  BY DEF ListTypes
<1>1. CASE clients' = clients /\ ~Register
  BY <1>1
<1>2. CASE Register
  <2>1. clients' = Append(clients, pending) /\ pending \in Sessions
    BY <1>2 DEF Register, SetUpInv
  <2>2. \A s : Contains(clients', s) <=> Contains(clients, s) \/ s = pending
    BY <1>0, <2>1, ContainsAppend
  <2> QED BY <1>2, <2>2
<1>3. CASE SnapshotAndReap
  <2>1. clients' = Survivors /\ writer' # writer
    BY <1>3 DEF SnapshotAndReap
  <2>2. ~Register
    BY <2>1 DEF Register, writerVars
  <2>3. \A s \in Sessions : Contains(clients', s) <=> Contains(clients, s) /\ ~Dead(s)
    BY <1>0, <2>1, SurvivorsKept
  <2> QED BY <2>2, <2>3
<1>4. CASE StopEnds
  <2>1. stop = "clients" /\ doomed = <<>> /\ clients' = <<>> /\ stop' # stop
    BY <1>4 DEF StopEnds
  <2>2. ~Register
    BY <2>1 DEF Register, stopVars
  <2>3. \A s : ~Contains(<<>>, s)
    <3>1. Len(<<>>) = 0
      OBVIOUS
    <3> QED BY <3>1 DEF Contains
  <2>4. \A s \in Sessions : Contains(clients, s) => Dead(s)
    BY <2>1, <2>3 DEF MemberInv
  <2> QED BY <2>1, <2>2, <2>3, <2>4
<1>5. (clients' = clients /\ ~Register) \/ Register \/ SnapshotAndReap \/ StopEnds
  <2>1. CASE Acceptor
    BY <2>1 DEF Acceptor, AcceptorCheck, CreatePipeInstance, Connected, ConnectFails,
                SpawnReader, AssignReader
  <2>2. CASE Writer
    BY <2>2 DEF Writer, Visit, WriteRecord, WriteFails, WriteDone
  <2>3. CASE Broadcasting
    BY <2>3 DEF Broadcasting, BroadcastBegin, Offer, BroadcastEnd
  <2>4. CASE StopBegin \/ Stopping
    BY <2>4 DEF StopBegin, Stopping, StopWakes, StopJoinsAcceptor, StopJoinsWriter,
                StopCloses, StopJoinsReader
  <2>5. CASE \E s \in Sessions : Reader(s) \/ ReadCommand(s) \/ Client(s)
    BY <2>5 DEF Reader, ReaderCheck, ReadFails, ReaderDies, ReaderEnds, ReadCommand,
                Client, ClientConnect, ClientStall, ClientClose
  <2>6. CASE UNCHANGED vars
    BY <2>6 DEF vars
  <2> QED BY <2>1, <2>2, <2>3, <2>4, <2>5, <2>6 DEF Next
<1> QED BY <1>1, <1>2, <1>3, <1>4, <1>5

\* Joining is for good, and only Register does it.
LEMMA JoinedStep ==
  ASSUME ListTypes, FlowInv, SetUpInv, MemberInv, [Next]_vars
  PROVE  \A s \in Sessions : Joined(s)' <=> Joined(s) \/ (Register /\ s = pending)
<1> SUFFICES ASSUME NEW s \in Sessions
             PROVE  Joined(s)' <=> Joined(s) \/ (Register /\ s = pending)
  OBVIOUS
<1>1. Joined(s)' <=> Contains(clients', s) \/ Dead(s)'
  BY DEF Joined, Contains
<1>2. (Dead(s) => Dead(s)') /\ (Dead(s)' => Dead(s) \/ Joined(s))
  BY Kills
<1>3. /\ Contains(clients, s) => Contains(clients', s) \/ Dead(s)
      /\ Contains(clients', s) => Contains(clients, s) \/ (Register /\ s = pending)
      /\ Register /\ s = pending => Contains(clients', s)
  BY ListMoves
<1>4. Joined(s) <=> Contains(clients, s) \/ Dead(s)
  BY DEF Joined
<1> QED BY <1>1, <1>2, <1>3, <1>4

\* What is visited comes from the list.
LEMMA VisitsListed ==
  ASSUME ListTypes, [Next]_vars
  PROVE  \A s \in Sessions :
           /\ Contains(snap', s) => Contains(snap, s) \/ Contains(clients, s)
           /\ Contains(bcast', s) => Contains(bcast, s) \/ Contains(clients, s)
           /\ Contains(doomed', s) => Contains(doomed, s) \/ Contains(clients, s)
<1>1. snap' = snap \/ snap' = clients \/ (snap # <<>> /\ snap' = Tail(snap))
  <2>1. CASE Acceptor \/ Broadcasting \/ StopBegin \/ Stopping
    BY <2>1 DEF Acceptor, AcceptorCheck, CreatePipeInstance, Connected, ConnectFails,
                Register, SpawnReader, AssignReader, Broadcasting, BroadcastBegin, Offer,
                BroadcastEnd, StopBegin, Stopping, StopWakes, StopJoinsAcceptor,
                StopJoinsWriter, StopCloses, StopJoinsReader, StopEnds, writerVars
  <2>2. CASE Writer
    BY <2>2 DEF Writer, SnapshotAndReap, Visit, WriteRecord, WriteFails, WriteDone, ListTypes
  <2>3. CASE \E s \in Sessions : Reader(s) \/ ReadCommand(s) \/ Client(s)
    BY <2>3 DEF Reader, ReaderCheck, ReadFails, ReaderDies, ReaderEnds, ReadCommand,
                Client, ClientConnect, ClientStall, ClientClose, writerVars
  <2>4. CASE UNCHANGED vars
    BY <2>4 DEF vars, writerVars
  <2> QED BY <2>1, <2>2, <2>3, <2>4 DEF Next
<1>2. bcast' = bcast \/ bcast' = clients \/ (bcast # <<>> /\ bcast' = Tail(bcast))
  <2>1. CASE Acceptor \/ Writer \/ StopBegin \/ Stopping
    BY <2>1 DEF Acceptor, AcceptorCheck, CreatePipeInstance, Connected, ConnectFails,
                Register, SpawnReader, AssignReader, Writer, SnapshotAndReap, Visit,
                WriteRecord, WriteFails, WriteDone, StopBegin, Stopping, StopWakes,
                StopJoinsAcceptor, StopJoinsWriter, StopCloses, StopJoinsReader, StopEnds,
                bcastVars
  <2>2. CASE Broadcasting
    BY <2>2 DEF Broadcasting, BroadcastBegin, Offer, BroadcastEnd, bcastVars
  <2>3. CASE \E s \in Sessions : Reader(s) \/ ReadCommand(s) \/ Client(s)
    BY <2>3 DEF Reader, ReaderCheck, ReadFails, ReaderDies, ReaderEnds, ReadCommand,
                Client, ClientConnect, ClientStall, ClientClose, bcastVars
  <2>4. CASE UNCHANGED vars
    BY <2>4 DEF vars, bcastVars
  <2> QED BY <2>1, <2>2, <2>3, <2>4 DEF Next
<1>3. doomed' = doomed \/ doomed' = clients \/ (doomed # <<>> /\ doomed' = Tail(doomed))
  <2>1. CASE Acceptor \/ Writer \/ Broadcasting
    BY <2>1 DEF Acceptor, AcceptorCheck, CreatePipeInstance, Connected, ConnectFails,
                Register, SpawnReader, AssignReader, Writer, SnapshotAndReap, Visit,
                WriteRecord, WriteFails, WriteDone, Broadcasting, BroadcastBegin, Offer,
                BroadcastEnd, stopVars
  <2>2. CASE StopBegin \/ Stopping
    BY <2>2 DEF StopBegin, Stopping, StopWakes, StopJoinsAcceptor, StopJoinsWriter,
                StopCloses, StopJoinsReader, StopEnds, ListTypes
  <2>3. CASE \E s \in Sessions : Reader(s) \/ ReadCommand(s) \/ Client(s)
    BY <2>3 DEF Reader, ReaderCheck, ReadFails, ReaderDies, ReaderEnds, ReadCommand,
                Client, ClientConnect, ClientStall, ClientClose, stopVars
  <2>4. CASE UNCHANGED vars
    BY <2>4 DEF vars, stopVars
  <2> QED BY <2>1, <2>2, <2>3, <2>4 DEF Next
<1>4. ASSUME NEW q \in Seq(Sessions), q # <<>>
      PROVE  \A s : Contains(Tail(q), s) => Contains(q, s)
  BY <1>4, TailOf
<1>5. snap \in Seq(Sessions) /\ bcast \in Seq(Sessions) /\ doomed \in Seq(Sessions)
  BY DEF ListTypes
<1> QED BY <1>1, <1>2, <1>3, <1>4, <1>5

\* Only the acceptor starts a reader, and it has one session in hand at a time.
LEMMA OneInHand ==
  ASSUME SetUpInv, DOMAIN reader = Sessions, [Next]_vars
  PROVE  /\ \A s \in Sessions :
              reader'[s] # "none" => reader[s] # "none" \/ (acceptor = "spawn" /\ s = pending)
         /\ \A s \in Sessions : peer'[s] = "unused" => peer[s] = "unused"
         /\ acceptor' = "spawn" => pending' = pending /\ (Register \/ acceptor = "spawn")
         /\ acceptor' \notin {"spawn", "assign"} /\ pending' \in Sessions =>
              \/ pending' = pending /\ acceptor \notin {"spawn", "assign"} /\ ~Register
              \/ peer[pending'] = "unused" /\ ~Register
<1> USE DEF acceptorVars, sessionVars
<1> DEFINE Goal ==
         /\ \A s \in Sessions :
              reader'[s] # "none" => reader[s] # "none" \/ (acceptor = "spawn" /\ s = pending)
         /\ \A s \in Sessions : peer'[s] = "unused" => peer[s] = "unused"
         /\ acceptor' = "spawn" => pending' = pending /\ (Register \/ acceptor = "spawn")
         /\ acceptor' \notin {"spawn", "assign"} /\ pending' \in Sessions =>
              \/ pending' = pending /\ acceptor \notin {"spawn", "assign"} /\ ~Register
              \/ peer[pending'] = "unused" /\ ~Register
<1>1. ASSUME Acceptor PROVE Goal
  <2>1. UNCHANGED peer
    BY <1>1 DEF Acceptor, AcceptorCheck, CreatePipeInstance, Connected, ConnectFails,
                Register, SpawnReader, AssignReader
  <2>2. \A s \in Sessions :
          reader'[s] # "none" => reader[s] # "none" \/ (acceptor = "spawn" /\ s = pending)
    BY <1>1 DEF Acceptor, AcceptorCheck, CreatePipeInstance, Connected, ConnectFails,
                Register, SpawnReader, AssignReader
  <2>3. acceptor' = "spawn" => pending' = pending /\ (Register \/ acceptor = "spawn")
    BY <1>1 DEF Acceptor, AcceptorCheck, CreatePipeInstance, Connected, ConnectFails,
                Register, SpawnReader, AssignReader
  <2>4. ASSUME acceptor' \notin {"spawn", "assign"}, pending' \in Sessions
        PROVE  pending' = pending /\ acceptor \notin {"spawn", "assign"} /\ ~Register
    BY <1>1, <2>4, NotASession
    DEF Acceptor, AcceptorCheck, CreatePipeInstance, Connected, ConnectFails,
        Register, SpawnReader, AssignReader
  <2> QED BY <2>1, <2>2, <2>3, <2>4
<1>2. ASSUME NEW s \in Sessions, ClientConnect(s)
      PROVE  Goal
  <2>1. /\ peer[s] = "unused" /\ listening = "waiting" /\ pending' = s
        /\ peer' = [peer EXCEPT ![s] = "open"] /\ UNCHANGED <<acceptor, reader>>
    BY <1>2 DEF ClientConnect
  <2>2. acceptor = "listen" /\ DOMAIN peer = Sessions
    BY <2>1 DEF SetUpInv
  <2>3. ~Register
    BY <2>2 DEF Register
  <2> QED BY <2>1, <2>2, <2>3
<1>3. ASSUME UNCHANGED <<acceptor, pending>>,
             \A s \in Sessions : reader[s] = "none" => reader'[s] = "none",
             \A s \in Sessions : peer'[s] = "unused" => peer[s] = "unused"
      PROVE  Goal
  <2>1. ~Register
    BY <1>3 DEF Register
  <2> QED BY <1>3, <2>1
<1>4. ASSUME Writer \/ Broadcasting \/ StopBegin \/ Stopping PROVE Goal
  <2>1. UNCHANGED <<acceptor, pending, peer>>
    BY <1>4 DEF Writer, Broadcasting, SnapshotAndReap, Visit, WriteRecord, WriteFails,
                WriteDone, BroadcastBegin, Offer, BroadcastEnd, StopBegin, Stopping,
                StopWakes, StopJoinsAcceptor, StopJoinsWriter, StopCloses,
                StopJoinsReader, StopEnds
  <2>2. reader' = reader \/ WriteFails \/ StopCloses
    BY <1>4 DEF Writer, Broadcasting, SnapshotAndReap, Visit, WriteRecord,
                WriteDone, BroadcastBegin, Offer, BroadcastEnd, StopBegin, Stopping,
                StopWakes, StopJoinsAcceptor, StopJoinsWriter, StopJoinsReader, StopEnds
  <2>3. \A s \in Sessions : reader[s] = "none" => reader'[s] = "none"
    BY <2>2 DEF WriteFails, StopCloses
  <2> QED BY <1>3, <2>1, <2>3
<1>5. ASSUME NEW s \in Sessions, Reader(s) \/ ReadCommand(s)
      PROVE  Goal
  <2>1. UNCHANGED <<acceptor, pending, peer>>
    BY <1>5 DEF Reader, ReaderCheck, ReadFails, ReaderDies, ReaderEnds, ReadCommand
  <2>2. \A r \in Sessions : reader[r] = "none" => reader'[r] = "none"
    BY <1>5 DEF Reader, ReaderGoto, ReaderCheck, ReadFails, ReaderDies, ReaderEnds,
                ReadCommand
  <2> QED BY <1>3, <2>1, <2>2
<1>6. ASSUME NEW s \in Sessions, ClientStall(s) \/ ClientClose(s)
      PROVE  Goal
  <2>1. UNCHANGED <<acceptor, pending, reader>>
    BY <1>6 DEF ClientStall, ClientClose
  <2>2. \A r \in Sessions : peer'[r] = "unused" => peer[r] = "unused"
    BY <1>6 DEF ClientStall, ClientClose, SetUpInv
  <2> QED BY <1>3, <2>1, <2>2
<1>7. ASSUME UNCHANGED vars PROVE Goal
  BY <1>3, <1>7 DEF vars
<1>8. Goal
  <2> HIDE DEF Goal
  <2> QED BY <1>1, <1>2, <1>4, <1>5, <1>6, <1>7 DEF Next, Client
<1> QED BY <1>8

\* Stop has clientsMtx while it ends the sessions, and gets to all that are listed.
LEMMA StopStep ==
  ASSUME ListTypes, FlowInv, MemberInv, [Next]_vars
  PROVE  /\ stop' \in {"clients", "join"} =>
              /\ mtx' = "stop"
              /\ \A s \in Sessions : Contains(clients', s) => Dead(s)' \/ Contains(doomed', s)
         /\ stop' = "join" => Dead(Head(doomed))'
<1> DEFINE Goal ==
         /\ stop' \in {"clients", "join"} =>
              /\ mtx' = "stop"
              /\ \A s \in Sessions : Contains(clients', s) => Dead(s)' \/ Contains(doomed', s)
         /\ stop' = "join" => Dead(Head(doomed))'
<1>0. \A s \in Sessions : Dead(s) => Dead(s)'
  BY Kills
<1>1. doomed \in Seq(Sessions)
  BY DEF ListTypes
<1>2. stop \in {"clients", "join"} =>
        /\ mtx = "stop"
        /\ \A s \in Sessions : Contains(clients, s) => Dead(s) \/ Contains(doomed, s)
  BY DEF MemberInv
<1>3. stop = "join" => Dead(Head(doomed)) /\ doomed # <<>>
  BY DEF MemberInv, ListTypes
<1>4. ASSUME UNCHANGED <<stop, doomed>>,
             stop \in {"clients", "join"} => UNCHANGED <<mtx, clients>>
      PROVE  Goal
  <2>1. stop = "join" => Head(doomed) \in Sessions
    BY <1>1, <1>3, HeadTail
  <2> QED BY <1>0, <1>2, <1>3, <1>4, <2>1
<1>5. ASSUME StopCloses PROVE Goal
  <2>1. /\ stop = "clients" /\ doomed # <<>> /\ stop' = "join"
        /\ alive' = [alive EXCEPT ![Head(doomed)] = FALSE]
        /\ UNCHANGED <<mtx, clients, doomed>>
    BY <1>5 DEF StopCloses
  <2>2. Head(doomed) \in Sessions
    BY <1>1, <2>1, HeadTail
  <2>3. Dead(Head(doomed))'
    BY <2>1, <2>2, FlowTypes DEF Dead
  <2> QED BY <1>0, <1>2, <2>1, <2>3
<1>6. ASSUME StopJoinsReader PROVE Goal
  <2>1. /\ stop = "join" /\ stop' = "clients" /\ doomed' = Tail(doomed)
        /\ UNCHANGED <<mtx, clients, alive>>
    BY <1>6 DEF StopJoinsReader
  <2>2. \A s : Contains(doomed, s) <=> s = Head(doomed) \/ Contains(doomed', s)
    BY <1>1, <1>3, <2>1, TailOf
  <2> QED BY <1>0, <1>2, <1>3, <2>1, <2>2
<1>7. ASSUME StopJoinsWriter PROVE Goal
  <2>1. doomed' = clients /\ clients' = clients /\ mtx' = "stop" /\ stop' = "clients"
    BY <1>7 DEF StopJoinsWriter
  <2> QED BY <2>1
<1>8. ASSUME StopBegin \/ StopWakes \/ StopJoinsAcceptor \/ StopEnds PROVE Goal
  <2>1. stop' \notin {"clients", "join"}
    BY <1>8 DEF StopBegin, StopWakes, StopJoinsAcceptor, StopEnds
  <2> QED BY <2>1
<1>9. ASSUME Acceptor \/ Writer \/ Broadcasting PROVE Goal
  <2>1. UNCHANGED <<stop, doomed>>
    BY <1>9 DEF Acceptor, AcceptorCheck, CreatePipeInstance, Connected, ConnectFails,
                Register, SpawnReader, AssignReader, Writer, SnapshotAndReap, Visit,
                WriteRecord, WriteFails, WriteDone, Broadcasting, BroadcastBegin, Offer,
                BroadcastEnd, stopVars
  <2>2. mtx = "stop" => UNCHANGED <<mtx, clients>>
    BY <1>9 DEF Acceptor, AcceptorCheck, CreatePipeInstance, Connected, ConnectFails,
                Register, SpawnReader, AssignReader, Writer, SnapshotAndReap, Visit,
                WriteRecord, WriteFails, WriteDone, Broadcasting, BroadcastBegin, Offer,
                BroadcastEnd
  <2> QED BY <1>2, <1>4, <2>1, <2>2
<1>10. ASSUME \E s \in Sessions : Reader(s) \/ ReadCommand(s) \/ Client(s) PROVE Goal
  <2>1. UNCHANGED <<stop, doomed, mtx, clients>>
    BY <1>10 DEF Reader, ReaderCheck, ReadFails, ReaderDies, ReaderEnds, ReadCommand,
                 Client, ClientConnect, ClientStall, ClientClose, stopVars
  <2> QED BY <1>4, <2>1
<1>11. ASSUME UNCHANGED vars PROVE Goal
  BY <1>4, <1>11 DEF vars, stopVars
<1>12. Goal
  <2> HIDE DEF Goal
  <2> QED BY <1>5, <1>6, <1>7, <1>8, <1>9, <1>10, <1>11 DEF Next, Stopping
<1> QED BY <1>12

\* Every step keeps MemberInv.
LEMMA MemberStep ==
  ASSUME ListTypes, FlowInv, SetUpInv, DOMAIN reader = Sessions, MemberInv, [Next]_vars
  PROVE  MemberInv'
<1>1. \A s \in Sessions : Joined(s)' <=> Joined(s) \/ (Register /\ s = pending)
  BY JoinedStep
<1>2. \A s \in Sessions : Contains(clients, s) => Joined(s)
  BY DEF Joined
<1>3. /\ \A s \in Sessions : reader[s] # "none" => Joined(s)
      /\ acceptor = "spawn" => Joined(pending)
      /\ \A s \in Sessions :
           Contains(snap, s) \/ Contains(bcast, s) \/ Contains(doomed, s) => Joined(s)
      /\ \A s \in Sessions : peer[s] = "unused" => ~Joined(s)
      /\ acceptor \notin {"spawn", "assign"} /\ pending \in Sessions => ~Joined(pending)
  BY DEF MemberInv
<1>4. \A s \in Sessions : reader'[s] # "none" => Joined(s)'
  BY <1>1, <1>3, OneInHand
<1>5. acceptor' = "spawn" => Joined(pending)'
  <2> HAVE acceptor' = "spawn"
  <2>1. pending' = pending /\ (Register \/ acceptor = "spawn")
    BY OneInHand
  <2>2. pending \in Sessions
    BY <2>1 DEF SetUpInv, Register
  <2>3. Joined(pending)'
    BY <1>1, <1>3, <2>1, <2>2
  <2> QED BY <2>1, <2>3 DEF Joined, Contains, Dead
<1>6. \A s \in Sessions :
        Contains(snap', s) \/ Contains(bcast', s) \/ Contains(doomed', s) => Joined(s)'
  BY <1>1, <1>2, <1>3, VisitsListed
<1>7. \A s \in Sessions : peer'[s] = "unused" => ~Joined(s)'
  <2> TAKE s \in Sessions
  <2> HAVE peer'[s] = "unused"
  <2>1. peer[s] = "unused"
    BY OneInHand
  <2>2. s # pending
    BY <2>1 DEF SetUpInv
  <2> QED BY <1>1, <1>3, <2>1, <2>2
<1>8. acceptor' \notin {"spawn", "assign"} /\ pending' \in Sessions => ~Joined(pending)'
  <2> HAVE acceptor' \notin {"spawn", "assign"} /\ pending' \in Sessions
  <2>1. \/ pending' = pending /\ acceptor \notin {"spawn", "assign"} /\ ~Register
        \/ peer[pending'] = "unused" /\ ~Register
    BY OneInHand
  <2>2. PICK p \in Sessions : p = pending'
    OBVIOUS
  <2>3. ~Joined(p)
    BY <1>3, <2>1, <2>2
  <2>4. ~Joined(p)'
    BY <1>1, <2>1, <2>3
  <2> QED BY <2>2, <2>4 DEF Joined, Contains, Dead
<1>9. /\ stop' \in {"clients", "join"} =>
           /\ mtx' = "stop"
           /\ \A s \in Sessions : Contains(clients', s) => Dead(s)' \/ Contains(doomed', s)
      /\ stop' = "join" => Dead(Head(doomed))'
  BY StopStep
<1>10. \A s : (Contains(snap, s)' <=> Contains(snap', s))
              /\ (Contains(bcast, s)' <=> Contains(bcast', s))
              /\ (Contains(doomed, s)' <=> Contains(doomed', s))
              /\ (Contains(clients, s)' <=> Contains(clients', s))
  BY DEF Contains
<1> QED BY <1>4, <1>5, <1>6, <1>7, <1>8, <1>9, <1>10 DEF MemberInv

\* Nobody is listed.
LEMMA MemberInit == Init => MemberInv
<1> SUFFICES ASSUME Init PROVE MemberInv
  OBVIOUS
<1>1. \A s \in Sessions : ~Contains(<<>>, s)
  <2>1. Len(<<>>) = 0
    OBVIOUS
  <2> QED BY <2>1 DEF Contains
<1>2. \A s \in Sessions : ~Joined(s) /\ reader[s] = "none"
  BY <1>1 DEF Init, Joined, Dead
<1>3. /\ snap = <<>> /\ bcast = <<>> /\ doomed = <<>>
      /\ acceptor = "check" /\ stop = "idle"
  BY DEF Init
<1> QED BY <1>1, <1>2, <1>3 DEF MemberInv

-----------------------------------------------------------------------------
(* Each record once, and in order.                                         *)

Rising(q) == \A i, j \in DOMAIN q : i < j => q[i] < q[j]

\* No session is listed twice, nor visited twice by one Broadcast; those it has
\* still to visit have not been given its record.
GiveInv ==
  /\ Distinct(clients)
  /\ mtx = "broadcast" => Distinct(bcast)
  /\ \A s \in Sessions : Newest(s) <= sent /\ Rising(offered[s])
  /\ mtx = "broadcast" => \A s \in Sessions : Contains(bcast, s) => Newest(s) < sent

LEMMA RisingAppend ==
  ASSUME NEW q \in Seq(Record), NEW x \in Record, Rising(q),
         q # <<>> => Last(q) < x
  PROVE  /\ Rising(Append(q, x)) /\ Append(q, x) # <<>> /\ Last(Append(q, x)) = x
<1> DEFINE n == Len(q)
           a == Append(q, x)
<1>1. /\ n \in Nat /\ DOMAIN a = 1 .. n + 1 /\ a[n + 1] = x /\ Len(a) = n + 1
      /\ \A i \in 1 .. n : a[i] = q[i]
  OBVIOUS
<1>2. /\ DOMAIN q = 1 .. n /\ \A i \in 1 .. n : q[i] \in Nat
      /\ (n # 0 => q # <<>>)
  <2>1. DOMAIN q = 1 .. n /\ \A i \in 1 .. n : q[i] \in Record
    OBVIOUS
  <2>2. \A r \in Record : r \in Nat
    BY DEF Record
  <2>3. Len(<<>>) = 0
    OBVIOUS
  <2> QED BY <2>1, <2>2, <2>3
<1>3. Last(q) = q[n] /\ Last(a) = a[Len(a)] /\ x \in Nat
  BY DEF Last, Record
<1>4. \A i, j \in 1 .. n : i < j => q[i] < q[j]
  BY <1>2 DEF Rising
<1> HIDE DEF n, a
<1>5. \A i \in 1 .. n : q[i] < x
  <2> TAKE i \in 1 .. n
  <2>1. n \in 1 .. n /\ n # 0
    BY <1>1
  <2>2. q[n] < x /\ q[n] \in Nat
    BY <1>2, <1>3, <2>1
  <2>3. CASE i = n
    BY <2>2, <2>3
  <2>4. CASE i # n
    <3>1. i < n
      BY <1>1, <2>4
    <3>2. q[i] < q[n] /\ q[i] \in Nat
      BY <1>2, <1>4, <2>1, <3>1
    <3> QED BY <1>3, <2>2, <3>2
  <2> QED BY <2>3, <2>4
<1>6. \A i, j \in 1 .. n + 1 : i < j => a[i] < a[j]
  <2> TAKE i, j \in 1 .. n + 1
  <2> HAVE i < j
  <2>1. i \in 1 .. n /\ (j \in 1 .. n \/ j = n + 1)
    BY <1>1
  <2> QED BY <1>1, <1>4, <1>5, <2>1
<1>7. Rising(a) /\ Last(a) = x
  BY <1>1, <1>3, <1>6 DEF Rising
<1>8. a # <<>>
  <2>1. Len(<<>>) = 0 /\ Len(a) # 0
    BY <1>1
  <2> QED BY <2>1
<1> QED BY <1>7, <1>8 DEF a

\* What a rising sequence begins with is rising.
LEMMA RisingPart ==
  ASSUME NEW a \in Seq(Record), NEW b \in Seq(Record), Rising(a \o b)
  PROVE  Rising(a)
<1>1. /\ \A i \in DOMAIN a : i \in DOMAIN (a \o b) /\ (a \o b)[i] = a[i]
  OBVIOUS
<1> DEFINE c == a \o b
<1>2. \A i, j \in DOMAIN c : i < j => c[i] < c[j]
  BY DEF Rising
<1>3. \A i \in DOMAIN a : i \in DOMAIN c /\ c[i] = a[i]
  BY <1>1
<1> HIDE DEF c
<1> QED BY <1>2, <1>3 DEF Rising

LEMMA NewestType ==
  ASSUME FlowInv, NEW s \in Sessions
  PROVE  /\ Newest(s) \in Nat
         /\ offered[s] # <<>> => Newest(s) = Last(offered[s])
<1>1. offered[s] \in Seq(Record)
  BY FlowTypes
<1>2. ASSUME offered[s] # <<>> PROVE Last(offered[s]) \in Nat
  <2>1. Len(offered[s]) \in DOMAIN offered[s]
    BY <1>1, <1>2
  <2>2. offered[s][Len(offered[s])] \in Record
    BY <1>1, <2>1
  <2> QED BY <2>2 DEF Last, Record
<1> QED BY <1>2 DEF Newest

\* No step lists a session twice.
LEMMA DistinctStep ==
  ASSUME ListTypes, SetUpInv, MemberInv, Distinct(clients), [Next]_vars
  PROVE  Distinct(clients')
<1>0. clients \in Seq(Sessions)
  BY DEF ListTypes
<1>1. CASE Register
  <2>1. clients' = Append(clients, pending) /\ pending \in Sessions /\ acceptor = "register"
    BY <1>1 DEF Register, SetUpInv
  <2>2. ~Contains(clients, pending)
    BY <2>1 DEF MemberInv, Joined
  <2> QED BY <1>0, <2>1, <2>2, DistinctAppend
<1>2. CASE SnapshotAndReap
  <2>1. clients' = Survivors
    BY <1>2 DEF SnapshotAndReap
  <2> QED BY <1>0, <2>1, SurvivorsKept
<1>3. CASE StopEnds
  <2>1. clients' = <<>> /\ DOMAIN <<>> = {}
    BY <1>3 DEF StopEnds
  <2> QED BY <2>1 DEF Distinct
<1>4. clients' = clients \/ Register \/ SnapshotAndReap \/ StopEnds
  <2>1. CASE Acceptor
    BY <2>1 DEF Acceptor, AcceptorCheck, CreatePipeInstance, Connected, ConnectFails,
                SpawnReader, AssignReader
  <2>2. CASE Writer
    BY <2>2 DEF Writer, Visit, WriteRecord, WriteFails, WriteDone
  <2>3. CASE Broadcasting
    BY <2>3 DEF Broadcasting, BroadcastBegin, Offer, BroadcastEnd
  <2>4. CASE StopBegin \/ Stopping
    BY <2>4 DEF StopBegin, Stopping, StopWakes, StopJoinsAcceptor, StopJoinsWriter,
                StopCloses, StopJoinsReader
  <2>5. CASE \E s \in Sessions : Reader(s) \/ ReadCommand(s) \/ Client(s)
    BY <2>5 DEF Reader, ReaderCheck, ReadFails, ReaderDies, ReaderEnds, ReadCommand,
                Client, ClientConnect, ClientStall, ClientClose
  <2>6. CASE UNCHANGED vars
    BY <2>6 DEF vars
  <2> QED BY <2>1, <2>2, <2>3, <2>4, <2>5, <2>6 DEF Next
<1> QED BY <1>1, <1>2, <1>3, <1>4

\* What one visit of Broadcast does.
LEMMA OfferOne ==
  ASSUME ListTypes, FlowInv, MemberInv, GiveInv, Offer
  PROVE  \E s \in Sessions :
           /\ s = Head(bcast) /\ bcast \in Seq(Sessions) /\ bcast # <<>> /\ bcast' = Tail(bcast)
           /\ Contains(bcast, s) /\ Newest(s) < sent /\ sent \in Record
           /\ \/ UNCHANGED <<outbound, offered>>
              \/ /\ alive[s] /\ Contains(clients, s)
                 /\ outbound' = [outbound EXCEPT ![s] = Append(outbound[s], sent)]
                 /\ offered' = [offered EXCEPT ![s] = Append(offered[s], sent)]
<1>1. /\ mtx = "broadcast" /\ bcast # <<>> /\ bcast' = Tail(bcast)
  BY DEF Offer
<1>2. bcast \in Seq(Sessions)
  BY DEF ListTypes
<1>3. PICK s \in Sessions : s = Head(bcast)
  BY <1>1, <1>2, HeadTail
<1>4. Contains(bcast, s)
  BY <1>1, <1>2, <1>3, TailOf
<1>5. Newest(s) < sent /\ sent \in Record
  BY <1>1, <1>4, FlowTypes DEF GiveInv
<1>6. Joined(s)
  BY <1>4 DEF MemberInv
<1>7. \/ UNCHANGED <<outbound, offered>>
      \/ /\ alive[s]
         /\ outbound' = [outbound EXCEPT ![s] = Append(outbound[s], sent)]
         /\ offered' = [offered EXCEPT ![s] = Append(offered[s], sent)]
  BY <1>3 DEF Offer, Offers, bufferVars
<1>8. alive[s] => Contains(clients, s)
  BY <1>6 DEF Joined, Dead
<1> QED BY <1>1, <1>2, <1>3, <1>4, <1>5, <1>7, <1>8

\* Every step keeps GiveInv.
LEMMA GiveStep ==
  ASSUME ListTypes, FlowInv, SetUpInv, MemberInv, GiveInv, [Next]_vars
  PROVE  GiveInv'
<1>0. Distinct(clients')
  BY DistinctStep DEF GiveInv
<1>1. sent \in Nat
  BY FlowTypes
<1>2. CASE /\ UNCHANGED <<bcast, offered, sent>>
           /\ mtx' = "broadcast" => mtx = "broadcast"
  BY <1>0, <1>2 DEF GiveInv, Newest, Distinct, Rising, Contains
<1>3. CASE BroadcastBegin
  <2>1. /\ mtx' = "broadcast" /\ sent' = sent + 1 /\ bcast' = clients
        /\ offered' = offered
    BY <1>3 DEF BroadcastBegin, bufferVars
  <2>2. \A s \in Sessions : Newest(s)' = Newest(s) /\ Newest(s) < sent'
    <3> TAKE s \in Sessions
    <3>1. Newest(s) \in Nat /\ Newest(s) <= sent
      BY NewestType DEF GiveInv
    <3>2. Newest(s)' = Newest(s)
      BY <2>1 DEF Newest
    <3> QED BY <1>1, <2>1, <3>1, <3>2
  <2>3. \A s \in Sessions : Newest(s)' <= sent' /\ Rising(offered'[s])
    <3> TAKE s \in Sessions
    <3>1. Newest(s) \in Nat /\ Newest(s) <= sent /\ Rising(offered[s])
      BY NewestType DEF GiveInv
    <3> QED BY <1>1, <2>1, <2>2, <3>1
  <2>4. Distinct(bcast')
    BY <2>1 DEF GiveInv
  <2> QED BY <1>0, <2>2, <2>3, <2>4 DEF GiveInv, Distinct, Rising
<1>4. CASE Offer
  <2>0. mtx = "broadcast" /\ mtx' = mtx /\ sent' = sent
    BY <1>4 DEF Offer
  <2>1. PICK s \in Sessions :
          /\ s = Head(bcast) /\ bcast \in Seq(Sessions) /\ bcast # <<>> /\ bcast' = Tail(bcast)
          /\ Contains(bcast, s) /\ Newest(s) < sent /\ sent \in Record
          /\ \/ UNCHANGED <<outbound, offered>>
             \/ /\ alive[s] /\ Contains(clients, s)
                /\ outbound' = [outbound EXCEPT ![s] = Append(outbound[s], sent)]
                /\ offered' = [offered EXCEPT ![s] = Append(offered[s], sent)]
    BY <1>4, OfferOne
  <2>2. /\ \A r : Contains(bcast, r) <=> r = s \/ Contains(bcast', r)
        /\ Distinct(bcast') /\ ~Contains(bcast', s)
    BY <2>0, <2>1, TailOf DEF GiveInv
  <2>3. \A r \in Sessions : r # s => offered'[r] = offered[r]
    BY <2>1, FlowTypes
  <2>4. \A r \in Sessions : r # s => Newest(r)' = Newest(r)
    BY <2>3 DEF Newest
  <2>5. Newest(s)' <= sent /\ Rising(offered'[s])
    <3>1. CASE offered' = offered
      BY <1>1, <3>1 DEF GiveInv, Newest
    <3>2. CASE offered' = [offered EXCEPT ![s] = Append(offered[s], sent)]
      <4>1. offered'[s] = Append(offered[s], sent) /\ offered[s] \in Seq(Record)
        BY <3>2, FlowTypes
      <4>2. Rising(offered[s]) /\ (offered[s] # <<>> => Last(offered[s]) < sent)
        BY <2>1, NewestType DEF GiveInv
      <4>3. /\ Rising(offered'[s]) /\ offered'[s] # <<>> /\ Last(offered'[s]) = sent
        BY <2>1, <4>1, <4>2, RisingAppend
      <4>4. Newest(s)' = sent
        BY <4>3 DEF Newest, Last
      <4> QED BY <1>1, <4>3, <4>4
    <3> QED BY <2>1, <3>1, <3>2
  <2>6. \A r \in Sessions : Newest(r)' <= sent' /\ Rising(offered'[r])
    <3> TAKE r \in Sessions
    <3>1. CASE r = s
      BY <2>0, <2>5, <3>1
    <3>2. CASE r # s
      BY <2>0, <2>3, <2>4, <3>2 DEF GiveInv
    <3> QED BY <3>1, <3>2
  <2>7. \A r \in Sessions : Contains(bcast', r) => Newest(r)' < sent'
    <3> TAKE r \in Sessions
    <3> HAVE Contains(bcast', r)
    <3>1. r # s /\ Contains(bcast, r)
      BY <2>2
    <3> QED BY <2>0, <2>4, <3>1 DEF GiveInv
  <2> QED BY <1>0, <2>2, <2>6, <2>7 DEF GiveInv, Distinct, Rising, Contains
<1>5. \/ BroadcastBegin \/ Offer
      \/ /\ UNCHANGED <<bcast, offered, sent>>
         /\ mtx' = "broadcast" => mtx = "broadcast"
  <2> USE DEF bcastVars, bufferVars
  <2>1. CASE Acceptor
    BY <2>1 DEF Acceptor, AcceptorCheck, CreatePipeInstance, Connected, ConnectFails,
                Register, SpawnReader, AssignReader
  <2>2. CASE Writer
    BY <2>2 DEF Writer, SnapshotAndReap, Visit, TakeOutbound, WriteRecord, WriteFails,
                WriteDone
  <2>3. CASE Broadcasting
    BY <2>3 DEF Broadcasting, BroadcastEnd
  <2>4. CASE StopBegin \/ Stopping
    BY <2>4 DEF StopBegin, Stopping, StopWakes, StopJoinsAcceptor, StopJoinsWriter,
                StopCloses, StopJoinsReader, StopEnds
  <2>5. CASE \E s \in Sessions : Reader(s) \/ ReadCommand(s) \/ Client(s)
    BY <2>5 DEF Reader, ReaderCheck, ReadFails, ReaderDies, ReaderEnds, ReadCommand,
                Client, ClientConnect, ClientStall, ClientClose
  <2>6. CASE UNCHANGED vars
    BY <2>6 DEF vars
  <2> QED BY <2>1, <2>2, <2>3, <2>4, <2>5, <2>6 DEF Next
<1> QED BY <1>2, <1>3, <1>4, <1>5

LEMMA GiveInit == Init => GiveInv
<1> SUFFICES ASSUME Init PROVE GiveInv
  OBVIOUS
<1>1. clients = <<>> /\ mtx = "free" /\ sent = 0 /\ \A s \in Sessions : offered[s] = <<>>
  BY DEF Init
<1>2. DOMAIN <<>> = {}
  OBVIOUS
<1>3. Distinct(clients) /\ \A s \in Sessions : Newest(s) <= sent /\ Rising(offered[s])
  BY <1>1, <1>2 DEF Distinct, Rising, Newest
<1> QED BY <1>1, <1>3 DEF GiveInv

-----------------------------------------------------------------------------
(* The server implements the delivery service.                             *)

\* What a viewer of the service sees of session s is as it was.
Unmoved(s) ==
  /\ Member(s)' = Member(s) /\ Newest(s)' = Newest(s) /\ Queued(s)' = Queued(s)

LEMMA StutterMaps ==
  ASSUME \A s \in Sessions : Unmoved(s), UNCHANGED <<sent, delivered>>
  PROVE  UNCHANGED Delivery!deliveryVars
BY DEF Unmoved, Delivery!deliveryVars

LEMMA PublishMaps ==
  ASSUME \A s \in Sessions : Unmoved(s), sent' = sent + 1, delivered' = delivered
  PROVE  Delivery!Publish
BY DEF Unmoved, Delivery!Publish

LEMMA JoinMaps ==
  ASSUME NEW v \in Sessions, \A s \in Sessions \ {v} : Unmoved(s),
         Member(v) = "out", Member(v)' = "in",
         Newest(v)' = Newest(v), Queued(v)' = Queued(v), UNCHANGED <<sent, delivered>>
  PROVE  Delivery!Join(v)
BY DEF Unmoved, Delivery!Join

LEMMA GiveMaps ==
  ASSUME NEW v \in Sessions, \A s \in Sessions \ {v} : Unmoved(s),
         Member(v) = "in", Member(v)' = "in", Newest(v) < sent, Newest(v)' = sent,
         Queued(v)' = Append(Queued(v), sent), UNCHANGED <<sent, delivered>>
  PROVE  Delivery!Give(v)
BY DEF Unmoved, Delivery!Give

LEMMA ReceiveMaps ==
  ASSUME NEW v \in Sessions, \A s \in Sessions \ {v} : Unmoved(s),
         Member(v)' = Member(v), Newest(v)' = Newest(v), Queued(v) # <<>>,
         Queued(v)' = Tail(Queued(v)),
         delivered' = [delivered EXCEPT ![v] = Append(delivered[v], Head(Queued(v)))],
         sent' = sent
  PROVE  Delivery!Receive(v)
BY DEF Unmoved, Delivery!Receive

LEMMA LeaveMaps ==
  ASSUME NEW v \in Sessions, \A s \in Sessions \ {v} : Unmoved(s),
         Member(v) # "out", Member(v)' = "gone", Newest(v)' = Newest(v),
         NEW kept \in 0 .. Len(Queued(v)), Queued(v)' = SubSeq(Queued(v), 1, kept),
         UNCHANGED <<sent, delivered>>
  PROVE  Delivery!Leave(v)
<1> DEFINE queue  == [s \in Sessions |-> Queued(s)]
           member == [s \in Sessions |-> Member(s)]
<1>1. queue[v] = Queued(v) /\ member[v] = Member(v)
  OBVIOUS
<1>2. member' = [member EXCEPT ![v] = "gone"]
  BY DEF Unmoved
<1>3. queue' = [queue EXCEPT ![v] = SubSeq(queue[v], 1, kept)]
  BY <1>1 DEF Unmoved
<1>4. [s \in Sessions |-> Newest(s)]' = [s \in Sessions |-> Newest(s)]
  BY DEF Unmoved
<1> HIDE DEF queue, member
<1>5. \E k \in 0 .. Len(queue[v]) : queue' = [queue EXCEPT ![v] = SubSeq(queue[v], 1, k)]
  BY <1>1, <1>3
<1>6. member[v] # "out"
  BY <1>1
<1> QED BY <1>2, <1>4, <1>5, <1>6 DEF Delivery!Leave, queue, member

\* A member is one that has joined and is not dead.
LEMMA MemberIs ==
  \A s : Member(s) = IF Dead(s) THEN "gone" ELSE IF Joined(s) THEN "in" ELSE "out"
BY DEF Member, Joined

LEMMA MemberMoves ==
  ASSUME ListTypes, FlowInv, SetUpInv, MemberInv, [Next]_vars,
         NEW s \in Sessions, alive'[s] = alive[s], ~(Register /\ s = pending)
  PROVE  Member(s)' = Member(s)
<1>1. Joined(s)' <=> Joined(s)
  BY JoinedStep
<1>2. Dead(s)' <=> Dead(s)
  BY DEF Dead
<1>3. Member(s) = IF Dead(s) THEN "gone" ELSE IF Joined(s) THEN "in" ELSE "out"
  BY MemberIs
<1>4. Member(s)' = IF Dead(s)' THEN "gone" ELSE IF Joined(s)' THEN "in" ELSE "out"
  BY DEF Member, Joined, Dead
<1> QED BY <1>1, <1>2, <1>3, <1>4

LEMMA QueuedType ==
  ASSUME FlowInv, NEW s \in Sessions
  PROVE  /\ InFlight(s) \in Seq(Record) /\ outbound[s] \in Seq(Record)
         /\ Queued(s) \in Seq(Record)
<1>1. InFlight(s) \in Seq(Record) /\ outbound[s] \in Seq(Record)
  BY FlowTypes DEF FlowInv
<1>2. <<>> \in Seq(Record)
  OBVIOUS
<1> QED BY <1>1, <1>2, ConcatProperties DEF Queued

\* A session is marked dead: what is in hand for it may yet be written.
LEMMA DeathMaps ==
  ASSUME ListTypes, FlowInv, SetUpInv, MemberInv, [Next]_vars, ~Register,
         NEW v \in Sessions, Joined(v), alive' = [alive EXCEPT ![v] = FALSE],
         UNCHANGED <<outbound, offered, delivered, sent, writer, snap, local>>
  PROVE  Delivery!Leave(v)
<1>1. \A s \in Sessions : InFlight(s)' = InFlight(s) /\ Newest(s)' = Newest(s)
  BY DEF InFlight, Newest
<1>2. \A s \in Sessions \ {v} : alive'[s] = alive[s]
  BY FlowTypes
<1>3. \A s \in Sessions \ {v} : Unmoved(s)
  <2> TAKE s \in Sessions \ {v}
  <2>1. Member(s)' = Member(s)
    BY <1>2, MemberMoves
  <2>2. Queued(s)' = Queued(s)
    BY <1>1, <1>2 DEF Queued
  <2> QED BY <1>1, <2>1, <2>2 DEF Unmoved
<1>4. alive'[v] = FALSE
  BY FlowTypes
<1>5. Member(v) # "out" /\ Member(v)' = "gone"
  BY <1>4, MemberIs DEF Member, Dead
<1>6. Queued(v)' = InFlight(v) \o <<>>
  BY <1>1, <1>4 DEF Queued
<1> DEFINE f == InFlight(v)
           o == IF alive[v] THEN outbound[v] ELSE <<>>
           k == Len(f)
<1>7. f \in Seq(Record) /\ o \in Seq(Record) /\ Queued(v) = f \o o
  <2>1. <<>> \in Seq(Record)
    OBVIOUS
  <2> QED BY <2>1, QueuedType DEF Queued
<1> HIDE DEF f, o
<1>8. k \in 0 .. Len(f \o o) /\ SubSeq(f \o o, 1, k) = f /\ f \o <<>> = f
  <2>1. Len(f) \in Nat /\ Len(o) \in Nat /\ Len(f \o o) = Len(f) + Len(o)
    BY <1>7
  <2>2. SubSeq(f \o o, 1, Len(f)) = f
    BY <1>7
  <2>3. f \o <<>> = f
    BY <1>7
  <2> QED BY <2>1, <2>2, <2>3
<1>9. PICK kept \in 0 .. Len(Queued(v)) : Queued(v)' = SubSeq(Queued(v), 1, kept)
  <2>1. Queued(v)' = f
    BY <1>6, <1>8 DEF f
  <2> QED BY <1>7, <1>8, <2>1
<1> QED BY <1>1, <1>3, <1>5, <1>9, LeaveMaps

LEMMA HeadOfConcat ==
  ASSUME NEW S, NEW a \in Seq(S), NEW b \in Seq(S), a # <<>>
  PROVE  a \o b # <<>> /\ Head(a \o b) = Head(a) /\ Tail(a \o b) = Tail(a) \o b
OBVIOUS

\* Who is given a record, and sees one written, is a member as before.
LEMMA QuietMaps ==
  ASSUME ListTypes, FlowInv, SetUpInv, MemberInv, [Next]_vars, ~Register,
         UNCHANGED <<alive, offered, delivered, sent>>,
         \A s \in Sessions : Queued(s)' = Queued(s)
  PROVE  UNCHANGED Delivery!deliveryVars
<1>1. \A s \in Sessions : Unmoved(s)
  BY MemberMoves DEF Unmoved, Newest
<1> QED BY <1>1, StutterMaps

\* The writer takes a buffer, or turns to another session.
LEMMA WriterMaps ==
  ASSUME ListTypes, FlowInv, SnapshotAndReap \/ Visit \/ WriteDone
  PROVE  /\ UNCHANGED <<alive, offered, delivered, sent>> /\ ~Register
         /\ \A s \in Sessions : Queued(s)' = Queued(s)
<1>1. UNCHANGED <<alive, offered, delivered, sent, acceptor>>
  BY DEF SnapshotAndReap, Visit, TakeOutbound, WriteDone, sessionVars, bufferVars,
         bcastVars, acceptorVars
<1>2. ~Register
  BY <1>1 DEF Register
<1>3. ASSUME UNCHANGED outbound, \A s \in Sessions : InFlight(s)' = InFlight(s)
      PROVE  \A s \in Sessions : Queued(s)' = Queued(s)
  BY <1>1, <1>3 DEF Queued
<1>4. CASE SnapshotAndReap \/ WriteDone
  <2>1. outbound' = outbound
    BY <1>4 DEF SnapshotAndReap, WriteDone, bufferVars
  <2>2. \A s \in Sessions : InFlight(s)' = InFlight(s)
    BY <1>4 DEF SnapshotAndReap, WriteDone, InFlight
  <2> QED BY <1>1, <1>2, <1>3, <2>1, <2>2
<1>5. CASE Visit
  <2>1. CASE outbound' = outbound /\ writer' # "write" /\ writer # "write"
    BY <1>1, <1>2, <1>3, <2>1 DEF InFlight
  <2>2. CASE /\ writer = "visit" /\ writer' = "write" /\ snap # <<>> /\ snap' = snap
             /\ alive[Head(snap)] /\ local' = outbound[Head(snap)]
             /\ outbound' = [outbound EXCEPT ![Head(snap)] = <<>>]
    <3>1. PICK h \in Sessions : h = Head(snap)
      BY <2>2, HeadTail DEF ListTypes
    <3>2. outbound[h] \in Seq(Record) /\ <<>> \in Seq(Record)
      <4>1. <<>> \in Seq(Record)
        OBVIOUS
      <4> QED BY <4>1, FlowTypes
    <3>3. outbound[h] \o <<>> = outbound[h] /\ <<>> \o outbound[h] = outbound[h]
      BY <3>2
    <3>4. /\ InFlight(h) = <<>> /\ InFlight(h)' = outbound[h] /\ outbound'[h] = <<>>
          /\ alive[h] /\ alive'[h]
      BY <1>1, <2>2, <3>1, FlowTypes DEF InFlight
    <3>5. Queued(h)' = Queued(h)
      BY <3>3, <3>4 DEF Queued
    <3>6. \A s \in Sessions \ {h} :
            InFlight(s)' = InFlight(s) /\ outbound'[s] = outbound[s]
      BY <2>2, <3>1, FlowTypes DEF InFlight
    <3>7. \A s \in Sessions \ {h} : Queued(s)' = Queued(s)
      BY <1>1, <3>6 DEF Queued
    <3> QED BY <1>1, <1>2, <3>5, <3>7
  <2> QED BY <1>5, <2>1, <2>2 DEF Visit, TakeOutbound, Dead, bufferVars
<1> QED BY <1>4, <1>5

LEMMA RegisterMaps ==
  ASSUME ListTypes, FlowInv, SetUpInv, MemberInv, [Next]_vars, Register
  PROVE  Delivery!Join(pending)
<1>1. /\ acceptor = "register" /\ pending \in Sessions
      /\ UNCHANGED <<alive, outbound, offered, delivered, sent, writer, snap, local>>
  BY DEF Register, SetUpInv, sessionVars, bufferVars, writerVars, bcastVars
<1>2. PICK p \in Sessions : p = pending
  BY <1>1
<1>3. \A s \in Sessions : Newest(s)' = Newest(s) /\ Queued(s)' = Queued(s)
  BY <1>1 DEF Newest, Queued, InFlight
<1>4. \A s \in Sessions \ {p} : Unmoved(s)
  BY <1>1, <1>2, <1>3, MemberMoves DEF Unmoved
<1>5. ~Joined(p)
  BY <1>1, <1>2 DEF MemberInv
<1>6. Contains(clients', p) /\ ~Dead(p)' /\ ~Dead(p) /\ ~Contains(clients, p)
  BY <1>1, <1>2, <1>5, ListMoves DEF Joined, Dead
<1>7. Member(p) = "out" /\ Member(p)' = "in"
  BY <1>6 DEF Member, Contains
<1>8. Delivery!Join(p)
  BY <1>1, <1>3, <1>4, <1>7, JoinMaps
<1> QED BY <1>2, <1>8

\* A session that is offered the record, or passed over.
LEMMA OfferMaps ==
  ASSUME ListTypes, FlowInv, SetUpInv, MemberInv, GiveInv, [Next]_vars, Offer
  PROVE  \/ \E v \in Sessions : Delivery!Give(v)
         \/ UNCHANGED Delivery!deliveryVars
<1>1. PICK s \in Sessions :
        /\ Newest(s) < sent /\ sent \in Record
        /\ \/ UNCHANGED <<outbound, offered>>
           \/ /\ alive[s] /\ Contains(clients, s)
              /\ outbound' = [outbound EXCEPT ![s] = Append(outbound[s], sent)]
              /\ offered' = [offered EXCEPT ![s] = Append(offered[s], sent)]
  BY OfferOne
<1>2. UNCHANGED <<alive, delivered, sent, writer, snap, local, acceptor>>
  BY DEF Offer, sessionVars, writerVars, acceptorVars
<1>3. ~Register
  BY <1>2 DEF Register
<1>4. \A r \in Sessions : InFlight(r)' = InFlight(r) /\ Member(r)' = Member(r)
  BY <1>2, <1>3, MemberMoves DEF InFlight
<1>5. CASE UNCHANGED <<outbound, offered>>
  <2>1. \A r \in Sessions : Queued(r)' = Queued(r)
    BY <1>2, <1>4, <1>5 DEF Queued
  <2> QED BY <1>2, <1>3, <1>5, <2>1, QuietMaps
<1>6. CASE /\ alive[s] /\ Contains(clients, s)
           /\ outbound' = [outbound EXCEPT ![s] = Append(outbound[s], sent)]
           /\ offered' = [offered EXCEPT ![s] = Append(offered[s], sent)]
  <2>1. \A r \in Sessions \ {s} : outbound'[r] = outbound[r] /\ offered'[r] = offered[r]
    BY <1>6, FlowTypes
  <2>2. \A r \in Sessions \ {s} : Unmoved(r)
    BY <1>2, <1>4, <2>1 DEF Unmoved, Newest, Queued
  <2>3. Member(s) = "in" /\ Member(s)' = "in"
    BY <1>4, <1>6 DEF Member, Dead
  <2>4. /\ outbound'[s] = Append(outbound[s], sent) /\ outbound[s] \in Seq(Record)
        /\ offered'[s] = Append(offered[s], sent) /\ offered[s] \in Seq(Record)
        /\ InFlight(s) \in Seq(Record)
    BY <1>6, FlowTypes, QueuedType
  <2>5. Queued(s)' = Append(Queued(s), sent)
    <3>1. Queued(s) = InFlight(s) \o outbound[s]
      BY <1>6 DEF Queued
    <3>2. Queued(s)' = InFlight(s) \o Append(outbound[s], sent)
      BY <1>2, <1>4, <1>6, <2>4 DEF Queued
    <3> DEFINE a == InFlight(s)
               b == outbound[s]
    <3>3. a \in Seq(Record) /\ b \in Seq(Record)
      BY <2>4
    <3> HIDE DEF a, b
    <3>4. a \o Append(b, sent) = Append(a \o b, sent)
      BY <1>1, <3>3
    <3> QED BY <3>1, <3>2, <3>4 DEF a, b
  <2>6. Newest(s)' = sent
    <3> DEFINE o == offered[s]
    <3>1. o \in Seq(Record) /\ offered'[s] = Append(o, sent)
      BY <2>4
    <3> HIDE DEF o
    <3>2. Append(o, sent) # <<>> /\ Append(o, sent)[Len(Append(o, sent))] = sent
      BY <1>1, <3>1
    <3> QED BY <3>1, <3>2 DEF Newest, Last
  <2>7. Delivery!Give(s)
    BY <1>1, <1>2, <2>2, <2>3, <2>5, <2>6, GiveMaps
  <2> QED BY <2>7
<1> QED BY <1>1, <1>5, <1>6

LEMMA WriteMaps ==
  ASSUME ListTypes, FlowInv, SetUpInv, MemberInv, [Next]_vars, WriteRecord
  PROVE  \E v \in Sessions : Delivery!Receive(v)
<1>1. /\ writer = "write" /\ local # <<>>
      /\ delivered' = [delivered EXCEPT ![Head(snap)] = Append(@, Head(local))]
      /\ local' = Tail(local)
      /\ UNCHANGED <<alive, offered, outbound, sent, writer, snap, acceptor>>
  BY DEF WriteRecord, sessionVars, bufferVars, bcastVars, acceptorVars
<1>2. PICK h \in Sessions : h = Head(snap)
  BY <1>1, HeadTail DEF ListTypes
<1>3. ~Register
  BY <1>1 DEF Register
<1>4. \A s \in Sessions : Member(s)' = Member(s) /\ Newest(s)' = Newest(s)
  BY <1>1, <1>3, MemberMoves DEF Newest
<1>5. \A s \in Sessions \ {h} : Unmoved(s)
  BY <1>1, <1>2, <1>4 DEF Unmoved, Queued, InFlight
<1> DEFINE o == IF alive[h] THEN outbound[h] ELSE <<>>
<1>6. o \in Seq(Record) /\ local \in Seq(Record)
  <2>1. <<>> \in Seq(Record)
    OBVIOUS
  <2> QED BY <2>1, FlowTypes DEF ListTypes
<1>7. Queued(h) = local \o o /\ Queued(h)' = Tail(local) \o o
  BY <1>1, <1>2 DEF Queued, InFlight
<1> HIDE DEF o
<1>8. /\ Queued(h) # <<>> /\ Head(Queued(h)) = Head(local)
      /\ Queued(h)' = Tail(Queued(h))
  BY <1>1, <1>6, <1>7, HeadOfConcat
<1>9. delivered' = [delivered EXCEPT ![h] = Append(delivered[h], Head(Queued(h)))]
  BY <1>1, <1>2, <1>8
<1>10. Delivery!Receive(h)
  BY <1>1, <1>4, <1>5, <1>8, <1>9, ReceiveMaps
<1> QED BY <1>10

\* The rest of what the writer took is dropped with the session.
LEMMA FailMaps ==
  ASSUME ListTypes, FlowInv, SetUpInv, MemberInv, [Next]_vars, WriteFails
  PROVE  \E v \in Sessions : Delivery!Leave(v)
<1>1. /\ writer = "write" /\ writer' = "visit"
      /\ alive' = [alive EXCEPT ![Head(snap)] = FALSE]
      /\ UNCHANGED <<offered, outbound, delivered, sent, acceptor>>
  BY DEF WriteFails, bufferVars, bcastVars, acceptorVars
<1>2. snap \in Seq(Sessions) /\ snap # <<>>
  BY <1>1 DEF ListTypes
<1>3. PICK h \in Sessions : h = Head(snap)
  BY <1>2, HeadTail
<1>4. Joined(h)
  BY <1>2, <1>3, TailOf DEF MemberInv
<1>5. ~Register
  BY <1>1 DEF Register
<1>6. \A s \in Sessions \ {h} : alive'[s] = alive[s]
  BY <1>1, <1>3, FlowTypes
<1>7. \A s \in Sessions \ {h} : Unmoved(s)
  <2> TAKE s \in Sessions \ {h}
  <2>1. Member(s)' = Member(s)
    BY <1>5, <1>6, MemberMoves
  <2> QED BY <1>1, <1>3, <1>6, <2>1 DEF Unmoved, Newest, Queued, InFlight
<1>8. alive'[h] = FALSE
  BY <1>1, <1>3, FlowTypes
<1>9. Member(h) # "out" /\ Member(h)' = "gone" /\ Newest(h)' = Newest(h)
  BY <1>1, <1>4, <1>8, MemberIs DEF Member, Dead, Newest
<1>10. <<>> \in Seq(Record) /\ <<>> \o <<>> = <<>>
  OBVIOUS
<1>11. Queued(h)' = <<>>
  BY <1>1, <1>8, <1>10 DEF Queued, InFlight
<1>12. PICK kept \in 0 .. Len(Queued(h)) : Queued(h)' = SubSeq(Queued(h), 1, kept)
  <2> DEFINE q == Queued(h)
  <2>1. q \in Seq(Record)
    BY QueuedType
  <2> HIDE DEF q
  <2>2. 0 \in 0 .. Len(q) /\ SubSeq(q, 1, 0) = <<>>
    BY <2>1
  <2> QED BY <1>11, <2>2 DEF q
<1> QED BY <1>1, <1>7, <1>9, <1>12, LeaveMaps

DeliveryInv ==
  /\ FlowInv /\ SetUpInv /\ DOMAIN reader = Sessions /\ ListTypes
  /\ MemberInv /\ GiveInv

LEMMA DeliveryInit == Init => DeliveryInv /\ Delivery!Init
<1> SUFFICES ASSUME Init PROVE DeliveryInv /\ Delivery!Init
  OBVIOUS
<1>1. DeliveryInv
  BY FlowInit, CountsInit, TypesInit, MemberInit, GiveInit DEF DeliveryInv, CountInv
<1>2. /\ clients = <<>> /\ sent = 0 /\ writer = "visit"
      /\ delivered = [s \in Sessions |-> <<>>]
      /\ \A s \in Sessions : alive[s] /\ offered[s] = <<>> /\ outbound[s] = <<>>
  BY DEF Init
<1>3. \A s : ~Contains(<<>>, s)
  <2>1. Len(<<>>) = 0
    OBVIOUS
  <2> QED BY <2>1 DEF Contains
<1>4. <<>> \o <<>> = <<>>
  OBVIOUS
<1>5. \A s \in Sessions : Member(s) = "out" /\ Newest(s) = 0 /\ Queued(s) = <<>>
  BY <1>2, <1>3, <1>4 DEF Member, Newest, Queued, InFlight, Dead
<1>6. Delivery!Init
  BY <1>2, <1>5 DEF Delivery!Init
<1> QED BY <1>1, <1>6

LEMMA DeliveryStep ==
  ASSUME DeliveryInv, [Next]_vars
  PROVE  DeliveryInv'
<1> USE DEF DeliveryInv
<1>1. FlowInv' /\ SetUpInv' /\ DOMAIN reader' = Sessions /\ ListTypes'
  BY FlowStep, SetUpStep, ListsStep
<1>2. MemberInv' /\ GiveInv'
  BY MemberStep, GiveStep
<1> QED BY <1>1, <1>2

\* Every step of the server is one of the service, or none.
LEMMA RefineStep ==
  ASSUME DeliveryInv, [Next]_vars
  PROVE  [Delivery!Next]_(Delivery!deliveryVars)
<1> DEFINE Goal == Delivery!Next \/ UNCHANGED Delivery!deliveryVars
<1> USE DEF DeliveryInv
<1>0. /\ Delivery!Publish => Goal
      /\ \A v \in Sessions :
           Delivery!Join(v) \/ Delivery!Give(v) \/ Delivery!Receive(v) \/ Delivery!Leave(v)
             => Goal
  BY DEF Delivery!Next
<1>1. ASSUME ~Register, UNCHANGED <<alive, offered, delivered, sent>>,
             UNCHANGED <<outbound, writer, snap, local>>
      PROVE  Goal
  <2>1. \A s \in Sessions : Queued(s)' = Queued(s)
    BY <1>1 DEF Queued, InFlight
  <2> QED BY <1>1, <2>1, QuietMaps
<1>2. ASSUME Acceptor PROVE Goal
  <2>1. CASE Register
    <3>1. Delivery!Join(pending) /\ pending \in Sessions
      BY <2>1, RegisterMaps DEF SetUpInv, Register
    <3> QED BY <1>0, <3>1
  <2>2. CASE ~Register
    <3>1. UNCHANGED <<alive, offered, delivered, sent, outbound, writer, snap, local>>
      BY <1>2, <2>2 DEF Acceptor, AcceptorCheck, CreatePipeInstance, Connected,
           ConnectFails, SpawnReader, AssignReader, sessionVars, bufferVars, writerVars,
           bcastVars
    <3> QED BY <1>1, <2>2, <3>1
  <2> QED BY <2>1, <2>2
<1>3. ASSUME Writer PROVE Goal
  <2>1. ASSUME SnapshotAndReap \/ Visit \/ WriteDone PROVE Goal
    BY <2>1, WriterMaps, QuietMaps
  <2>2. ASSUME WriteRecord PROVE Goal
    BY <1>0, <2>2, WriteMaps
  <2>3. ASSUME WriteFails PROVE Goal
    BY <1>0, <2>3, FailMaps
  <2> HIDE DEF Goal
  <2> QED BY <1>3, <2>1, <2>2, <2>3 DEF Writer
<1>4. ASSUME Broadcasting PROVE Goal
  <2>1. ASSUME BroadcastBegin PROVE Goal
    <3>1. /\ UNCHANGED <<alive, offered, delivered, outbound, writer, snap, local, acceptor>>
          /\ sent' = sent + 1
      BY <2>1 DEF BroadcastBegin, sessionVars, bufferVars, writerVars, acceptorVars
    <3>2. ~Register
      BY <3>1 DEF Register
    <3>3. \A s \in Sessions : Unmoved(s)
      BY <3>1, <3>2, MemberMoves DEF Unmoved, Newest, Queued, InFlight
    <3> QED BY <1>0, <3>1, <3>3, PublishMaps
  <2>2. ASSUME Offer PROVE Goal
    BY <1>0, <2>2, OfferMaps
  <2>3. ASSUME BroadcastEnd PROVE Goal
    <3>1. UNCHANGED <<alive, offered, delivered, sent, outbound, writer, snap, local, acceptor>>
      BY <2>3 DEF BroadcastEnd, sessionVars, bufferVars, writerVars, bcastVars, acceptorVars
    <3>2. ~Register
      BY <3>1 DEF Register
    <3> QED BY <1>1, <3>1, <3>2
  <2> HIDE DEF Goal
  <2> QED BY <1>4, <2>1, <2>2, <2>3 DEF Broadcasting
<1>5. ASSUME StopBegin \/ Stopping PROVE Goal
  <2>1. UNCHANGED <<offered, delivered, sent, outbound, writer, snap, local, acceptor>>
    BY <1>5 DEF StopBegin, Stopping, StopWakes, StopJoinsAcceptor, StopJoinsWriter,
         StopCloses, StopJoinsReader, StopEnds, bufferVars, writerVars, bcastVars,
         acceptorVars
  <2>2. ~Register
    BY <2>1 DEF Register
  <2>3. ASSUME alive' = alive PROVE Goal
    BY <1>1, <2>1, <2>2, <2>3
  <2>4. ASSUME StopCloses PROVE Goal
    <3>1. doomed # <<>> /\ alive' = [alive EXCEPT ![Head(doomed)] = FALSE]
      BY <2>4 DEF StopCloses
    <3>2. doomed \in Seq(Sessions)
      BY DEF ListTypes
    <3>3. PICK h \in Sessions : h = Head(doomed)
      BY <3>1, <3>2, HeadTail
    <3>4. Joined(h)
      BY <3>1, <3>2, <3>3, TailOf DEF MemberInv
    <3>5. Delivery!Leave(h)
      BY <2>1, <2>2, <3>1, <3>3, <3>4, DeathMaps
    <3> QED BY <1>0, <3>5
  <2>5. alive' = alive \/ StopCloses
    BY <1>5 DEF StopBegin, Stopping, StopWakes, StopJoinsAcceptor, StopJoinsWriter,
         StopJoinsReader, StopEnds, sessionVars
  <2> HIDE DEF Goal
  <2> QED BY <2>3, <2>4, <2>5
<1>6. ASSUME NEW r \in Sessions, Reader(r) \/ ReadCommand(r) \/ Client(r) PROVE Goal
  <2>1. UNCHANGED <<offered, delivered, sent, outbound, writer, snap, local, acceptor>>
    BY <1>6 DEF Reader, ReaderCheck, ReadFails, ReaderDies, ReaderEnds, ReadCommand,
         Client, ClientConnect, ClientStall, ClientClose, bufferVars, writerVars,
         bcastVars, acceptorVars
  <2>2. ~Register
    BY <2>1 DEF Register
  <2>3. ASSUME alive' = alive PROVE Goal
    BY <1>1, <2>1, <2>2, <2>3
  <2>4. ASSUME ReaderDies(r) PROVE Goal
    <3>1. reader[r] = "broken" /\ alive' = [alive EXCEPT ![r] = FALSE]
      BY <2>4 DEF ReaderDies, ReaderGoto
    <3>2. Joined(r)
      BY <3>1 DEF MemberInv
    <3>3. Delivery!Leave(r)
      BY <2>1, <2>2, <3>1, <3>2, DeathMaps
    <3> QED BY <1>0, <3>3
  <2>5. alive' = alive \/ ReaderDies(r)
    BY <1>6 DEF Reader, ReaderCheck, ReadFails, ReaderEnds, ReadCommand, Client,
         ClientConnect, ClientStall, ClientClose, sessionVars
  <2> HIDE DEF Goal
  <2> QED BY <2>3, <2>4, <2>5
<1>7. ASSUME UNCHANGED vars PROVE Goal
  <2>1. UNCHANGED <<alive, offered, delivered, sent, outbound, writer, snap, local, acceptor>>
    BY <1>7 DEF vars, sessionVars, bufferVars, writerVars, bcastVars, acceptorVars
  <2>2. ~Register
    BY <2>1 DEF Register
  <2> QED BY <1>1, <2>1, <2>2
<1>8. Goal
  <2> HIDE DEF Goal
  <2> QED BY <1>2, <1>3, <1>4, <1>5, <1>6, <1>7 DEF Next
<1> QED BY <1>8

(***************************************************************************)
(* The server implements the delivery service, for any number of           *)
(* connections, records and instances, and however its threads, the        *)
(* clients and Stop interleave.  No session is listed twice, so that one   *)
(* Broadcast gives it a record once, and whoever is read from, written to  *)
(* or closed has been listed (MemberInv, GiveInv); the reaping drops the   *)
(* dead only.                                                              *)
(***************************************************************************)
THEOREM PipeImplementsDelivery == Spec => ImplementsDelivery
<1>1. Init => DeliveryInv /\ Delivery!Init
  BY DeliveryInit
<1>2. DeliveryInv /\ [Next]_vars => DeliveryInv'
  BY DeliveryStep
<1>3. DeliveryInv /\ [Next]_vars => [Delivery!Next]_(Delivery!deliveryVars)
  BY RefineStep
<1> QED BY <1>1, <1>2, <1>3, PTL DEF Spec, ImplementsDelivery, Delivery!Spec

(***************************************************************************)
(* So every client reads records in the order in which they were           *)
(* broadcast, none twice, whatever was dropped in between: what was        *)
(* written to it begins what it was given, and that rises.                 *)
(***************************************************************************)
THEOREM ReadInOrder == Spec => []Delivery!InOrder
<1>1. Init => DeliveryInv
  BY DeliveryInit
<1>2. DeliveryInv /\ [Next]_vars => DeliveryInv'
  BY DeliveryStep
<1>3. DeliveryInv => Delivery!InOrder
  <2> SUFFICES ASSUME DeliveryInv, NEW s \in Sessions PROVE Rising(delivered[s])
    BY DEF Delivery!InOrder, Rising
  <2>1. PICK rest \in Seq(Record) : delivered[s] \o (InFlight(s) \o rest) = offered[s]
    BY DEF DeliveryInv, FlowInv, Flows
  <2>2. delivered[s] \in Seq(Record) /\ InFlight(s) \in Seq(Record)
    BY FlowTypes DEF DeliveryInv, FlowInv
  <2>3. InFlight(s) \o rest \in Seq(Record)
    BY <2>2, ConcatProperties
  <2>4. Rising(offered[s])
    BY DEF DeliveryInv, GiveInv
  <2> QED BY <2>1, <2>2, <2>3, <2>4, RisingPart
<1> QED BY <1>1, <1>2, <1>3, PTL DEF Spec
=============================================================================
