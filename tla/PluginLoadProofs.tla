-------------------------- MODULE PluginLoadProofs --------------------------
(***************************************************************************)
(* The load of the plugin.  NoneTooEarly for any configuration, any number *)
(* of viewers, commands and waiting records, and any interleaving of the   *)
(* loading thread with the threads it starts; and HooksSafeAndTold for any *)
(* hooks, in any order, on any sites.                                      *)
(***************************************************************************)
EXTENDS PluginLoad, HookInstall, SequenceTheorems, FiniteSetTheorems, TLAPS

\* What is submitted once, by the loading thread.
Own == {"hello", "plugins"}

\* The kinds of record, listed.
LEMMA Kinds ==
  Kind = {"memory", "heartbeat", "frame", "events", "state", "pong", "ack",
          "hello", "plugins"}
BY DEF Kind, Origin, Answer, Since

\* SKSEPluginLoad: where the steps are that the invariant speaks of.
LEMMA StepPlaces ==
  /\ Len(Steps) = 14
  /\ \A n \in 1 .. 14 :
       /\ Steps[n] = "writer" <=> n = 3
       /\ Steps[n] = "pipeStart" <=> n = 4
       /\ Steps[n] = "writerStart" <=> n = 5
       /\ Steps[n] = "open" <=> n = 7
       /\ Steps[n] = "attach" <=> n = 8
       /\ Steps[n] = "memory" <=> n = 9
       /\ Steps[n] = "hello" <=> n = 11
       /\ Steps[n] = "heartbeat" <=> n = 12
       /\ Steps[n] = "kPostLoad" <=> n = 13
       /\ Steps[n] = "kDataLoaded" <=> n = 14
BY DEF Steps

\* A step is taken once the thread is past its place.
LEMMA TakenAt ==
  \A d \in 0 .. 14, k \in 1 .. 14 :
    (\A n \in 1 .. 14 : Steps[n] = Steps[k] => n = k)
      => ((\E i \in 1 .. d : Steps[i] = Steps[k]) <=> d >= k)
<1> SUFFICES ASSUME NEW d \in 0 .. 14, NEW k \in 1 .. 14,
                    \A n \in 1 .. 14 : Steps[n] = Steps[k] => n = k
             PROVE  (\E i \in 1 .. d : Steps[i] = Steps[k]) <=> d >= k
  OBVIOUS
<1>1. ASSUME d >= k PROVE \E i \in 1 .. d : Steps[i] = Steps[k]
  <2>1. k \in 1 .. d
    BY <1>1
  <2> QED BY <2>1
<1>2. ASSUME NEW i \in 1 .. d, Steps[i] = Steps[k] PROVE d >= k
  <2>1. i \in 1 .. 14
    OBVIOUS
  <2>2. i = k
    BY <2>1, <1>2
  <2> QED BY <2>2
<1> QED BY <1>1, <1>2

\* Which steps have been taken, by their place.
LEMMA DonePlaces ==
  ASSUME NEW d \in 0 .. Len(Steps)
  PROVE  /\ d \in 0 .. 14
         /\ (\E i \in 1 .. d : Steps[i] = "writer") <=> d >= 3
         /\ (\E i \in 1 .. d : Steps[i] = "pipeStart") <=> d >= 4
         /\ (\E i \in 1 .. d : Steps[i] = "writerStart") <=> d >= 5
         /\ (\E i \in 1 .. d : Steps[i] = "open") <=> d >= 7
         /\ (\E i \in 1 .. d : Steps[i] = "attach") <=> d >= 8
         /\ (\E i \in 1 .. d : Steps[i] = "memory") <=> d >= 9
         /\ (\E i \in 1 .. d : Steps[i] = "hello") <=> d >= 11
         /\ (\E i \in 1 .. d : Steps[i] = "heartbeat") <=> d >= 12
         /\ (\E i \in 1 .. d : Steps[i] = "kPostLoad") <=> d >= 13
         /\ (\E i \in 1 .. d : Steps[i] = "kDataLoaded") <=> d >= 14
<1>1. d \in 0 .. 14
  BY StepPlaces
<1>2. (\E i \in 1 .. d : Steps[i] = "writer") <=> d >= 3
  <2>1. 3 \in 1 .. 14
    OBVIOUS
  <2>2. \A n \in 1 .. 14 : Steps[n] = "writer" <=> n = 3
    BY StepPlaces
  <2>3. Steps[3] = "writer"
    BY <2>1, <2>2, Zenon
  <2>4. \A n \in 1 .. 14 : Steps[n] = Steps[3] => n = 3
    BY <2>2, <2>3, Zenon
  <2>5. (\E i \in 1 .. d : Steps[i] = Steps[3]) <=> d >= 3
    BY <1>1, <2>1, <2>4, TakenAt, Zenon
  <2> QED BY <2>3, <2>5, Zenon
<1>3. (\E i \in 1 .. d : Steps[i] = "pipeStart") <=> d >= 4
  <2>1. 4 \in 1 .. 14
    OBVIOUS
  <2>2. \A n \in 1 .. 14 : Steps[n] = "pipeStart" <=> n = 4
    BY StepPlaces
  <2>3. Steps[4] = "pipeStart"
    BY <2>1, <2>2, Zenon
  <2>4. \A n \in 1 .. 14 : Steps[n] = Steps[4] => n = 4
    BY <2>2, <2>3, Zenon
  <2>5. (\E i \in 1 .. d : Steps[i] = Steps[4]) <=> d >= 4
    BY <1>1, <2>1, <2>4, TakenAt, Zenon
  <2> QED BY <2>3, <2>5, Zenon
<1>4. (\E i \in 1 .. d : Steps[i] = "writerStart") <=> d >= 5
  <2>1. 5 \in 1 .. 14
    OBVIOUS
  <2>2. \A n \in 1 .. 14 : Steps[n] = "writerStart" <=> n = 5
    BY StepPlaces
  <2>3. Steps[5] = "writerStart"
    BY <2>1, <2>2, Zenon
  <2>4. \A n \in 1 .. 14 : Steps[n] = Steps[5] => n = 5
    BY <2>2, <2>3, Zenon
  <2>5. (\E i \in 1 .. d : Steps[i] = Steps[5]) <=> d >= 5
    BY <1>1, <2>1, <2>4, TakenAt, Zenon
  <2> QED BY <2>3, <2>5, Zenon
<1>5. (\E i \in 1 .. d : Steps[i] = "open") <=> d >= 7
  <2>1. 7 \in 1 .. 14
    OBVIOUS
  <2>2. \A n \in 1 .. 14 : Steps[n] = "open" <=> n = 7
    BY StepPlaces
  <2>3. Steps[7] = "open"
    BY <2>1, <2>2, Zenon
  <2>4. \A n \in 1 .. 14 : Steps[n] = Steps[7] => n = 7
    BY <2>2, <2>3, Zenon
  <2>5. (\E i \in 1 .. d : Steps[i] = Steps[7]) <=> d >= 7
    BY <1>1, <2>1, <2>4, TakenAt, Zenon
  <2> QED BY <2>3, <2>5, Zenon
<1>6. (\E i \in 1 .. d : Steps[i] = "attach") <=> d >= 8
  <2>1. 8 \in 1 .. 14
    OBVIOUS
  <2>2. \A n \in 1 .. 14 : Steps[n] = "attach" <=> n = 8
    BY StepPlaces
  <2>3. Steps[8] = "attach"
    BY <2>1, <2>2, Zenon
  <2>4. \A n \in 1 .. 14 : Steps[n] = Steps[8] => n = 8
    BY <2>2, <2>3, Zenon
  <2>5. (\E i \in 1 .. d : Steps[i] = Steps[8]) <=> d >= 8
    BY <1>1, <2>1, <2>4, TakenAt, Zenon
  <2> QED BY <2>3, <2>5, Zenon
<1>7. (\E i \in 1 .. d : Steps[i] = "memory") <=> d >= 9
  <2>1. 9 \in 1 .. 14
    OBVIOUS
  <2>2. \A n \in 1 .. 14 : Steps[n] = "memory" <=> n = 9
    BY StepPlaces
  <2>3. Steps[9] = "memory"
    BY <2>1, <2>2, Zenon
  <2>4. \A n \in 1 .. 14 : Steps[n] = Steps[9] => n = 9
    BY <2>2, <2>3, Zenon
  <2>5. (\E i \in 1 .. d : Steps[i] = Steps[9]) <=> d >= 9
    BY <1>1, <2>1, <2>4, TakenAt, Zenon
  <2> QED BY <2>3, <2>5, Zenon
<1>8. (\E i \in 1 .. d : Steps[i] = "hello") <=> d >= 11
  <2>1. 11 \in 1 .. 14
    OBVIOUS
  <2>2. \A n \in 1 .. 14 : Steps[n] = "hello" <=> n = 11
    BY StepPlaces
  <2>3. Steps[11] = "hello"
    BY <2>1, <2>2, Zenon
  <2>4. \A n \in 1 .. 14 : Steps[n] = Steps[11] => n = 11
    BY <2>2, <2>3, Zenon
  <2>5. (\E i \in 1 .. d : Steps[i] = Steps[11]) <=> d >= 11
    BY <1>1, <2>1, <2>4, TakenAt, Zenon
  <2> QED BY <2>3, <2>5, Zenon
<1>9. (\E i \in 1 .. d : Steps[i] = "heartbeat") <=> d >= 12
  <2>1. 12 \in 1 .. 14
    OBVIOUS
  <2>2. \A n \in 1 .. 14 : Steps[n] = "heartbeat" <=> n = 12
    BY StepPlaces
  <2>3. Steps[12] = "heartbeat"
    BY <2>1, <2>2, Zenon
  <2>4. \A n \in 1 .. 14 : Steps[n] = Steps[12] => n = 12
    BY <2>2, <2>3, Zenon
  <2>5. (\E i \in 1 .. d : Steps[i] = Steps[12]) <=> d >= 12
    BY <1>1, <2>1, <2>4, TakenAt, Zenon
  <2> QED BY <2>3, <2>5, Zenon
<1>10. (\E i \in 1 .. d : Steps[i] = "kPostLoad") <=> d >= 13
  <2>1. 13 \in 1 .. 14
    OBVIOUS
  <2>2. \A n \in 1 .. 14 : Steps[n] = "kPostLoad" <=> n = 13
    BY StepPlaces
  <2>3. Steps[13] = "kPostLoad"
    BY <2>1, <2>2, Zenon
  <2>4. \A n \in 1 .. 14 : Steps[n] = Steps[13] => n = 13
    BY <2>2, <2>3, Zenon
  <2>5. (\E i \in 1 .. d : Steps[i] = Steps[13]) <=> d >= 13
    BY <1>1, <2>1, <2>4, TakenAt, Zenon
  <2> QED BY <2>3, <2>5, Zenon
<1>11. (\E i \in 1 .. d : Steps[i] = "kDataLoaded") <=> d >= 14
  <2>1. 14 \in 1 .. 14
    OBVIOUS
  <2>2. \A n \in 1 .. 14 : Steps[n] = "kDataLoaded" <=> n = 14
    BY StepPlaces
  <2>3. Steps[14] = "kDataLoaded"
    BY <2>1, <2>2, Zenon
  <2>4. \A n \in 1 .. 14 : Steps[n] = Steps[14] => n = 14
    BY <2>2, <2>3, Zenon
  <2>5. (\E i \in 1 .. d : Steps[i] = Steps[14]) <=> d >= 14
    BY <1>1, <2>1, <2>4, TakenAt, Zenon
  <2> QED BY <2>3, <2>5, Zenon
<1> QED BY <1>1, <1>2, <1>3, <1>4, <1>5, <1>6, <1>7, <1>8, <1>9, <1>10, <1>11

\* Nothing is done, open or waiting when SKSEPluginLoad is entered.
THEOREM LoadInvInit == LoadInit => LoadInv
<1> SUFFICES ASSUME LoadInit PROVE LoadInv
  OBVIOUS
<1>1. \A s : ~Done(s)
  BY DEF LoadInit, Done
<1>2. Len(Steps) = 14
  BY StepPlaces
<1>3. LoadTypeOK
  <2>1. queue \in Seq(Kind) /\ inOrder \in Seq({"hello", "plugins"})
    BY DEF LoadInit
  <2>2. done \in 0 .. Len(Steps) /\ commands \in 0 .. MaxCommands
    BY <1>2, LoadAssumption DEF LoadInit
  <2>3. command \in [Client -> {Nothing, "ping", "save_session", "pinned"}]
    BY DEF LoadInit
  <2> QED BY <2>1, <2>2, <2>3 DEF LoadInit, LoadTypeOK
<1>4. NoneTooEarly
  BY DEF LoadInit, NoneTooEarly
<1>5. AttachedInTime
  BY <1>1 DEF LoadInit, AttachedInTime
<1>6. ToldOnce
  BY <1>1 DEF LoadInit, ToldOnce, Waiting
<1> QED BY <1>3, <1>4, <1>5, <1>6 DEF LoadInv

\* Which steps have been taken, by how many of them.
LEMMA Places ==
  ASSUME LoadTypeOK
  PROVE  /\ done \in 0 .. 14
         /\ Done("writer") <=> done >= 3
         /\ Done("pipeStart") <=> done >= 4
         /\ Done("writerStart") <=> done >= 5
         /\ Done("open") <=> done >= 7
         /\ Done("attach") <=> done >= 8
         /\ Done("memory") <=> done >= 9
         /\ Done("hello") <=> done >= 11
         /\ Done("heartbeat") <=> done >= 12
         /\ Done("kPostLoad") <=> done >= 13
         /\ Done("kDataLoaded") <=> done >= 14
<1>1. done \in 0 .. Len(Steps)
  BY DEF LoadTypeOK
<1> QED BY <1>1, DonePlaces DEF Done

\* A step is taken in its turn.
LEMMA StepTaken ==
  ASSUME LoadTypeOK, NEW s, Step(s)
  PROVE  /\ done' = done + 1 /\ done' \in 0 .. Len(Steps)
         /\ done + 1 \in 1 .. 14 /\ Steps[done + 1] = s
<1>1. done \in 0 .. 14 /\ Len(Steps) = 14
  BY Places, StepPlaces
<1> QED BY <1>1 DEF Step

\* A submission keeps the waiting records of known kinds.
LEMMA Submitted ==
  ASSUME LoadTypeOK, NEW kind \in Kind, Submit(kind)
  PROVE  queue' \in Seq(Kind)
BY DEF LoadTypeOK, Submit

\* What WriterThread::Loop pops.
LEMMA Popped ==
  ASSUME LoadTypeOK, WriterBroadcasts
  PROVE  /\ Len(queue) \in Nat \ {0} /\ DOMAIN queue = 1 .. Len(queue)
         /\ held' = queue[1] /\ held' \in Kind
         /\ queue' \in Seq(Kind) /\ DOMAIN queue' = 1 .. (Len(queue) - 1)
         /\ \A i \in DOMAIN queue' : i + 1 \in DOMAIN queue /\ queue'[i] = queue[i + 1]
<1>1. queue \in Seq(Kind) /\ queue # <<>> /\ held' = Head(queue) /\ queue' = Tail(queue)
  BY DEF LoadTypeOK, WriterBroadcasts
<1> QED BY <1>1

\* Every thread keeps the states of the load well-typed.
THEOREM LoadTypeStep ==
  ASSUME LoadTypeOK, [LoadNext]_loadVars
  PROVE  LoadTypeOK'
<1> USE DEF LoadTypeOK
<1>1. CASE LoadConfig
  <2>1. done' \in 0 .. Len(Steps)
    BY <1>1, StepTaken DEF LoadConfig
  <2> QED BY <1>1, <2>1 DEF LoadConfig
<1>2. CASE Begin
  <2>1. done' \in 0 .. Len(Steps)
    BY <1>2, StepTaken DEF Begin
  <2> QED BY <1>2, <2>1 DEF Begin
<1>3. CASE StartRecorder
  <2>1. done' \in 0 .. Len(Steps)
    BY <1>3, StepTaken DEF StartRecorder
  <2> QED BY <1>3, <2>1 DEF StartRecorder
<1>4. CASE AttachRecorder
  <2>1. done' \in 0 .. Len(Steps)
    BY <1>4, StepTaken DEF AttachRecorder
  <2> QED BY <1>4, <2>1 DEF AttachRecorder
<1>5. CASE EmitHello
  <2>1. done' \in 0 .. Len(Steps)
    BY <1>5, StepTaken DEF EmitHello
  <2>2. queue' \in Seq(Kind)
    BY <1>5, Kinds, Submitted DEF EmitHello
  <2> QED BY <1>5, <2>1, <2>2 DEF EmitHello
<1>6. CASE DataLoaded
  <2>1. done' \in 0 .. Len(Steps)
    BY <1>6, StepTaken DEF DataLoaded
  <2>2. queue' \in Seq(Kind)
    BY <1>6, Kinds, Submitted DEF DataLoaded
  <2> QED BY <1>6, <2>1, <2>2 DEF DataLoaded
<1>7. ASSUME NEW o \in Origin, Report(o) PROVE LoadTypeOK'
  <2>1. queue' \in Seq(Kind)
    BY <1>7, Submitted DEF Report, Kind
  <2> QED BY <1>7, <2>1 DEF Report
<1>8. ASSUME NEW c \in Client, CommandArrives(c) PROVE LoadTypeOK'
  <2>1. commands' \in 0 .. MaxCommands
    <3>1. commands < MaxCommands /\ commands' = commands + 1
      BY <1>8 DEF CommandArrives
    <3>2. commands \in Nat /\ MaxCommands \in Nat
      BY LoadAssumption
    <3> QED BY <3>1, <3>2
  <2>2. command' \in [Client -> {Nothing, "ping", "save_session", "pinned"}]
    BY <1>8 DEF CommandArrives
  <2> QED BY <1>8, <2>1, <2>2 DEF CommandArrives
<1>9. ASSUME NEW c \in Client, ReplyToPing(c) \/ Acknowledge(c) PROVE LoadTypeOK'
  <2>1. \E k \in {"pong", "ack"} : Answered(c, k)
    BY <1>9 DEF ReplyToPing, Acknowledge
  <2>2. queue' \in Seq(Kind)
    BY <2>1, Kinds, Submitted DEF Answered
  <2>3. command' \in [Client -> {Nothing, "ping", "save_session", "pinned"}]
    BY <2>1 DEF Answered
  <2> QED BY <2>1, <2>2, <2>3 DEF Answered
<1>10. ASSUME NEW c \in Client, SaveSession(c) PROVE LoadTypeOK'
  <2>1. command' \in [Client -> {Nothing, "ping", "save_session", "pinned"}]
    BY <1>10 DEF SaveSession
  <2> QED BY <1>10, <2>1 DEF SaveSession
<1>11. CASE WriterBroadcasts
  <2>1. held' \in Kind /\ queue' \in Seq(Kind)
    BY <1>11, Popped
  <2>2. inOrder' \in Seq({"hello", "plugins"})
    <3>1. CASE held' \in {"hello", "plugins"}
      <4>1. inOrder' = Append(inOrder, held')
        BY <1>11, <3>1 DEF WriterBroadcasts
      <4> QED BY <3>1, <4>1
    <3>2. CASE held' \notin {"hello", "plugins"}
      BY <1>11, <3>2 DEF WriterBroadcasts
    <3> QED BY <3>1, <3>2
  <2> QED BY <1>11, <2>1, <2>2 DEF WriterBroadcasts
<1>12. CASE WriterRecords
  BY <1>12 DEF WriterRecords
<1>13. CASE UNCHANGED loadVars
  BY <1>13 DEF loadVars
<1> QED
  BY <1>1, <1>2, <1>3, <1>4, <1>5, <1>6, <1>7, <1>8, <1>9, <1>10, <1>11, <1>12, <1>13
  DEF LoadNext

-----------------------------------------------------------------------------
(* The hello and the load order.                                           *)

\* A record that is pushed is the last one waiting.
LEMMA Pushed ==
  ASSUME LoadTypeOK, NEW kind \in Kind, Submit(kind)
  PROVE  /\ Len(queue) \in Nat /\ DOMAIN queue = 1 .. Len(queue)
         /\ DOMAIN queue' = 1 .. (Len(queue) + 1)
         /\ \A i \in DOMAIN queue : queue'[i] = queue[i]
         /\ queue'[Len(queue) + 1] = kind
<1>1. queue \in Seq(Kind) /\ queue' = Append(queue, kind)
  BY DEF LoadTypeOK, Submit
<1> QED BY <1>1

\* What waits after a submission is what waited and the new record.
LEMMA WaitsOn ==
  ASSUME LoadTypeOK, NEW kind \in Kind, Submit(kind), NEW k
  PROVE  Waiting(k)' <=> Waiting(k) \/ k = kind
<1>1. ASSUME Waiting(k) PROVE Waiting(k)'
  <2>1. PICK i \in DOMAIN queue : queue[i] = k
    BY <1>1 DEF Waiting
  <2>2. i \in DOMAIN queue' /\ queue'[i] = k
    BY <2>1, Pushed
  <2> QED BY <2>2 DEF Waiting
<1>2. ASSUME k = kind PROVE Waiting(k)'
  <2>1. Len(queue) + 1 \in DOMAIN queue' /\ queue'[Len(queue) + 1] = k
    BY <1>2, Pushed
  <2> QED BY <2>1 DEF Waiting
<1>3. ASSUME Waiting(k)', k # kind PROVE Waiting(k)
  <2>1. PICK i \in DOMAIN queue' : queue'[i] = k
    BY <1>3 DEF Waiting
  <2>2. i \in DOMAIN queue /\ queue[i] = k
    BY <2>1, <1>3, Pushed
  <2> QED BY <2>2 DEF Waiting
<1> QED BY <1>1, <1>2, <1>3

\* The records of the loading thread stay in their order.
InTurn(q) ==
  \A i, j \in DOMAIN q :
    /\ q[i] \in {"hello", "plugins"} /\ q[i] = q[j] => i = j
    /\ q[i] = "hello" /\ q[j] = "plugins" => i < j

\* A submission keeps hello before the load order among the waiting records,
\* and each of them there at most once.
LEMMA TurnKept ==
  ASSUME LoadTypeOK, NEW kind \in Kind, Submit(kind), InTurn(queue),
         kind \in Own => ~Waiting(kind),
         kind = "hello" => ~Waiting("plugins")
  PROVE  InTurn(queue')
<1> SUFFICES ASSUME NEW i \in DOMAIN queue', NEW j \in DOMAIN queue'
             PROVE  /\ queue'[i] \in {"hello", "plugins"} /\ queue'[i] = queue'[j] => i = j
                    /\ queue'[i] = "hello" /\ queue'[j] = "plugins" => i < j
  BY DEF InTurn
<1> DEFINE new == Len(queue) + 1
<1>1. /\ \/ i \in DOMAIN queue /\ queue'[i] = queue[i]
         \/ i = new /\ queue'[i] = kind
      /\ \/ j \in DOMAIN queue /\ queue'[j] = queue[j]
         \/ j = new /\ queue'[j] = kind
  BY Pushed
<1>2. \A m \in DOMAIN queue : m < new
  BY Pushed
<1>3. \A m \in DOMAIN queue : queue[m] = kind => kind \notin Own
  BY DEF Waiting
<1>4. \A m \in DOMAIN queue : queue[m] = "plugins" => kind # "hello"
  BY DEF Waiting
<1> HIDE DEF new
<1>5. CASE /\ i \in DOMAIN queue /\ queue'[i] = queue[i]
           /\ j \in DOMAIN queue /\ queue'[j] = queue[j]
  BY <1>5 DEF InTurn
<1>6. CASE i \in DOMAIN queue /\ queue'[i] = queue[i] /\ j = new /\ queue'[j] = kind
  BY <1>6, <1>2, <1>3 DEF Own
<1>7. CASE i = new /\ queue'[i] = kind /\ j \in DOMAIN queue /\ queue'[j] = queue[j]
  BY <1>7, <1>3, <1>4 DEF Own
<1>8. CASE i = new /\ queue'[i] = kind /\ j = new /\ queue'[j] = kind
  BY <1>8
<1> QED BY <1>1, <1>5, <1>6, <1>7, <1>8

\* What others submit changes nothing in what is told.
LEMMA OthersTellNothing ==
  ASSUME LoadTypeOK, ToldOnce, NEW kind \in Kind \ Own, Submit(kind),
         done' = done, inOrder' = inOrder
  PROVE  ToldOnce'
<1>1. /\ Waiting("hello")' <=> Waiting("hello")
      /\ Waiting("plugins")' <=> Waiting("plugins")
  BY WaitsOn DEF Own
<1>2. InTurn(queue')
  <2>1. InTurn(queue)
    BY DEF ToldOnce, InTurn
  <2>2. kind \in Kind /\ kind \notin Own /\ kind # "hello"
    BY DEF Own
  <2> QED BY <2>1, <2>2, TurnKept
<1>3. \A s : Done(s)' <=> Done(s)
  BY DEF Done
<1> QED BY <1>1, <1>2, <1>3 DEF ToldOnce, InTurn

\* The two steps that submit, and how much is done before and after them.
LEMMA HelloAt ==
  ASSUME LoadTypeOK, Step("hello")
  PROVE  /\ ~Done("hello") /\ ~Done("kDataLoaded")
         /\ Done("hello")' /\ ~Done("kDataLoaded")'
<1>1. done' = done + 1 /\ done + 1 \in 1 .. 14 /\ Steps[done + 1] = "hello"
  BY StepTaken, Zenon
<1>2. \A n \in 1 .. 14 : Steps[n] = "hello" <=> n = 11
  BY StepPlaces, Zenon
<1>3. done + 1 = 11
  BY <1>1, <1>2, Zenon
<1>4. done \in 0 .. 14 /\ (Done("hello") <=> done >= 11)
                       /\ (Done("kDataLoaded") <=> done >= 14)
  BY Places, Zenon
<1>5. /\ done' \in 0 .. 14
      /\ Done("hello")' <=> done' >= 11
      /\ Done("kDataLoaded")' <=> done' >= 14
  <2>1. done' \in 0 .. Len(Steps)
    BY StepTaken, Zenon
  <2> QED BY <2>1, DonePlaces, Zenon DEF Done
<1>6. done \in 0 .. 14 /\ done' \in 0 .. 14 /\ done' = done + 1
  BY <1>1, <1>4, <1>5, Zenon
<1>7. ~(done >= 11) /\ ~(done >= 14) /\ done' >= 11 /\ ~(done' >= 14)
  BY <1>3, <1>6
<1> QED BY <1>4, <1>5, <1>7, Zenon

\* kDataLoaded is the last step, and comes after hello.
LEMMA DataLoadedAt ==
  ASSUME LoadTypeOK, Step("kDataLoaded")
  PROVE  /\ Done("hello") /\ ~Done("kDataLoaded")
         /\ Done("hello")' /\ Done("kDataLoaded")'
<1>1. done' = done + 1 /\ done + 1 \in 1 .. 14 /\ Steps[done + 1] = "kDataLoaded"
  BY StepTaken, Zenon
<1>2. \A n \in 1 .. 14 : Steps[n] = "kDataLoaded" <=> n = 14
  BY StepPlaces, Zenon
<1>3. done + 1 = 14
  BY <1>1, <1>2, Zenon
<1>4. done \in 0 .. 14 /\ (Done("hello") <=> done >= 11)
                       /\ (Done("kDataLoaded") <=> done >= 14)
  BY Places, Zenon
<1>5. /\ done' \in 0 .. 14
      /\ Done("hello")' <=> done' >= 11
      /\ Done("kDataLoaded")' <=> done' >= 14
  <2>1. done' \in 0 .. Len(Steps)
    BY StepTaken, Zenon
  <2> QED BY <2>1, DonePlaces, Zenon DEF Done
<1>6. done \in 0 .. 14 /\ done' \in 0 .. 14 /\ done' = done + 1
  BY <1>1, <1>4, <1>5, Zenon
<1>7. done >= 11 /\ ~(done >= 14)
  <2>1. done \in Int
    BY <1>6
  <2> QED BY <1>3, <2>1
<1>8. done' >= 11 /\ done' >= 14
  <2>1. done' = 14
    BY <1>3, <1>6, Zenon
  <2> QED BY <2>1
<1> QED BY <1>4, <1>5, <1>7, <1>8, Zenon

\* EmitHello, and the load order at kDataLoaded.
LEMMA HelloTold ==
  ASSUME LoadTypeOK, ToldOnce, EmitHello
  PROVE  ToldOnce'
<1>1. Step("hello") /\ Submit("hello") /\ inOrder' = inOrder
  BY DEF EmitHello
<1>2. ~Done("hello") /\ ~Done("kDataLoaded") /\ Done("hello")' /\ ~Done("kDataLoaded")'
  BY <1>1, HelloAt
<1>3. inOrder = <<>> /\ ~Waiting("hello") /\ ~Waiting("plugins")
  BY <1>2 DEF ToldOnce
<1>4. "hello" \in Kind
  BY Kinds
<1>5. Waiting("hello")' /\ ~Waiting("plugins")'
  BY <1>1, <1>3, <1>4, WaitsOn
<1>6. InTurn(queue')
  <2>1. InTurn(queue)
    BY DEF ToldOnce, InTurn
  <2> QED BY <1>1, <1>3, <1>4, <2>1, TurnKept DEF Own
<1>7. inOrder' = <<>> /\ Len(inOrder') = 0
  BY <1>1, <1>3
<1> QED BY <1>2, <1>5, <1>6, <1>7 DEF ToldOnce, InTurn

\* DataLoaded submits the load order once, after hello.
LEMMA OrderTold ==
  ASSUME LoadTypeOK, ToldOnce, DataLoaded
  PROVE  ToldOnce'
<1>1. Step("kDataLoaded") /\ inOrder' = inOrder
  BY DEF DataLoaded
<1>2. Done("hello") /\ ~Done("kDataLoaded") /\ Done("hello")' /\ Done("kDataLoaded")'
  BY <1>1, DataLoadedAt
<1>3. Len(inOrder) < 2 /\ ~Waiting("plugins")
  BY <1>2 DEF ToldOnce
<1>4. Len(inOrder) # 2
  <2>1. Len(inOrder) \in Nat
    BY DEF LoadTypeOK
  <2> QED BY <1>3, <2>1
<1>5. CASE Submit("plugins")
  <2>1. "plugins" \in Kind
    BY Kinds
  <2>2. Waiting("hello")' <=> Waiting("hello")
    BY <1>5, <2>1, WaitsOn
  <2>3. InTurn(queue')
    <3>1. InTurn(queue)
      BY DEF ToldOnce, InTurn
    <3> QED BY <1>3, <1>5, <2>1, <3>1, TurnKept
  <2> QED BY <1>1, <1>2, <1>4, <2>2, <2>3 DEF ToldOnce, InTurn
<1>6. CASE UNCHANGED queue
  BY <1>1, <1>2, <1>4, <1>6 DEF ToldOnce, Waiting
<1> QED BY <1>5, <1>6 DEF DataLoaded

\* WriterThread::Loop takes them in their order.
LEMMA TakenInTurn ==
  ASSUME LoadTypeOK, ToldOnce, WriterBroadcasts,
         inOrder \in {<<>>, <<"hello">>, <<"hello", "plugins">>}
  PROVE  ToldOnce' /\ inOrder' \in {<<>>, <<"hello">>, <<"hello", "plugins">>}
<1>1. /\ Len(queue) \in Nat \ {0} /\ DOMAIN queue = 1 .. Len(queue)
      /\ held' = queue[1] /\ DOMAIN queue' = 1 .. (Len(queue) - 1)
      /\ \A i \in DOMAIN queue' : i + 1 \in DOMAIN queue /\ queue'[i] = queue[i + 1]
  BY Popped
<1>2. \A s : Done(s)' <=> Done(s)
  BY DEF Done, WriterBroadcasts
<1>3. 1 \in DOMAIN queue
  BY <1>1
<1>4. ASSUME NEW k \in Own
      PROVE  /\ Waiting(k)' <=> Waiting(k) /\ held' # k
             /\ held' = k => Waiting(k)
  <2>1. ASSUME Waiting(k)' PROVE Waiting(k) /\ held' # k
    <3>1. PICK i \in DOMAIN queue' : queue'[i] = k
      BY <2>1 DEF Waiting
    <3>2. i + 1 \in DOMAIN queue /\ queue[i + 1] = k /\ i + 1 # 1
      BY <1>1, <3>1
    <3>3. queue[1] # k
      BY <1>3, <3>2 DEF ToldOnce, Own
    <3> QED BY <1>1, <3>2, <3>3 DEF Waiting
  <2>2. ASSUME Waiting(k), held' # k PROVE Waiting(k)'
    <3>1. PICK i \in DOMAIN queue : queue[i] = k
      BY <2>2 DEF Waiting
    <3>2. i # 1
      BY <1>1, <2>2, <3>1
    <3>3. i - 1 \in DOMAIN queue' /\ i - 1 + 1 = i
      BY <1>1, <3>1, <3>2
    <3>4. queue'[i - 1] = k
      BY <1>1, <3>1, <3>3
    <3> QED BY <3>3, <3>4 DEF Waiting
  <2>3. held' = k => Waiting(k)
    BY <1>1, <1>3 DEF Waiting
  <2> QED BY <2>1, <2>2, <2>3
<1>5. InTurn(queue')
  <2> SUFFICES
        ASSUME NEW i \in DOMAIN queue', NEW j \in DOMAIN queue'
        PROVE  /\ queue'[i] \in {"hello", "plugins"} /\ queue'[i] = queue'[j] => i = j
               /\ queue'[i] = "hello" /\ queue'[j] = "plugins" => i < j
    BY DEF InTurn
  <2>1. /\ i + 1 \in DOMAIN queue /\ queue'[i] = queue[i + 1]
        /\ j + 1 \in DOMAIN queue /\ queue'[j] = queue[j + 1]
    BY <1>1
  <2>2. i \in Int /\ j \in Int
    BY <1>1
  <2>3. /\ queue[i + 1] \in {"hello", "plugins"} /\ queue[i + 1] = queue[j + 1]
             => i + 1 = j + 1
        /\ queue[i + 1] = "hello" /\ queue[j + 1] = "plugins" => i + 1 < j + 1
    BY <2>1 DEF ToldOnce
  <2> QED BY <2>1, <2>2, <2>3
<1>6. /\ Waiting("hello")' <=> Waiting("hello") /\ held' # "hello"
      /\ held' = "hello" => Waiting("hello")
      /\ Waiting("plugins")' <=> Waiting("plugins") /\ held' # "plugins"
      /\ held' = "plugins" => Waiting("plugins")
  BY <1>4 DEF Own
<1>7. Len(<<>>) = 0 /\ Len(<<"hello">>) = 1 /\ Len(<<"hello", "plugins">>) = 2
  OBVIOUS
<1>8. CASE held' = "hello"
  <2>1. Waiting("hello") /\ inOrder = <<>>
    BY <1>6, <1>8 DEF ToldOnce
  <2>2. inOrder' = <<"hello">>
    <3>1. inOrder' = Append(inOrder, "hello")
      BY <1>8 DEF WriterBroadcasts
    <3> QED BY <2>1, <3>1
  <2>3. held' # "plugins"
    BY <1>8
  <2>4. ~Waiting("hello")' /\ (Waiting("plugins")' <=> Waiting("plugins"))
    BY <1>6, <1>8, <2>3
  <2>5. inOrder' # <<>> /\ Len(inOrder') = 1
    BY <2>2
  <2>6. Done("hello")' /\ (~Done("kDataLoaded")' => ~Waiting("plugins"))
    BY <1>2, <2>1 DEF ToldOnce
  <2>7. Len(inOrder') < 2 /\ Len(inOrder') # 2
    BY <2>5
  <2>8. ToldOnce'
    BY <1>5, <2>4, <2>5, <2>6, <2>7, Zenon DEF ToldOnce, InTurn
  <2> QED BY <2>2, <2>8
<1>9. CASE held' = "plugins"
  <2>1. Waiting("plugins") /\ Done("kDataLoaded")
    BY <1>6, <1>9 DEF ToldOnce
  <2>2. ~Waiting("hello")
    <3>1. ASSUME NEW i \in DOMAIN queue, queue[i] = "hello" PROVE FALSE
      <4>1. queue[1] = "plugins"
        BY <1>1, <1>9
      <4>2. i < 1
        BY <1>3, <3>1, <4>1 DEF ToldOnce
      <4> QED BY <1>1, <4>2
    <3> QED BY <3>1 DEF Waiting
  <2>3. Done("hello")
    <3>1. done \in 0 .. 14 /\ (Done("hello") <=> done >= 11)
                           /\ (Done("kDataLoaded") <=> done >= 14)
      BY Places, Zenon
    <3>2. done \in 0 .. 14 /\ done >= 14
      BY <2>1, <3>1, Zenon
    <3>3. done >= 11
      BY <3>2
    <3> QED BY <3>1, <3>3, Zenon
  <2>4. inOrder = <<"hello">>
    BY <1>7, <2>1, <2>2, <2>3 DEF ToldOnce
  <2>5. inOrder' = <<"hello", "plugins">>
    <3>1. inOrder' = Append(inOrder, "plugins")
      BY <1>9 DEF WriterBroadcasts
    <3>2. Append(<<"hello">>, "plugins") = <<"hello", "plugins">>
      <4> DEFINE s == Append(<<"hello">>, "plugins")
                 t == <<"hello", "plugins">>
      <4>1. s \in Seq({"hello", "plugins"}) /\ t \in Seq({"hello", "plugins"})
        OBVIOUS
      <4>2. Len(s) = 2 /\ Len(t) = 2
        OBVIOUS
      <4>3. s[1] = "hello" /\ t[1] = "hello"
        OBVIOUS
      <4>4. s[2] = "plugins" /\ t[2] = "plugins"
        OBVIOUS
      <4> HIDE DEF s, t
      <4>5. \A i \in 1 .. 2 : s[i] = t[i]
        BY <4>3, <4>4
      <4>6. s = t
        BY <4>1, <4>2, <4>5, SeqEqual
      <4> QED BY <4>6 DEF s, t
    <3> QED BY <2>4, <3>1, <3>2, Zenon
  <2>6. ~Waiting("hello")' /\ ~Waiting("plugins")'
    BY <1>6, <1>9, <2>2
  <2>7. inOrder' # <<>>
    BY <2>5
  <2> QED BY <1>2, <1>5, <2>1, <2>3, <2>5, <2>6, <2>7 DEF ToldOnce, InTurn
<1>10. CASE held' # "hello" /\ held' # "plugins"
  <2>1. inOrder' = inOrder
    BY <1>10 DEF WriterBroadcasts
  <2>2. /\ Waiting("hello")' <=> Waiting("hello")
        /\ Waiting("plugins")' <=> Waiting("plugins")
    BY <1>6, <1>10
  <2> QED BY <1>2, <1>5, <2>1, <2>2 DEF ToldOnce, InTurn
<1> QED BY <1>8, <1>9, <1>10

-----------------------------------------------------------------------------
(* The recorder and the commands.                                          *)

\* A step that was taken stays taken.
LEMMA DoneStays ==
  ASSUME LoadTypeOK, [LoadNext]_loadVars
  PROVE  /\ done' = done \/ done' = done + 1
         /\ \A s : Done(s) => Done(s)'
<1>1. done' = done \/ done' = done + 1
  BY DEF LoadNext, loadVars, Step, LoadConfig, Begin, StartRecorder, AttachRecorder,
         EmitHello, DataLoaded, Report, CommandArrives, ReplyToPing, Answered,
         SaveSession, Acknowledge, WriterBroadcasts, WriterRecords
<1>2. 1 .. done \subseteq 1 .. done'
  BY <1>1, Places
<1> QED BY <1>1, <1>2 DEF Done

\* HandleCommand: a command comes once the pipe is up, the writer is made before.
THEOREM CommandsFindWriter ==
  ASSUME LoadTypeOK, [LoadNext]_loadVars,
         \A c \in Client : command[c] # Nothing => Done("writer")
  PROVE  \A c \in Client : command'[c] # Nothing => Done("writer")'
<1> SUFFICES ASSUME NEW c \in Client, command'[c] # Nothing
             PROVE  Done("writer")'
  OBVIOUS
<1> USE DEF LoadTypeOK
<1>1. CASE command[c] # Nothing
  BY <1>1, DoneStays
<1>2. CASE \E d \in Client : CommandArrives(d)
  <2>1. Done("pipeStart") /\ done' = done
    BY <1>2 DEF CommandArrives
  <2>2. Done("writer")
    BY <2>1, Places
  <2> QED BY <2>1, <2>2 DEF Done
<1>3. CASE UNCHANGED command
  BY <1>1, <1>3
<1>4. CASE \E d \in Client, kind \in Answer : command[d] # Nothing /\ Answered(d, kind)
  <2>1. PICK d \in Client :
          command[d] # Nothing /\ command' = [command EXCEPT ![d] = Nothing]
    BY <1>4 DEF Answered
  <2>2. command[c] # Nothing
    BY <2>1
  <2> QED BY <1>1, <2>2
<1>5. CASE \E d \in Client : SaveSession(d)
  <2>1. PICK d \in Client : SaveSession(d)
    BY <1>5
  <2>2. command[d] # Nothing /\ \A e \in Client \ {d} : command'[e] = command[e]
    BY <2>1 DEF SaveSession, Nothing
  <2>3. command[c] # Nothing
    BY <2>2
  <2> QED BY <1>1, <2>3
<1>6. CASE \E d \in Client : ReplyToPing(d) \/ Acknowledge(d)
  <2>1. \E d \in Client, kind \in Answer : command[d] # Nothing /\ Answered(d, kind)
    BY <1>6 DEF ReplyToPing, Acknowledge, Answer, Nothing
  <2> QED BY <1>4, <2>1
<1>7. CASE \/ LoadConfig \/ Begin \/ StartRecorder \/ AttachRecorder \/ EmitHello
           \/ DataLoaded \/ (\E o \in Origin : Report(o)) \/ WriterBroadcasts
           \/ WriterRecords \/ UNCHANGED loadVars
  BY <1>3, <1>7
  DEF loadVars, LoadConfig, Begin, StartRecorder, AttachRecorder, EmitHello,
      DataLoaded, Report, WriterBroadcasts, WriterRecords
<1> QED BY <1>2, <1>5, <1>6, <1>7 DEF LoadNext

\* Where the recorder is opened and attached.
LEMMA OpenAt ==
  ASSUME LoadTypeOK
  PROVE  /\ Step("open") => ~Done("attach") /\ ~Done("attach")' /\ Done("open")'
         /\ Step("attach") => ~Done("attach") /\ Done("attach")'
<1>1. done \in 0 .. 14 /\ (Done("attach") <=> done >= 8) /\ (Done("open") <=> done >= 7)
  BY Places
<1>2. ASSUME Step("open")
      PROVE  ~Done("attach") /\ ~Done("attach")' /\ Done("open")'
  <2>1. done' = done + 1 /\ done' \in 0 .. Len(Steps)
        /\ done + 1 \in 1 .. 14 /\ Steps[done + 1] = "open"
    BY <1>2, StepTaken
  <2>2. done + 1 = 7
    BY <2>1, StepPlaces
  <2>3. (Done("attach")' <=> done' >= 8) /\ (Done("open")' <=> done' >= 7)
    BY <2>1, DonePlaces DEF Done
  <2> QED BY <1>1, <2>1, <2>2, <2>3
<1>3. ASSUME Step("attach") PROVE ~Done("attach") /\ Done("attach")'
  <2>1. done' = done + 1 /\ done' \in 0 .. Len(Steps)
        /\ done + 1 \in 1 .. 14 /\ Steps[done + 1] = "attach"
    BY <1>3, StepTaken
  <2>2. done + 1 = 8
    BY <2>1, StepPlaces
  <2>3. Done("attach")' <=> done' >= 8
    BY <2>1, DonePlaces DEF Done
  <2> QED BY <1>1, <2>1, <2>2, <2>3
<1> QED BY <1>2, <1>3

\* A step that is not "attach" leaves "attach" as it is.
LEMMA AttachAlone ==
  ASSUME LoadTypeOK, NEW s, Step(s), s # "attach"
  PROVE  Done("attach")' <=> Done("attach")
<1>1. done' = done + 1 /\ done' \in 0 .. Len(Steps)
      /\ done + 1 \in 1 .. 14 /\ Steps[done + 1] # "attach"
  BY StepTaken
<1>2. done + 1 # 8
  BY <1>1, StepPlaces
<1>3. done \in 0 .. 14 /\ (Done("attach") <=> done >= 8)
  BY Places
<1>4. Done("attach")' <=> done' >= 8
  BY <1>1, DonePlaces DEF Done
<1> QED BY <1>1, <1>2, <1>3, <1>4

\* The records that must not be missed come after the recorder.
LEMMA ReportsLate ==
  ASSUME LoadTypeOK, NEW o \in Origin, Done(Since[o])
  PROVE  Done("attach")
<1>1. Since[o] \in {"memory", "heartbeat", "kPostLoad", "kDataLoaded"}
  BY DEF Origin, Since
<1>2. /\ done \in 0 .. 14 /\ (Done("attach") <=> done >= 8)
      /\ (Done("memory") <=> done >= 9) /\ (Done("heartbeat") <=> done >= 12)
      /\ (Done("kPostLoad") <=> done >= 13) /\ (Done("kDataLoaded") <=> done >= 14)
  BY Places
<1> QED BY <1>1, <1>2

\* Before the recorder is attached only answers are submitted.
LEMMA OnlyAnswersWait ==
  ASSUME LoadTypeOK, AttachedInTime, NEW kind \in Kind, Submit(kind),
         kind \in Answer, ~Done("attach")
  PROVE  \A i \in DOMAIN queue' : queue'[i] \in Answer
<1>1. \A i \in DOMAIN queue : queue[i] \in Answer
  BY DEF AttachedInTime
<1> SUFFICES ASSUME NEW i \in DOMAIN queue' PROVE queue'[i] \in Answer
  OBVIOUS
<1>2. i \in DOMAIN queue \/ i = Len(queue) + 1
  BY Pushed
<1>3. CASE i \in DOMAIN queue
  BY <1>1, <1>3, Pushed
<1>4. CASE i = Len(queue) + 1
  BY <1>4, Pushed
<1> QED BY <1>2, <1>3, <1>4

\* The recorder is attached before a record comes that is not an answer.
THEOREM AttachedStep ==
  ASSUME LoadTypeOK, AttachedInTime, [LoadNext]_loadVars
  PROVE  AttachedInTime'
<1>1. /\ recorder # "shut" => Done("open")
      /\ attached <=> (recorder = "open" /\ Done("attach"))
      /\ ~Done("attach") => /\ held \in Answer \union {Nothing} /\ missed \subseteq Answer
                            /\ \A i \in DOMAIN queue : queue[i] \in Answer
  BY DEF AttachedInTime
<1>2. \A s : Done(s) => Done(s)'
  BY DoneStays
<1>3. ASSUME UNCHANGED <<recorder, attached, queue, held, missed>>,
             Done("attach")' <=> Done("attach")
      PROVE  AttachedInTime'
  BY <1>1, <1>2, <1>3 DEF AttachedInTime
<1>4. ASSUME Done("attach"), UNCHANGED <<recorder, attached>>
      PROVE  AttachedInTime'
  BY <1>1, <1>2, <1>4 DEF AttachedInTime
<1>5. CASE LoadConfig
  <2>1. Done("attach")' <=> Done("attach")
    BY <1>5, AttachAlone DEF LoadConfig
  <2> QED BY <1>3, <1>5, <2>1 DEF LoadConfig
<1>6. CASE Begin
  <2>1. Done("attach")' <=> Done("attach")
    BY <1>6, AttachAlone DEF Begin
  <2> QED BY <1>3, <1>6, <2>1 DEF Begin
<1>7. CASE StartRecorder
  <2>1. Step("open") /\ UNCHANGED <<attached, queue, held, missed>>
    BY <1>7 DEF StartRecorder
  <2>2. ~Done("attach") /\ ~Done("attach")' /\ Done("open")'
    BY <2>1, OpenAt
  <2> QED BY <1>1, <2>1, <2>2 DEF AttachedInTime
<1>8. CASE AttachRecorder
  <2>1. Step("attach") /\ attached' = (recorder = "open") /\ recorder' = recorder
    BY <1>8 DEF AttachRecorder
  <2>2. Done("attach")'
    BY <2>1, OpenAt
  <2> QED BY <1>1, <1>2, <2>1, <2>2 DEF AttachedInTime
<1>9. CASE EmitHello
  <2>1. Step("hello") /\ UNCHANGED <<recorder, attached>>
    BY <1>9 DEF EmitHello
  <2>2. Done("attach")
    <3>1. done + 1 \in 1 .. 14 /\ Steps[done + 1] = "hello"
      BY <2>1, StepTaken
    <3>2. done + 1 = 11
      BY <3>1, StepPlaces
    <3>3. done \in 0 .. 14 /\ (Done("attach") <=> done >= 8)
      BY Places
    <3> QED BY <3>2, <3>3
  <2> QED BY <1>4, <2>1, <2>2
<1>10. CASE DataLoaded
  <2>1. Step("kDataLoaded") /\ UNCHANGED <<recorder, attached>>
    BY <1>10 DEF DataLoaded
  <2>2. Done("attach")
    <3>1. done + 1 \in 1 .. 14 /\ Steps[done + 1] = "kDataLoaded"
      BY <2>1, StepTaken
    <3>2. done + 1 = 14
      BY <3>1, StepPlaces
    <3>3. done \in 0 .. 14 /\ (Done("attach") <=> done >= 8)
      BY Places
    <3> QED BY <3>2, <3>3
  <2> QED BY <1>4, <2>1, <2>2
<1>11. ASSUME NEW o \in Origin, Report(o) PROVE AttachedInTime'
  <2>1. Done("attach") /\ UNCHANGED <<recorder, attached>>
    BY <1>11, ReportsLate DEF Report
  <2> QED BY <1>4, <2>1
<1>12. ASSUME NEW c \in Client, NEW kind \in Answer, Answered(c, kind)
       PROVE  AttachedInTime'
  <2>1. Submit(kind) /\ UNCHANGED <<done, recorder, attached, held, missed>>
    BY <1>12 DEF Answered
  <2>2. CASE Done("attach")
    BY <1>4, <2>1, <2>2
  <2>3. CASE ~Done("attach")
    <3>1. \A i \in DOMAIN queue' : queue'[i] \in Answer
      BY <2>1, <2>3, OnlyAnswersWait DEF Kind
    <3>2. \A s : Done(s)' <=> Done(s)
      BY <2>1 DEF Done
    <3> QED BY <1>1, <2>1, <3>1, <3>2 DEF AttachedInTime
  <2> QED BY <2>2, <2>3
<1>13. ASSUME NEW c \in Client, ReplyToPing(c) \/ Acknowledge(c)
       PROVE  AttachedInTime'
  BY <1>12, <1>13 DEF ReplyToPing, Acknowledge, Answer
<1>14. ASSUME NEW c \in Client, CommandArrives(c) \/ SaveSession(c)
       PROVE  AttachedInTime'
  <2>1. UNCHANGED <<done, recorder, attached, queue, held, missed>>
    BY <1>14 DEF CommandArrives, SaveSession
  <2> QED BY <1>3, <2>1 DEF Done
<1>15. CASE WriterBroadcasts
  <2>1. UNCHANGED <<done, recorder, attached, missed>>
    BY <1>15 DEF WriterBroadcasts
  <2>2. CASE Done("attach")
    BY <1>4, <2>1, <2>2
  <2>3. CASE ~Done("attach")
    <3>1. 1 \in DOMAIN queue /\ held' = queue[1]
      BY <1>15, Popped
    <3>2. \A i \in DOMAIN queue' : i + 1 \in DOMAIN queue /\ queue'[i] = queue[i + 1]
      BY <1>15, Popped
    <3>3. held' \in Answer /\ \A i \in DOMAIN queue' : queue'[i] \in Answer
      BY <1>1, <2>3, <3>1, <3>2
    <3>4. \A s : Done(s)' <=> Done(s)
      BY <2>1 DEF Done
    <3> QED BY <1>1, <2>1, <2>3, <3>3, <3>4 DEF AttachedInTime
  <2> QED BY <2>2, <2>3
<1>16. CASE WriterRecords
  <2>1. /\ UNCHANGED <<done, recorder, attached, queue>>
        /\ held # Nothing /\ held' = Nothing
        /\ missed' = missed \/ missed' = missed \union {held}
    BY <1>16 DEF WriterRecords
  <2>2. CASE Done("attach")
    BY <1>4, <2>1, <2>2
  <2>3. CASE ~Done("attach")
    <3>1. held' \in Answer \union {Nothing} /\ missed' \subseteq Answer
      BY <1>1, <2>1, <2>3
    <3>2. \A s : Done(s)' <=> Done(s)
      BY <2>1 DEF Done
    <3> QED BY <1>1, <2>1, <2>3, <3>1, <3>2 DEF AttachedInTime
  <2> QED BY <2>2, <2>3
<1>17. CASE UNCHANGED loadVars
  BY <1>3, <1>17 DEF loadVars, Done
<1> QED
  BY <1>5, <1>6, <1>7, <1>8, <1>9, <1>10, <1>11, <1>13, <1>14, <1>15, <1>16, <1>17
  DEF LoadNext

\* What no recorder was attached for is an answer.
THEOREM MissedStep ==
  ASSUME LoadTypeOK, AttachedInTime, [LoadNext]_loadVars,
         recorder = "open" => missed \subseteq Answer
  PROVE  recorder' = "open" => missed' \subseteq Answer
<1>1. CASE UNCHANGED <<recorder, missed>>
  BY <1>1
<1>2. CASE StartRecorder
  <2>1. Step("open") /\ missed' = missed
    BY <1>2 DEF StartRecorder
  <2>2. ~Done("attach")
    BY <2>1, OpenAt
  <2> QED BY <2>1, <2>2 DEF AttachedInTime
<1>3. CASE WriterRecords
  <2>1. /\ recorder' = recorder /\ held # Nothing
        /\ missed' = IF attached THEN missed ELSE missed \union {held}
    BY <1>3 DEF WriterRecords
  <2>2. CASE attached
    BY <2>1, <2>2
  <2>3. CASE ~attached /\ recorder = "open"
    <3>1. held \in Answer
      BY <2>1, <2>3 DEF AttachedInTime
    <3> QED BY <2>1, <2>3, <3>1
  <2> QED BY <2>1, <2>2, <2>3
<1> QED
  BY <1>1, <1>2, <1>3
  DEF LoadNext, loadVars, LoadConfig, Begin, AttachRecorder, EmitHello, DataLoaded,
      Report, CommandArrives, ReplyToPing, Answered, SaveSession, Acknowledge,
      WriterBroadcasts

\* The hello and the load order are submitted once each and broadcast in order.
THEOREM ToldStep ==
  ASSUME LoadTypeOK, ToldOnce, [LoadNext]_loadVars,
         inOrder \in {<<>>, <<"hello">>, <<"hello", "plugins">>}
  PROVE  ToldOnce' /\ inOrder' \in {<<>>, <<"hello">>, <<"hello", "plugins">>}
<1>1. ASSUME UNCHANGED <<queue, inOrder>>,
             Done("hello")' <=> Done("hello"),
             Done("kDataLoaded")' <=> Done("kDataLoaded")
      PROVE  ToldOnce'
  BY <1>1 DEF ToldOnce, Waiting
<1>2. ASSUME NEW s, Step(s), s # "hello", s # "kDataLoaded", UNCHANGED <<queue, inOrder>>
      PROVE  ToldOnce'
  <2>1. done' = done + 1 /\ done' \in 0 .. Len(Steps)
        /\ done + 1 \in 1 .. 14 /\ Steps[done + 1] = s
    BY <1>2, StepTaken
  <2>2. done + 1 # 11 /\ done + 1 # 14
    BY <1>2, <2>1, StepPlaces
  <2>3. done \in 0 .. 14 /\ (Done("hello") <=> done >= 11)
                         /\ (Done("kDataLoaded") <=> done >= 14)
    BY Places
  <2>4. (Done("hello")' <=> done' >= 11) /\ (Done("kDataLoaded")' <=> done' >= 14)
    BY <2>1, DonePlaces DEF Done
  <2>5. (done' >= 11 <=> done >= 11) /\ (done' >= 14 <=> done >= 14)
    BY <2>1, <2>2, <2>3
  <2> QED BY <1>1, <1>2, <2>3, <2>4, <2>5
<1>3. CASE LoadConfig \/ Begin \/ StartRecorder \/ AttachRecorder
  <2>1. /\ \E s : Step(s) /\ s # "hello" /\ s # "kDataLoaded"
        /\ UNCHANGED <<queue, inOrder>>
    BY <1>3 DEF LoadConfig, Begin, StartRecorder, AttachRecorder
  <2> QED BY <1>2, <2>1
<1>4. CASE EmitHello
  BY <1>4, HelloTold DEF EmitHello
<1>5. CASE DataLoaded
  BY <1>5, OrderTold DEF DataLoaded
<1>6. ASSUME NEW o \in Origin, Report(o) PROVE ToldOnce' /\ inOrder' = inOrder
  <2>1. o \in Kind \ Own
    BY DEF Origin, Since, Kind, Own
  <2>2. Submit(o) /\ done' = done /\ inOrder' = inOrder
    BY <1>6 DEF Report
  <2> QED BY <2>1, <2>2, OthersTellNothing
<1>7. ASSUME NEW c \in Client, NEW kind \in Answer, Answered(c, kind)
      PROVE  ToldOnce' /\ inOrder' = inOrder
  <2>1. kind \in Kind \ Own
    BY DEF Answer, Kind, Own
  <2>2. Submit(kind) /\ done' = done /\ inOrder' = inOrder
    BY <1>7 DEF Answered
  <2> QED BY <2>1, <2>2, OthersTellNothing
<1>8. ASSUME NEW c \in Client, ReplyToPing(c) \/ Acknowledge(c)
      PROVE  ToldOnce' /\ inOrder' = inOrder
  BY <1>7, <1>8 DEF ReplyToPing, Acknowledge, Answer
<1>9. CASE \/ \E c \in Client : CommandArrives(c) \/ SaveSession(c)
           \/ WriterRecords \/ UNCHANGED loadVars
  <2>1. UNCHANGED <<done, queue, inOrder>>
    BY <1>9 DEF CommandArrives, SaveSession, WriterRecords, loadVars
  <2> QED BY <1>1, <2>1 DEF Done
<1>10. CASE WriterBroadcasts
  BY <1>10, TakenInTurn
<1>11. CASE LoadConfig \/ Begin \/ StartRecorder \/ AttachRecorder \/ EmitHello
            \/ DataLoaded
  <2>1. inOrder' = inOrder
    BY <1>11 DEF LoadConfig, Begin, StartRecorder, AttachRecorder, EmitHello, DataLoaded
  <2> QED BY <1>3, <1>4, <1>5, <1>11, <2>1
<1> QED BY <1>6, <1>8, <1>9, <1>10, <1>11 DEF LoadNext

-----------------------------------------------------------------------------
\* The invariant of the load, of every state.
LEMMA LoadInvariant == LoadSpec => []LoadInv
<1>1. LoadInit => LoadInv
  BY LoadInvInit
<1>2. LoadInv /\ [LoadNext]_loadVars => LoadInv'
  <2> SUFFICES ASSUME LoadInv, [LoadNext]_loadVars PROVE LoadInv'
    OBVIOUS
  <2>1. LoadTypeOK /\ NoneTooEarly /\ AttachedInTime /\ ToldOnce
    BY DEF LoadInv
  <2>2. LoadTypeOK'
    BY <2>1, LoadTypeStep
  <2>3. AttachedInTime'
    BY <2>1, AttachedStep
  <2>4. ToldOnce' /\ inOrder' \in {<<>>, <<"hello">>, <<"hello", "plugins">>}
    BY <2>1, ToldStep DEF NoneTooEarly
  <2>5. recorder' = "open" => missed' \subseteq Answer
    BY <2>1, MissedStep DEF NoneTooEarly
  <2>6. \A c \in Client : command'[c] # Nothing => Done("writer")'
    BY <2>1, CommandsFindWriter DEF NoneTooEarly
  <2>7. NoneTooEarly'
    BY <2>4, <2>5, <2>6 DEF NoneTooEarly
  <2> QED BY <2>2, <2>3, <2>4, <2>7 DEF LoadInv
<1> QED BY <1>1, <1>2, PTL DEF LoadSpec

(* SKSEPluginLoad, as the program: whatever the threads it starts do while *)
(* it runs, a command finds a writer, a recorder whose file opens misses   *)
(* answers only, and the hello is told before the load order.              *)
THEOREM NothingTooEarly == LoadSpec => []NoneTooEarly
<1>1. LoadInv => NoneTooEarly
  BY DEF LoadInv
<1> QED BY <1>1, LoadInvariant, PTL

\* The load takes no step twice, and its threads and queues keep their types.
THEOREM LoadTyped == LoadSpec => []LoadTypeOK
<1>1. LoadInv => LoadTypeOK
  BY DEF LoadInv
<1> QED BY <1>1, LoadInvariant, PTL

-----------------------------------------------------------------------------
(***************************************************************************)
(* The hooks.  A call passes the thunks of the hooks at its site, from the *)
(* last that was installed there to the first: each has the one before it  *)
(* for its _original, and the first has the callee.                        *)
(***************************************************************************)
\* A set of numbers has a least one.
LEMMA LeastIn ==
  ASSUME NEW S \in SUBSET Nat, S # {}
  PROVE  Min(S) \in S /\ \A y \in S : Min(S) <= y
<1>1. \E x \in S : \A y \in S : <<y, x>> \notin OpToRel(<, Nat)
  BY NatLessThanWellFounded, WFMin
<1>2. PICK x \in S : \A y \in S : ~(y < x)
  BY <1>1 DEF OpToRel
<1>3. \A y \in S : x <= y
  BY <1>2
<1> QED BY <1>2, <1>3 DEF Min

\* The places in the order.
Index == DOMAIN Order

\* The thunk of this hook is called: it is installed, or about to be.
Linked(i) == installed[Order[i]] \/ (patched /\ i = turn)
At(s)     == {i \in Index : Linked(i) /\ place[Order[i]] = s}

\* x is the last of these hooks, or the callee where there is none.
IsLastOf(x, S) == \/ S = {} /\ x = Callee
                  \/ \E i \in S : x = Order[i] /\ \A j \in S : j <= i

\* What the thunk of hook i calls, after those of the site.
LinksOn(x, i) == IF code[place[Order[i]]] = "call"
                 THEN IsLastOf(x, {j \in At(place[Order[i]]) : j < i})
                 ELSE x = Wild

ChainInv ==
  /\ \A i \in Index : installed[Order[i]] => i < turn
  /\ patched => turn <= Len(Order)
  /\ \A i \in Index : Linked(i) =>
       IdExists(Order[i]) /\ (Order[i] \in Checked => code[place[Order[i]]] = "call")
  /\ \A s \in Site : IsLastOf(target[s], At(s))
  /\ \A i \in Index : installed[Order[i]] => LinksOn(original[Order[i]], i)
  /\ patched => LinksOn(handed, turn)

MaskInv ==
  /\ \A h \in Counted \ Checked : mask[h] = installed[h]
  /\ merged => \A i \in Index : Order[i] \in Checked =>
       i < turn /\ mask[Order[i]] = installed[Order[i]]
  /\ ~merged => \A h \in Checked : ~mask[h]

HookInv ==
  /\ HookTypeOK /\ ChainInv /\ MaskInv
  /\ dead => \E h \in Hook \ Checked : ~IdExists(h)

\* The hooks and their places in the order.
LEMMA OrderIndex ==
  /\ Len(Order) \in Nat /\ Index = 1 .. Len(Order)
  /\ \A i \in Index : Order[i] \in Hook
  /\ \A h \in Hook : \E i \in Index : h = Order[i]
  /\ \A i, j \in Index : Order[i] = Order[j] => i = j
  /\ Callee \notin Hook /\ Wild \notin Hook /\ Callee # Wild
  /\ Checked \subseteq Counted /\ Counted \subseteq Hook /\ NoSite \notin Site
<1>1. Order \in Seq(Hook) /\ IsInjective(Order)
  BY HookAssumption DEF HookAssumption, Hook
<1>2. Len(Order) \in Nat /\ Index = 1 .. Len(Order) /\ \A i \in Index : Order[i] \in Hook
  BY <1>1 DEF Index
<1>3. \A h \in Hook : \E i \in Index : h = Order[i]
  BY DEF Hook, ToSet, Index
<1>4. \A i, j \in Index : Order[i] = Order[j] => i = j
  BY <1>1 DEF IsInjective, Index
<1>5. Callee # Wild
  BY DEF Callee, Wild
<1> QED BY <1>2, <1>3, <1>4, <1>5, HookAssumption DEF HookAssumption

\* No hook is installed at first.
LEMMA HookInvInit == HookInit => HookInv
<1> SUFFICES ASSUME HookInit PROVE HookInv
  OBVIOUS
<1>1. /\ \A h \in Hook : installed[h] = FALSE
      /\ \A h \in Counted : mask[h] = FALSE
      /\ patched = FALSE /\ merged = FALSE /\ dead = FALSE /\ turn = 1
      /\ \A s \in Site : target[s] = Callee
  BY DEF HookInit
<1>2. HookTypeOK
  <2>1. turn \in 1 .. Len(Order) + 1
    BY <1>1, OrderIndex
  <2>2. /\ target \in [Site -> Hook \union {Callee}]
        /\ handed \in Hook \union {Callee, Wild}
        /\ original \in [Hook -> Hook \union {Callee, Wild}]
    BY DEF HookInit
  <2>3. /\ place \in [Hook -> Site \union {NoSite}]
        /\ code \in [Site -> {"absent", "entry", "call"}]
        /\ installed \in [Hook -> BOOLEAN] /\ mask \in [Counted -> BOOLEAN]
    BY DEF HookInit
  <2> QED BY <1>1, <2>1, <2>2, <2>3 DEF HookTypeOK
<1>3. \A i \in Index : ~Linked(i) /\ ~installed[Order[i]]
  BY <1>1, OrderIndex DEF Linked
<1>4. \A s \in Site : IsLastOf(target[s], At(s))
  BY <1>1, <1>3 DEF IsLastOf, At
<1>5. ChainInv
  BY <1>1, <1>3, <1>4 DEF ChainInv
<1>6. MaskInv
  BY <1>1, OrderIndex DEF MaskInv
<1> QED BY <1>1, <1>2, <1>5, <1>6 DEF HookInv

\* While none is being installed, the hooks at a site have had their turn.
LEMMA LinkedBefore ==
  ASSUME HookInv, ~patched
  PROVE  /\ \A i \in Index : Linked(i) <=> installed[Order[i]]
         /\ \A s : \A i \in At(s) : i < turn
BY DEF HookInv, ChainInv, Linked, At

\* A failed hook, or the end of the process, leaves the chains as they are.
LEMMA FailStep ==
  ASSUME HookInv, ~patched, turn <= Len(Order), turn' = turn + 1,
         UNCHANGED <<place, code, patched, merged, dead, target, handed, original,
                     installed, mask>>
  PROVE  HookInv'
<1>1. HookTypeOK'
  BY OrderIndex DEF HookInv, HookTypeOK
<1>2. turn \in Nat
  BY DEF HookInv, HookTypeOK
<1>3. /\ \A i \in Index : Linked(i)' = Linked(i)
      /\ \A s : At(s)' = At(s)
      /\ \A x, i : LinksOn(x, i)' = LinksOn(x, i)
  BY DEF Linked, At, LinksOn
<1>4. \A i \in Index : IdExists(Order[i])' = IdExists(Order[i])
  BY DEF IdExists
<1>5. \A i \in Index : i < turn => i < turn'
  BY <1>2, OrderIndex
<1>6. ChainInv'
  BY <1>3, <1>4, <1>5 DEF HookInv, ChainInv
<1>7. MaskInv'
  BY <1>5 DEF HookInv, MaskInv
<1> QED BY <1>1, <1>6, <1>7 DEF HookInv, IdExists

\* A hook whose site passes its gates becomes the last of the chain there.
LEMMA WriteStep ==
  ASSUME HookInv, ~patched, turn <= Len(Order), WriteCall(Order[turn]),
         IdExists(Order[turn]),
         Order[turn] \in Checked => code[place[Order[turn]]] = "call"
  PROVE  HookInv'
<1>a. PICK h : h = Order[turn]
  OBVIOUS
<1>b. PICK s : s = place[h]
  OBVIOUS
<1>1. /\ target' = [target EXCEPT ![s] = h]
      /\ handed' = IF code[s] = "call" THEN target[s] ELSE Wild
      /\ patched' = TRUE
      /\ UNCHANGED <<place, code, turn, merged, dead, original, installed, mask>>
  BY <1>a, <1>b DEF WriteCall
<1>2. /\ turn \in Index /\ h \in Hook /\ s \in Site
      /\ place \in [Hook -> Site \union {NoSite}]
      /\ target \in [Site -> Hook \union {Callee}]
  BY <1>a, <1>b, OrderIndex DEF HookInv, HookTypeOK, IdExists
<1>3. /\ \A i \in Index : Linked(i) <=> installed[Order[i]]
      /\ \A i \in Index : installed[Order[i]] => i < turn
      /\ \A r : \A i \in At(r) : i < turn /\ i \in Index
  BY LinkedBefore DEF HookInv, ChainInv, At
<1>4. \A i \in Index : Linked(i)' <=> Linked(i) \/ i = turn
  BY <1>1, <1>3 DEF Linked
<1>5. ASSUME NEW r
      PROVE  \A i : i \in At(r)' <=> i \in At(r) \/ (i = turn /\ r = s)
  BY <1>a, <1>b, <1>1, <1>2, <1>4 DEF At
<1>6. At(s)' = At(s) \union {turn} /\ \A r : r # s => At(r)' = At(r)
  <2>1. ASSUME NEW r, r # s PROVE At(r)' = At(r)
    <3>1. \A i : i \in At(r)' <=> i \in At(r)
      BY <1>5, <2>1
    <3> QED BY <3>1, Zenon DEF At
  <2>2. \A i : i \in At(s)' <=> i \in At(s) \/ i = turn
    BY <1>5
  <2>3. At(s)' = At(s) \union {turn}
    BY <2>2
  <2> QED BY <2>1, <2>3
<1>7. ASSUME NEW r, NEW i \in Index, i <= turn
      PROVE  {j \in At(r)' : j < i} = {j \in At(r) : j < i}
  <2>1. \A j : j \in At(r)' <=> j \in At(r) \/ (j = turn /\ r = s)
    BY <1>5
  <2>2. ~(turn < i)
    BY <1>2, <1>7, OrderIndex
  <2> QED BY <2>1, <2>2
<1>8. {j \in At(s) : j < turn} = At(s)
  BY <1>3
<1>9. HookTypeOK'
  <2>1. target' \in [Site -> Hook \union {Callee}]
    BY <1>1, <1>2
  <2>2. handed' \in Hook \union {Callee, Wild}
    BY <1>1, <1>2
  <2> QED BY <1>1, <2>1, <2>2 DEF HookInv, HookTypeOK
<1>10. \A r \in Site : IsLastOf(target'[r], At(r)')
  <2> TAKE r \in Site
  <2>1. CASE r = s
    <3>1. target'[r] = Order[turn] /\ turn \in At(r)'
      <4>1. target'[s] = h
        BY <1>1, <1>2
      <4> QED BY <1>a, <1>6, <2>1, <4>1
    <3>2. \A j \in At(r)' : j <= turn
      <4>1. \A j \in At(s) : j < turn /\ j \in Int
        BY <1>3, OrderIndex
      <4>2. turn \in Int
        BY <1>2, OrderIndex
      <4>3. \A j \in At(s)' : j \in At(s) \/ j = turn
        BY <1>6
      <4> QED BY <2>1, <4>1, <4>2, <4>3
    <3> QED BY <3>1, <3>2 DEF IsLastOf
  <2>2. CASE r # s
    <3>1. target'[r] = target[r] /\ At(r)' = At(r)
      BY <1>1, <1>2, <1>6, <2>2
    <3>2. IsLastOf(target[r], At(r))
      BY DEF HookInv, ChainInv
    <3> QED BY <3>1, <3>2
  <2> QED BY <2>1, <2>2
<1>11. \A i \in Index : installed'[Order[i]] => LinksOn(original[Order[i]], i)'
  <2> SUFFICES ASSUME NEW i \in Index, installed[Order[i]]
               PROVE  LinksOn(original[Order[i]], i)'
    BY <1>1
  <2>1. LinksOn(original[Order[i]], i) /\ i < turn
    BY <1>3 DEF HookInv, ChainInv
  <2>r. PICK r : r = place[Order[i]]
    OBVIOUS
  <2>2. i <= turn
    BY <1>2, <2>1, OrderIndex
  <2>3. {j \in At(r)' : j < i} = {j \in At(r) : j < i}
    BY <1>7, <2>2
  <2>4. place'[Order[i]] = r /\ At(place[Order[i]]) = At(r)
    BY <1>1, <2>r
  <2> QED BY <1>1, <2>r, <2>1, <2>3, <2>4 DEF LinksOn
<1>12. LinksOn(handed, turn)'
  <2>1. IsLastOf(target[s], At(s))
    BY <1>2 DEF HookInv, ChainInv
  <2>2. {j \in At(s)' : j < turn} = At(s)
    <3>1. turn <= turn
      BY <1>2, OrderIndex
    <3>2. {j \in At(s)' : j < turn} = {j \in At(s) : j < turn}
      BY <1>2, <1>7, <3>1
    <3> QED BY <1>8, <3>2
  <2> QED BY <1>a, <1>b, <1>1, <2>1, <2>2 DEF LinksOn
<1>13. \A i \in Index : Linked(i)' =>
         IdExists(Order[i])' /\ (Order[i] \in Checked => code'[place'[Order[i]]] = "call")
  <2> SUFFICES ASSUME NEW i \in Index, Linked(i) \/ i = turn
               PROVE  IdExists(Order[i]) /\ (Order[i] \in Checked => code[place[Order[i]]] = "call")
    BY <1>1, <1>4 DEF IdExists
  <2> QED BY DEF HookInv, ChainInv
<1>14. ChainInv'
  BY <1>1, <1>3, <1>10, <1>11, <1>12, <1>13 DEF ChainInv
<1>15. MaskInv'
  BY <1>1 DEF HookInv, MaskInv
<1> QED BY <1>1, <1>9, <1>14, <1>15 DEF HookInv, IdExists

\* The assignment of _original keeps the hook in the chain it has joined.
LEMMA AssignStep ==
  ASSUME HookInv, patched, Assign(Order[turn]),
         IF Order[turn] \in Counted \ Checked
         THEN mask' = [mask EXCEPT ![Order[turn]] = TRUE]
         ELSE mask' = mask
  PROVE  HookInv'
<1> DEFINE h == Order[turn]
<1>1. /\ original' = [original EXCEPT ![h] = handed]
      /\ installed' = [installed EXCEPT ![h] = TRUE]
      /\ patched' = FALSE /\ handed' = Wild /\ turn' = turn + 1
      /\ UNCHANGED <<place, code, merged, dead, target>>
  BY DEF Assign
<1>2. /\ turn <= Len(Order) /\ turn \in Index /\ h \in Hook /\ turn \in Nat
      /\ installed \in [Hook -> BOOLEAN] /\ mask \in [Counted -> BOOLEAN]
      /\ original \in [Hook -> Hook \union {Callee, Wild}]
  BY OrderIndex DEF HookInv, HookTypeOK, ChainInv
<1>3. \A i \in Index : Order[i] = h <=> i = turn
  BY <1>2, OrderIndex
<1> HIDE DEF h
<1>4. \A i \in Index : installed'[Order[i]] <=> (installed[Order[i]] \/ i = turn)
  BY <1>1, <1>2, <1>3, OrderIndex
<1>5. /\ \A i \in Index : Linked(i)' <=> Linked(i)
      /\ \A r : At(r)' = At(r)
  <2>1. \A i \in Index : Linked(i)' <=> Linked(i)
    BY <1>1, <1>4 DEF Linked
  <2> QED BY <1>1, <2>1 DEF At
<1>6. HookTypeOK'
  <2>1. handed \in Hook \union {Callee, Wild}
    BY DEF HookInv, HookTypeOK
  <2>2. original' \in [Hook -> Hook \union {Callee, Wild}] /\ installed' \in [Hook -> BOOLEAN]
    BY <1>1, <1>2, <2>1
  <2>3. mask' \in [Counted -> BOOLEAN]
    BY <1>2
  <2>4. turn' \in 1 .. Len(Order) + 1
    BY <1>1, <1>2, OrderIndex
  <2> QED BY <1>1, <2>2, <2>3, <2>4 DEF HookInv, HookTypeOK
<1>7. \A i \in Index : installed'[Order[i]] => i < turn'
  BY <1>1, <1>2, <1>4, OrderIndex DEF HookInv, ChainInv
<1>8. \A i \in Index : installed'[Order[i]] => LinksOn(original[Order[i]], i)'
  <2> SUFFICES ASSUME NEW i \in Index, installed'[Order[i]]
               PROVE  LinksOn(original[Order[i]], i)'
    OBVIOUS
  <2>1. LinksOn(original'[Order[i]], i)
    <3>1. CASE i = turn
      <4>1. original'[Order[i]] = handed
        BY <1>1, <1>2, <3>1 DEF h
      <4> QED BY <3>1, <4>1 DEF HookInv, ChainInv
    <3>2. CASE i # turn
      <4>1. original'[Order[i]] = original[Order[i]] /\ installed[Order[i]]
        BY <1>1, <1>2, <1>3, <1>4, <3>2, OrderIndex
      <4> QED BY <4>1 DEF HookInv, ChainInv
    <3> QED BY <3>1, <3>2
  <2> QED BY <1>1, <1>5, <2>1 DEF LinksOn
<1>9. \A i \in Index : Linked(i)' =>
        IdExists(Order[i])' /\ (Order[i] \in Checked => code'[place'[Order[i]]] = "call")
  BY <1>1, <1>5 DEF HookInv, ChainInv, IdExists
<1>10. \A s \in Site : IsLastOf(target'[s], At(s)')
  BY <1>1, <1>5 DEF HookInv, ChainInv
<1>11. ChainInv'
  BY <1>1, <1>7, <1>8, <1>9, <1>10 DEF ChainInv
<1>12. MaskInv'
  <2>1. \A g \in Counted \ Checked : mask'[g] = installed'[g]
    <3> TAKE g \in Counted \ Checked
    <3>1. g \in Hook /\ mask[g] = installed[g]
      BY OrderIndex DEF HookInv, MaskInv
    <3>2. CASE g = h
      BY <1>1, <1>2, <3>1, <3>2 DEF h
    <3>3. CASE g # h
      <4>1. installed'[g] = installed[g]
        BY <1>1, <1>2, <3>1, <3>3
      <4>2. mask'[g] = mask[g]
        BY <1>2, <3>3 DEF h
      <4> QED BY <3>1, <4>1, <4>2
    <3> QED BY <3>2, <3>3
  <2>2. merged' => \A i \in Index : Order[i] \in Checked =>
          i < turn' /\ mask'[Order[i]] = installed'[Order[i]]
    <3> SUFFICES ASSUME merged, NEW i \in Index, Order[i] \in Checked
                 PROVE  i < turn' /\ mask'[Order[i]] = installed'[Order[i]]
      BY <1>1
    <3>1. i < turn /\ mask[Order[i]] = installed[Order[i]]
      BY DEF HookInv, MaskInv
    <3>2. i # turn /\ i < turn'
      BY <1>1, <1>2, <3>1, OrderIndex
    <3>3. Order[i] # h
      BY <1>3, <3>2
    <3>4. installed'[Order[i]] = installed[Order[i]] /\ mask'[Order[i]] = mask[Order[i]]
      BY <1>1, <1>2, <3>3, OrderIndex DEF h
    <3> QED BY <3>1, <3>2, <3>4
  <2>3. ~merged' => \A g \in Checked : ~mask'[g]
    BY <1>1, <1>2, OrderIndex DEF HookInv, MaskInv, h
  <2> QED BY <2>1, <2>2, <2>3 DEF MaskInv
<1> QED BY <1>1, <1>6, <1>11, <1>12 DEF HookInv, IdExists

\* The end of InstallAll sets the bits of the checked hooks, whose turns are over.
LEMMA MergeStep ==
  ASSUME HookInv, InstallAllEnds
  PROVE  HookInv'
<1>1. /\ ~merged /\ ~patched /\ merged' = TRUE
      /\ \A i \in Index : Order[i] \in Checked => i < turn
      /\ mask' = [h \in Counted |-> IF h \in Checked THEN installed[h] ELSE mask[h]]
      /\ UNCHANGED <<place, code, turn, patched, dead, target, handed, original, installed>>
  BY DEF InstallAllEnds, MaskMerged, Index
<1>2. \A h \in Counted : installed[h] \in BOOLEAN /\ mask[h] \in BOOLEAN
  BY OrderIndex DEF HookInv, HookTypeOK
<1>3. mask' \in [Counted -> BOOLEAN]
  BY <1>1, <1>2
<1>4. HookTypeOK'
  BY <1>1, <1>3 DEF HookInv, HookTypeOK
<1>5. /\ \A i \in Index : Linked(i)' = Linked(i)
      /\ \A s : At(s)' = At(s)
      /\ \A x, i : LinksOn(x, i)' = LinksOn(x, i)
  BY <1>1 DEF Linked, At, LinksOn
<1>6. \A h : IdExists(h)' = IdExists(h)
  BY <1>1 DEF IdExists
<1>7. ChainInv'
  BY <1>1, <1>5, <1>6 DEF HookInv, ChainInv
<1>8. MaskInv'
  BY <1>1, OrderIndex DEF HookInv, MaskInv
<1> QED BY <1>1, <1>4, <1>6, <1>7, <1>8 DEF HookInv

\* Every step.
LEMMA HookInvStep ==
  ASSUME HookInv, [HookNext]_installVars
  PROVE  HookInv'
<1>1. ASSUME NEW h, Begins(h)
      PROVE  ~patched /\ turn <= Len(Order) /\ h = Order[turn]
  BY <1>1 DEF Begins
<1>2. ASSUME NEW h \in Hook, CheckedFails(h) \/ OtherFails(h)
      PROVE  HookInv'
  <2>1. Begins(h) /\ TurnFails(h)
    BY <1>2 DEF CheckedFails, OtherFails
  <2> QED BY <1>1, <2>1, FailStep DEF TurnFails
<1>3. ASSUME NEW h \in Hook, ReportAndFail(h)
      PROVE  HookInv'
  <2>1. /\ h \notin Checked /\ ~IdExists(h) /\ dead' = TRUE
        /\ UNCHANGED <<place, code, turn, patched, merged, target, handed, original,
                       installed, mask>>
    BY <1>3 DEF ReportAndFail
  <2>2. HookTypeOK'
    BY <2>1 DEF HookInv, HookTypeOK
  <2>3. /\ \A i \in Index : Linked(i)' = Linked(i)
        /\ \A s : At(s)' = At(s)
        /\ \A x, i : LinksOn(x, i)' = LinksOn(x, i)
        /\ \A g : IdExists(g)' = IdExists(g)
    BY <2>1 DEF Linked, At, LinksOn, IdExists
  <2>4. ChainInv' /\ MaskInv'
    BY <2>1, <2>3 DEF HookInv, ChainInv, MaskInv
  <2> QED BY <2>1, <2>2, <2>3, <2>4 DEF HookInv
<1>4. ASSUME NEW h \in Hook, PatchChecked(h)
      PROVE  HookInv'
  <2>1. Begins(h) /\ Gates(h) /\ WriteCall(h)
    BY <1>4 DEF PatchChecked
  <2> QED BY <1>1, <2>1, WriteStep DEF Gates
<1>5. ASSUME NEW h \in Hook, PatchOther(h)
      PROVE  HookInv'
  <2>1. h \notin Checked /\ Begins(h) /\ IdExists(h) /\ WriteCall(h)
    BY <1>5 DEF PatchOther
  <2> QED BY <1>1, <2>1, WriteStep
<1>6. ASSUME NEW h \in Hook, Assigned(h) \/ AssignedWithBit(h)
      PROVE  HookInv'
  <2>1. /\ Assign(h) /\ h = Order[turn] /\ patched
        /\ IF h \in Counted \ Checked THEN mask' = [mask EXCEPT ![h] = TRUE] ELSE mask' = mask
    BY <1>6 DEF Assigned, AssignedWithBit, Assign
  <2> QED BY <2>1, AssignStep
<1>7. CASE InstallAllEnds
  BY <1>7, MergeStep
<1>8. CASE UNCHANGED installVars
  <2>1. UNCHANGED <<place, code, turn, patched, merged, dead, target, handed, original,
                    installed, mask>>
    BY <1>8 DEF installVars
  <2>2. HookTypeOK'
    BY <2>1 DEF HookInv, HookTypeOK
  <2>3. /\ \A i \in Index : Linked(i)' = Linked(i)
        /\ \A s : At(s)' = At(s)
        /\ \A x, i : LinksOn(x, i)' = LinksOn(x, i)
        /\ \A g : IdExists(g)' = IdExists(g)
    BY <2>1 DEF Linked, At, LinksOn, IdExists
  <2>4. ChainInv' /\ MaskInv'
    BY <2>1, <2>3 DEF HookInv, ChainInv, MaskInv
  <2> QED BY <2>1, <2>2, <2>3, <2>4 DEF HookInv
<1> QED BY <1>2, <1>3, <1>4, <1>5, <1>6, <1>7, <1>8 DEF HookNext

-----------------------------------------------------------------------------
(* The thunks a call passes.                                               *)

\* g goes from a where O leads, as long as it is in H.
Hops(g, N, a, O, H) ==
  g = [n \in 0 .. N |-> IF n = 0 THEN a ELSE IF g[n - 1] \in H THEN O[g[n - 1]] ELSE g[n - 1]]

\* The recursion of Through has a solution. One that reaches m can be extended to m + 1.
LEMMA PathExists ==
  ASSUME NEW N \in Nat, NEW a, NEW O, NEW H
  PROVE  \E g : Hops(g, N, a, O, H)
<1> DEFINE Solves(g, m) == Hops(g, m, a, O, H)
           S == {m \in Nat : ~ \E g : Solves(g, m)}
<1>1. ASSUME S # {} PROVE FALSE
  <2> DEFINE m == Min(S)
  <2>1. m \in S /\ \A y \in S : m <= y
    BY <1>1, LeastIn
  <2> HIDE DEF m
  <2>2. m \in Nat /\ ~ \E g : Solves(g, m)
    BY <2>1
  <2>3. CASE m = 0
    <3> DEFINE g == [n \in 0 .. 0 |-> a]
    <3>1. Solves(g, 0)
      BY DEF Hops
    <3> QED BY <2>2, <2>3, <3>1
  <2>4. CASE m # 0
    <3>1. m - 1 \in Nat /\ ~(m <= m - 1)
      BY <2>2, <2>4
    <3>2. m - 1 \notin S
      BY <2>1, <3>1
    <3>3. PICK f : Solves(f, m - 1)
      BY <3>1, <3>2
    <3> DEFINE e == IF f[m - 1] \in H THEN O[f[m - 1]] ELSE f[m - 1]
               g == [n \in 0 .. m |-> IF n = m THEN e ELSE f[n]]
    <3>4. \A n \in 0 .. m - 1 : f[n] =
            IF n = 0 THEN a ELSE IF f[n - 1] \in H THEN O[f[n - 1]] ELSE f[n - 1]
      BY <3>3 DEF Hops
    <3>5. \A n \in 0 .. m - 1 : g[n] = f[n]
      BY <2>2
    <3>6. g[m] = e
      BY <2>2
    <3>7. g = [n \in 0 .. m |-> g[n]]
      OBVIOUS
    <3> HIDE DEF g
    <3>8. \A n \in 0 .. m : g[n] =
            IF n = 0 THEN a ELSE IF g[n - 1] \in H THEN O[g[n - 1]] ELSE g[n - 1]
      <4> TAKE n \in 0 .. m
      <4>1. CASE n = m
        <5>1. g[n - 1] = f[m - 1] /\ n # 0
          BY <2>2, <2>4, <3>1, <3>5, <4>1
        <5> QED BY <3>6, <4>1, <5>1
      <4>2. CASE n # m
        <5>1. n \in 0 .. m - 1 /\ (n # 0 => n - 1 \in 0 .. m - 1)
          BY <2>2, <4>2
        <5> QED BY <3>4, <3>5, <5>1
      <4> QED BY <4>1, <4>2
    <3>9. Solves(g, m)
      BY <3>7, <3>8 DEF Hops
    <3> QED BY <2>2, <3>9
  <2> QED BY <2>3, <2>4
<1>2. \E g : Solves(g, N)
  BY <1>1
<1> QED BY <1>2

\* There are as many hooks as places in the order.
LEMMA HooksCounted == Cardinality(Hook) = Len(Order)
<1>1. Order \in [1 .. Len(Order) -> Hook] /\ Len(Order) \in Nat
  BY HookAssumption DEF HookAssumption, Hook
<1>2. Order \in Bijection(1 .. Len(Order), Hook)
  BY <1>1, OrderIndex DEF Bijection, Injection, Surjection, IsInjective, Index
<1> QED BY <1>1, <1>2, FS_CountingElements DEF ExistsBijection

\* The first thunk is what the site calls, and the next one the _original of the last.
LEMMA ThroughHops ==
  ASSUME NEW s
  PROVE  /\ Through(s)[0] = target[s]
         /\ \A n \in 1 .. Len(Order) :
              Through(s)[n] = IF Through(s)[n - 1] \in Hook THEN original[Through(s)[n - 1]]
                              ELSE Through(s)[n - 1]
<1> DEFINE Solves(g) == Hops(g, Cardinality(Hook), target[s], original, Hook)
<1>1. Cardinality(Hook) \in Nat /\ Cardinality(Hook) = Len(Order)
  BY HooksCounted, OrderIndex
<1>2. \E g : Solves(g)
  BY <1>1, PathExists
<1>3. Through(s) = CHOOSE g : Solves(g)
  BY DEF Through, Hops
<1>4. Solves(Through(s))
  <2> HIDE DEF Solves
  <2> QED BY <1>2, <1>3
<1> QED BY <1>1, <1>4 DEF Hops

\* Every thunk on the way is that of a hook installed there.
LEMMA PassesInstalled ==
  ASSUME HookInv, ~patched, NEW s \in Site
  PROVE  \A n \in 0 .. Len(Order) :
           \/ Through(s)[n] \in {Callee, Wild}
           \/ \E i \in At(s) : Through(s)[n] = Order[i] /\ installed[Order[i]]
<1> DEFINE T == Through(s)
           Good(n) == \/ T[n] \in {Callee, Wild}
                      \/ \E i \in At(s) : T[n] = Order[i] /\ installed[Order[i]]
           S == {n \in 0 .. Len(Order) : ~Good(n)}
<1>1. /\ T[0] = target[s] /\ Len(Order) \in Nat
      /\ \A n \in 1 .. Len(Order) :
           T[n] = IF T[n - 1] \in Hook THEN original[T[n - 1]] ELSE T[n - 1]
  BY ThroughHops, OrderIndex
<1>2. \A i \in At(s) : i \in Index /\ installed[Order[i]] /\ place[Order[i]] = s /\ Order[i] \in Hook
  BY LinkedBefore, OrderIndex DEF At
<1> HIDE DEF T
<1>3. ASSUME S # {} PROVE FALSE
  <2> DEFINE n == Min(S)
  <2>0. S \in SUBSET Nat
    BY <1>1
  <2>1. n \in S /\ \A y \in S : n <= y
    BY <1>3, <2>0, LeastIn
  <2> HIDE DEF n
  <2>2. n \in 0 .. Len(Order) /\ ~Good(n)
    BY <2>1
  <2>3. CASE n = 0
    <3>1. IsLastOf(T[0], At(s))
      BY <1>1 DEF HookInv, ChainInv
    <3> QED BY <1>2, <2>2, <2>3, <3>1 DEF IsLastOf
  <2>4. CASE n # 0
    <3>1. n - 1 \in 0 .. Len(Order) /\ ~(n <= n - 1) /\ n \in 1 .. Len(Order)
      BY <1>1, <2>2, <2>4
    <3>2. n - 1 \notin S
      BY <2>1, <3>1
    <3>3. Good(n - 1)
      BY <3>1, <3>2
    <3>4. T[n] = IF T[n - 1] \in Hook THEN original[T[n - 1]] ELSE T[n - 1]
      BY <1>1, <3>1
    <3>5. CASE T[n - 1] \in {Callee, Wild}
      BY <2>2, <3>4, <3>5, OrderIndex
    <3>6. ASSUME NEW i \in At(s), T[n - 1] = Order[i]
          PROVE  FALSE
      <4>1. /\ i \in Index /\ installed[Order[i]] /\ place[Order[i]] = s
            /\ T[n] = original[Order[i]]
        BY <1>2, <3>4, <3>6
      <4>2. LinksOn(original[Order[i]], i)
        BY <4>1 DEF HookInv, ChainInv
      <4>3. \/ T[n] \in {Callee, Wild}
            \/ \E k \in {j \in At(s) : j < i} : T[n] = Order[k]
        BY <4>1, <4>2 DEF LinksOn, IsLastOf
      <4> QED BY <1>2, <2>2, <4>3
    <3> QED BY <3>3, <3>5, <3>6
  <2> QED BY <2>3, <2>4
<1> QED BY <1>3 DEF T

\* From a site with no gate to fear a call goes down the chain, past every hook
\* there, and reaches the callee.
LEMMA ChainDescends ==
  ASSUME HookInv, NEW s \in Site, ~(patched /\ place[Order[turn]] = s),
         At(s) # {} => code[s] = "call"
  PROVE  /\ \A n \in 0 .. Len(Order) :
              Through(s)[n] = Callee \/ \E i \in At(s) : Through(s)[n] = Order[i] /\ i <= Len(Order) - n
         /\ \A k \in At(s) : \A n \in 0 .. Len(Order) :
              \/ \E m \in 0 .. n : Through(s)[m] = Order[k]
              \/ \E i \in At(s) : Through(s)[n] = Order[i] /\ i > k
<1> DEFINE T == Through(s)
           Low(n) == T[n] = Callee \/ \E i \in At(s) : T[n] = Order[i] /\ i <= Len(Order) - n
           Met(k, n) == \/ \E m \in 0 .. n : T[m] = Order[k]
                        \/ \E i \in At(s) : T[n] = Order[i] /\ i > k
           S == {n \in 0 .. Len(Order) : ~(Low(n) /\ \A k \in At(s) : Met(k, n))}
<1>1. /\ T[0] = target[s] /\ Len(Order) \in Nat
      /\ \A n \in 1 .. Len(Order) :
           T[n] = IF T[n - 1] \in Hook THEN original[T[n - 1]] ELSE T[n - 1]
  BY ThroughHops, OrderIndex
<1>2. \A i \in At(s) : i \in 1 .. Len(Order) /\ installed[Order[i]] /\ place[Order[i]] = s
                        /\ Order[i] \in Hook
  BY OrderIndex DEF At, Linked
<1> HIDE DEF T
<1>3. ASSUME S # {} PROVE FALSE
  <2> DEFINE n == Min(S)
  <2>0. S \in SUBSET Nat
    BY <1>1
  <2>1. n \in S /\ \A y \in S : n <= y
    BY <1>3, <2>0, LeastIn
  <2> HIDE DEF n
  <2>2. n \in 0 .. Len(Order) /\ ~(Low(n) /\ \A k \in At(s) : Met(k, n))
    BY <2>1
  <2>3. CASE n = 0
    <3>1. IsLastOf(T[0], At(s))
      BY <1>1 DEF HookInv, ChainInv
    <3>2. CASE At(s) = {}
      <4>1. T[0] = Callee
        BY <3>1, <3>2 DEF IsLastOf
      <4> QED BY <2>2, <2>3, <3>2, <4>1
    <3>3. ASSUME NEW i \in At(s), T[0] = Order[i], \A j \in At(s) : j <= i
          PROVE  FALSE
      <4>1. Low(0)
        BY <1>1, <1>2, <3>3
      <4>2. ASSUME NEW k \in At(s) PROVE Met(k, 0)
        <5>1. k = i \/ i > k
          BY <1>2, <3>3
        <5>2. 0 \in 0 .. 0
          OBVIOUS
        <5> QED BY <3>3, <5>1, <5>2
      <4> QED BY <2>2, <2>3, <4>1, <4>2
    <3> QED BY <3>1, <3>2, <3>3 DEF IsLastOf
  <2>4. CASE n # 0
    <3>1. n - 1 \in 0 .. Len(Order) /\ ~(n <= n - 1) /\ n \in 1 .. Len(Order)
      BY <1>1, <2>2, <2>4
    <3>2. n - 1 \notin S
      BY <2>1, <3>1
    <3>3. Low(n - 1) /\ \A k \in At(s) : Met(k, n - 1)
      BY <3>1, <3>2
    <3>4. T[n] = IF T[n - 1] \in Hook THEN original[T[n - 1]] ELSE T[n - 1]
      BY <1>1, <3>1
    <3>5. \A k : (\E m \in 0 .. n - 1 : T[m] = Order[k]) => \E m \in 0 .. n : T[m] = Order[k]
      BY <3>1
    <3>6. CASE T[n - 1] = Callee
      <4>1. T[n] = Callee
        BY <3>4, <3>6, OrderIndex
      <4>2. ASSUME NEW k \in At(s) PROVE Met(k, n)
        <5>1. ~ \E i \in At(s) : T[n - 1] = Order[i]
          BY <1>2, <3>6, OrderIndex
        <5> QED BY <3>3, <3>5, <5>1
      <4> QED BY <2>2, <4>1, <4>2
    <3>7. ASSUME NEW i \in At(s), T[n - 1] = Order[i], i <= Len(Order) - (n - 1)
          PROVE  FALSE
      <4>1. /\ i \in 1 .. Len(Order) /\ installed[Order[i]] /\ place[Order[i]] = s
            /\ T[n] = original[Order[i]] /\ code[s] = "call"
        BY <1>2, <3>4, <3>7
      <4>2. LinksOn(original[Order[i]], i)
        BY <4>1, OrderIndex DEF HookInv, ChainInv
      <4>3. IsLastOf(T[n], {j \in At(s) : j < i})
        BY <4>1, <4>2 DEF LinksOn
      <4>4. \A j \in Index : Order[j] = Order[i] => j = i
        BY <4>1, OrderIndex
      <4>5. Low(n)
        <5>1. ASSUME NEW j \in At(s), j < i
              PROVE  j <= Len(Order) - n
          BY <1>1, <1>2, <3>1, <3>7, <4>1, <5>1
        <5> QED BY <4>3, <5>1 DEF IsLastOf
      <4>6. ASSUME NEW k \in At(s) PROVE Met(k, n)
        <5>1. CASE k < i
          <6>1. PICK j \in At(s) : T[n] = Order[j] /\ k <= j
            BY <4>3, <5>1 DEF IsLastOf
          <6>2. j = k \/ j > k
            BY <1>2, <6>1
          <6>3. n \in 0 .. n
            BY <3>1
          <6> QED BY <6>1, <6>2, <6>3
        <5>2. CASE ~(k < i)
          <6>1. \E m \in 0 .. n - 1 : T[m] = Order[k]
            <7>1. CASE k = i
              <8>1. n - 1 \in 0 .. n - 1
                BY <3>1
              <8> QED BY <3>7, <7>1, <8>1
            <7>2. CASE k # i
              <8>1. ~ \E j \in At(s) : T[n - 1] = Order[j] /\ j > k
                <9>1. \A j \in At(s) : T[n - 1] = Order[j] => j = i
                  BY <1>2, <3>7, <4>4, OrderIndex
                <9> QED BY <1>2, <4>1, <5>2, <9>1
              <8> QED BY <3>3, <8>1
            <7> QED BY <7>1, <7>2
          <6> QED BY <3>5, <6>1
        <5> QED BY <5>1, <5>2
      <4> QED BY <2>2, <4>5, <4>6
    <3> QED BY <3>3, <3>6, <3>7
  <2> QED BY <2>3, <2>4
<1> QED BY <1>3 DEF T

\* So it ends in the callee, having passed every hook that is linked there.
LEMMA ChainEnds ==
  ASSUME HookInv, NEW s \in Site, ~(patched /\ place[Order[turn]] = s),
         At(s) # {} => code[s] = "call"
  PROVE  EndOf(s) = Callee /\ \A k \in At(s) : Order[k] \in Thunks(s)
<1> DEFINE N == Len(Order)
<1>1. N \in Nat /\ Cardinality(Hook) = N
  BY HooksCounted, OrderIndex
<1>2. N \in 0 .. N /\ N - N = 0
  BY <1>1
<1>3. \A i \in At(s) : i \in 1 .. N /\ Order[i] \in Hook
  BY OrderIndex DEF At
<1>4. ~ \E i \in At(s) : i <= N - N
  BY <1>2, <1>3
<1>5. Through(s)[N] = Callee
  BY <1>2, <1>4, ChainDescends
<1>6. ASSUME NEW k \in At(s)
      PROVE  Order[k] \in Thunks(s)
  <2>1. ~ \E i \in At(s) : Through(s)[N] = Order[i]
    BY <1>3, <1>5, OrderIndex
  <2>2. \E m \in 0 .. N : Through(s)[m] = Order[k]
    BY <1>2, <2>1, ChainDescends
  <2> QED BY <1>1, <1>3, <2>2 DEF Thunks
<1> QED BY <1>1, <1>5, <1>6 DEF EndOf

\* The invariant says what HooksSafeAndTold promises.
LEMMA HookInvSuffices == HookInv => HooksSafeAndTold
<1> SUFFICES ASSUME HookInv PROVE HooksSafeAndTold
  OBVIOUS
<1>1. ASSUME NEW s \in Site, ~Ungated(s)
      PROVE  At(s) # {} => code[s] = "call"
  <2> SUFFICES ASSUME NEW i \in At(s) PROVE code[s] = "call"
    OBVIOUS
  <2>1. /\ i \in Index /\ Linked(i) /\ place[Order[i]] = s /\ Order[i] \in Hook
    BY OrderIndex DEF At
  <2>2. IdExists(Order[i]) /\ (Order[i] \in Checked => code[s] = "call")
    BY <2>1 DEF HookInv, ChainInv
  <2>3. code[s] \in {"entry", "call"}
    BY <2>1, <2>2 DEF HookInv, HookTypeOK, IdExists
  <2> QED BY <1>1, <2>1, <2>2, <2>3 DEF Ungated
<1>2. ASSUME NEW s \in Site
      PROVE  EndOf(s) = Callee \/ Ungated(s) \/ (patched /\ place[Order[turn]] = s)
  BY <1>1, ChainEnds
<1>3. ASSUME NEW h \in Counted, mask[h], ~patched
      PROVE  (\E s \in Site : h \in Thunks(s)) \/ Ungated(place[h])
  <2>1. h \in Hook /\ mask[h] \in BOOLEAN /\ installed[h] \in BOOLEAN
    BY OrderIndex DEF HookInv, HookTypeOK
  <2>2. PICK i \in Index : h = Order[i]
    BY <2>1, OrderIndex
  <2>3. installed[h]
    <3>1. CASE h \in Checked
      BY <1>3, <2>2, <3>1 DEF HookInv, MaskInv
    <3>2. CASE h \notin Checked
      BY <1>3, <3>2 DEF HookInv, MaskInv
    <3> QED BY <3>1, <3>2
  <2>4. Linked(i)
    BY <2>2, <2>3 DEF Linked
  <2>5. IdExists(h)
    BY <2>2, <2>4 DEF HookInv, ChainInv
  <2>6. place[h] \in Site
    BY <2>1, <2>5 DEF HookInv, HookTypeOK, IdExists
  <2>7. PICK s \in Site : s = place[h]
    BY <2>6
  <2>8. i \in At(s)
    BY <2>2, <2>4, <2>7 DEF At
  <2>9. CASE ~Ungated(s)
    <3>1. Order[i] \in Thunks(s)
      BY <1>1, <1>3, <2>8, <2>9, ChainEnds
    <3> QED BY <2>2, <3>1
  <2> QED BY <2>7, <2>9
<1>4. ASSUME NEW h \in Counted, turn > Len(Order), merged, NEW s \in Site, h \in Thunks(s)
      PROVE  mask[h]
  <2>1. ~patched /\ h \in Hook
    BY <1>4, OrderIndex DEF HookInv, ChainInv, HookTypeOK
  <2>2. PICK n \in 0 .. Len(Order) : h = Through(s)[n]
    BY <1>4, HooksCounted DEF Thunks
  <2>3. installed[h]
    BY <2>1, <2>2, PassesInstalled, OrderIndex
  <2>4. CASE h \in Checked
    <3>1. PICK i \in Index : h = Order[i]
      BY <2>1, OrderIndex
    <3> QED BY <1>4, <2>3, <2>4, <3>1 DEF HookInv, MaskInv
  <2>5. CASE h \notin Checked
    BY <2>3, <2>5 DEF HookInv, MaskInv
  <2> QED BY <2>4, <2>5
<1>5. dead => \E h \in Hook \ Checked : ~IdExists(h)
  BY DEF HookInv
<1> QED BY <1>2, <1>3, <1>4, <1>5 DEF HooksSafeAndTold

\* The invariant of the installation, of every state.
LEMMA HookInvariant == HookSpec => []HookInv
<1>1. HookInit => HookInv
  BY HookInvInit
<1>2. HookInv /\ [HookNext]_installVars => HookInv'
  BY HookInvStep
<1> QED BY <1>1, <1>2, PTL DEF HookSpec

(* TryInstallCallSite and EnabledMask, for any hooks in any order on any    *)
(* sites: a call of the game ends where it always did, and the bits say    *)
(* which thunks are called.                                                *)
THEOREM HooksAreSafe == HookSpec => []HooksSafeAndTold
<1>1. HookInv => HooksSafeAndTold
  BY HookInvSuffices
<1> QED BY <1>1, HookInvariant, PTL

\* A site calls a thunk or its callee, and what a thunk calls is a thunk, the
\* callee or no address.
THEOREM HookTyped == HookSpec => []HookTypeOK
<1>1. HookInv => HookTypeOK
  BY DEF HookInv
<1> QED BY <1>1, HookInvariant, PTL
=============================================================================
