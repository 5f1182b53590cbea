----------------------- MODULE RollingRecorderProofs ------------------------
(***************************************************************************)
(* FilesKeptAndPruned and PinIsWindow for any clock, any number of records *)
(* and rotations kept, whatever fails, and across restarts.                *)
(***************************************************************************)
EXTENDS RollingRecorder, SequenceTheorems, TLAPS

File == [gz : BOOLEAN, current : Time, buf : Content, windowStart : Time,
         rotated : Seq(Time)]
History == [closed : Seq(Content), used : SUBSET Time, reused : SUBSET Time,
            inherited : SUBSET Time]
States == [file : File, disk : [Time -> Content \union {Absent}], history : History]

Listed(st) == DOMAIN st.file.rotated

(***************************************************************************)
(* A name that is listed twice, or listed and open, was used twice; only   *)
(* such a name's file may be other than what was closed.                   *)
(***************************************************************************)
NamesTold(st) ==
  /\ Len(st.history.closed) = Len(st.file.rotated)
  /\ \A i \in Listed(st) : st.file.rotated[i] \in st.history.used
  /\ st.file.gz => st.file.current \in st.history.used
  /\ \A i, j \in Listed(st) :
       i # j /\ st.file.rotated[i] = st.file.rotated[j]
         => st.file.rotated[i] \in st.history.reused
  /\ st.file.gz => \A i \in Listed(st) :
       st.file.rotated[i] = st.file.current => st.file.current \in st.history.reused

Kept(st) ==
  \A i \in Listed(st) :
    st.file.rotated[i] \notin st.history.reused
      => st.disk[st.file.rotated[i]] = st.history.closed[i]

Pruned(st) ==
  \A t \in Time : st.disk[t] # Absent =>
    \/ \E i \in Listed(st) : st.file.rotated[i] = t
    \/ st.file.gz /\ t = st.file.current
    \/ t \in st.history.inherited

Sound(st) == st \in States /\ NamesTold(st) /\ Kept(st) /\ Pruned(st)

\* The open file is there, so that a restart inherits it.
OpenIsThere(st) == st.file.gz => st.disk[st.file.current] = <<>>

\* No more files are listed than are to be kept.
Few(st) == Len(st.file.rotated) <= KeepRotations

Whole(st) == Sound(st) /\ OpenIsThere(st) /\ Few(st)

RecorderInv ==
  /\ now \in Time
  /\ next \in 1 .. MaxRecords + 1
  /\ pins \in [Pin -> Content \union {Absent}]
  /\ running \in BOOLEAN /\ (~running => ~file.gz)
  /\ Whole(State)

-----------------------------------------------------------------------------
(* Sequences.                                                              *)

\* Newest is the first part of a list, as it was.
LEMMA NewestIs ==
  ASSUME RecorderAssumption, NEW S, NEW seq \in Seq(S)
  PROVE  /\ Newest(seq) \in Seq(S)
         /\ Len(Newest(seq)) = IF Len(seq) < KeepRotations THEN Len(seq) ELSE KeepRotations
         /\ DOMAIN Newest(seq) = 1 .. Len(Newest(seq))
         /\ \A i \in DOMAIN Newest(seq) : i \in DOMAIN seq /\ Newest(seq)[i] = seq[i]
         /\ \A i \in DOMAIN seq : i <= KeepRotations => i \in DOMAIN Newest(seq)
<1> DEFINE n == IF Len(seq) < KeepRotations THEN Len(seq) ELSE KeepRotations
<1>1. n \in 0 .. Len(seq) /\ KeepRotations \in Nat
  BY DEF RecorderAssumption
<1>2. Newest(seq) = SubSeq(seq, 1, n)
  BY DEF Newest
<1> HIDE DEF n
<1>3. /\ SubSeq(seq, 1, n) \in Seq(S) /\ Len(SubSeq(seq, 1, n)) = n
      /\ DOMAIN SubSeq(seq, 1, n) = 1 .. n
      /\ \A i \in 1 .. n : SubSeq(seq, 1, n)[i] = seq[i]
  BY <1>1
<1>4. DOMAIN seq = 1 .. Len(seq) /\ Len(seq) \in Nat
  OBVIOUS
<1>5. \A i \in DOMAIN seq : i <= KeepRotations => i \in 1 .. n
  BY <1>1, <1>4 DEF n
<1>6. 1 .. n \subseteq DOMAIN seq
  BY <1>1, <1>4
<1> QED BY <1>2, <1>3, <1>5, <1>6 DEF n

\* Oldest holds what comes after the KeepRotations first.
LEMMA OldestIs ==
  ASSUME RecorderAssumption, NEW S, NEW seq \in Seq(S), NEW t
  PROVE  t \in ToSet(Oldest(seq)) <=>
           \E i \in DOMAIN seq : i > KeepRotations /\ seq[i] = t
<1> DEFINE k == KeepRotations
           old == SubSeq(seq, k + 1, Len(seq))
<1>1. k \in Nat /\ Len(seq) \in Nat /\ DOMAIN seq = 1 .. Len(seq)
  BY DEF RecorderAssumption
<1>2. CASE Len(seq) <= k
  <2>1. old = <<>>
    BY <1>1, <1>2
  <2>2. Oldest(seq) = <<>>
    BY <2>1 DEF Oldest
  <2>3. DOMAIN <<>> = {}
    OBVIOUS
  <2>4. t \notin ToSet(Oldest(seq))
    BY <2>2, <2>3, Zenon DEF ToSet
  <2> QED BY <1>1, <1>2, <2>4
<1>3. CASE Len(seq) > k
  <2>1. /\ DOMAIN old = 1 .. Len(seq) - k
        /\ \A i \in 1 .. Len(seq) - k : old[i] = seq[i + k]
    BY <1>1, <1>3
  <2>2. t \in ToSet(Oldest(seq)) <=> \E i \in DOMAIN old : old[i] = t
    BY DEF Oldest, ToSet
  <2> HIDE DEF old
  <2>3. ASSUME NEW i \in DOMAIN old, old[i] = t
        PROVE  \E j \in DOMAIN seq : j > k /\ seq[j] = t
    <3>1. i + k \in DOMAIN seq /\ i + k > k /\ seq[i + k] = t
      BY <1>1, <2>1, <2>3
    <3> QED BY <3>1
  <2>4. ASSUME NEW j \in DOMAIN seq, j > k, seq[j] = t
        PROVE  \E i \in DOMAIN old : old[i] = t
    <3>1. j - k \in DOMAIN old /\ (j - k) + k = j
      BY <1>1, <2>1, <2>4
    <3>2. old[j - k] = t
      BY <2>1, <2>4, <3>1
    <3> QED BY <3>1, <3>2
  <2> QED BY <2>2, <2>3, <2>4
<1> QED BY <1>1, <1>2, <1>3

\* A list with one more at its head.
LEMMA FirstIs ==
  \A S : \A x \in S : \A seq \in Seq(S) :
    /\ <<x>> \o seq \in Seq(S) /\ Len(<<x>> \o seq) = Len(seq) + 1
    /\ DOMAIN (<<x>> \o seq) = 1 .. Len(seq) + 1 /\ DOMAIN seq = 1 .. Len(seq)
    /\ (<<x>> \o seq)[1] = x
    /\ \A i \in DOMAIN seq : (<<x>> \o seq)[i + 1] = seq[i]
OBVIOUS

-----------------------------------------------------------------------------
(* The helpers.                                                            *)

\* What CloseCurrent does before it prunes.
Shut(st) ==
  [file    |-> [st.file EXCEPT !.gz = FALSE, !.rotated = <<st.file.current>> \o @],
   disk    |-> [st.disk EXCEPT ![st.file.current] = st.file.buf],
   history |-> [st.history EXCEPT !.closed = <<st.file.buf>> \o @]]

\* The types of the parts of a state.
LEMMA StateTypes ==
  ASSUME NEW st, st \in States
  PROVE  /\ st.file \in File /\ st.disk \in [Time -> Content \union {Absent}]
         /\ st.history \in History
         /\ st.file.gz \in BOOLEAN /\ st.file.current \in Time
         /\ st.file.buf \in Content /\ st.file.windowStart \in Time
         /\ st.file.rotated \in Seq(Time)
         /\ st.history.closed \in Seq(Content) /\ st.history.used \subseteq Time
         /\ st.history.reused \subseteq Time /\ st.history.inherited \subseteq Time
BY DEF States, File, History

\* What Shut changes, and what it leaves.
LEMMA ShutIs ==
  ASSUME NEW st, st \in States
  PROVE  /\ Shut(st) \in States
         /\ Shut(st).file.gz = FALSE
         /\ Shut(st).file.rotated = <<st.file.current>> \o st.file.rotated
         /\ Shut(st).history.closed = <<st.file.buf>> \o st.history.closed
         /\ Shut(st).history.used = st.history.used
         /\ Shut(st).history.reused = st.history.reused
         /\ Shut(st).history.inherited = st.history.inherited
         /\ Shut(st).disk[st.file.current] = st.file.buf
         /\ \A t \in Time \ {st.file.current} : Shut(st).disk[t] = st.disk[t]
<1>1. /\ <<st.file.current>> \o st.file.rotated \in Seq(Time)
      /\ <<st.file.buf>> \o st.history.closed \in Seq(Content)
  BY StateTypes, FirstIs
<1>2. [st.file EXCEPT !.gz = FALSE, !.rotated = <<st.file.current>> \o @] \in File
  BY <1>1, StateTypes DEF File
<1>3. [st.history EXCEPT !.closed = <<st.file.buf>> \o @] \in History
  BY <1>1, StateTypes DEF History
<1>4. [st.disk EXCEPT ![st.file.current] = st.file.buf]
        \in [Time -> Content \union {Absent}]
  BY StateTypes
<1>5. Shut(st) \in States
  BY <1>2, <1>3, <1>4 DEF States, Shut
<1>6. /\ Shut(st).file = [st.file EXCEPT !.gz = FALSE, !.rotated = <<st.file.current>> \o @]
      /\ Shut(st).disk = [st.disk EXCEPT ![st.file.current] = st.file.buf]
      /\ Shut(st).history = [st.history EXCEPT !.closed = <<st.file.buf>> \o @]
  BY DEF Shut
<1>7. /\ Shut(st).file.gz = FALSE
      /\ Shut(st).file.rotated = <<st.file.current>> \o st.file.rotated
  BY <1>6, StateTypes DEF File
<1>8. /\ Shut(st).history.closed = <<st.file.buf>> \o st.history.closed
      /\ Shut(st).history.used = st.history.used
      /\ Shut(st).history.reused = st.history.reused
      /\ Shut(st).history.inherited = st.history.inherited
  BY <1>6, StateTypes DEF History
<1>9. /\ Shut(st).disk[st.file.current] = st.file.buf
      /\ \A t \in Time \ {st.file.current} : Shut(st).disk[t] = st.disk[t]
  BY <1>6, StateTypes
<1> QED BY <1>5, <1>7, <1>8, <1>9

\* The places of a list with one more at its head.
LEMMA Listing ==
  ASSUME NEW st, st \in States
  PROVE  /\ Listed(st) = 1 .. Len(st.file.rotated)
         /\ Listed(Shut(st)) = 1 .. Len(st.file.rotated) + 1
         /\ Len(Shut(st).file.rotated) = Len(st.file.rotated) + 1
         /\ Len(Shut(st).history.closed) = Len(st.history.closed) + 1
         /\ 1 \in Listed(Shut(st))
         /\ Shut(st).file.rotated[1] = st.file.current
         /\ Shut(st).history.closed[1] = st.file.buf
         /\ \A i \in Listed(st) : /\ i + 1 \in Listed(Shut(st))
                                  /\ Shut(st).file.rotated[i + 1] = st.file.rotated[i]
         /\ \A i \in Listed(Shut(st)) : i = 1 \/ i - 1 \in Listed(st)
         /\ \A i \in DOMAIN st.history.closed :
              Shut(st).history.closed[i + 1] = st.history.closed[i]
<1> DEFINE rot == st.file.rotated
           cl == st.history.closed
           more == Shut(st).file.rotated
           moreCl == Shut(st).history.closed
<1>1. rot \in Seq(Time) /\ st.file.current \in Time
  BY StateTypes
<1>2. cl \in Seq(Content) /\ st.file.buf \in Content
  BY StateTypes
<1>3. more = <<st.file.current>> \o rot
  BY ShutIs
<1>4. moreCl = <<st.file.buf>> \o cl
  BY ShutIs
<1> HIDE DEF rot, cl, more, moreCl
<1>5. /\ DOMAIN more = 1 .. Len(rot) + 1 /\ DOMAIN rot = 1 .. Len(rot)
      /\ more[1] = st.file.current
      /\ \A i \in DOMAIN rot : more[i + 1] = rot[i]
  BY <1>1, <1>3
<1>6. /\ moreCl[1] = st.file.buf
      /\ \A i \in DOMAIN cl : moreCl[i + 1] = cl[i]
  BY <1>2, <1>4
<1>7. Len(more) = Len(rot) + 1 /\ Len(moreCl) = Len(cl) + 1
  BY <1>1, <1>2, <1>3, <1>4
<1>8. Len(rot) \in Nat
  BY <1>1
<1>9. /\ 1 \in DOMAIN more
      /\ \A i \in DOMAIN rot : i + 1 \in DOMAIN more
      /\ \A i \in DOMAIN more : i = 1 \/ i - 1 \in DOMAIN rot
  BY <1>5, <1>8
<1> QED BY <1>5, <1>6, <1>7, <1>9 DEF Listed, rot, cl, more, moreCl

\* A file that is closed joins the list with what was written to it.
LEMMA ShutSound ==
  ASSUME NEW st, Sound(st), st.file.gz
  PROVE  Sound(Shut(st))
<1> DEFINE sh == Shut(st)
           cur == st.file.current
<1>1. st \in States /\ sh \in States
  BY ShutIs DEF Sound
<1>2. /\ Listed(st) = 1 .. Len(st.file.rotated)
      /\ Listed(sh) = 1 .. Len(st.file.rotated) + 1
      /\ 1 \in Listed(sh) /\ sh.file.rotated[1] = cur /\ sh.history.closed[1] = st.file.buf
      /\ \A i \in Listed(st) : i + 1 \in Listed(sh)
                               /\ sh.file.rotated[i + 1] = st.file.rotated[i]
      /\ \A i \in DOMAIN st.history.closed :
           sh.history.closed[i + 1] = st.history.closed[i]
      /\ \A i \in Listed(sh) : i = 1 \/ i - 1 \in Listed(st)
      /\ Len(st.file.rotated) \in Nat
  BY <1>1, Listing, StateTypes
<1>3. /\ sh.file.gz = FALSE /\ sh.history.used = st.history.used
      /\ sh.history.reused = st.history.reused
      /\ sh.history.inherited = st.history.inherited
      /\ sh.disk[cur] = st.file.buf
      /\ \A t \in Time \ {cur} : sh.disk[t] = st.disk[t]
  BY <1>1, ShutIs
<1>4. /\ Len(sh.file.rotated) = Len(st.file.rotated) + 1
      /\ Len(sh.history.closed) = Len(st.history.closed) + 1
  BY <1>1, Listing
<1>5. \A i \in Listed(sh) :
        \/ i = 1 /\ sh.file.rotated[i] = cur
        \/ /\ i - 1 \in Listed(st) /\ sh.file.rotated[i] = st.file.rotated[i - 1]
           /\ sh.history.closed[i] = st.history.closed[i - 1]
  <2> SUFFICES ASSUME NEW i \in Listed(sh), i # 1
               PROVE  /\ i - 1 \in Listed(st)
                      /\ sh.file.rotated[i] = st.file.rotated[i - 1]
                      /\ sh.history.closed[i] = st.history.closed[i - 1]
    BY <1>2
  <2>1. i - 1 \in Listed(st) /\ (i - 1) + 1 = i
    BY <1>2
  <2>2. i - 1 \in DOMAIN st.history.closed
    <3>1. Len(st.history.closed) = Len(st.file.rotated)
      BY DEF Sound, NamesTold
    <3>2. DOMAIN st.history.closed = 1 .. Len(st.history.closed)
      BY <1>1, StateTypes
    <3> QED BY <1>2, <2>1, <3>1, <3>2
  <2> QED BY <1>2, <2>1, <2>2
<1> HIDE DEF sh, cur
<1>6. NamesTold(sh)
  <2>1. Len(sh.history.closed) = Len(sh.file.rotated)
    BY <1>4 DEF Sound, NamesTold
  <2>2. \A i \in Listed(sh) : sh.file.rotated[i] \in sh.history.used
    BY <1>3, <1>5 DEF Sound, NamesTold, cur
  <2>3. ASSUME NEW i \in Listed(sh), NEW j \in Listed(sh), i # j,
               sh.file.rotated[i] = sh.file.rotated[j]
        PROVE  sh.file.rotated[i] \in sh.history.reused
    <3>1. CASE i = 1
      <4>1. j - 1 \in Listed(st) /\ st.file.rotated[j - 1] = cur
        BY <1>2, <1>5, <2>3, <3>1
      <4> QED BY <1>2, <1>3, <3>1, <4>1 DEF Sound, NamesTold, cur
    <3>2. CASE j = 1
      <4>1. i - 1 \in Listed(st) /\ st.file.rotated[i - 1] = cur
        BY <1>2, <1>5, <2>3, <3>2
      <4> QED BY <1>2, <1>3, <2>3, <3>2, <4>1 DEF Sound, NamesTold, cur
    <3>3. CASE i # 1 /\ j # 1
      <4>1. /\ i - 1 \in Listed(st) /\ sh.file.rotated[i] = st.file.rotated[i - 1]
            /\ j - 1 \in Listed(st) /\ sh.file.rotated[j] = st.file.rotated[j - 1]
        BY <1>5, <3>3
      <4>2. i - 1 # j - 1
        BY <1>2, <2>3
      <4> QED BY <1>3, <2>3, <4>1, <4>2 DEF Sound, NamesTold
    <3> QED BY <3>1, <3>2, <3>3
  <2> QED BY <1>3, <2>1, <2>2, <2>3 DEF NamesTold
<1>7. Kept(sh)
  <2> SUFFICES ASSUME NEW i \in Listed(sh), sh.file.rotated[i] \notin sh.history.reused
               PROVE  sh.disk[sh.file.rotated[i]] = sh.history.closed[i]
    BY DEF Kept
  <2>1. CASE i = 1
    BY <1>2, <1>3, <2>1
  <2>2. CASE i # 1
    <3>1. /\ i - 1 \in Listed(st) /\ sh.file.rotated[i] = st.file.rotated[i - 1]
          /\ sh.history.closed[i] = st.history.closed[i - 1]
      BY <1>5, <2>2
    <3>2. st.file.rotated[i - 1] # cur
      BY <1>3, <3>1 DEF Sound, NamesTold, cur
    <3>3. st.file.rotated[i - 1] \in Time
      BY <1>1, <3>1, StateTypes DEF Listed
    <3>4. st.disk[st.file.rotated[i - 1]] = st.history.closed[i - 1]
      BY <1>3, <3>1 DEF Sound, Kept
    <3> QED BY <1>3, <3>1, <3>2, <3>3, <3>4
  <2> QED BY <2>1, <2>2
<1>8. Pruned(sh)
  <2> SUFFICES ASSUME NEW t \in Time, sh.disk[t] # Absent
               PROVE  (\E i \in Listed(sh) : sh.file.rotated[i] = t)
                        \/ t \in sh.history.inherited
    BY DEF Pruned
  <2>1. CASE t = cur
    BY <1>2, <2>1
  <2>2. CASE t # cur
    <3>1. (\E i \in Listed(st) : st.file.rotated[i] = t) \/ t \in st.history.inherited
      BY <1>3, <2>2 DEF Sound, Pruned, cur
    <3> QED BY <1>2, <1>3, <3>1
  <2> QED BY <2>1, <2>2
<1> QED BY <1>1, <1>6, <1>7, <1>8 DEF Sound, sh

\* What PruneOldFiles changes, and what it leaves.
LEMMA PruneIs ==
  ASSUME RecorderAssumption, NEW st, st \in States
  PROVE  LET pr == PruneOldFiles(st)
         IN  /\ pr \in States
             /\ pr.file.gz = st.file.gz /\ pr.file.current = st.file.current
             /\ pr.file.buf = st.file.buf
             /\ pr.file.rotated = Newest(st.file.rotated)
             /\ pr.history.closed = Newest(st.history.closed)
             /\ pr.history.used = st.history.used
             /\ pr.history.reused = st.history.reused
             /\ pr.history.inherited = st.history.inherited
             /\ \A t \in Time :
                  pr.disk[t] = IF t \in ToSet(Oldest(st.file.rotated)) THEN Absent
                                                                       ELSE st.disk[t]
<1> DEFINE pr == PruneOldFiles(st)
<1>1. Newest(st.file.rotated) \in Seq(Time) /\ Newest(st.history.closed) \in Seq(Content)
  BY StateTypes, NewestIs
<1>2. /\ pr.file = [st.file EXCEPT !.rotated = Newest(@)]
      /\ pr.disk = [t \in Time |-> IF t \in ToSet(Oldest(st.file.rotated))
                                     THEN Absent ELSE st.disk[t]]
      /\ pr.history = [st.history EXCEPT !.closed = Newest(@)]
      /\ pr = [file |-> pr.file, disk |-> pr.disk, history |-> pr.history]
  BY DEF PruneOldFiles
<1> HIDE DEF pr
<1>3. [st.file EXCEPT !.rotated = Newest(@)] \in File
  BY <1>1, StateTypes DEF File
<1>4. [st.history EXCEPT !.closed = Newest(@)] \in History
  BY <1>1, StateTypes DEF History
<1>5. pr.disk \in [Time -> Content \union {Absent}]
  BY <1>2, StateTypes
<1>6. pr \in States
  BY <1>2, <1>3, <1>4, <1>5 DEF States
<1>7. /\ pr.file.gz = st.file.gz /\ pr.file.current = st.file.current
      /\ pr.file.buf = st.file.buf /\ pr.file.rotated = Newest(st.file.rotated)
  BY <1>2, StateTypes DEF File
<1>8. /\ pr.history.closed = Newest(st.history.closed)
      /\ pr.history.used = st.history.used /\ pr.history.reused = st.history.reused
      /\ pr.history.inherited = st.history.inherited
  BY <1>2, StateTypes DEF History
<1>9. \A t \in Time : pr.disk[t] = IF t \in ToSet(Oldest(st.file.rotated)) THEN Absent
                                                                         ELSE st.disk[t]
  BY <1>2
<1> QED BY <1>6, <1>7, <1>8, <1>9 DEF pr

\* A name that is both kept and pruned was used twice, and is excepted.
LEMMA PruneSound ==
  ASSUME RecorderAssumption, NEW st, Sound(st)
  PROVE  Sound(PruneOldFiles(st)) /\ PruneOldFiles(st).file.gz = st.file.gz
<1> DEFINE pr == PruneOldFiles(st)
           rot == st.file.rotated
           cl == st.history.closed
<1>1. st \in States
  BY DEF Sound
<1>2. /\ pr \in States
      /\ pr.file.gz = st.file.gz /\ pr.file.current = st.file.current
      /\ pr.file.rotated = Newest(rot) /\ pr.history.closed = Newest(cl)
      /\ pr.history.used = st.history.used /\ pr.history.reused = st.history.reused
      /\ pr.history.inherited = st.history.inherited
      /\ \A t \in Time : pr.disk[t] = IF t \in ToSet(Oldest(rot)) THEN Absent ELSE st.disk[t]
  BY <1>1, PruneIs
<1>3. rot \in Seq(Time) /\ cl \in Seq(Content) /\ Len(cl) = Len(rot) /\ KeepRotations \in Nat
  BY <1>1, StateTypes DEF Sound, NamesTold, RecorderAssumption
<1>4. DOMAIN rot = 1 .. Len(rot) /\ DOMAIN cl = DOMAIN rot /\ Len(rot) \in Nat
  BY <1>3
<1>5. /\ Listed(pr) = DOMAIN Newest(rot)
      /\ DOMAIN Newest(rot) = 1 .. Len(Newest(rot))
      /\ Len(Newest(rot)) = IF Len(rot) < KeepRotations THEN Len(rot) ELSE KeepRotations
      /\ \A i \in DOMAIN Newest(rot) : i \in DOMAIN rot /\ Newest(rot)[i] = rot[i]
      /\ \A i \in DOMAIN rot : i <= KeepRotations => i \in DOMAIN Newest(rot)
  BY <1>2, <1>3, NewestIs DEF Listed
<1>6. /\ Len(Newest(cl)) = IF Len(cl) < KeepRotations THEN Len(cl) ELSE KeepRotations
      /\ DOMAIN Newest(cl) = 1 .. Len(Newest(cl))
      /\ \A i \in DOMAIN Newest(cl) : Newest(cl)[i] = cl[i]
  BY <1>3, NewestIs
<1>7. Len(Newest(cl)) = Len(Newest(rot)) /\ DOMAIN Newest(cl) = DOMAIN Newest(rot)
  BY <1>3, <1>5, <1>6
<1>8. \A t : t \in ToSet(Oldest(rot)) <=> \E i \in DOMAIN rot : i > KeepRotations /\ rot[i] = t
  BY <1>3, OldestIs
<1>9. \A i \in Listed(pr) : /\ i \in Listed(st) /\ i <= KeepRotations
                           /\ pr.file.rotated[i] = rot[i] /\ pr.history.closed[i] = cl[i]
  <2> SUFFICES ASSUME NEW i \in DOMAIN Newest(rot)
               PROVE  /\ i \in DOMAIN rot /\ i <= KeepRotations
                      /\ Newest(rot)[i] = rot[i] /\ Newest(cl)[i] = cl[i]
    BY <1>2, <1>5 DEF Listed
  <2>1. i <= KeepRotations
    BY <1>3, <1>4, <1>5
  <2> QED BY <1>5, <1>6, <1>7, <2>1
<1> HIDE DEF pr, rot, cl
<1>10. NamesTold(pr)
  <2>1. Len(pr.history.closed) = Len(pr.file.rotated)
    BY <1>2, <1>7
  <2>2. \A i \in Listed(pr) : pr.file.rotated[i] \in pr.history.used
    BY <1>2, <1>9 DEF Sound, NamesTold, rot
  <2>3. pr.file.gz => pr.file.current \in pr.history.used
    BY <1>2 DEF Sound, NamesTold
  <2>4. \A i, j \in Listed(pr) :
          i # j /\ pr.file.rotated[i] = pr.file.rotated[j]
            => pr.file.rotated[i] \in pr.history.reused
    BY <1>2, <1>9 DEF Sound, NamesTold, rot
  <2>5. pr.file.gz => \A i \in Listed(pr) :
          pr.file.rotated[i] = pr.file.current => pr.file.current \in pr.history.reused
    BY <1>2, <1>9 DEF Sound, NamesTold, rot
  <2> QED BY <2>1, <2>2, <2>3, <2>4, <2>5 DEF NamesTold
<1>11. Kept(pr)
  <2> SUFFICES ASSUME NEW i \in Listed(pr), pr.file.rotated[i] \notin pr.history.reused
               PROVE  pr.disk[pr.file.rotated[i]] = pr.history.closed[i]
    BY DEF Kept
  <2>1. /\ i \in Listed(st) /\ i <= KeepRotations
        /\ pr.file.rotated[i] = rot[i] /\ pr.history.closed[i] = cl[i]
    BY <1>9
  <2>2. st.disk[rot[i]] = cl[i]
    BY <1>2, <2>1 DEF Sound, Kept, rot, cl
  <2>3. \A j \in DOMAIN rot : rot[j] = rot[i] => j = i
    BY <1>2, <2>1 DEF Sound, NamesTold, Listed, rot
  <2>4. i \in 1 .. Len(rot)
    BY <1>4, <2>1 DEF Listed, rot
  <2>5. ~ (i > KeepRotations)
    BY <1>3, <2>1, <2>4
  <2>6. rot[i] \notin ToSet(Oldest(rot))
    BY <1>8, <2>3, <2>5
  <2>7. rot[i] \in Time
    BY <1>3, <1>4, <2>4
  <2> QED BY <1>2, <2>1, <2>2, <2>6, <2>7
<1>12. Pruned(pr)
  <2> SUFFICES ASSUME NEW t \in Time, pr.disk[t] # Absent
               PROVE  \/ \E i \in Listed(pr) : pr.file.rotated[i] = t
                      \/ pr.file.gz /\ t = pr.file.current
                      \/ t \in pr.history.inherited
    BY DEF Pruned
  <2>1. t \notin ToSet(Oldest(rot)) /\ st.disk[t] # Absent
    BY <1>2
  <2>2. CASE \E i \in Listed(st) : st.file.rotated[i] = t
    <3>1. PICK i \in DOMAIN rot : rot[i] = t
      BY <2>2 DEF Listed, rot
    <3>2. ~ (i > KeepRotations)
      BY <1>8, <2>1, <3>1
    <3>3. i <= KeepRotations
      BY <1>3, <1>4, <3>1, <3>2
    <3>4. i \in Listed(pr)
      BY <1>5, <3>1, <3>3
    <3> QED BY <1>9, <3>1, <3>4
  <2>3. CASE st.file.gz /\ t = st.file.current
    BY <1>2, <2>3
  <2>4. CASE t \in st.history.inherited
    BY <1>2, <2>4
  <2> QED BY <2>1, <2>2, <2>3, <2>4 DEF Sound, Pruned
<1> QED BY <1>2, <1>10, <1>11, <1>12 DEF Sound, pr

\* CloseCurrent keeps the directory sound and leaves no file open.
LEMMA CloseSound ==
  ASSUME RecorderAssumption, NEW st, Whole(st)
  PROVE  Whole(CloseCurrent(st)) /\ CloseCurrent(st).file.gz = FALSE
<1>1. st.file.gz \in BOOLEAN /\ st \in States
  BY StateTypes DEF Sound, Whole
<1>2. CASE st.file.gz
  <2>1. CloseCurrent(st) = PruneOldFiles(Shut(st))
    BY <1>2 DEF CloseCurrent, Shut
  <2>2. Sound(Shut(st))
    BY <1>2, ShutSound DEF Whole
  <2>3. Shut(st).file.gz = FALSE
    BY <1>1, ShutIs
  <2>4. Few(CloseCurrent(st))
    <3>1. Shut(st) \in States /\ Shut(st).file.rotated \in Seq(Time)
      BY <1>1, ShutIs, StateTypes
    <3>2. CloseCurrent(st).file.rotated = Newest(Shut(st).file.rotated)
      BY <2>1, <3>1, PruneIs
    <3>3. Len(Newest(Shut(st).file.rotated)) <= KeepRotations
      <4> DEFINE rot == Shut(st).file.rotated
      <4>1. rot \in Seq(Time)
        BY <3>1
      <4> HIDE DEF rot
      <4>2. /\ Len(rot) \in Nat /\ KeepRotations \in Nat
            /\ Len(Newest(rot)) = IF Len(rot) < KeepRotations THEN Len(rot) ELSE KeepRotations
        BY <4>1, NewestIs DEF RecorderAssumption
      <4>3. Len(Newest(rot)) <= KeepRotations
        BY <4>2
      <4> QED BY <4>3 DEF rot
    <3> QED BY <3>2, <3>3 DEF Few
  <2>5. /\ Sound(PruneOldFiles(Shut(st)))
        /\ PruneOldFiles(Shut(st)).file.gz = Shut(st).file.gz
    BY <2>2, PruneSound
  <2> QED BY <2>1, <2>3, <2>4, <2>5 DEF Whole, OpenIsThere
<1>3. CASE ~st.file.gz
  BY <1>1, <1>3 DEF CloseCurrent, Whole, OpenIsThere
<1> QED BY <1>2, <1>3

\* What was closed is on disk as it was written, unless it was pruned at once.
LEMMA CloseWrites ==
  ASSUME RecorderAssumption, NEW st, st \in States, st.file.gz
  PROVE  CloseCurrent(st).disk[st.file.current] \in {st.file.buf, Absent}
<1>1. CloseCurrent(st) = PruneOldFiles(Shut(st))
  BY DEF CloseCurrent, Shut
<1>2. Shut(st) \in States /\ Shut(st).disk[st.file.current] = st.file.buf
  BY ShutIs
<1>3. st.file.current \in Time
  BY StateTypes
<1> QED BY <1>1, <1>2, <1>3, PruneIs

\* A file that is truncated while it is listed has its name used again.
LEMMA OpenSound ==
  ASSUME now \in Time, NEW st, Whole(st), ~st.file.gz, NEW op \in OpenNewFile(st)
  PROVE  Whole(op)
<1>1. st \in States
  BY DEF Sound, Whole
<1>2. <<>> \in Content
  BY DEF Content
<1>3. CASE op = [st EXCEPT !.file.current = now, !.file.buf = <<>>]
  <2>1. /\ op.file = [st.file EXCEPT !.current = now, !.buf = <<>>]
        /\ op.disk = st.disk /\ op.history = st.history
        /\ op = [file |-> op.file, disk |-> op.disk, history |-> op.history]
    BY <1>1, <1>3 DEF States
  <2>2. op.file \in File
    BY <1>1, <1>2, <2>1, StateTypes DEF File
  <2>3. op \in States
    BY <1>1, <2>1, <2>2, StateTypes DEF States
  <2>4. op.file.gz = st.file.gz /\ op.file.rotated = st.file.rotated
    BY <1>1, <2>1, StateTypes DEF File
  <2>5. Sound(op)
    BY <2>1, <2>3, <2>4 DEF Whole, Sound, NamesTold, Kept, Pruned, Listed
  <2> QED BY <2>4, <2>5 DEF Whole, OpenIsThere, Few
<1>4. CASE op = [file    |-> [st.file EXCEPT !.gz = TRUE, !.current = now, !.buf = <<>>,
                                             !.windowStart = now],
                 disk    |-> [st.disk EXCEPT ![now] = <<>>],
                 history |-> [st.history EXCEPT
                                !.used = @ \union {now},
                                !.reused = @ \union ({now} \intersect st.history.used)]]
  <2>1. /\ op.file = [st.file EXCEPT !.gz = TRUE, !.current = now, !.buf = <<>>,
                                     !.windowStart = now]
        /\ op.disk = [st.disk EXCEPT ![now] = <<>>]
        /\ op.history = [st.history EXCEPT
                           !.used = @ \union {now},
                           !.reused = @ \union ({now} \intersect st.history.used)]
        /\ op = [file |-> op.file, disk |-> op.disk, history |-> op.history]
    BY <1>4
  <2>2. op.file \in File
    BY <1>1, <1>2, <2>1, StateTypes DEF File
  <2>3. op.history \in History
    <3>1. st.history.used \union {now} \in SUBSET Time
      BY <1>1, StateTypes
    <3>2. st.history.reused \union ({now} \intersect st.history.used) \in SUBSET Time
      BY <1>1, StateTypes
    <3>3. \A u, v \in SUBSET Time :
            [st.history EXCEPT !.used = u, !.reused = v] \in History
      BY <1>1, StateTypes DEF History
    <3> QED BY <2>1, <3>1, <3>2, <3>3
  <2>4. op.disk \in [Time -> Content \union {Absent}]
    BY <1>1, <1>2, <2>1, StateTypes
  <2>5. op \in States
    BY <2>1, <2>2, <2>3, <2>4 DEF States
  <2>6. op.file.gz = TRUE /\ op.file.current = now /\ op.file.rotated = st.file.rotated
    BY <1>1, <2>1, StateTypes DEF File
  <2>7. /\ op.history.closed = st.history.closed
        /\ op.history.used = st.history.used \union {now}
        /\ op.history.reused = st.history.reused \union ({now} \intersect st.history.used)
        /\ op.history.inherited = st.history.inherited
    BY <1>1, <2>1, StateTypes DEF History
  <2>8. \A t \in Time : t # now => op.disk[t] = st.disk[t]
    BY <1>1, <2>1, StateTypes
  <2>9. Listed(op) = Listed(st)
    BY <2>6 DEF Listed
  <2>10. \A i \in Listed(st) : /\ st.file.rotated[i] \in st.history.used
                               /\ st.file.rotated[i] \in Time
    BY <1>1, StateTypes DEF Whole, Sound, NamesTold, Listed
  <2>11. NamesTold(op)
    BY <2>6, <2>7, <2>9, <2>10 DEF Whole, Sound, NamesTold
  <2>12. Kept(op)
    BY <2>6, <2>7, <2>8, <2>9, <2>10 DEF Whole, Sound, Kept
  <2>13. Pruned(op)
    BY <2>6, <2>7, <2>8, <2>9 DEF Whole, Sound, Pruned
  <2>14. op.disk[op.file.current] = <<>>
    BY <1>1, <2>1, <2>6, StateTypes
  <2> QED BY <2>5, <2>11, <2>12, <2>6, <2>13, <2>14 DEF Sound, Whole, OpenIsThere, Few
<1> QED BY <1>3, <1>4 DEF OpenNewFile

\* A record written, or the file closed for good.
LEMMA WriteSound ==
  ASSUME RecorderAssumption, NEW st, Whole(st), NEW r \in Record, NEW w \in Write(st, r)
  PROVE  Whole(w)
<1>1. st \in States
  BY DEF Sound, Whole
<1>2. CASE w = CloseCurrent(st)
  BY <1>2, CloseSound DEF Whole
<1>3. CASE w = [st EXCEPT !.file.buf = Append(@, r)]
  <2>1. Append(st.file.buf, r) \in Content
    BY <1>1, StateTypes DEF Content
  <2>2. /\ w.file = [st.file EXCEPT !.buf = Append(@, r)]
        /\ w.disk = st.disk /\ w.history = st.history
        /\ w = [file |-> w.file, disk |-> w.disk, history |-> w.history]
    BY <1>1, <1>3 DEF States
  <2>3. w.file \in File
    BY <1>1, <2>1, <2>2, StateTypes DEF File
  <2>4. w \in States
    BY <1>1, <2>2, <2>3, StateTypes DEF States
  <2>5. /\ w.file.gz = st.file.gz /\ w.file.rotated = st.file.rotated
        /\ w.file.current = st.file.current
    BY <1>1, <2>2, StateTypes DEF File
  <2>6. Sound(w)
    BY <2>2, <2>4, <2>5 DEF Whole, Sound, NamesTold, Kept, Pruned, Listed
  <2> QED BY <2>2, <2>5, <2>6 DEF Whole, OpenIsThere, Few
<1> QED BY <1>2, <1>3 DEF Write

-----------------------------------------------------------------------------
(* The steps.                                                              *)

\* A file that is rotated: closed, and another one opened.
LEMMA ReopenSound ==
  ASSUME RecorderAssumption, now \in Time, NEW st, Whole(st),
         NEW op \in OpenNewFile(CloseCurrent(st))
  PROVE  Whole(op)
<1>1. Whole(CloseCurrent(st)) /\ ~CloseCurrent(st).file.gz
  BY CloseSound
<1> QED BY <1>1, OpenSound

\* What a restart finds are the files that were there, the open one torn.
LEMMA RestartSound ==
  ASSUME RecorderAssumption, Whole(State), Restart
  PROVE  Whole(State')
<1>1. PICK n \in 0 .. Len(file.buf) :
        disk' = [t \in Time |-> IF file.gz /\ t = file.current THEN SubSeq(file.buf, 1, n)
                                                               ELSE disk[t]]
  BY DEF Restart, Torn
<1>2. State \in States /\ State.file = file /\ State.disk = disk
  BY DEF Whole, Sound, State
<1>3. file.gz \in BOOLEAN /\ file.current \in Time /\ file.buf \in Seq(Record)
      /\ disk \in [Time -> Content \union {Absent}]
  BY <1>2, StateTypes DEF Content
<1>4. SubSeq(file.buf, 1, n) \in Seq(Record)
  BY <1>3
<1>5. disk' \in [Time -> Content \union {Absent}]
  BY <1>1, <1>3, <1>4 DEF Content
<1>6. /\ file' = [gz |-> FALSE, current |-> 0, buf |-> <<>>, windowStart |-> 0,
                  rotated |-> <<>>]
      /\ history' = [closed |-> <<>>, used |-> {}, reused |-> {},
                     inherited |-> {t \in Time : disk[t] # Absent}]
  BY DEF Restart
<1>7. <<>> \in Seq(Record) /\ <<>> \in Seq(Time) /\ <<>> \in Seq(Content)
  OBVIOUS
<1>8. 0 \in Time
  BY DEF RecorderAssumption, Time
<1>9. file' \in File
  BY <1>6, <1>7, <1>8 DEF File, Content
<1>10. history' \in History
  <2>1. {t \in Time : disk[t] # Absent} \in SUBSET Time
    OBVIOUS
  <2> QED BY <1>6, <1>7, <2>1 DEF History
<1>11. State' \in States /\ State'.file = file' /\ State'.disk = disk'
       /\ State'.history = history'
  BY <1>5, <1>9, <1>10 DEF States, State
<1>12. file'.gz = FALSE /\ file'.rotated = <<>> /\ history'.closed = <<>>
       /\ history'.inherited = {t \in Time : disk[t] # Absent}
  BY <1>6
<1>13. DOMAIN <<>> = {}
  OBVIOUS
<1>14. Listed(State') = {}
  BY <1>11, <1>12, <1>13 DEF Listed
<1>15. NamesTold(State')
  BY <1>11, <1>12, <1>14 DEF NamesTold
<1>16. Kept(State')
  BY <1>14 DEF Kept
<1>17. Pruned(State')
  <2> SUFFICES ASSUME NEW t \in Time, disk'[t] # Absent
               PROVE  t \in history'.inherited
    BY <1>11 DEF Pruned
  <2>1. CASE file.gz /\ t = file.current
    <3>1. disk[t] = <<>>
      BY <1>2, <2>1 DEF Whole, OpenIsThere
    <3> QED BY <1>12, <3>1 DEF RecorderAssumption
  <2>2. CASE ~(file.gz /\ t = file.current)
    BY <1>1, <1>12, <2>2
  <2> QED BY <2>1, <2>2
<1>18. Few(State')
  <2>1. Len(<<>>) = 0 /\ 0 <= KeepRotations
    BY DEF RecorderAssumption
  <2> QED BY <1>11, <1>12, <2>1 DEF Few
<1> QED BY <1>11, <1>12, <1>15, <1>16, <1>17, <1>18 DEF Whole, Sound, OpenIsThere

\* Become sets the variables that make up the state.
LEMMA BecomeIs ==
  ASSUME NEW st, st \in States, Become(st)
  PROVE  State' = st
BY DEF Become, State, States

\* A record, and the rotation it may bring about.
LEMMA AppendSound ==
  ASSUME RecorderAssumption, now \in Time, Whole(State), NEW r \in Record, running,
         AppendRecord(r)
  PROVE  Whole(State')
<1>1. State.file = file
  BY DEF State
<1>2. PICK st \in IF file.gz /\ Expired THEN OpenNewFile(CloseCurrent(State)) ELSE {State} :
        \E after \in IF st.file.gz THEN Write(st, r) ELSE {st} : Become(after)
  BY DEF AppendRecord
<1>3. PICK after \in IF st.file.gz THEN Write(st, r) ELSE {st} : Become(after)
  BY <1>2
<1>4. Whole(st)
  <2>1. CASE file.gz /\ Expired
    <3>1. st \in OpenNewFile(CloseCurrent(State))
      BY <1>2, <2>1
    <3> QED BY <3>1, ReopenSound
  <2>2. CASE ~(file.gz /\ Expired)
    BY <1>2, <2>2
  <2> QED BY <2>1, <2>2
<1>5. Whole(after)
  BY <1>3, <1>4, WriteSound
<1>6. after \in States
  BY <1>5 DEF Whole, Sound
<1> QED BY <1>3, <1>5, <1>6, BecomeIs

\* A directory with no session file.
LEMMA RecorderInvInit ==
  ASSUME RecorderAssumption, Init
  PROVE  RecorderInv
<1>1. <<>> \in Seq(Record) /\ <<>> \in Seq(Time) /\ <<>> \in Seq(Content) /\ DOMAIN <<>> = {}
  OBVIOUS
<1>2. 0 \in Time
  BY DEF RecorderAssumption, Time
<1>3. file \in File
  BY <1>1, <1>2 DEF Init, File, Content
<1>4. history \in History
  BY <1>1 DEF Init, History
<1>5. disk \in [Time -> Content \union {Absent}]
  BY DEF Init
<1>6. State \in States /\ State.file = file /\ State.disk = disk /\ State.history = history
  BY <1>3, <1>4, <1>5 DEF States, State
<1>7. file.gz = FALSE /\ file.rotated = <<>> /\ history.closed = <<>>
  BY DEF Init
<1>8. Listed(State) = {}
  BY <1>1, <1>6, <1>7 DEF Listed
<1>9. \A t \in Time : disk[t] = Absent
  BY DEF Init
<1>10. Len(<<>>) = 0 /\ 0 <= KeepRotations
  BY DEF RecorderAssumption
<1>11. Whole(State)
  BY <1>6, <1>7, <1>8, <1>9, <1>10 DEF Whole, OpenIsThere, Sound, NamesTold, Kept, Pruned, Few
<1>12. now \in Time /\ next \in 1 .. MaxRecords + 1 /\ pins \in [Pin -> Content \union {Absent}]
       /\ running \in BOOLEAN /\ ~running
  BY <1>2 DEF Init, RecorderAssumption
<1> QED BY <1>7, <1>11, <1>12 DEF RecorderInv

\* One step for each operation of the class, one for its restart, and Tick.
THEOREM RecorderStep ==
  ASSUME RecorderAssumption, RecorderInv, [Next]_vars
  PROVE  RecorderInv'
<1>1. /\ Whole(State) /\ Sound(State) /\ State \in States /\ State.file = file
      /\ now \in Time /\ pins \in [Pin -> Content \union {Absent}]
      /\ running \in BOOLEAN
  BY DEF RecorderInv, Whole, Sound, State
<1>2. file.gz \in BOOLEAN
  BY <1>1, StateTypes
<1>3. ASSUME Start
      PROVE  Whole(State') /\ running' = file'.gz /\ file'.gz \in BOOLEAN
  <2>1. PICK st \in OpenNewFile(State) : Become(st) /\ running' = st.file.gz
    BY <1>3 DEF Start
  <2>2. Whole(st)
    BY <1>1, <1>3, <2>1, OpenSound DEF RecorderInv, Start
  <2>3. State' = st /\ file' = st.file
    BY <2>1, <2>2, BecomeIs DEF Whole, Sound, Become
  <2>4. st.file.gz \in BOOLEAN
    BY <2>2, StateTypes DEF Whole, Sound
  <2> QED BY <2>1, <2>2, <2>3, <2>4
<1>4. ASSUME Stop
      PROVE  Whole(State') /\ ~file'.gz
  <2>1. Become(CloseCurrent(State))
    BY <1>4 DEF Stop
  <2>2. Whole(CloseCurrent(State)) /\ CloseCurrent(State).file.gz = FALSE
    BY <1>1, CloseSound
  <2> QED BY <2>1, <2>2, BecomeIs DEF Whole, Sound, Become
<1>5. ASSUME RotateNow
      PROVE  Whole(State') /\ (~file.gz => ~file'.gz)
  <2>1. PICK st \in IF file.gz THEN OpenNewFile(CloseCurrent(State)) ELSE {State} : Become(st)
    BY <1>5 DEF RotateNow
  <2>2. Whole(st)
    <3>1. CASE file.gz
      <4>1. st \in OpenNewFile(CloseCurrent(State))
        BY <2>1, <3>1
      <4> QED BY <1>1, <4>1, ReopenSound
    <3>2. CASE ~file.gz
      BY <1>1, <2>1, <3>2
    <3> QED BY <3>1, <3>2
  <2>3. State' = st /\ file' = st.file
    BY <2>1, <2>2, BecomeIs DEF Whole, Sound, Become
  <2> QED BY <1>1, <2>1, <2>2, <2>3
<1>6. ASSUME NEW name \in PinNames, PinCurrent(name)
      PROVE  Whole(State') /\ file.gz /\ pins' \in [Pin -> Content \union {Absent}]
  <2>1. PICK st \in OpenNewFile(CloseCurrent(State)) : Become(st)
    BY <1>6 DEF PinCurrent
  <2>2. Whole(st)
    BY <1>1, <2>1, ReopenSound
  <2>3. pins' \in [Pin -> Content \union {Absent}]
    <3> DEFINE copy == CloseCurrent(State).disk[file.current]
    <3>1. copy \in Content \union {Absent}
      <4>1. CloseCurrent(State) \in States
        BY <1>1, CloseSound DEF Whole, Sound
      <4>2. file.current \in Time
        BY <1>1, StateTypes
      <4> QED BY <4>1, <4>2, StateTypes
    <3>2. pins' = [pins EXCEPT ![<<name, now>>] = copy] \/ pins' = pins
      BY <1>6 DEF PinCurrent
    <3> HIDE DEF copy
    <3> QED BY <1>1, <3>1, <3>2
  <2>4. file.gz
    BY <1>6 DEF PinCurrent
  <2> QED BY <2>1, <2>2, <2>3, <2>4, BecomeIs DEF Whole, Sound
<1>7. ASSUME Restart
      PROVE  Whole(State') /\ ~file'.gz
  BY <1>1, <1>7, RestartSound DEF Restart
<1>8. CASE Operation /\ UNCHANGED <<now, next>>
  <2>1. now' \in Time /\ next' \in 1 .. MaxRecords + 1
    BY <1>1, <1>8 DEF RecorderInv
  <2>2. CASE Start
    BY <1>1, <1>3, <2>1, <2>2 DEF RecorderInv, Start
  <2>3. CASE Stop
    BY <1>1, <1>4, <2>1, <2>3 DEF RecorderInv, Stop
  <2>4. CASE RotateNow
    BY <1>1, <1>5, <2>1, <2>4 DEF RecorderInv, RotateNow
  <2>5. CASE \E name \in PinNames : PinCurrent(name)
    <3>1. running' = running
      BY <2>5 DEF PinCurrent
    <3> QED BY <1>6, <2>1, <2>5, <3>1 DEF RecorderInv
  <2>6. CASE Restart
    BY <1>1, <1>7, <2>1, <2>6 DEF RecorderInv, Restart
  <2> QED BY <1>8, <2>2, <2>3, <2>4, <2>5, <2>6 DEF Operation
<1>9. CASE AppendNext /\ UNCHANGED now
  <2>1. next \in Record /\ next' \in 1 .. MaxRecords + 1
    BY <1>9 DEF AppendNext, RecorderInv, Record, RecorderAssumption
  <2>2. AppendRecord(next)
    BY <1>9 DEF AppendNext
  <2>3. running' = running /\ pins' = pins
    BY <2>2 DEF AppendRecord
  <2>4. CASE running
    BY <1>1, <1>9, <2>1, <2>2, <2>3, <2>4, AppendSound DEF RecorderInv
  <2>5. CASE ~running
    <3>1. State' = State /\ file' = file
      BY <2>2, <2>5 DEF AppendRecord, State
    <3> QED BY <1>1, <1>9, <2>1, <2>3, <3>1 DEF RecorderInv
  <2> QED BY <2>4, <2>5
<1>10. CASE Tick
  <2>1. now' \in Time
    BY <1>1, <1>10 DEF Tick, Time, RecorderAssumption
  <2>2. State' = State /\ UNCHANGED <<file, running, pins, next>>
    BY <1>10 DEF Tick, recorderVars, State
  <2> QED BY <1>1, <2>1, <2>2 DEF RecorderInv
<1>11. CASE UNCHANGED vars
  <2>1. State' = State /\ UNCHANGED <<file, running, pins, next, now>>
    BY <1>11 DEF vars, recorderVars, State
  <2> QED BY <1>1, <2>1 DEF RecorderInv
<1> QED BY <1>8, <1>9, <1>10, <1>11 DEF Next

-----------------------------------------------------------------------------
(* The theorems.                                                           *)

\* The invariant in the words of the property.
LEMMA KeptAndPruned ==
  ASSUME RecorderInv
  PROVE  FilesKeptAndPruned
<1>1. State.file = file /\ State.disk = disk /\ State.history = history
  BY DEF State
<1>2. \A t : t \in ToSet(file.rotated) <=> \E i \in DOMAIN file.rotated : file.rotated[i] = t
  BY DEF ToSet
<1>3. Kept(State) /\ Pruned(State)
  BY DEF RecorderInv, Whole, Sound
<1>4. \A i \in DOMAIN file.rotated :
        file.rotated[i] \notin history.reused
          => disk[file.rotated[i]] = history.closed[i]
  BY <1>1, <1>3 DEF Kept, Listed
<1>5. \A t \in Time : disk[t] # Absent =>
        \/ t \in ToSet(file.rotated)
        \/ file.gz /\ t = file.current
        \/ t \in history.inherited
  BY <1>1, <1>2, <1>3 DEF Pruned, Listed
<1> QED BY <1>4, <1>5 DEF FilesKeptAndPruned

\* The invariant types the variables.
LEMMA TypesHold ==
  ASSUME RecorderInv
  PROVE  TypeOK
BY DEF RecorderInv, Whole, Sound, Few, State, States, File, History, TypeOK

(***************************************************************************)
(* The recorder's members stay within their types, and _rotated never      *)
(* lists more than KeepRotations files.                                    *)
(***************************************************************************)
THEOREM TypeCorrect ==
  ASSUME RecorderAssumption
  PROVE  Spec => []TypeOK
<1>1. Init => RecorderInv
  BY RecorderInvInit
<1>2. RecorderInv /\ [Next]_vars => RecorderInv'
  BY RecorderStep
<1>3. RecorderInv => TypeOK
  BY TypesHold
<1> QED BY <1>1, <1>2, <1>3, PTL DEF Spec

(***************************************************************************)
(* CloseCurrent and PruneOldFiles keep a rotated file, whole, until        *)
(* KeepRotations newer ones exist, and let no file of this process escape, *)
(* for any clock, records and rotations, whatever open or write fails.     *)
(***************************************************************************)
THEOREM RotatedFilesKept ==
  ASSUME RecorderAssumption
  PROVE  Spec => []FilesKeptAndPruned
<1>1. Init => RecorderInv
  BY RecorderInvInit
<1>2. RecorderInv /\ [Next]_vars => RecorderInv'
  BY RecorderStep
<1>3. RecorderInv => FilesKeptAndPruned
  BY KeptAndPruned
<1> QED BY <1>1, <1>2, <1>3, PTL DEF Spec

\* Only PinCurrent writes a pinned file, and what it copies is closed.
LEMMA PinStep ==
  ASSUME RecorderAssumption, RecorderInv, [Next]_vars
  PROVE  [\A p \in Pin : pins'[p] # pins[p] => pins'[p] = file.buf]_vars
<1>1. ASSUME NEW name \in PinNames, PinCurrent(name), NEW p \in Pin, pins'[p] # pins[p]
      PROVE  pins'[p] = file.buf
  <2> DEFINE copy == CloseCurrent(State).disk[file.current]
  <2>1. copy # Absent /\ pins' = [pins EXCEPT ![<<name, now>>] = copy]
    BY <1>1 DEF PinCurrent
  <2>2. copy \in {file.buf, Absent}
    <3>1. State.file = file /\ State \in States /\ State.file.gz
      BY <1>1 DEF RecorderInv, Whole, Sound, State, PinCurrent
    <3> QED BY <3>1, CloseWrites
  <2> HIDE DEF copy
  <2>3. pins'[p] \in {pins[p], copy}
    BY <2>1 DEF RecorderInv
  <2> QED BY <1>1, <2>1, <2>2, <2>3
<1>2. CASE \E name \in PinNames : PinCurrent(name)
  BY <1>1, <1>2
<1>3. CASE ~ \E name \in PinNames : PinCurrent(name)
  <2>1. UNCHANGED pins
    BY <1>3 DEF Next, Operation, Start, Stop, RotateNow, Restart, AppendNext, AppendRecord,
                Tick, vars, recorderVars
  <2> QED BY <2>1
<1> QED BY <1>2, <1>3

(***************************************************************************)
(* PinCurrent: a pinned file, when made, holds exactly the records of the  *)
(* window that was being recorded.                                         *)
(***************************************************************************)
THEOREM PinsAreWindows ==
  ASSUME RecorderAssumption
  PROVE  Spec => PinIsWindow
<1>1. Init => RecorderInv
  BY RecorderInvInit
<1>2. RecorderInv /\ [Next]_vars => RecorderInv'
  BY RecorderStep
<1>3. RecorderInv /\ [Next]_vars
        => [\A p \in Pin : pins'[p] # pins[p] => pins'[p] = file.buf]_vars
  BY PinStep
<1> QED BY <1>1, <1>2, <1>3, PTL DEF Spec, PinIsWindow
-----------------------------------------------------------------------------
(* The files, the open one first, as the operations change them.           *)

FilesOf(st) == IF st.file.gz THEN <<st.file.buf>> \o st.history.closed
                             ELSE st.history.closed

\* A list that is the first part of another one.
FirstOf(seq, all) ==
  /\ DOMAIN seq \subseteq DOMAIN all
  /\ \A i \in DOMAIN seq : seq[i] = all[i]

\* A list of files is a sequence of contents.
LEMMA FilesType ==
  ASSUME NEW st, st \in States
  PROVE  FilesOf(st) \in Seq(Content)
BY StateTypes, FirstIs DEF FilesOf

\* CloseCurrent puts the open file on the list, and may drop the oldest.
LEMMA CloseFiles ==
  ASSUME RecorderAssumption, NEW st, Whole(st)
  PROVE  /\ CloseCurrent(st).history.closed = IF st.file.gz THEN Newest(FilesOf(st))
                                                            ELSE st.history.closed
         /\ CloseCurrent(st).history.reused = st.history.reused
         /\ ~st.file.gz => CloseCurrent(st) = st
         /\ FirstOf(FilesOf(CloseCurrent(st)), FilesOf(st))
<1>1. st \in States /\ st.file.gz \in BOOLEAN /\ FilesOf(st) \in Seq(Content)
  BY StateTypes, FilesType DEF Whole, Sound
<1>2. CASE st.file.gz
  <2>1. CloseCurrent(st) = PruneOldFiles(Shut(st))
    BY <1>2 DEF CloseCurrent, Shut
  <2>2. /\ Shut(st) \in States
        /\ Shut(st).history.closed = FilesOf(st)
        /\ Shut(st).history.reused = st.history.reused
    BY <1>1, <1>2, ShutIs DEF FilesOf
  <2>3. /\ CloseCurrent(st).history.closed = Newest(FilesOf(st))
        /\ CloseCurrent(st).history.reused = st.history.reused
    BY <2>1, <2>2, PruneIs
  <2>4. FilesOf(CloseCurrent(st)) = Newest(FilesOf(st))
    BY <2>3, CloseSound DEF FilesOf
  <2>5. FirstOf(Newest(FilesOf(st)), FilesOf(st))
    BY <1>1, NewestIs DEF FirstOf
  <2> QED BY <1>2, <2>3, <2>4, <2>5
<1>3. CASE ~st.file.gz
  BY <1>1, <1>3 DEF CloseCurrent, FirstOf
<1> QED BY <1>1, <1>2, <1>3

\* OpenNewFile puts an empty file at the head of the list, or fails.
LEMMA OpenFiles ==
  ASSUME NEW st, st \in States, ~st.file.gz, NEW op \in OpenNewFile(st)
  PROVE  /\ op.history.closed = st.history.closed
         /\ st.history.reused \subseteq op.history.reused
         /\ op.file.buf = <<>>
         /\ FilesOf(op) \in {FilesOf(st), << <<>> >> \o FilesOf(st)}
<1>1. CASE op = [st EXCEPT !.file.current = now, !.file.buf = <<>>]
  <2>1. op.file = [st.file EXCEPT !.current = now, !.buf = <<>>] /\ op.history = st.history
    BY <1>1 DEF States
  <2>2. op.file.gz = st.file.gz /\ op.file.buf = <<>>
    BY <2>1, StateTypes DEF File
  <2> QED BY <2>1, <2>2 DEF FilesOf
<1>2. CASE op = [file    |-> [st.file EXCEPT !.gz = TRUE, !.current = now, !.buf = <<>>,
                                             !.windowStart = now],
                 disk    |-> [st.disk EXCEPT ![now] = <<>>],
                 history |-> [st.history EXCEPT
                                !.used = @ \union {now},
                                !.reused = @ \union ({now} \intersect st.history.used)]]
  <2>1. /\ op.file = [st.file EXCEPT !.gz = TRUE, !.current = now, !.buf = <<>>,
                                     !.windowStart = now]
        /\ op.history = [st.history EXCEPT
                           !.used = @ \union {now},
                           !.reused = @ \union ({now} \intersect st.history.used)]
    BY <1>2
  <2>2. op.file.gz = TRUE /\ op.file.buf = <<>>
    BY <2>1, StateTypes DEF File
  <2>3. /\ op.history.closed = st.history.closed
        /\ op.history.reused = st.history.reused \union ({now} \intersect st.history.used)
    BY <2>1, StateTypes DEF History
  <2> QED BY <2>2, <2>3 DEF FilesOf
<1> QED BY <1>1, <1>2 DEF OpenNewFile

\* gzwrite puts the record at the end of the open file.
LEMMA WriteFiles ==
  ASSUME NEW st, st \in States, NEW r, NEW w \in Write(st, r), w # CloseCurrent(st)
  PROVE  /\ w.history = st.history /\ w.file.gz = st.file.gz
         /\ w.file.buf = Append(st.file.buf, r)
<1>1. w.file = [st.file EXCEPT !.buf = Append(@, r)] /\ w.history = st.history
  BY DEF Write, States
<1> QED BY <1>1, StateTypes DEF File
=============================================================================
