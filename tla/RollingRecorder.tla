-------------------------- MODULE RollingRecorder ---------------------------
(***************************************************************************)
(* RollingRecorder (transport/rolling_recorder.cpp) and the directory it   *)
(* writes to.  Every operation that touches the file runs under _writeMtx, *)
(* so each is one action.  A session file is named by the wall-clock       *)
(* second in which it is opened, a pinned file by a name and a second.     *)
(*                                                                         *)
(* The file system and zlib are external: opening, writing and copying may *)
(* fail, and what was written to a gz stream is on disk for certain only   *)
(* once the stream is closed.                                              *)
(***************************************************************************)
EXTENDS Naturals, Sequences, FiniteSets, SequencesExt

CONSTANTS
  MaxTime,         \* bound: the clock runs over 0 .. MaxTime, in seconds
  MaxRecords,      \* bound: records 1 .. MaxRecords are appended, in order
  PinNames,        \* the names save_session commands carry
  Window,          \* _rollingMinutes, in the unit of the clock
  KeepRotations,   \* kKeepRotations
  Absent           \* the content of a file that does not exist

\* The modules that use this one assume it.
RecorderAssumption ==
  /\ MaxTime \in Nat
  /\ MaxRecords \in Nat
  /\ Window \in Nat \ {0}
  /\ KeepRotations \in Nat \ {0}
  /\ Absent # <<>>   \* an empty file is not a missing one

Time == 0 .. MaxTime
Record == 1 .. MaxRecords
Pin == PinNames \X Time

VARIABLES
  now,         \* the wall clock
  running,     \* _running
  file,        \* the members that _writeMtx guards (see TypeOK)
  disk,        \* content of the session file of each second
  pins,        \* content of the pinned files
  next,        \* the next record to append
  history      \* see TypeOK; no action reads it

recorderVars == <<running, file, disk, pins, history>>
vars == <<now, next, recorderVars>>

Content == Seq(Record)

TypeOK ==
  /\ now \in Time
  /\ running \in BOOLEAN
  /\ file \in [gz : BOOLEAN,            \* _gz is an open stream
               current : Time,          \* _currentPath
               buf : Content,           \* what was written to the stream
               windowStart : Time,      \* _windowStart
               rotated : Seq(Time)]     \* _rotated, newest first
  /\ Len(file.rotated) <= KeepRotations
  /\ disk \in [Time -> Content \union {Absent}]
  /\ pins \in [Pin -> Content \union {Absent}]
  /\ next \in 1 .. MaxRecords + 1
  /\ history \in [closed : Seq(Content),       \* of file.rotated, when closed
                  used : SUBSET Time,          \* names opened in this process
                  reused : SUBSET Time,        \* names opened more than once
                  inherited : SUBSET Time]     \* files earlier processes left

Init ==
  /\ now = 0
  /\ running = FALSE
  /\ file = [gz |-> FALSE, current |-> 0, buf |-> <<>>, windowStart |-> 0,
             rotated |-> <<>>]
  /\ disk = [t \in Time |-> Absent]
  /\ pins = [p \in Pin |-> Absent]
  /\ next = 1
  /\ history = [closed |-> <<>>, used |-> {}, reused |-> {}, inherited |-> {}]

-----------------------------------------------------------------------------
(* The private helpers, on the state they change: file, disk, history.     *)

State == [file |-> file, disk |-> disk, history |-> history]

Become(st) ==
  /\ file' = st.file
  /\ disk' = st.disk
  /\ history' = st.history

Newest(seq) == SubSeq(seq, 1, IF Len(seq) < KeepRotations THEN Len(seq) ELSE KeepRotations)
Oldest(seq) == SubSeq(seq, KeepRotations + 1, Len(seq))

\* PruneOldFiles: remove the files past the KeepRotations newest.
PruneOneTooMany(st) ==   \* mutant: also deletes the oldest file it keeps
  [file    |-> [st.file EXCEPT !.rotated = Newest(@)],
   disk    |-> [t \in Time |-> IF t \in ToSet(SubSeq(st.file.rotated, KeepRotations,
                                                    Len(st.file.rotated)))
                                 THEN Absent ELSE st.disk[t]],
   history |-> [st.history EXCEPT !.closed = Newest(@)]]

PruneListOnly(st) ==   \* mutant: forgets to delete the files
  [st EXCEPT !.file.rotated = Newest(@), !.history.closed = Newest(@)]

PruneOldFiles(st) ==
  [file    |-> [st.file EXCEPT !.rotated = Newest(@)],
   disk    |-> [t \in Time |-> IF t \in ToSet(Oldest(st.file.rotated))
                                 THEN Absent ELSE st.disk[t]],
   history |-> [st.history EXCEPT !.closed = Newest(@)]]

CloseCurrentNoPrune(st) ==   \* mutant: the list of rotated files grows
  IF ~st.file.gz THEN st
  ELSE [file    |-> [st.file EXCEPT !.gz = FALSE, !.rotated = <<st.file.current>> \o @],
        disk    |-> [st.disk EXCEPT ![st.file.current] = st.file.buf],
        history |-> [st.history EXCEPT !.closed = <<st.file.buf>> \o @]]

CloseCurrent(st) ==
  IF ~st.file.gz THEN st
  ELSE PruneOldFiles(
    [file    |-> [st.file EXCEPT !.gz = FALSE, !.rotated = <<st.file.current>> \o @],
     disk    |-> [st.disk EXCEPT ![st.file.current] = st.file.buf],
     history |-> [st.history EXCEPT !.closed = <<st.file.buf>> \o @]])

\* OpenNewFile: gzopen truncates the file of this second, or fails.
OpenNewFile(st) ==
  {[file    |-> [st.file EXCEPT !.gz = TRUE, !.current = now, !.buf = <<>>,
                                !.windowStart = now],
    disk    |-> [st.disk EXCEPT ![now] = <<>>],
    history |-> [st.history EXCEPT !.used = @ \union {now},
                                   !.reused = @ \union ({now} \intersect st.history.used)]],
   [st EXCEPT !.file.current = now, !.file.buf = <<>>]}

\* gzwrite of a record, or its failure, after which the file is closed.
WriteLeavesOpen(st, r) ==   \* mutant: a failed write does not close the file
  {[st EXCEPT !.file.buf = Append(@, r)], st}

Write(st, r) ==
  {[st EXCEPT !.file.buf = Append(@, r)], CloseCurrent(st)}

-----------------------------------------------------------------------------
(* The operations.  They leave the clock and the callers' state alone.     *)

Start ==
  /\ ~running
  /\ \E st \in OpenNewFile(State) :
       /\ Become(st)
       /\ running' = st.file.gz
  /\ UNCHANGED pins

Stop ==
  /\ running
  /\ running' = FALSE
  /\ Become(CloseCurrent(State))
  /\ UNCHANGED pins

Expired == now - file.windowStart >= Window

\* A record that finds the window over is written to a new file; it is lost
\* when no file is open, none can be opened, or the write fails.
AppendRecord(r) ==
  /\ IF running
       THEN \E st \in IF file.gz /\ Expired THEN OpenNewFile(CloseCurrent(State))
                                           ELSE {State} :
              \E after \in IF st.file.gz THEN Write(st, r) ELSE {st} : Become(after)
       ELSE UNCHANGED <<file, disk, history>>
  /\ UNCHANGED <<running, pins>>

RotateNoClose ==   \* mutant: flushes, does not close
  /\ Become(State)
  /\ UNCHANGED <<running, pins>>

RotateNow ==
  /\ \E st \in IF file.gz THEN OpenNewFile(CloseCurrent(State)) ELSE {State} : Become(st)
  /\ UNCHANGED <<running, pins>>

\* Close, copy the closed file to the pinned one (which is overwritten if
\* it exists; the copy may fail), and open a new file.
PinAfterReopen(name) ==   \* mutant: reopens before it copies
  /\ file.gz
  /\ \E st \in OpenNewFile(CloseCurrent(State)) :
       /\ Become(st)
       /\ pins' = [pins EXCEPT ![<<name, now>>] = st.disk[file.current]]
  /\ UNCHANGED running

PinCurrent(name) ==
  /\ file.gz
  /\ LET closed == CloseCurrent(State)
         copy == closed.disk[file.current]
     IN  /\ \/ /\ copy # Absent
               /\ pins' = [pins EXCEPT ![<<name, now>>] = copy]
            \/ UNCHANGED pins
         /\ \E st \in OpenNewFile(closed) : Become(st)
  /\ UNCHANGED running

(***************************************************************************)
(* What the process leaves behind when it ends: of an open stream any      *)
(* prefix may have reached the disk.                                       *)
(***************************************************************************)
Torn ==
  {[t \in Time |-> IF file.gz /\ t = file.current THEN SubSeq(file.buf, 1, n)
                                                 ELSE disk[t]]
     : n \in 0 .. Len(file.buf)}

\* The process ends without Stop and a new one begins.
Restart ==
  /\ running' = FALSE
  /\ file' = [gz |-> FALSE, current |-> 0, buf |-> <<>>, windowStart |-> 0,
              rotated |-> <<>>]
  /\ disk' \in Torn
  /\ history' = [closed |-> <<>>, used |-> {}, reused |-> {},
                 inherited |-> {t \in Time : disk[t] # Absent}]
  /\ UNCHANGED pins

Tick ==
  /\ now < MaxTime
  /\ now' = now + 1
  /\ UNCHANGED <<next, recorderVars>>

\* The writer thread appends the records in order.
AppendNext ==
  /\ next <= MaxRecords
  /\ next' = next + 1
  /\ AppendRecord(next)

Operation ==
  \/ Start \/ Stop
  \/ RotateNow
  \/ \E name \in PinNames : PinCurrent(name)
  \/ Restart

Next ==
  \/ Operation /\ UNCHANGED <<now, next>>
  \/ AppendNext /\ UNCHANGED now
  \/ Tick

Spec == Init /\ [][Next]_vars

-----------------------------------------------------------------------------
(***************************************************************************)
(* CloseCurrent and PruneOldFiles, whatever else fails: a rotated file is  *)
(* kept, whole, until KeepRotations newer ones exist, unless its name was  *)
(* used twice (two files opened in one second share a name, and the second *)
(* truncates the first); and no file of this process escapes the pruning:  *)
(* each one on disk is the open one, one that is still listed, or a        *)
(* leftover of an earlier process.                                         *)
(***************************************************************************)
FilesKeptAndPruned ==
  /\ \A i \in DOMAIN file.rotated :
       LET t == file.rotated[i]
       IN  t \notin history.reused => disk[t] = history.closed[i]
  /\ \A t \in Time : disk[t] # Absent =>
       \/ t \in ToSet(file.rotated)
       \/ file.gz /\ t = file.current
       \/ t \in history.inherited

(***************************************************************************)
(* A pinned file, when made, holds exactly the records of the window that  *)
(* was being recorded.                                                     *)
(***************************************************************************)
PinIsWindow ==
  [][\A p \in Pin : pins'[p] # pins[p] => pins'[p] = file.buf]_vars

(***************************************************************************)
(* What the class comment says: a pinned file is a permanent copy.  The    *)
(* code overwrites it when the same name is pinned twice in one second, so *)
(* that this does not hold.                                                *)
(***************************************************************************)
PinPermanent ==
  [][\A p \in Pin : pins[p] # Absent => pins'[p] = pins[p]]_vars

(***************************************************************************)
(* What the class comment says of the session files: all but the newest    *)
(* KeepRotations rotated ones are pruned.  The files of an earlier process *)
(* never are.                                                              *)
(***************************************************************************)
DiskBounded ==
  Cardinality({t \in Time : disk[t] # Absent}) <= KeepRotations + 1
=============================================================================
