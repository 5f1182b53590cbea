---------------------------- MODULE WriterThread ----------------------------
(***************************************************************************)
(* WriterThread (transport/writer_thread.cpp) between its producers and    *)
(* the two ends it feeds, with the start-up that attaches the recorder     *)
(* (plugin.cpp) and the crash handler (crash/seh_handler.cpp).             *)
(*                                                                         *)
(* The ring is the queue it implements (BoundedQueue), so a Submit is one  *)
(* step; the recorder is RollingRecorder; of the pipe server this module   *)
(* keeps the sequence of records given to Broadcast.                       *)
(***************************************************************************)
EXTENDS Naturals, Sequences, SequencesExt

CONSTANTS
  MaxRecords,      \* bound: records 1 .. MaxRecords are submitted, in order
  Capacity,        \* of the ring
  MaxTime,         \* bound of the recorder's clock
  PinNames,        \* the names save_session commands carry
  Window,          \* _rollingMinutes
  KeepRotations,   \* kKeepRotations
  Absent           \* the content of a file that does not exist

ASSUME WriterAssumption == MaxRecords \in Nat /\ Capacity \in Nat \ {0}

VARIABLES
  queue, drops,    \* _ring
  running,         \* _running
  attached,        \* _recorder is not null
  load,            \* where SKSEPluginLoad is
  loop,            \* where Loop is
  rec,             \* its local rec; NoRecord before the first and once used
  stop,            \* where the caller of Stop is
  handler,         \* where the vectored exception handler is
  crashed,         \* the thread that faulted: "none", "writer" or "other"
  now, recording, file, disk, pins, history,   \* the recorder
  next,            \* the next record to submit
  accepted,        \* history: the records TryPush accepted
  broadcast,       \* history: the records given to Broadcast
  owed,            \* history: the number of records accepted when Stop began
  atCrash,         \* history: the file the handler's rotation closed
  crashRecord      \* history: the handler's record, if the ring accepted it

NoRecord == 0
Record == 1 .. MaxRecords

Ring == INSTANCE BoundedQueue
  WITH Records <- Record, CountSpan <- MaxRecords + 1

Recorder == INSTANCE RollingRecorder
  WITH running <- recording

ASSUME RecorderIsAssumed == Recorder!RecorderAssumption

ringVars     == <<queue, drops, next, accepted>>
recorderVars == <<recording, file, disk, pins, history>>
threadVars   == <<running, loop, rec, broadcast>>
stopVars     == <<stop, owed>>
crashVars    == <<handler, crashed, atCrash, crashRecord>>
vars == <<ringVars, recorderVars, threadVars, stopVars, crashVars,
          attached, load, now>>

TypeOK ==
  /\ Ring!TypeOK
  /\ Recorder!TypeOK
  /\ running \in BOOLEAN /\ attached \in BOOLEAN
  /\ load \in {"recorder", "attach", "install", "ready"}
  /\ loop \in {"check", "pop", "broadcast", "append",
               "drainPop", "drainBroadcast", "drainAppend", "exited"}
  /\ rec \in Record \union {NoRecord}
  /\ stop \in {"idle", "joining", "done"}
  /\ handler \in {"armed", "submit", "rotate", "returned"}
  /\ crashed \in {"none", "writer", "other"}
  /\ accepted \in Seq(Record) /\ broadcast \in Seq(Record)
  /\ owed \in 0 .. MaxRecords
  /\ atCrash \in Seq(Record)
  /\ crashRecord \in Record \union {NoRecord}

Init ==
  \* The pipe server and this thread have been started.
  /\ Ring!Init
  /\ Recorder!Init
  /\ running = TRUE /\ attached = FALSE
  /\ load = "recorder" /\ loop = "check" /\ rec = NoRecord
  /\ stop = "idle" /\ handler = "armed" /\ crashed = "none"
  /\ accepted = <<>> /\ broadcast = <<>> /\ owed = 0
  /\ atCrash = <<>> /\ crashRecord = NoRecord

-----------------------------------------------------------------------------
(* Start-up: start the recorder, attach it if it started, install the      *)
(* crash handler.                                                          *)

LoadRecorder ==
  /\ load = "recorder"
  /\ Recorder!Start
  /\ load' = IF recording' THEN "attach" ELSE "install"
  /\ UNCHANGED <<ringVars, threadVars, stopVars, crashVars, attached, now>>

AttachRecorder ==
  /\ load = "attach"
  /\ attached' = TRUE
  /\ load' = "install"
  /\ UNCHANGED <<ringVars, recorderVars, threadVars, stopVars, crashVars, now>>

InstallHandler ==
  /\ load = "install"
  /\ load' = "ready"
  /\ UNCHANGED <<ringVars, recorderVars, threadVars, stopVars, crashVars,
                 attached, now>>

Loading == LoadRecorder \/ AttachRecorder \/ InstallHandler

-----------------------------------------------------------------------------
(* Submit, from a sampler, the heartbeat or the crash handler.             *)

Submit ==
  /\ next <= MaxRecords
  /\ next' = next + 1
  /\ \/ Ring!Accept(next) /\ accepted' = Append(accepted, next)
     \/ Ring!Refuse /\ UNCHANGED accepted

SubmitSample ==
  /\ Submit
  /\ UNCHANGED <<recorderVars, threadVars, stopVars, crashVars, attached, load, now>>

-----------------------------------------------------------------------------
(* Loop.                                                                   *)

LoopGoto(from, to) ==
  /\ loop = from
  /\ loop' = to

CheckRunning ==
  /\ LoopGoto("check", IF running THEN "pop" ELSE "drainPop")
  /\ UNCHANGED <<ringVars, recorderVars, running, rec, broadcast, stopVars,
                 crashVars, attached, load, now>>

\* TryPop, in the loop (which sleeps when the ring is empty) and in the drain
\* (which ends then).
PopAtLeastTwo(from, some, none) ==   \* mutant: takes a ring of one for empty
  /\ IF Len(queue) > 1
       THEN LoopGoto(from, some) /\ Ring!Take /\ rec' = Head(queue)
       ELSE LoopGoto(from, none) /\ UNCHANGED <<queue, drops, rec>>
  /\ UNCHANGED <<next, accepted, recorderVars, running, broadcast, stopVars,
                 crashVars, attached, load, now>>

PopKeepsQueue(from, some, none) ==   \* mutant: does not advance _tail
  /\ IF queue # <<>>
       THEN LoopGoto(from, some) /\ rec' = Head(queue) /\ UNCHANGED <<queue, drops>>
       ELSE LoopGoto(from, none) /\ UNCHANGED <<queue, drops, rec>>
  /\ UNCHANGED <<next, accepted, recorderVars, running, broadcast, stopVars,
                 crashVars, attached, load, now>>

Pop(from, some, none) ==
  /\ IF queue # <<>>
       THEN LoopGoto(from, some) /\ Ring!Take /\ rec' = Head(queue)
       ELSE LoopGoto(from, none) /\ UNCHANGED <<queue, drops, rec>>
  /\ UNCHANGED <<next, accepted, recorderVars, running, broadcast, stopVars,
                 crashVars, attached, load, now>>

Broadcast(from, to) ==
  /\ LoopGoto(from, to)
  /\ broadcast' = Append(broadcast, rec)
  /\ UNCHANGED <<ringVars, recorderVars, running, rec, stopVars, crashVars,
                 attached, load, now>>

\* Load _recorder, and append if it is attached.
AppendToRecorder(from, to) ==
  /\ LoopGoto(from, to)
  /\ rec' = NoRecord
  /\ IF attached THEN Recorder!AppendRecord(rec) ELSE UNCHANGED recorderVars
  /\ UNCHANGED <<ringVars, running, broadcast, stopVars, crashVars,
                 attached, load, now>>

DrainNothing ==   \* mutant: exits without draining
  /\ LoopGoto("drainPop", "exited")
  /\ UNCHANGED <<ringVars, recorderVars, running, rec, broadcast, stopVars,
                 crashVars, attached, load, now>>

Drain ==
  \/ Pop("drainPop", "drainBroadcast", "exited")
  \/ Broadcast("drainBroadcast", "drainAppend")
  \/ AppendToRecorder("drainAppend", "drainPop")

Loop ==
  /\ crashed # "writer"
  /\ \/ CheckRunning
     \/ Pop("pop", "broadcast", "check")
     \/ Broadcast("broadcast", "append")
     \/ AppendToRecorder("append", "check")
     \/ Drain

-----------------------------------------------------------------------------
(* Stop.                                                                   *)

StopBegin ==
  /\ stop = "idle"
  /\ running' = FALSE
  /\ stop' = "joining"
  /\ owed' = Len(accepted)
  /\ UNCHANGED <<ringVars, recorderVars, loop, rec, broadcast, crashVars,
                 attached, load, now>>

StopJoins ==
  /\ stop = "joining"
  /\ loop = "exited"
  /\ stop' = "done"
  /\ UNCHANGED <<ringVars, recorderVars, threadVars, owed, crashVars,
                 attached, load, now>>

-----------------------------------------------------------------------------
(***************************************************************************)
(* The crash handler.  It runs on the thread that faulted; the others go   *)
(* on.  It runs once (g_handled): a first-chance exception that the game   *)
(* handles uses it up.                                                     *)
(***************************************************************************)
HandlerGoto(from, to) ==
  /\ handler = from
  /\ handler' = to

Fault ==
  /\ load = "ready"
  /\ HandlerGoto("armed", "submit")
  /\ \E t \in {"writer", "other"} :
       /\ t = "writer" => loop # "exited"
       /\ crashed' = t
  /\ UNCHANGED <<ringVars, recorderVars, threadVars, stopVars, atCrash,
                 crashRecord, attached, load, now>>

HandlerSubmits ==
  /\ HandlerGoto("submit", "rotate")
  /\ Submit
  /\ crashRecord' = IF accepted' # accepted THEN next ELSE NoRecord
  /\ UNCHANGED <<recorderVars, threadVars, stopVars, crashed, atCrash,
                 attached, load, now>>

(***************************************************************************)
(* RotateNow.  The writer thread may have faulted while it held _writeMtx; *)
(* taking the mutex again on the same thread is undefined, and in the      *)
(* build it throws, which the handler swallows.                            *)
(***************************************************************************)
HandlerRotates ==
  /\ HandlerGoto("rotate", "returned")
  /\ \/ /\ Recorder!RotateNow
        /\ atCrash' = IF file.gz THEN file.buf ELSE <<>>
     \/ /\ crashed = "writer" /\ loop \in {"append", "drainAppend"} /\ attached
        /\ UNCHANGED <<recorderVars, atCrash>>
  /\ UNCHANGED <<ringVars, threadVars, stopVars, crashed, crashRecord,
                 attached, load, now>>

\* The thread of the writer goes on when the game handled the exception.
Resume ==
  /\ handler = "returned"
  /\ crashed = "writer"
  /\ crashed' = "none"
  /\ UNCHANGED <<ringVars, recorderVars, threadVars, stopVars, handler,
                 atCrash, crashRecord, attached, load, now>>

Handler == Fault \/ HandlerSubmits \/ HandlerRotates \/ Resume

(***************************************************************************)
(* A save_session command, on a reader thread of the pipe server: pin the  *)
(* current file.  (The acknowledgement is a Submit like any other.)        *)
(***************************************************************************)
SaveSession ==
  /\ load # "recorder"
  /\ \E name \in PinNames : Recorder!PinCurrent(name)
  /\ UNCHANGED <<ringVars, threadVars, stopVars, crashVars, attached, load, now>>

Tick ==
  /\ Recorder!Tick
  /\ UNCHANGED <<queue, drops, accepted, threadVars, stopVars, crashVars,
                 attached, load>>

Next ==
  \/ Loading
  \/ SubmitSample
  \/ Loop
  \/ StopBegin \/ StopJoins
  \/ Handler
  \/ SaveSession
  \/ Tick

\* The writer thread keeps running.  (The process may end in any state; what
\* it then leaves on disk is one of Recorder!Torn.)
Spec == Init /\ [][Next]_vars /\ WF_vars(Loop)

-----------------------------------------------------------------------------
(***************************************************************************)
(* From Submit to Broadcast nothing the ring accepted is lost, duplicated  *)
(* or reordered: what was broadcast, the record in hand and the ring make  *)
(* up the records accepted.                                                *)
(***************************************************************************)
InHand == IF loop \in {"broadcast", "drainBroadcast"} THEN <<rec>> ELSE <<>>

TeeInOrder == broadcast \o InHand \o queue = accepted

(***************************************************************************)
(* When Stop returns, every record accepted before it was called has been  *)
(* broadcast.                                                              *)
(***************************************************************************)
DrainedOnStop == stop = "done" => Len(broadcast) >= owed

(***************************************************************************)
(* Why it holds: the inductive invariant of Loop and Stop.  The thread     *)
(* drains only after it has read _running as false, so after Stop began,   *)
(* and it leaves the drain only with an empty ring and nothing in hand.    *)
(***************************************************************************)
Draining == {"drainPop", "drainBroadcast", "drainAppend"}

WriterInv ==
  /\ queue \in Seq(Record) /\ accepted \in Seq(Record) /\ broadcast \in Seq(Record)
  /\ next \in 1 .. MaxRecords + 1
  /\ owed \in Nat
  /\ TeeInOrder
  /\ owed <= Len(accepted)
  /\ loop \in {"broadcast", "drainBroadcast"} => rec \in Record
  /\ stop = "idle" => running
  /\ loop \in Draining \union {"exited"} => ~running
  /\ loop = "exited" => Len(broadcast) >= owed
  /\ stop = "done" => loop = "exited"

(***************************************************************************)
(* Every file, the pinned ones too, holds an unbroken run of the broadcast *)
(* records, and of two session files the newer one holds the later         *)
(* records: a failed write or rotation ends a file, it never leaves a gap  *)
(* inside one.  (Append after Broadcast in Loop; Append closing the file   *)
(* when gzwrite fails.)                                                    *)
(***************************************************************************)
RunOf(s, t) == \E i, j \in 0 .. Len(t) : s = SubSeq(t, i + 1, j)

Files == (IF file.gz THEN <<file.buf>> ELSE <<>>) \o history.closed

FilesAreRuns ==
  /\ \A i \in DOMAIN Files : RunOf(Files[i], broadcast)
  /\ \A p \in DOMAIN pins : pins[p] # Absent => RunOf(pins[p], broadcast)
  /\ \A i, j \in DOMAIN Files :
       i < j => \A m \in ToSet(Files[i]), n \in ToSet(Files[j]) : m > n

(***************************************************************************)
(* When the handler has returned, what was recorded before the crash is on *)
(* disk even if the process ends now, unless the file has been pruned      *)
(* since or its name was used a second time.                               *)
(***************************************************************************)
CrashKeepsWindow ==
  handler = "returned" /\ atCrash # <<>> =>
    \/ \A left \in Recorder!Torn : \E t \in Recorder!Time : left[t] = atCrash
    \/ history.reused # {}
    \/ Len(history.closed) = KeepRotations /\ ~Contains(history.closed, atCrash)

(***************************************************************************)
(* A record the ring accepted is broadcast, unless the writer has gone or  *)
(* faulted.                                                                *)
(***************************************************************************)
Drained ==
  \A n \in Record :
    Contains(accepted, n)
      ~> Contains(broadcast, n) \/ crashed = "writer" \/ loop = "exited"

(***************************************************************************)
(* What seh_handler.h says the handler does: the crash record goes to the  *)
(* recorder and the recorder is flushed.  The record is still in the ring  *)
(* when the handler rotates the file, so an ending process may lose it.    *)
(***************************************************************************)
CrashRecordOnDisk ==
  handler = "returned" /\ crashRecord # NoRecord /\ attached /\ file.gz =>
    \E t \in Recorder!Time : disk[t] # Absent /\ Contains(disk[t], crashRecord)
=============================================================================
