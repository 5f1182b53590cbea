---------------------------- MODULE NdjsonSource ----------------------------
(***************************************************************************)
(* The viewer's source of records (viewer/src/transport): the framing of   *)
(* NdjsonSource, the worker thread of PipeClient with its reconnects, the  *)
(* worker of FileSource, and what the UI thread does inside Stop and       *)
(* SendCommand. There is one source at a time, and its worker has ended    *)
(* when the next one is made, so one set of variables is enough.           *)
(*                                                                         *)
(* A record is two fragments, the second of which ends with the newline: a *)
(* ReadFile can end between them.                                          *)
(***************************************************************************)
EXTENDS Naturals, Sequences, SequencesExt, FiniteSetsExt

CONSTANTS
  MaxRecords,   \* bound: the plugin sends records 1 .. MaxRecords
  FileRecords,  \* bound: a replayed file holds records 1 .. FileRecords
  MaxBatch,     \* bound: records in one write of the plugin
  MaxBreaks,    \* bound: connections the plugin ends before it is gone for good
  MaxSources,   \* bound: sources the user opens
  BufSize,      \* fragments that fit the read buffer
  ScratchMax    \* fragments _scratch may hold without a newline

ASSUME SourceAssumption ==
  /\ MaxRecords \in Nat /\ FileRecords \in Nat \ {0} /\ MaxBreaks \in Nat
  /\ MaxBatch \in Nat \ {0} /\ MaxSources \in Nat \ {0}
  /\ BufSize \in Nat \ {0} /\ ScratchMax \in Nat \ {0}

VARIABLES
  plugin,    \* what CreateFile finds: "absent", "busy" or "listening"
  sent,      \* the number of records the plugin has sent
  breaks,    \* the number of connections it has ended
  link,      \* the last connection: is its server end up, messages unread
  file,      \* the fragments of a replayed file still to be read
  kind,      \* of the source: "none", "pipe" or "file"
  running,   \* _running
  worker,    \* where its thread is
  h,         \* Loop's local handle; connections are numbered from 1
  handle,    \* _handle, or NoHandle
  mutex,     \* _handleMtx: the UI thread holds it, or nobody does
  piece,     \* the bytes the last read returned
  scratch,   \* _scratch
  queue,     \* _queue
  state,     \* _state
  call,      \* what the UI thread executes inside Stop or SendCommand
  closes,    \* history: how often each connection's handle was closed
  fed        \* history: every fragment given to Feed by this source

pluginVars == <<plugin, sent, breaks>>
bufferVars == <<scratch, queue, fed>>
handleVars == <<h, handle, mutex, closes>>
sourceVars == <<pluginVars, link, file, kind, running, worker, handleVars,
                piece, bufferVars, state, call>>

NoHandle == 0
Conn == 1 .. MaxSources + MaxBreaks
Record == 1 .. Max({MaxRecords, FileRecords})
Opening(n) == <<n, FALSE>>       \* a fragment: its record, is a newline at its end
Closing(n) == <<n, TRUE>>
Fragment == Record \X BOOLEAN
EndsLine(f) == f[2]

SourceTypeOK ==
  /\ plugin \in {"absent", "busy", "listening"}
  /\ sent \in 0 .. MaxRecords /\ breaks \in 0 .. MaxBreaks + 1
  /\ link \in [up : BOOLEAN, unread : Seq(Seq(Fragment))]
  /\ file \in Seq(Fragment)
  /\ kind \in {"none", "pipe", "file"}
  /\ running \in BOOLEAN
  /\ worker \in {"top", "connect", "publish", "test", "read", "pending", "feed",
                 "close", "open", "done"}
  /\ h \in Conn \union {NoHandle} /\ handle \in {NoHandle, h}
  /\ mutex \in {"free", "ui"}
  /\ piece \in Seq(Fragment) /\ Len(piece) <= BufSize
  /\ scratch \in Seq(Fragment) /\ Len(scratch) <= ScratchMax
  /\ queue \in Seq(Record)
  /\ state \in {"Disconnected", "Connecting", "Connected", "Replaying", "Error"}
  /\ call \in {"none", "stop", "lock", "cancel", "closeHandle", "join", "send", "write"}
  /\ closes \in [Conn -> Nat]
  /\ fed \in Seq(Fragment)

SourceInit ==
  /\ plugin = "absent" /\ sent = 0 /\ breaks = 0
  /\ link = [up |-> FALSE, unread |-> <<>>] /\ file = <<>>
  /\ kind = "none" /\ running = FALSE /\ worker = "done"
  /\ h = NoHandle /\ handle = NoHandle /\ mutex = "free"
  /\ piece = <<>> /\ scratch = <<>> /\ queue = <<>>
  /\ state = "Disconnected" /\ call = "none"
  /\ closes = [c \in Conn |-> 0] /\ fed = <<>>

\* The fragments of count records, the first of which is from.
Wire(from, count) ==
  [i \in 1 .. 2 * count |-> IF i % 2 = 1 THEN Opening(from + i \div 2)
                                          ELSE Closing(from + i \div 2 - 1)]

-----------------------------------------------------------------------------
(* The plugin's end of the pipe.                                           *)

PluginStatus ==
  /\ ~link.up /\ breaks <= MaxBreaks
  /\ plugin' \in {"absent", "busy", "listening"} \ {plugin}
  /\ UNCHANGED <<sent, breaks, link, file, kind, running, worker, handleVars,
                 piece, bufferVars, state, call>>

\* One write of the plugin: one or more whole records, as one message.
PluginSends(count) ==
  /\ link.up
  /\ sent + count <= MaxRecords
  /\ sent' = sent + count
  /\ link' = [link EXCEPT !.unread = Append(@, Wire(sent + 1, count))]
  /\ UNCHANGED <<plugin, breaks, file, kind, running, worker, handleVars, piece,
                 bufferVars, state, call>>

\* The game exits, or drops this client: unread data may be lost. After the
\* last break the game is not started again.
PluginBreaks ==
  /\ link.up /\ breaks <= MaxBreaks
  /\ breaks' = breaks + 1
  /\ \E unread \in {<<>>, link.unread} : link' = [up |-> FALSE, unread |-> unread]
  /\ plugin' \in {"absent"} \union (IF breaks < MaxBreaks THEN {"listening"} ELSE {})
  /\ UNCHANGED <<sent, file, kind, running, worker, handleVars, piece,
                 bufferVars, state, call>>

Plugin == PluginStatus \/ PluginBreaks \/ \E k \in 1 .. MaxBatch : PluginSends(k)

-----------------------------------------------------------------------------
(* NdjsonSource::Feed: split at the newlines, parse each line. A line that *)
(* is not exactly one record does not parse and is dropped.                *)

LineEnds(s) == {i \in DOMAIN s : EndsLine(s[i])}
Parses(s, i) ==
  /\ i > 1 /\ s[i - 1] = Opening(s[i][1])
  /\ i > 2 => EndsLine(s[i - 2])
\* The records of the lines, one newline after the other.
Parsed(s) ==
  LET upTo[i \in 0 .. Len(s)] ==
        IF i = 0 THEN <<>>
        ELSE IF EndsLine(s[i]) /\ Parses(s, i) THEN Append(upTo[i - 1], s[i][1])
        ELSE upTo[i - 1]
  IN  upTo[Len(s)]

\* mutant: the unfinished line is dropped with the finished ones
RestForgets(s) == <<>>

Rest(s) ==
  LET rest == SubSeq(s, Max(LineEnds(s) \union {0}) + 1, Len(s))
  IN  IF Len(rest) > ScratchMax THEN <<>> ELSE rest

Feed ==
  /\ worker = "feed"
  /\ queue' = queue \o Parsed(scratch \o piece)
  /\ scratch' = Rest(scratch \o piece)
  /\ fed' = fed \o piece
  /\ piece' = <<>>
  /\ worker' = "test"
  /\ UNCHANGED <<pluginVars, link, file, kind, running, handleVars, state, call>>

-----------------------------------------------------------------------------
(* PipeClient::Loop.                                                       *)

LoopTop ==
  /\ worker = "top"
  /\ worker' = IF running THEN "connect" ELSE "done"
  /\ state' = IF running THEN "Connecting" ELSE state
  /\ UNCHANGED <<pluginVars, link, file, kind, running, handleVars, piece,
                 bufferVars, call>>

\* CreateFile fails: wait and start over. Only a pipe that is not there is
\* reported as an error.
ConnectFails ==
  /\ worker = "connect"
  /\ plugin # "listening"
  /\ state' = IF plugin = "busy" THEN state ELSE "Error"
  /\ worker' = "top"
  /\ UNCHANGED <<pluginVars, link, file, kind, running, handleVars, piece,
                 bufferVars, call>>

ConnectSucceeds ==
  /\ worker = "connect"
  /\ plugin = "listening"
  /\ h' = h + 1
  /\ link' = [up |-> TRUE, unread |-> <<>>]
  /\ worker' = "publish"
  /\ UNCHANGED <<pluginVars, file, kind, running, handle, mutex, closes, piece,
                 bufferVars, state, call>>

Publish ==
  /\ worker = "publish"
  /\ mutex = "free"
  /\ handle' = h
  /\ state' = "Connected"
  /\ worker' = "test"
  /\ UNCHANGED <<pluginVars, link, file, kind, running, h, mutex, closes, piece,
                 bufferVars, call>>

TestRunning ==
  /\ worker = "test"
  /\ worker' = CASE running -> "read"
                 [] ~running /\ kind = "pipe" -> "close"
                 [] OTHER -> "done"
  /\ UNCHANGED <<pluginVars, link, file, kind, running, handleVars, piece,
                 bufferVars, state, call>>

\* ReadFile on the local handle, which Stop may have closed since the test.
ReadBegins ==
  /\ worker = "read" /\ kind = "pipe"
  /\ worker' = IF closes[h] = 0 THEN "pending" ELSE "close"
  /\ UNCHANGED <<pluginVars, link, file, kind, running, handleVars, piece,
                 bufferVars, state, call>>

\* A message that does not fit the buffer is read in pieces (ERROR_MORE_DATA).
ReadReturns ==
  /\ worker = "pending"
  /\ link.unread # <<>>
  /\ LET message == Head(link.unread)
         fits == Len(message) <= BufSize
     IN  /\ piece' = IF fits THEN message ELSE SubSeq(message, 1, BufSize)
         /\ link' = [link EXCEPT !.unread =
                       IF fits THEN Tail(@)
                       ELSE <<SubSeq(message, BufSize + 1, Len(message))>> \o Tail(@)]
  /\ worker' = "feed"
  /\ UNCHANGED <<pluginVars, file, kind, running, handleVars, bufferVars, state, call>>

ReadFails ==
  /\ worker = "pending"
  /\ ~link.up /\ link.unread = <<>>
  /\ worker' = "close"
  /\ UNCHANGED <<pluginVars, link, file, kind, running, handleVars, piece,
                 bufferVars, state, call>>

\* mutant: the local handle is closed, whoever closed it before
LoopClosesAgain ==
  /\ worker = "close"
  /\ mutex = "free"
  /\ closes' = [closes EXCEPT ![h] = @ + 1]
  /\ handle' = NoHandle
  /\ link' = [up |-> FALSE, unread |-> <<>>]
  /\ state' = "Disconnected"
  /\ worker' = "top"
  /\ UNCHANGED <<pluginVars, file, kind, running, h, mutex, piece, bufferVars, call>>

\* mutant: _handle is not reset
LoopClosesKeeps ==
  /\ worker = "close"
  /\ mutex = "free"
  /\ closes' = IF handle = NoHandle THEN closes ELSE [closes EXCEPT ![handle] = @ + 1]
  /\ link' = [up |-> FALSE, unread |-> <<>>]
  /\ state' = "Disconnected"
  /\ worker' = "top"
  /\ UNCHANGED <<pluginVars, file, kind, running, h, handle, mutex, piece, bufferVars, call>>

\* mutant: the end of a connection ends the loop
LoopClosesForGood ==
  /\ worker = "close"
  /\ mutex = "free"
  /\ closes' = IF handle = NoHandle THEN closes ELSE [closes EXCEPT ![handle] = @ + 1]
  /\ handle' = NoHandle
  /\ link' = [up |-> FALSE, unread |-> <<>>]
  /\ state' = "Disconnected"
  /\ worker' = "done"
  /\ UNCHANGED <<pluginVars, file, kind, running, h, mutex, piece, bufferVars, call>>

\* The handle is closed, unless Stop has done it. The plugin then sees the
\* connection end.
LoopCloses ==
  /\ worker = "close"
  /\ mutex = "free"
  /\ closes' = IF handle = NoHandle THEN closes ELSE [closes EXCEPT ![handle] = @ + 1]
  /\ handle' = NoHandle
  /\ link' = [up |-> FALSE, unread |-> <<>>]
  /\ state' = "Disconnected"
  /\ worker' = "top"
  /\ UNCHANGED <<pluginVars, file, kind, running, h, mutex, piece, bufferVars, call>>

PipeLoop ==
  /\ kind = "pipe"
  /\ \/ LoopTop \/ ConnectFails \/ ConnectSucceeds \/ Publish \/ TestRunning
     \/ ReadBegins \/ ReadReturns \/ ReadFails \/ Feed \/ LoopCloses

-----------------------------------------------------------------------------
(* FileSource::Loop.                                                       *)

OpenFile ==
  /\ worker = "open"
  /\ \/ state' = "Error" /\ worker' = "done"
     \/ state' = "Replaying" /\ worker' = "test"
  /\ UNCHANGED <<pluginVars, link, file, kind, running, handleVars, piece,
                 bufferVars, call>>

\* mutant: a short read is taken for the end of the file
ReadChunkShort ==
  /\ worker = "read" /\ file # <<>>
  /\ LET n == Min({BufSize, Len(file)})
     IN  /\ piece' = SubSeq(file, 1, n)
         /\ file' = SubSeq(file, n + 1, Len(file))
  /\ worker' = IF file' = <<>> THEN "done" ELSE "feed"
  /\ UNCHANGED <<pluginVars, link, kind, running, handleVars, bufferVars, state, call>>

ReadChunk ==
  /\ worker = "read" /\ file # <<>>
  /\ LET n == Min({BufSize, Len(file)})
     IN  /\ piece' = SubSeq(file, 1, n)
         /\ file' = SubSeq(file, n + 1, Len(file))
  /\ worker' = "feed"
  /\ UNCHANGED <<pluginVars, link, kind, running, handleVars, bufferVars, state, call>>

EndOfFile ==
  /\ worker = "read" /\ file = <<>>
  /\ worker' = "done"
  /\ UNCHANGED <<pluginVars, link, file, kind, running, handleVars, piece,
                 bufferVars, state, call>>

\* gzread finds the stream damaged, or torn off by a crash.
FileDamaged ==
  /\ worker = "read"
  /\ state' = "Error" /\ worker' = "done"
  /\ UNCHANGED <<pluginVars, link, file, kind, running, handleVars, piece,
                 bufferVars, call>>

FileLoop ==
  /\ kind = "file"
  /\ OpenFile \/ TestRunning \/ ReadChunk \/ EndOfFile \/ FileDamaged \/ Feed

-----------------------------------------------------------------------------
(* Stop, on the UI thread. The handle is a synchronous one: the system     *)
(* lets one operation at a time run on it, so that CloseHandle and         *)
(* WriteFile wait for a ReadFile that is pending.                          *)

StopClears ==
  /\ call = "stop"
  /\ running' = FALSE
  /\ call' = IF kind = "pipe" THEN "lock" ELSE "join"
  /\ UNCHANGED <<pluginVars, link, file, kind, worker, handleVars, piece,
                 bufferVars, state>>

StopLocks ==
  /\ call = "lock"
  /\ mutex = "free"
  /\ \/ handle = NoHandle /\ call' = "join" /\ UNCHANGED mutex
     \/ handle # NoHandle /\ call' = "cancel" /\ mutex' = "ui"
  /\ UNCHANGED <<pluginVars, link, file, kind, running, worker, h, handle, closes,
                 piece, bufferVars, state>>

\* CancelIoEx ends a ReadFile that is pending, and only that.
StopCancels ==
  /\ call = "cancel"
  /\ worker' = IF worker = "pending" THEN "close" ELSE worker
  /\ call' = "closeHandle"
  /\ UNCHANGED <<pluginVars, link, file, kind, running, handleVars, piece,
                 bufferVars, state>>

StopCloses ==
  /\ call = "closeHandle"
  /\ worker # "pending"
  /\ closes' = [closes EXCEPT ![handle] = @ + 1]
  /\ handle' = NoHandle /\ mutex' = "free"
  /\ link' = [up |-> FALSE, unread |-> <<>>]
  /\ call' = "join"
  /\ UNCHANGED <<pluginVars, file, kind, running, worker, h, piece, bufferVars, state>>

StopJoins ==
  /\ call = "join"
  /\ worker = "done"
  /\ state' = "Disconnected"
  /\ call' = "none"
  /\ UNCHANGED <<pluginVars, link, file, kind, running, worker, handleVars, piece,
                 bufferVars>>

Stopping == call \in {"stop", "lock", "cancel", "closeHandle", "join"}
Stop == StopClears \/ StopLocks \/ StopCancels \/ StopCloses \/ StopJoins

(* SendCommand, on the UI thread, holds the mutex across its WriteFile.    *)

\* mutant: returns without a handle and with the mutex
SendLocksForGood ==
  /\ call = "send"
  /\ mutex = "free"
  /\ \/ handle = NoHandle /\ call' = "none" /\ mutex' = "ui"
     \/ handle # NoHandle /\ call' = "write" /\ mutex' = "ui"
  /\ UNCHANGED <<pluginVars, link, file, kind, running, worker, h, handle, closes,
                 piece, bufferVars, state>>

SendLocks ==
  /\ call = "send"
  /\ mutex = "free"
  /\ \/ handle = NoHandle /\ call' = "none" /\ UNCHANGED mutex
     \/ handle # NoHandle /\ call' = "write" /\ mutex' = "ui"
  /\ UNCHANGED <<pluginVars, link, file, kind, running, worker, h, handle, closes,
                 piece, bufferVars, state>>

SendWrites ==
  /\ call = "write"
  /\ worker # "pending"
  /\ call' = "none" /\ mutex' = "free"
  /\ UNCHANGED <<pluginVars, link, file, kind, running, worker, h, handle, closes,
                 piece, bufferVars, state>>

Send == SendLocks \/ SendWrites

-----------------------------------------------------------------------------
(* What the application does with a source.                                *)

\* A new object: everything but the plugin's side starts afresh.
Fresh ==
  /\ running' = TRUE
  /\ scratch' = <<>> /\ queue' = <<>> /\ fed' = <<>> /\ piece' = <<>>
  /\ state' = "Disconnected"
  /\ UNCHANGED <<pluginVars, link, handleVars, call>>

StartPipe ==
  /\ kind' = "pipe" /\ worker' = "top" /\ UNCHANGED file
  /\ Fresh

\* A recorded file: the records of a session, the last possibly cut short by a crash.
StartFile ==
  /\ kind' = "file" /\ worker' = "open"
  /\ file' \in {Wire(1, FileRecords), Front(Wire(1, FileRecords))}
  /\ Fresh

Drain(max) ==
  /\ queue' = SubSeq(queue, max + 1, Len(queue))
  /\ UNCHANGED <<pluginVars, link, file, kind, running, worker, handleVars, piece,
                 scratch, fed, state, call>>
=============================================================================
