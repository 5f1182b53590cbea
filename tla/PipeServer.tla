----------------------------- MODULE PipeServer -----------------------------
(***************************************************************************)
(* PipeServer (transport/pipe_server.cpp): an acceptor thread, one reader  *)
(* thread per client, a writer thread that drains the outbound buffers,    *)
(* Broadcast on its caller's thread, and Stop on the owner's.              *)
(*                                                                         *)
(* A session stands for one connection, from the viewer's CreateFile to    *)
(* the close of the server's handle.  The pipe itself (the Windows named   *)
(* pipe API and the viewers) is external: a write succeeds, fails or       *)
(* blocks as the client's end allows.                                      *)
(***************************************************************************)
EXTENDS Naturals, Sequences, FiniteSets, SequencesExt

CONSTANTS
  MaxSessions,    \* bound: that many connections are made
  MaxRecords,     \* bound: Broadcast is called this many times
  HighWatermark,  \* kHighWatermark, in records of size 1
  MaxInstances,   \* _maxInstances: pipe instances open at once
  CountSpan       \* the number of values of the unsigned _connectedCount

ASSUME PipeAssumption ==
  /\ MaxSessions \in Nat
  /\ MaxRecords \in Nat
  /\ HighWatermark \in Nat
  /\ MaxInstances \in Nat \ {0}
  /\ CountSpan \in Nat
  /\ CountSpan > 1

VARIABLES
  running,     \* Impl::running
  mtx,         \* who holds clientsMtx across steps: "free", "broadcast", "stop"
  clients,     \* Impl::clients, in order
  count,       \* _connectedCount
  acceptor,    \* where AcceptorLoop is
  pending,     \* the session AcceptorLoop is setting up
  listening,   \* the instance it waits on: "none", "waiting", "taken"
  alive,       \* ClientSession::alive
  handle,      \* ClientSession::handle names an instance (is not INVALID)
  open,        \* the instance of a session is open
  outbound,    \* ClientSession::outbound
  backlog,     \* ClientSession::outboundPending
  reader,      \* where HandleClient of a session is
  thread,      \* ClientSession::readerThread
  writer,      \* where WriterLoop is
  snap,        \* its snapshot of clients, the part still to be visited
  local,       \* the records it took from the outbound buffer it visits
  bcast,       \* the sessions Broadcast has still to visit
  stop,        \* where Stop is
  doomed,      \* the sessions Stop has still to close and join
  peer,        \* the client's end: "unused", "open", "stalled", "closed"
  sent,        \* records broadcast so far (record n is the n-th)
  offered,     \* history: the records put in the outbound buffer of a session
  delivered    \* history: the records written to the client

acceptorVars == <<acceptor, pending, listening>>
sessionVars  == <<alive, handle, open, reader, thread>>
bufferVars   == <<outbound, backlog, offered>>
writerVars   == <<writer, snap, local, delivered>>
bcastVars    == <<bcast, sent>>
stopVars     == <<running, stop, doomed>>
vars == <<mtx, clients, count, peer, acceptorVars, sessionVars, bufferVars,
          writerVars, bcastVars, stopVars>>

Sessions == 1 .. MaxSessions   \* in the order they connect
NoSession == 0
Record == 1 .. MaxRecords

TypeOK ==
  /\ running \in BOOLEAN
  /\ mtx \in {"free", "broadcast", "stop"}
  /\ clients \in Seq(Sessions)
  /\ count \in 0 .. CountSpan - 1
  /\ acceptor \in {"check", "create", "listen", "register", "spawn",
                   "assign", "exited"}
  /\ pending \in Sessions \union {NoSession}
  /\ listening \in {"none", "waiting", "taken"}
  /\ alive \in [Sessions -> BOOLEAN]
  /\ handle \in [Sessions -> BOOLEAN]
  /\ open \in [Sessions -> BOOLEAN]
  /\ outbound \in [Sessions -> Seq(Record)]
  /\ backlog \in [Sessions -> Nat]
  /\ reader \in [Sessions -> {"none", "check", "reading", "broken",
                              "closing", "exited"}]
  /\ thread \in [Sessions -> {"none", "joinable", "detached", "joined"}]
  /\ writer \in {"snapshot", "visit", "write", "exited"}
  /\ snap \in Seq(Sessions)
  /\ local \in Seq(Record)
  /\ bcast \in Seq(Sessions)
  /\ stop \in {"idle", "wake", "acceptor", "writer", "clients", "join", "done"}
  /\ doomed \in Seq(Sessions)
  /\ peer \in [Sessions -> {"unused", "open", "stalled", "closed"}]
  /\ sent \in 0 .. MaxRecords
  /\ offered \in [Sessions -> Seq(Record)]
  /\ delivered \in [Sessions -> Seq(Record)]

Init ==
  \* Start has been called.
  /\ running = TRUE /\ mtx = "free" /\ clients = <<>> /\ count = 0
  /\ acceptor = "check" /\ pending = NoSession /\ listening = "none"
  /\ alive = [s \in Sessions |-> TRUE]
  /\ handle = [s \in Sessions |-> TRUE]
  /\ open = [s \in Sessions |-> FALSE]
  /\ outbound = [s \in Sessions |-> <<>>]
  /\ backlog = [s \in Sessions |-> 0]
  /\ reader = [s \in Sessions |-> "none"]
  /\ thread = [s \in Sessions |-> "none"]
  /\ writer = "visit" /\ snap = <<>> /\ local = <<>>
  /\ bcast = <<>> /\ sent = 0
  /\ stop = "idle" /\ doomed = <<>>
  /\ peer = [s \in Sessions |-> "unused"]
  /\ offered = [s \in Sessions |-> <<>>]
  /\ delivered = [s \in Sessions |-> <<>>]

-----------------------------------------------------------------------------
(* The clients (external).                                                 *)

\* CreateFile connects to the instance the acceptor listens on.
ClientConnect(s) ==
  /\ peer[s] = "unused" /\ \A r \in 1 .. s - 1 : peer[r] # "unused"
  /\ listening = "waiting"
  /\ peer' = [peer EXCEPT ![s] = "open"]
  /\ open' = [open EXCEPT ![s] = TRUE]
  /\ listening' = "taken"
  /\ pending' = s
  /\ UNCHANGED <<mtx, clients, count, acceptor, alive, handle, reader, thread,
                 bufferVars, writerVars, bcastVars, stopVars>>

\* A viewer stops or resumes reading; its pipe buffer is full meanwhile.
ClientStall(s) ==
  /\ peer[s] \in {"open", "stalled"}
  /\ peer' = [peer EXCEPT ![s] = IF @ = "open" THEN "stalled" ELSE "open"]
  /\ UNCHANGED <<mtx, clients, count, acceptorVars, sessionVars, bufferVars,
                 writerVars, bcastVars, stopVars>>

ClientClose(s) ==
  /\ peer[s] \in {"open", "stalled"}
  /\ peer' = [peer EXCEPT ![s] = "closed"]
  /\ UNCHANGED <<mtx, clients, count, acceptorVars, sessionVars, bufferVars,
                 writerVars, bcastVars, stopVars>>

-----------------------------------------------------------------------------
(* AcceptorLoop.                                                           *)

AcceptorCheck ==
  /\ acceptor = "check"
  /\ acceptor' = IF running THEN "create" ELSE "exited"
  /\ UNCHANGED <<mtx, clients, count, peer, pending, listening, sessionVars,
                 bufferVars, writerVars, bcastVars, stopVars>>

\* CreatePipeInstance; when all instances are in use it fails, and the loop
\* sleeps and tries again.
CreatePipeInstance ==
  /\ acceptor = "create"
  /\ IF Cardinality({s \in Sessions : open[s]}) < MaxInstances
       THEN acceptor' = "listen" /\ listening' = "waiting"
       ELSE acceptor' = "check" /\ UNCHANGED listening
  /\ UNCHANGED <<mtx, clients, count, peer, pending, sessionVars, bufferVars,
                 writerVars, bcastVars, stopVars>>

\* ConnectNamedPipe has returned: leave if stopping, else set up the session.
Connected ==
  /\ acceptor = "listen"
  /\ listening = "taken"
  /\ listening' = "none"
  /\ IF running
       THEN /\ acceptor' = "register"
            /\ UNCHANGED <<pending, open>>
       ELSE /\ acceptor' = "exited"
            /\ pending' = NoSession
            /\ open' = [s \in Sessions |-> open[s] /\ s # pending]
  /\ UNCHANGED <<mtx, clients, count, peer, alive, handle, reader, thread,
                 bufferVars, writerVars, bcastVars, stopVars>>

\* ConnectNamedPipe finds that the client has already gone.
ConnectFailsLeak ==   \* mutant: the instance is not closed
  /\ acceptor = "listen"
  /\ listening = "taken"
  /\ running
  /\ peer[pending] = "closed"
  /\ listening' = "none"
  /\ pending' = NoSession
  /\ acceptor' = "check"
  /\ UNCHANGED <<mtx, clients, count, peer, sessionVars, bufferVars,
                 writerVars, bcastVars, stopVars>>

ConnectFails ==
  /\ acceptor = "listen"
  /\ listening = "taken"
  /\ running
  /\ peer[pending] = "closed"
  /\ listening' = "none"
  /\ open' = [open EXCEPT ![pending] = FALSE]
  /\ pending' = NoSession
  /\ acceptor' = "check"
  /\ UNCHANGED <<mtx, clients, count, peer, alive, handle, reader, thread,
                 bufferVars, writerVars, bcastVars, stopVars>>

Register ==
  /\ acceptor = "register"
  /\ mtx = "free"
  /\ clients' = Append(clients, pending)
  /\ acceptor' = "spawn"
  /\ UNCHANGED <<mtx, count, peer, pending, listening, sessionVars, bufferVars,
                 writerVars, bcastVars, stopVars>>

\* Count the client, then start HandleClient: std::thread starts it before
\* readerThread is assigned.
SpawnReader ==
  /\ acceptor = "spawn"
  /\ count' = (count + 1) % CountSpan
  /\ reader' = [reader EXCEPT ![pending] = "check"]
  /\ acceptor' = "assign"
  /\ UNCHANGED <<mtx, clients, peer, pending, listening, alive, handle,
                 open, thread, bufferVars, writerVars, bcastVars, stopVars>>

AssignReader ==
  /\ acceptor = "assign"
  /\ thread' = [thread EXCEPT ![pending] = "joinable"]
  /\ pending' = NoSession
  /\ acceptor' = "check"
  /\ UNCHANGED <<mtx, clients, count, peer, listening, alive, handle, open,
                 reader, bufferVars, writerVars, bcastVars, stopVars>>

Acceptor ==
  \/ AcceptorCheck \/ CreatePipeInstance \/ Connected \/ ConnectFails
  \/ Register \/ SpawnReader \/ AssignReader

-----------------------------------------------------------------------------
(* HandleClient(s).                                                        *)

ReaderGoto(s, from, to) ==
  /\ reader[s] = from
  /\ reader' = [reader EXCEPT ![s] = to]

ReaderCheck(s) ==
  /\ ReaderGoto(s, "check", IF alive[s] /\ running THEN "reading" ELSE "broken")
  /\ UNCHANGED <<mtx, clients, count, peer, acceptorVars, alive, handle, open,
                 thread, bufferVars, writerVars, bcastVars, stopVars>>

\* ReadFile returns data: its complete lines go to the command handler.
\* (The handler, HandleCommand of plugin.cpp, shares no state with the pipe.)
ReadCommand(s) ==
  /\ peer[s] \in {"open", "stalled"} /\ open[s]
  /\ ReaderGoto(s, "reading", "check")
  /\ UNCHANGED <<mtx, clients, count, peer, acceptorVars, alive, handle, open,
                 thread, bufferVars, writerVars, bcastVars, stopVars>>

\* ReadFile fails: the client has gone, or the handle was closed.
ReadFails(s) ==
  /\ peer[s] = "closed" \/ ~open[s]
  /\ ReaderGoto(s, "reading", "broken")
  /\ UNCHANGED <<mtx, clients, count, peer, acceptorVars, alive, handle, open,
                 thread, bufferVars, writerVars, bcastVars, stopVars>>

ReaderDies(s) ==
  /\ ReaderGoto(s, "broken", "closing")
  /\ alive' = [alive EXCEPT ![s] = FALSE]
  /\ UNCHANGED <<mtx, clients, count, peer, acceptorVars, handle, open,
                 thread, bufferVars, writerVars, bcastVars, stopVars>>

\* _connectedCount.fetch_sub(1)
UncountSigned(s) == count - 1                             \* mutant
UncountIfOpen(s) ==                                       \* mutant
  IF handle[s] THEN (count + CountSpan - 1) % CountSpan ELSE count
Uncount(s) == (count + CountSpan - 1) % CountSpan

\* Disconnect and close the handle if Stop has not, and count the client out.
ReaderEnds(s) ==
  /\ ReaderGoto(s, "closing", "exited")
  /\ handle' = [handle EXCEPT ![s] = FALSE]
  /\ open' = [open EXCEPT ![s] = FALSE]
  /\ count' = Uncount(s)
  /\ UNCHANGED <<mtx, clients, peer, acceptorVars, alive, thread,
                 bufferVars, writerVars, bcastVars, stopVars>>

Reader(s) ==
  \/ ReaderCheck(s) \/ ReadFails(s)
  \/ ReaderDies(s) \/ ReaderEnds(s)

-----------------------------------------------------------------------------
(* WriterLoop.                                                             *)

Dead(s) == ~alive[s]

\* What the erase leaves of clients: the live sessions, in their order.
Survivors ==
  LET upTo[i \in 0 .. Len(clients)] ==
        IF i = 0 THEN <<>>
        ELSE IF Dead(clients[i]) THEN upTo[i - 1]
        ELSE Append(upTo[i - 1], clients[i])
  IN  upTo[Len(clients)]

\* Under clientsMtx: copy the list, then drop the dead sessions from it.
SnapshotAndReap ==
  /\ writer = "snapshot"
  /\ mtx = "free"
  /\ snap' = clients
  /\ clients' = Survivors
  /\ thread' = [s \in Sessions |->
                  IF Dead(s) /\ Contains(clients, s) /\ thread[s] = "joinable"
                    THEN "detached" ELSE thread[s]]
  /\ writer' = "visit"
  /\ UNCHANGED <<mtx, count, peer, acceptorVars, alive, handle, open, reader,
                 bufferVars, local, delivered, bcastVars, stopVars>>

\* local.swap(outbound), outboundPending = 0, under outboundMtx.
TakeAndClear(s) ==   \* mutant: clears local after the swap
  /\ local' = <<>>
  /\ outbound' = [outbound EXCEPT ![s] = <<>>]
  /\ backlog' = [backlog EXCEPT ![s] = 0]

TakeCopy(s) ==       \* mutant: copies, does not swap
  /\ local' = outbound[s]
  /\ backlog' = [backlog EXCEPT ![s] = 0]
  /\ UNCHANGED outbound

TakeNoReset(s) ==    \* mutant: outboundPending is not reset
  /\ local' = outbound[s]
  /\ outbound' = [outbound EXCEPT ![s] = <<>>]
  /\ UNCHANGED backlog

TakeOutbound(s) ==
  /\ local' = outbound[s]
  /\ outbound' = [outbound EXCEPT ![s] = <<>>]
  /\ backlog' = [backlog EXCEPT ![s] = 0]

\* Visit the next session of the snapshot: skip it if dead, else take its
\* whole outbound buffer under outboundMtx.  After the last, read running and
\* start the next round.
Visit ==
  /\ writer = "visit"
  /\ IF snap = <<>>
       THEN /\ writer' = IF running THEN "snapshot" ELSE "exited"
            /\ UNCHANGED <<snap, local, bufferVars>>
       ELSE IF Dead(Head(snap))
         THEN /\ snap' = Tail(snap)
              /\ UNCHANGED <<writer, local, bufferVars>>
         ELSE /\ writer' = "write"
              /\ TakeOutbound(Head(snap))
              /\ UNCHANGED <<snap, offered>>
  /\ UNCHANGED <<mtx, clients, count, peer, acceptorVars, sessionVars,
                 delivered, bcastVars, stopVars>>

\* WriteFile of the next record; it blocks while the client's buffer is full.
WriteRecord ==
  LET s == Head(snap) IN
  /\ writer = "write"
  /\ local # <<>>
  /\ peer[s] = "open" /\ open[s]
  /\ delivered' = [delivered EXCEPT ![s] = Append(@, Head(local))]
  /\ local' = Tail(local)
  /\ UNCHANGED <<mtx, clients, count, peer, acceptorVars, sessionVars, bufferVars,
                 writer, snap, bcastVars, stopVars>>

\* WriteFile fails: the session is marked dead and its reader's ReadFile is
\* cancelled, if it is in one.
WriteFails ==
  LET s == Head(snap) IN
  /\ writer = "write"
  /\ local # <<>>
  /\ peer[s] = "closed" \/ ~open[s]
  /\ alive' = [alive EXCEPT ![s] = FALSE]
  /\ reader' = [reader EXCEPT ![s] =
                  IF @ = "reading" /\ handle[s] THEN "broken" ELSE @]
  /\ local' = <<>>
  /\ snap' = Tail(snap)
  /\ writer' = "visit"
  /\ UNCHANGED <<mtx, clients, count, peer, acceptorVars, handle, open, thread,
                 bufferVars, delivered, bcastVars, stopVars>>

WriteDone ==
  /\ writer = "write"
  /\ local = <<>>
  /\ snap' = Tail(snap)
  /\ writer' = "visit"
  /\ UNCHANGED <<mtx, clients, count, peer, acceptorVars, sessionVars, bufferVars,
                 local, delivered, bcastVars, stopVars>>

Writer ==
  SnapshotAndReap \/ Visit \/ WriteRecord \/ WriteFails \/ WriteDone

-----------------------------------------------------------------------------
(* Broadcast, on the thread of WriterThread::Loop.                         *)

BroadcastBegin ==
  /\ sent < MaxRecords
  /\ mtx = "free"
  /\ mtx' = "broadcast"
  /\ sent' = sent + 1
  /\ bcast' = clients
  /\ UNCHANGED <<clients, count, peer, acceptorVars, sessionVars, bufferVars,
                 writerVars, stopVars>>

OffersAll(s) == backlog[s] + 1 <= HighWatermark   \* mutant: alive is not read
Offers(s)    == alive[s] /\ backlog[s] + 1 <= HighWatermark

\* Under outboundMtx; a record over the high watermark is dropped.
Offer ==
  LET s == Head(bcast) IN
  /\ mtx = "broadcast"
  /\ bcast # <<>>
  /\ IF Offers(s)
       THEN /\ outbound' = [outbound EXCEPT ![s] = Append(@, sent)]
            /\ backlog' = [backlog EXCEPT ![s] = @ + 1]
            /\ offered' = [offered EXCEPT ![s] = Append(@, sent)]
       ELSE UNCHANGED bufferVars
  /\ bcast' = Tail(bcast)
  /\ UNCHANGED <<mtx, clients, count, peer, acceptorVars, sessionVars,
                 writerVars, sent, stopVars>>

BroadcastEnd ==
  /\ mtx = "broadcast"
  /\ bcast = <<>>
  /\ mtx' = "free"
  /\ UNCHANGED <<clients, count, peer, acceptorVars, sessionVars, bufferVars,
                 writerVars, bcastVars, stopVars>>

Broadcasting == BroadcastBegin \/ Offer \/ BroadcastEnd

-----------------------------------------------------------------------------
(* Stop.                                                                   *)

StopBegin ==
  /\ stop = "idle"
  /\ running' = FALSE
  /\ stop' = "wake"
  /\ UNCHANGED <<mtx, clients, count, peer, acceptorVars, sessionVars, bufferVars,
                 writerVars, bcastVars, doomed>>

\* CreateFileA reaches the acceptor only if an instance is listening now.
StopWakes ==
  /\ stop = "wake"
  /\ listening' = IF listening = "waiting" THEN "taken" ELSE listening
  /\ stop' = "acceptor"
  /\ UNCHANGED <<mtx, clients, count, peer, acceptor, pending, sessionVars,
                 bufferVars, writerVars, bcastVars, running, doomed>>

StopJoinsAcceptor ==
  /\ stop = "acceptor"
  /\ acceptor = "exited"
  /\ stop' = "writer"
  /\ UNCHANGED <<mtx, clients, count, peer, acceptorVars, sessionVars, bufferVars,
                 writerVars, bcastVars, running, doomed>>

StopJoinsWriter ==
  /\ stop = "writer"
  /\ writer = "exited"
  /\ mtx = "free"
  /\ mtx' = "stop"
  /\ doomed' = clients
  /\ stop' = "clients"
  /\ UNCHANGED <<clients, count, peer, acceptorVars, sessionVars, bufferVars,
                 writerVars, bcastVars, running>>

\* Mark it dead and close its handle; CancelIoEx and CloseHandle end a
\* ReadFile in progress.
StopOnlyMarks ==   \* mutant: leaves the handle open for the join
  /\ stop = "clients"
  /\ doomed # <<>>
  /\ alive' = [alive EXCEPT ![Head(doomed)] = FALSE]
  /\ stop' = "join"
  /\ UNCHANGED <<mtx, clients, count, peer, acceptorVars, handle, open, reader,
                 thread, bufferVars, writerVars, bcastVars, running, doomed>>

StopCloses ==
  LET s == Head(doomed) IN
  /\ stop = "clients"
  /\ doomed # <<>>
  /\ alive' = [alive EXCEPT ![s] = FALSE]
  /\ handle' = [handle EXCEPT ![s] = FALSE]
  /\ open' = [open EXCEPT ![s] = FALSE]
  /\ reader' = [reader EXCEPT ![s] =
                  IF @ = "reading" /\ handle[s] THEN "broken" ELSE @]
  /\ stop' = "join"
  /\ UNCHANGED <<mtx, clients, count, peer, acceptorVars, thread,
                 bufferVars, writerVars, bcastVars, running, doomed>>

StopJoinsReader ==
  LET s == Head(doomed) IN
  /\ stop = "join"
  /\ thread[s] = "joinable" => reader[s] = "exited"
  /\ thread' = [thread EXCEPT ![s] = IF @ = "joinable" THEN "joined" ELSE @]
  /\ doomed' = Tail(doomed)
  /\ stop' = "clients"
  /\ UNCHANGED <<mtx, clients, count, peer, acceptorVars, alive, handle, open,
                 reader, bufferVars, writerVars, bcastVars, running>>

StopEnds ==
  /\ stop = "clients"
  /\ doomed = <<>>
  /\ clients' = <<>>
  /\ count' = 0
  /\ mtx' = "free"
  /\ stop' = "done"
  /\ UNCHANGED <<peer, acceptorVars, sessionVars, bufferVars, writerVars,
                 bcastVars, running, doomed>>

Stopping ==
  \/ StopWakes \/ StopJoinsAcceptor \/ StopJoinsWriter
  \/ StopCloses \/ StopJoinsReader \/ StopEnds

Client(s) == ClientConnect(s) \/ ClientStall(s) \/ ClientClose(s)

Next ==
  \/ Acceptor
  \/ Writer
  \/ Broadcasting
  \/ StopBegin \/ Stopping
  \/ \E s \in Sessions : Reader(s) \/ ReadCommand(s) \/ Client(s)

(***************************************************************************)
(* Every thread of the server gets to run.  Nothing is assumed of the      *)
(* clients (a ReadFile need not return), nor that Broadcast or Stop is     *)
(* ever called; once called, they run.                                     *)
(***************************************************************************)
Fairness ==
  /\ WF_vars(Acceptor)
  /\ WF_vars(Writer)
  /\ WF_vars(Offer \/ BroadcastEnd)
  /\ WF_vars(Stopping)
  /\ \A s \in Sessions : WF_vars(Reader(s))

Spec == Init /\ [][Next]_vars /\ Fairness
-----------------------------------------------------------------------------
(***************************************************************************)
(* Nothing is lost, duplicated or reordered on the way to a live client:   *)
(* what was written to it, what the writer took and has still to write,    *)
(* and its outbound buffer make up the records Broadcast gave it.  A dead  *)
(* one has received a prefix of them.  (Broadcast and WriterLoop share the *)
(* buffer; the writer swaps it out and writes with no lock held.)          *)
(***************************************************************************)
InFlight(s) == IF writer = "write" /\ Head(snap) = s THEN local ELSE <<>>

NothingLost ==
  \A s \in Sessions :
    IF alive[s]
      THEN delivered[s] \o InFlight(s) \o outbound[s] = offered[s]
      ELSE IsPrefix(delivered[s], offered[s])

(***************************************************************************)
(* The server implements the delivery service: a session joins when it is  *)
(* listed and has left when it is marked dead, whoever marks it.  No       *)
(* session is listed twice, so that one Broadcast gives it a record once;  *)
(* none is given anything before it is listed or once it is dead, and the  *)
(* reaping drops no live one.                                              *)
(***************************************************************************)
Member(s) ==
  IF Dead(s) THEN "gone" ELSE IF Contains(clients, s) THEN "in" ELSE "out"

Newest(s) == IF offered[s] = <<>> THEN 0 ELSE Last(offered[s])

Queued(s) == InFlight(s) \o (IF alive[s] THEN outbound[s] ELSE <<>>)

Delivery == INSTANCE DeliveryService
  WITH Viewers   <- Sessions,
       member    <- [s \in Sessions |-> Member(s)],
       published <- sent,
       newest    <- [s \in Sessions |-> Newest(s)],
       queue     <- [s \in Sessions |-> Queued(s)],
       received  <- delivered

ImplementsDelivery == Delivery!Spec

(***************************************************************************)
(* The two counts the threads keep beside the sessions.  outboundPending   *)
(* is the size of the outbound buffer, so Broadcast drops a record exactly *)
(* when the buffer would pass the high watermark; and until Stop resets    *)
(* it, _connectedCount is the number of sessions counted in whose reader   *)
(* has not counted them out: each once, whichever of its reader, the       *)
(* writer or Stop ends it.                                                 *)
(***************************************************************************)
CountsExact ==
  /\ \A s \in Sessions :
       backlog[s] = Len(outbound[s]) /\ backlog[s] <= HighWatermark
  /\ stop # "done" =>
       count = Cardinality({s \in Sessions : reader[s] \notin {"none", "exited"}})

SomeStalled == \E c \in Sessions : peer[c] = "stalled"

(***************************************************************************)
(* Broadcast is never blocked for good: whoever holds clientsMtx, Stop     *)
(* joining the readers included, lets it go, also while a client has       *)
(* stopped reading.                                                        *)
(***************************************************************************)
LockReleased == mtx # "free" ~> mtx = "free"

(***************************************************************************)
(* A record put in a live client's buffer is written to it, unless the     *)
(* server stops or a client (this one or another) stops reading.           *)
(***************************************************************************)
Delivered ==
  \A s \in Sessions, n \in Record :
    Contains(offered[s], n)
      ~> Contains(delivered[s], n) \/ ~alive[s] \/ ~running \/ SomeStalled

(***************************************************************************)
(* The pipe instance of a client that has gone is closed, so that another  *)
(* client can connect when all instances were in use.                      *)
(***************************************************************************)
InstanceReclaimed ==
  \A s \in Sessions : peer[s] = "closed" ~> ~open[s]

(***************************************************************************)
(* Stop, once past the acceptor, returns unless a client has stopped       *)
(* reading: no thread it joins waits for it or for another.                *)
(***************************************************************************)
StopReturns == stop = "writer" ~> stop = "done" \/ SomeStalled

(***************************************************************************)
(* What the comment on the wake-up in Stop says: it unblocks the acceptor. *)
(* The code does not ensure it: the acceptor may have read running before  *)
(* Stop cleared it and create its instance after the wake-up.              *)
(***************************************************************************)
StopUnblocksAcceptor == stop = "acceptor" ~> acceptor = "exited"

(***************************************************************************)
(* What the comment on the reaping says: dropping a dead session from the  *)
(* list is safe.  It would be if every thread object left joinable were    *)
(* still owned by a listed session; else its destructor ends the process.  *)
(***************************************************************************)
ReapSafe ==
  \A s \in Sessions : thread[s] = "joinable" => Contains(clients, s)
=============================================================================
