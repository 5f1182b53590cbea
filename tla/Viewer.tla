------------------------------- MODULE Viewer -------------------------------
(***************************************************************************)
(* The viewer application (viewer/src/app.cpp): one UI thread that drains  *)
(* the source into the TelemetryStore at every frame, and whose menus and  *)
(* buttons replace the source, send commands and quit.                     *)
(***************************************************************************)
EXTENDS NdjsonSource

CONSTANTS
  DrainMax,    \* a_max of Drain
  RingCap,     \* the cap of every ring of the store
  Stutters     \* the records of kind event.stutter; the others are frames

ASSUME ViewerAssumption ==
  DrainMax \in Nat \ {0} /\ RingCap \in Nat \ {0} /\ Stutters \subseteq Record

VARIABLES
  ui,          \* where the UI thread is
  source,      \* the number of sources opened so far
  goal,        \* why it stops the source: "pipe", "file" or "quit"
  quitting,    \* ~_running
  popup,       \* the Save Session popup is open
  rings,       \* _store: frames and stutters
  total,       \* _store.total_records
  shown        \* history: the records ingested since Clear

storeVars == <<rings, total, shown>>
uiVars    == <<ui, source, goal, quitting, popup>>
vars      == <<sourceVars, uiVars, storeVars>>

KindOf(n) == IF n \in Stutters THEN "stutter" ELSE "frame"

TypeOK ==
  /\ SourceTypeOK
  /\ ui \in {"frame", "menu", "panels", "busy", "exited"}
  /\ source \in 0 .. MaxSources
  /\ goal \in {"pipe", "file", "quit"}
  /\ quitting \in BOOLEAN /\ popup \in BOOLEAN
  /\ rings \in [{"frame", "stutter"} -> Seq(Record)]
  /\ total \in Nat
  /\ shown \in Seq(Record)

EmptyRings == [k \in {"frame", "stutter"} |-> <<>>]

\* Run opens the first source before its loop.
Init ==
  /\ SourceInit
  /\ ui = "menu" /\ source = 0 /\ goal = "pipe"
  /\ quitting = FALSE /\ popup = FALSE
  /\ rings = EmptyRings /\ total = 0 /\ shown = <<>>

-----------------------------------------------------------------------------
(* TelemetryStore.                                                         *)

PushCapped(ring, n) ==
  LET longer == Append(ring, n)
  IN  SubSeq(longer, Len(longer) - Min({RingCap, Len(longer)}) + 1, Len(longer))

Ingest(store, n) == [store EXCEPT ![KindOf(n)] = PushCapped(@, n)]
IngestAll(store, records) ==
  LET after[i \in 0 .. Len(records)] ==
        IF i = 0 THEN store ELSE Ingest(after[i - 1], records[i])
  IN  after[Len(records)]

\* mutant: one ring is left out
ClearForgetsStutters ==
  rings' = [rings EXCEPT !["frame"] = <<>>] /\ total' = 0 /\ shown' = <<>>

\* Clear, of the store only: the panels keep their state.
Clear == rings' = EmptyRings /\ total' = 0 /\ shown' = <<>>

-----------------------------------------------------------------------------
(* The frame.                                                              *)

\* Drain, and Ingest of every record drained.
DrainIntoStore ==
  /\ ui = "frame" /\ ~quitting
  /\ LET drained == SubSeq(queue, 1, Min({DrainMax, Len(queue)}))
     IN  /\ rings' = IngestAll(rings, drained)
         /\ total' = total + Len(drained)
         /\ shown' = shown \o drained
  /\ Drain(DrainMax)
  /\ ui' = "menu"
  /\ UNCHANGED <<source, goal, quitting, popup>>

\* File menu: OpenLivePipe or OpenReplayFile. There is no source to stop yet
\* when Run opens the first.
MenuOpens ==
  /\ ui = "menu" /\ call = "none" /\ source < MaxSources
  /\ goal' \in {"pipe", "file"}
  /\ call' = IF kind = "none" THEN "none" ELSE "stop"
  /\ ui' = "busy"
  /\ UNCHANGED <<pluginVars, link, file, kind, running, worker, handleVars, piece,
                 bufferVars, state, source, quitting, popup, storeVars>>

MenuExits ==
  /\ ui = "menu" /\ kind # "none"
  /\ quitting' = TRUE /\ ui' = "panels"
  /\ UNCHANGED <<sourceVars, source, goal, popup, storeVars>>

\* The old source has stopped: clear the store, make the new one, go on with
\* the frame. (The rest of status_bar::Draw, which still has a reference to the
\* source just destroyed, is left out of that frame.)
SourceOpened ==
  /\ ui = "busy" /\ call = "none" /\ goal \in {"pipe", "file"}
  /\ goal = "pipe" => StartPipe
  /\ goal = "file" => StartFile
  /\ Clear
  /\ source' = source + 1
  /\ ui' = "panels"
  /\ UNCHANGED <<goal, quitting, popup>>

\* Save Session opens the popup, when the source is connected; Save sends the
\* command, in a later frame perhaps, whatever the source is by then.
SaveButton ==
  /\ ui = "menu" /\ ~popup /\ state = "Connected"
  /\ popup' = TRUE /\ ui' = "panels"
  /\ UNCHANGED <<sourceVars, source, goal, quitting, storeVars>>

SaveConfirmed ==
  /\ ui = "menu" /\ popup
  /\ popup' = FALSE
  /\ call' = IF kind = "pipe" THEN "send" ELSE "none"
  /\ ui' = "panels"
  /\ UNCHANGED <<pluginVars, link, file, kind, running, worker, handleVars, piece,
                 bufferVars, state, source, goal, quitting, storeVars>>

NothingPressed ==
  /\ ui = "menu" /\ kind # "none"
  /\ popup' \in {popup, FALSE}
  /\ ui' = "panels"
  /\ UNCHANGED <<sourceVars, source, goal, quitting, storeVars>>

\* The panels draw the store.
Panels ==
  /\ ui = "panels" /\ call = "none"
  /\ ui' = "frame"
  /\ UNCHANGED <<sourceVars, source, goal, quitting, popup, storeVars>>

\* ~App stops the source.
Quit ==
  /\ ui = "frame" /\ quitting
  /\ goal' = "quit" /\ call' = "stop" /\ ui' = "busy"
  /\ UNCHANGED <<pluginVars, link, file, kind, running, worker, handleVars, piece,
                 bufferVars, state, source, quitting, popup, storeVars>>

Exited ==
  /\ ui = "busy" /\ goal = "quit" /\ call = "none"
  /\ ui' = "exited"
  /\ UNCHANGED <<sourceVars, source, goal, quitting, popup, storeVars>>

Ui ==
  \/ DrainIntoStore \/ MenuOpens \/ MenuExits \/ SourceOpened
  \/ SaveButton \/ SaveConfirmed \/ NothingPressed \/ Panels \/ Quit \/ Exited

Calls == (Stop \/ Send) /\ UNCHANGED <<uiVars, storeVars>>
Outside == Plugin /\ UNCHANGED <<uiVars, storeVars>>
PipeWorker == PipeLoop /\ UNCHANGED <<uiVars, storeVars>>
FileWorker == FileLoop /\ UNCHANGED <<uiVars, storeVars>>

Next == Ui \/ Calls \/ Outside \/ PipeWorker \/ FileWorker

Spec == Init /\ [][Next]_vars

(* The threads run. The window is not hidden for ever: a hidden one draws  *)
(* no frames. The plugin is silent for no longer than its heartbeat's      *)
(* period, and no session of the game lasts for ever: a pending read ends. *)
Alive == Plugin /\ link.up /\ UNCHANGED <<uiVars, storeVars>>
FairSpec ==
  /\ Spec
  /\ WF_vars(Ui) /\ WF_vars(Calls)
  /\ WF_vars(PipeWorker) /\ WF_vars(FileWorker) /\ WF_vars(Alive)
-----------------------------------------------------------------------------
(* Safety.                                                                 *)

Received == shown \o queue

(* NdjsonSource::Feed: what reaches the store is a part of what was read,  *)
(* in order and without duplicates, and only whole records; and a record   *)
(* that was read whole is missing only when the line before it was cut off *)
(* by the end of a connection, for _scratch outlives the connection.       *)
LostOnlyAfterTear ==
  /\ \A i \in 1 .. Len(Received) - 1 : Received[i] < Received[i + 1]
  /\ \A i \in DOMAIN fed : EndsLine(fed[i]) =>
       \/ \E k \in DOMAIN Received : Received[k] = fed[i][1]
       \/ i = 1
       \/ i > 2 /\ ~EndsLine(fed[i - 2])
  /\ \A k \in DOMAIN Received : \E i \in DOMAIN fed :
       i > 1 /\ fed[i - 1] = Opening(Received[k]) /\ fed[i] = Closing(Received[k])

(* TelemetryStore: each ring holds the last RingCap records of its kind    *)
(* that the current source has delivered, and the total counts all of      *)
(* them: nothing of an earlier source is left behind.                      *)
StoreIsCurrent ==
  /\ \A k \in {"frame", "stutter"} :
       LET all == {i \in DOMAIN shown : KindOf(shown[i]) = k}
           newer(i) == Cardinality({j \in all : j > i})
       IN  /\ Len(rings[k]) = Min({RingCap, Cardinality(all)})
           /\ \A i \in all : newer(i) < RingCap =>
                rings[k][Len(rings[k]) - newer(i)] = shown[i]
  /\ total = Len(shown)

(* _handle: each connection's handle is closed once, by the loop or by     *)
(* Stop, and none is left open when the loop has ended.                    *)
ClosedOnce ==
  /\ \A c \in Conn : closes[c] <= 1
  /\ worker = "done" => \A c \in Conn : c <= h => closes[c] = 1

-----------------------------------------------------------------------------
(* Liveness.                                                               *)

(* Stop and SendCommand return to the UI thread that calls them, though    *)
(* one joins a worker that may be waiting or reconnecting, and the other   *)
(* waits for the read that is pending on the same handle.                  *)
CallsReturn == call # "none" ~> call = "none"

(* PipeClient::Loop: while the plugin listens and nobody stops the client, *)
(* it connects, however often a connection has ended before.               *)
Reconnects ==
  (kind = "pipe" /\ running /\ handle = NoHandle)
    ~> (handle # NoHandle \/ ~running \/ plugin # "listening")

(* FileSource::Loop: every whole record of a file reaches the store,       *)
(* unless the file is damaged or the user opens another source.            *)
Replayed ==
  (kind = "file" /\ running)
    ~> (\/ file = <<>> /\ piece = <<>> /\ Len(shown) = Cardinality(LineEnds(fed))
        \/ state = "Error" \/ ~running)
=============================================================================
