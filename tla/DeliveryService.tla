-------------------------- MODULE DeliveryService --------------------------
(***************************************************************************)
(* What PipeServer promises its viewers (transport/pipe_server.h): a       *)
(* viewer that has joined is given records as they are published, each at  *)
(* most once and in the order of publication (some it may miss, when it is *)
(* behind), and receives what it was given in that order until it leaves;  *)
(* then it receives at most what was at the front of its queue.            *)
(* PipeServer is the server as it is coded, and is shown to implement this.*)
(***************************************************************************)
EXTENDS Naturals, Sequences

CONSTANT
  Viewers     \* one for each connection

VARIABLES
  member,     \* of a viewer: "out", "in" or, for good, "gone"
  published,  \* records published so far (record n is the n-th)
  newest,     \* the last record a viewer was given, or 0
  queue,      \* what it was given and has not received
  received    \* what it has received

deliveryVars == <<member, published, newest, queue, received>>

Init ==
  /\ member = [v \in Viewers |-> "out"]
  /\ published = 0
  /\ newest = [v \in Viewers |-> 0]
  /\ queue = [v \in Viewers |-> <<>>]
  /\ received = [v \in Viewers |-> <<>>]

Join(v) ==
  /\ member[v] = "out"
  /\ member' = [member EXCEPT ![v] = "in"]
  /\ UNCHANGED <<published, newest, queue, received>>

Publish ==
  /\ published' = published + 1
  /\ UNCHANGED <<member, newest, queue, received>>

\* The last record published, unless the viewer has had it.
Give(v) ==
  /\ member[v] = "in"
  /\ newest[v] < published
  /\ newest' = [newest EXCEPT ![v] = published]
  /\ queue' = [queue EXCEPT ![v] = Append(@, published)]
  /\ UNCHANGED <<member, published, received>>

Receive(v) ==
  /\ queue[v] # <<>>
  /\ received' = [received EXCEPT ![v] = Append(@, Head(queue[v]))]
  /\ queue' = [queue EXCEPT ![v] = Tail(@)]
  /\ UNCHANGED <<member, published, newest>>

\* A viewer leaves, or is found to have left: the end of its queue is dropped.
Leave(v) ==
  /\ member[v] # "out"
  /\ member' = [member EXCEPT ![v] = "gone"]
  /\ \E kept \in 0 .. Len(queue[v]) :
       queue' = [queue EXCEPT ![v] = SubSeq(@, 1, kept)]
  /\ UNCHANGED <<published, newest, received>>

Next ==
  \/ Publish
  \/ \E v \in Viewers : Join(v) \/ Give(v) \/ Receive(v) \/ Leave(v)

Spec == Init /\ [][Next]_deliveryVars
-----------------------------------------------------------------------------
(***************************************************************************)
(* Each viewer receives records in the order in which they were published, *)
(* none twice.                                                             *)
(***************************************************************************)
InOrder ==
  \A v \in Viewers : \A i, j \in DOMAIN received[v] :
    i < j => received[v][i] < received[v][j]
=============================================================================
