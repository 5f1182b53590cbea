---------------------------- MODULE BoundedQueue ----------------------------
(***************************************************************************)
(* What StringSpscRing promises its users (transport/ring_buffer.h): a     *)
(* FIFO of at most Capacity records.  A push that finds it full is refused *)
(* and counted, the queued records stay; a pop takes the oldest record.    *)
(* Push and pop are atomic here.  SpscRing is the ring as it is coded, and *)
(* is shown to implement this module when it has one producer.             *)
(***************************************************************************)
EXTENDS Naturals, Sequences

CONSTANTS
  Records,    \* the records that can be pushed
  Capacity,   \* the number of records the queue holds at most
  CountSpan   \* the drop counter is a size_t: it counts modulo CountSpan

VARIABLES
  queue,      \* the accepted records not yet taken, oldest first
  drops       \* the number of refused records, modulo CountSpan

queueVars == <<queue, drops>>

TypeOK ==
  /\ queue \in Seq(Records)
  /\ Len(queue) <= Capacity
  /\ drops \in 0 .. CountSpan - 1

Init ==
  /\ queue = <<>>
  /\ drops = 0

Accept(r) ==
  /\ Len(queue) < Capacity
  /\ queue' = Append(queue, r)
  /\ UNCHANGED drops

Refuse ==
  /\ Len(queue) = Capacity
  /\ drops' = (drops + 1) % CountSpan
  /\ UNCHANGED queue

\* A push never waits: exactly one of the two outcomes is possible.
Push(r) == Accept(r) \/ Refuse

Take ==
  /\ queue # <<>>
  /\ queue' = Tail(queue)
  /\ UNCHANGED drops

Next ==
  \/ \E r \in Records : Push(r)
  \/ Take

Spec == Init /\ [][Next]_queueVars
=============================================================================
