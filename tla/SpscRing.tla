------------------------------ MODULE SpscRing ------------------------------
(***************************************************************************)
(* StringSpscRing (transport/ring_buffer.h), one action per access to the  *)
(* shared state, for any set of threads that push and the one thread that  *)
(* pops.  _head and _tail are size_t: they run over 0 .. IndexSpan - 1     *)
(* (IndexSpan stands for 2^64) and their difference wraps.                 *)
(*                                                                         *)
(* Accesses interleave one at a time.  For the ring that is what the       *)
(* release stores of _head and _tail and the acquire loads that pair with  *)
(* them give: a slot is read only after the store that published it.       *)
(***************************************************************************)
EXTENDS Naturals, Sequences

CONSTANTS
  Capacity,    \* number of slots
  IndexSpan,   \* number of values of a size_t
  Producers,   \* the threads that call TryPush
  Records,     \* the records they push
  Empty        \* a slot that was never written, or was moved from

(***************************************************************************)
(* The constructor rounds its hint up to a power of two, and a size_t has  *)
(* a power of two of values, so the slots divide the index range evenly.   *)
(* This is the one fact about powers of two that the ring depends on.      *)
(***************************************************************************)
ASSUME RingAssumption ==
  /\ Capacity \in Nat \ {0}
  /\ IndexSpan \in Nat
  /\ Capacity < IndexSpan
  /\ IndexSpan % Capacity = 0
  /\ Empty \notin Records

\* RoundUpPow2: the least power of two that is not below the hint.
RoundUpPow2(hint) ==
  CHOOSE c \in {2^k : k \in 0 .. hint} :
    c >= hint /\ \A d \in {2^k : k \in 0 .. hint} : d >= hint => c <= d

VARIABLES
  head,      \* _head
  tail,      \* _tail
  dropped,   \* _dropped
  slots,     \* _slots
  pc,        \* where each producer is in TryPush
  rec,       \* a_record of each producer
  seen,      \* the value of _head each producer has loaded
  cpc,       \* where the consumer is in TryPop
  out        \* a_out of the consumer

producerVars == <<pc, rec, seen>>
consumerVars == <<cpc, out>>
vars == <<head, tail, dropped, slots, pc, rec, seen, cpc, out>>

Index == 0 .. IndexSpan - 1
SlotIndex == 0 .. Capacity - 1

TypeOK ==
  /\ head \in Index /\ tail \in Index /\ dropped \in Index
  /\ slots \in [SlotIndex -> Records \union {Empty}]
  /\ pc \in [Producers -> {"idle", "loaded", "write", "publish"}]
  /\ rec \in [Producers -> Records \union {Empty}]
  /\ seen \in [Producers -> Index]
  /\ cpc \in {"idle", "move", "publish"}
  /\ out \in Records \union {Empty}

-----------------------------------------------------------------------------
\* Arithmetic of size_t: i + 1, and h - t.
SuccUnbounded(i) == i + 1   \* mutant: never wraps
Succ(i) == IF i + 1 = IndexSpan THEN 0 ELSE i + 1
Lead(h, t) == IF h >= t THEN h - t ELSE h + IndexSpan - t

\* i & _mask, and the slot k places after it.
Slot(i) == i % Capacity
SlotAfter(i, k) ==
  IF Slot(i) + k < Capacity THEN Slot(i) + k ELSE Slot(i) + k - Capacity

Init ==
  /\ head = 0 /\ tail = 0 /\ dropped = 0
  /\ slots = [s \in SlotIndex |-> Empty]
  /\ pc = [p \in Producers |-> "idle"]
  /\ rec = [p \in Producers |-> Empty]
  /\ seen = [p \in Producers |-> 0]
  /\ cpc = "idle"
  /\ out = Empty

-----------------------------------------------------------------------------
\* TryPush(r): load _head.
PushLoadHead(p, r) ==
  /\ pc[p] = "idle"
  /\ pc' = [pc EXCEPT ![p] = "loaded"]
  /\ rec' = [rec EXCEPT ![p] = r]
  /\ seen' = [seen EXCEPT ![p] = head]
  /\ UNCHANGED <<head, tail, dropped, slots, consumerVars>>

(***************************************************************************)
(* Load _tail and compare.  When full, _dropped.fetch_add is taken in the  *)
(* same step: it commutes with every other access.                         *)
(***************************************************************************)
PushRejectOldest(p) ==   \* mutant: makes room by advancing _tail
  /\ pc[p] = "loaded"
  /\ Lead(seen[p], tail) >= Capacity
  /\ dropped' = Succ(dropped)
  /\ tail' = Succ(tail)
  /\ pc' = [pc EXCEPT ![p] = "write"]
  /\ UNCHANGED <<head, slots, rec, seen, consumerVars>>

PushReject(p) ==
  /\ pc[p] = "loaded"
  /\ Lead(seen[p], tail) >= Capacity
  /\ dropped' = Succ(dropped)
  /\ pc' = [pc EXCEPT ![p] = "idle"]
  /\ rec' = [rec EXCEPT ![p] = Empty]
  /\ UNCHANGED <<head, tail, slots, seen, consumerVars>>

PushAdmitOneTooMany(p) ==   \* mutant: > for >=
  /\ pc[p] = "loaded"
  /\ Lead(seen[p], tail) <= Capacity
  /\ pc' = [pc EXCEPT ![p] = "write"]
  /\ UNCHANGED <<head, tail, dropped, slots, rec, seen, consumerVars>>

PushAdmit(p) ==
  /\ pc[p] = "loaded"
  /\ Lead(seen[p], tail) < Capacity
  /\ pc' = [pc EXCEPT ![p] = "write"]
  /\ UNCHANGED <<head, tail, dropped, slots, rec, seen, consumerVars>>

PushWrite(p) ==
  /\ pc[p] = "write"
  /\ slots' = [slots EXCEPT ![Slot(seen[p])] = rec[p]]
  /\ pc' = [pc EXCEPT ![p] = "publish"]
  /\ UNCHANGED <<head, tail, dropped, rec, seen, consumerVars>>

PushPublish(p) ==
  /\ pc[p] = "publish"
  /\ head' = Succ(seen[p])
  /\ pc' = [pc EXCEPT ![p] = "idle"]
  /\ rec' = [rec EXCEPT ![p] = Empty]
  /\ UNCHANGED <<tail, dropped, slots, seen, consumerVars>>

-----------------------------------------------------------------------------
\* TryPop: load _tail and _head; an empty ring is left as it is.
PopAdmitUnchecked ==   \* mutant: no test for an empty ring
  /\ cpc = "idle"
  /\ cpc' = "move"
  /\ UNCHANGED <<head, tail, dropped, slots, producerVars, out>>

PopAdmit ==
  /\ cpc = "idle"
  /\ tail # head
  /\ cpc' = "move"
  /\ UNCHANGED <<head, tail, dropped, slots, producerVars, out>>

\* Move the record out.  The consumer's out is dead until the next pop, so
\* it is forgotten once the pop is complete.
PopMove ==
  /\ cpc = "move"
  /\ out' = slots[Slot(tail)]
  /\ slots' = [slots EXCEPT ![Slot(tail)] = Empty]
  /\ cpc' = "publish"
  /\ UNCHANGED <<head, tail, dropped, producerVars>>

PopPublish ==
  /\ cpc = "publish"
  /\ tail' = Succ(tail)
  /\ cpc' = "idle"
  /\ out' = Empty
  /\ UNCHANGED <<head, dropped, slots, producerVars>>

Producing(p) ==
  \/ \E r \in Records : PushLoadHead(p, r)
  \/ PushReject(p)
  \/ PushAdmit(p)
  \/ PushWrite(p)
  \/ PushPublish(p)

Consuming == PopAdmit \/ PopMove \/ PopPublish

Next == Consuming \/ \E p \in Producers : Producing(p)

Spec == Init /\ [][Next]_vars

-----------------------------------------------------------------------------
(***************************************************************************)
(* No data race on a slot: a producer about to assign a slot and the       *)
(* consumer about to move from one never name the same slot.               *)
(* (TryPush's plain write of _slots[head & _mask] against TryPop's plain   *)
(* move out of _slots[tail & _mask].)                                      *)
(***************************************************************************)
NoSlotRace ==
  \A p \in Producers :
    pc[p] = "write" /\ cpc = "move" => Slot(seen[p]) # Slot(tail)

\* The records published and not yet taken, oldest first.
Contents ==
  [k \in 1 .. Lead(head, tail) |->
     IF k = 1 /\ cpc = "publish" THEN out ELSE slots[SlotAfter(tail, k - 1)]]

(***************************************************************************)
(* The ring implements the bounded FIFO: a push takes effect when it       *)
(* stores _head, a refused one when it finds the ring full, a pop when it  *)
(* stores _tail.  No record that TryPush accepted is lost, duplicated,     *)
(* reordered or seen half-written, and none is refused unless Capacity     *)
(* records are in the ring.                                                *)
(***************************************************************************)
Queue == INSTANCE BoundedQueue
  WITH CountSpan <- IndexSpan, queue <- Contents, drops <- dropped

ImplementsQueue == Queue!Spec

(***************************************************************************)
(* Why it does, for one producer: the inductive invariant.                 *)
(***************************************************************************)
SingleProducer == \A p, q \in Producers : p = q

\* The published records are a window of at most Capacity consecutive slots.
WindowInv ==
  /\ Lead(head, tail) <= Capacity
  /\ Slot(head) = SlotAfter(tail, Lead(head, tail))

\* Between its load and its store of _head a producer's copy stays current,
\* and a place it has been admitted to stays free.
ProducerInv ==
  \A p \in Producers :
    /\ pc[p] # "idle" => seen[p] = head /\ rec[p] \in Records
    /\ pc[p] \in {"write", "publish"} => Lead(head, tail) < Capacity
    /\ pc[p] = "publish" => slots[Slot(head)] = rec[p]

\* Every record of the window is whole; the consumer pops from a non-empty one.
ConsumerInv ==
  /\ cpc # "idle" => head # tail
  /\ cpc = "publish" => out \in Records
  /\ \A k \in 0 .. Lead(head, tail) - 1 :
       (k = 0 /\ cpc = "publish") \/ slots[SlotAfter(tail, k)] \in Records

RingInv == TypeOK /\ WindowInv /\ ProducerInv /\ ConsumerInv
=============================================================================
