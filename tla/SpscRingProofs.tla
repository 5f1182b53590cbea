--------------------------- MODULE SpscRingProofs ---------------------------
(* Proofs about SpscRing, for every capacity, index width and set of       *)
(* records, and for one producer.                                          *)
EXTENDS SpscRing, TLAPS

-----------------------------------------------------------------------------
(* Arithmetic of slots and indices. *)

\* A division with remainder is unique.
LEMMA ModUnique ==
  ASSUME NEW c \in Nat \ {0}, NEW k \in Nat, NEW s \in 0 .. c - 1
  PROVE  (c * k + s) % c = s
OBVIOUS

\* Adding one moves the remainder by one, and back to 0 at c.
LEMMA ModStep ==
  ASSUME NEW i \in Nat, NEW c \in Nat \ {0}
  PROVE  (i + 1) % c = IF (i % c) + 1 < c THEN (i % c) + 1 ELSE 0
<1> DEFINE q == i \div c
           r == i % c
<1>1. q \in Nat /\ r \in 0 .. c - 1 /\ i = c * q + r
  OBVIOUS
<1> HIDE DEF q, r
<1>2. CASE r + 1 < c
  <2>1. i + 1 = c * q + (r + 1)
    BY <1>1
  <2>2. (i + 1) % c = r + 1
    BY <1>1, <1>2, <2>1, ModUnique
  <2>3. QED BY <1>2, <2>2 DEF r
<1>3. CASE r + 1 = c
  <2>1. i + 1 = c * (q + 1) + 0
    BY <1>1, <1>3
  <2>2. (i + 1) % c = 0
    BY <1>1, <2>1, ModUnique
  <2>3. QED BY <1>3, <2>2 DEF r
<1>4. QED BY <1>1, <1>2, <1>3

\* An index names a slot.
LEMMA SlotRange ==
  ASSUME NEW i \in Index
  PROVE  Slot(i) \in SlotIndex
BY RingAssumption DEF Slot, SlotIndex, Index

\* The next index is an index.
LEMMA SuccRange ==
  ASSUME NEW i \in Index
  PROVE  Succ(i) \in Index
BY RingAssumption DEF Succ, Index

\* The slot of the next index is the next slot, also where the index wraps.
LEMMA SlotSucc ==
  ASSUME NEW i \in Index
  PROVE  Slot(Succ(i)) = SlotAfter(i, 1)
<1>1. (i + 1) % Capacity = IF Slot(i) + 1 < Capacity THEN Slot(i) + 1 ELSE 0
  <2>1. i \in Nat /\ Capacity \in Nat \ {0}
    BY RingAssumption DEF Index
  <2>2. QED BY <2>1, ModStep DEF Slot
<1>2. Slot(i) \in SlotIndex
  BY SlotRange
<1>3. CASE i + 1 = IndexSpan
  <2>1. 0 % Capacity = 0
    BY RingAssumption
  <2>2. QED BY <1>1, <1>2, <1>3, <2>1, RingAssumption
            DEF Slot, Succ, SlotAfter, SlotIndex
<1>4. CASE i + 1 # IndexSpan
  BY <1>1, <1>2, <1>4, RingAssumption DEF Slot, Succ, SlotAfter, SlotIndex
<1>5. QED BY <1>3, <1>4

\* Lead is the distance from tail up to head, also across the wrap.
LEMMA LeadProps ==
  ASSUME NEW h \in Index, NEW t \in Index
  PROVE  /\ Lead(h, t) \in Index
         /\ Lead(h, t) = 0 <=> h = t
         /\ Lead(h, t) + 1 < IndexSpan => Lead(Succ(h), t) = Lead(h, t) + 1
         /\ h # t => Lead(h, Succ(t)) = Lead(h, t) - 1
BY RingAssumption DEF Lead, Succ, Index

\* Slots less than Capacity places apart are different.
LEMMA SlotAfterProps ==
  ASSUME NEW i \in Index, NEW k \in SlotIndex
  PROVE  /\ SlotAfter(i, k) \in SlotIndex
         /\ SlotAfter(i, 0) = Slot(i)
         /\ \A j \in SlotIndex : SlotAfter(i, j) = SlotAfter(i, k) => j = k
         /\ SlotAfter(Succ(i), k) = IF k + 1 < Capacity
                                    THEN SlotAfter(i, k + 1) ELSE Slot(i)
<1>1. Slot(i) \in SlotIndex /\ Slot(Succ(i)) = SlotAfter(i, 1)
  BY SlotRange, SlotSucc
<1>2. QED BY <1>1, RingAssumption DEF SlotAfter, SlotIndex

-----------------------------------------------------------------------------
(***************************************************************************)
(* Type correctness, for any number of producers.                          *)
(***************************************************************************)
LEMMA TypeStep == TypeOK /\ [Next]_vars => TypeOK'
<1> SUFFICES ASSUME TypeOK, [Next]_vars PROVE TypeOK'
  OBVIOUS
<1> USE DEF TypeOK
<1>1. ASSUME NEW p \in Producers, NEW r \in Records, PushLoadHead(p, r)
      PROVE  TypeOK'
  BY <1>1 DEF PushLoadHead, consumerVars
<1>2. ASSUME NEW p \in Producers, PushReject(p)
      PROVE  TypeOK'
  BY <1>2, SuccRange DEF PushReject, consumerVars
<1>3. ASSUME NEW p \in Producers, PushAdmit(p)
      PROVE  TypeOK'
  BY <1>3 DEF PushAdmit, consumerVars
<1>4. ASSUME NEW p \in Producers, PushWrite(p)
      PROVE  TypeOK'
  BY <1>4, SlotRange DEF PushWrite, consumerVars
<1>5. ASSUME NEW p \in Producers, PushPublish(p)
      PROVE  TypeOK'
  BY <1>5, SuccRange DEF PushPublish, consumerVars
<1>6. CASE PopAdmit
  BY <1>6 DEF PopAdmit, producerVars
<1>7. CASE PopMove
  BY <1>7, SlotRange DEF PopMove, producerVars
<1>8. CASE PopPublish
  BY <1>8, SuccRange DEF PopPublish, producerVars
<1>9. CASE UNCHANGED vars
  BY <1>9 DEF vars
<1>10. QED
  BY <1>1, <1>2, <1>3, <1>4, <1>5, <1>6, <1>7, <1>8, <1>9
  DEF Next, Producing, Consuming

(* Every reachable state of the ring is well typed: the counters stay      *)
(* size_t values and the masked index stays inside the slot array.         *)
THEOREM TypeCorrect == Spec => []TypeOK
<1>1. Init => TypeOK
  BY RingAssumption DEF Init, TypeOK, Index, SlotIndex
<1>2. QED BY <1>1, TypeStep, PTL DEF Spec

-----------------------------------------------------------------------------
(***************************************************************************)
(* The inductive invariant, for one producer.                              *)
(***************************************************************************)
LEMMA RingInvInit == Init => RingInv
<1> SUFFICES ASSUME Init PROVE RingInv
  OBVIOUS
<1>1. TypeOK
  BY RingAssumption DEF Init, TypeOK, Index, SlotIndex
<1>2. Lead(head, tail) = 0
  BY DEF Init, Lead
<1>3. WindowInv
  <2>1. 0 \in Index /\ 0 \in SlotIndex
    BY RingAssumption DEF Index, SlotIndex
  <2>2. SlotAfter(0, 0) = Slot(0)
    BY <2>1, SlotAfterProps
  <2>3. QED BY <1>2, <2>2, RingAssumption DEF WindowInv, Init
<1>4. ProducerInv /\ ConsumerInv
  BY <1>2 DEF Init, ProducerInv, ConsumerInv
<1>5. QED BY <1>1, <1>3, <1>4 DEF RingInv

\* Storing _head extends the window by the slot just written.
LEMMA PublishStep ==
  ASSUME RingInv, SingleProducer, NEW p \in Producers, PushPublish(p)
  PROVE  /\ Lead(head', tail') = Lead(head, tail) + 1
         /\ WindowInv' /\ ProducerInv' /\ ConsumerInv'
<1> DEFINE n == Lead(head, tail)
<1> USE DEF RingInv
<1>1. /\ head \in Index /\ tail \in Index
      /\ head' = Succ(head) /\ tail' = tail /\ slots' = slots
      /\ out' = out /\ cpc' = cpc
      /\ pc' = [pc EXCEPT ![p] = "idle"]
      /\ slots[Slot(head)] = rec[p] /\ rec[p] \in Records
      /\ n < Capacity
  BY DEF PushPublish, ProducerInv, TypeOK, consumerVars
<1>2. n \in SlotIndex /\ n \in Index
  BY <1>1, LeadProps, RingAssumption DEF SlotIndex, Index
<1>3. Lead(head', tail') = n + 1
  <2>1. n + 1 < IndexSpan
    BY <1>1, <1>2, RingAssumption DEF Index
  <2>2. Lead(Succ(head), tail) = n + 1
    BY <1>1, <2>1, LeadProps
  <2>3. QED BY <1>1, <2>2
<1>4. Slot(head) = SlotAfter(tail, n)
  BY DEF WindowInv
<1>5. WindowInv'
  <2>1. Slot(head') = SlotAfter(head, 1)
    BY <1>1, SlotSucc
  <2>2. Slot(tail) \in SlotIndex
    BY <1>1, SlotRange
  <2>3. Slot(head') = SlotAfter(tail, n + 1)
    BY <1>2, <1>4, <2>1, <2>2, RingAssumption DEF SlotAfter, SlotIndex
  <2>4. n + 1 <= Capacity
    BY <1>1, <1>2, RingAssumption DEF SlotIndex
  <2>5. QED BY <1>1, <1>3, <2>3, <2>4 DEF WindowInv
<1>6. ProducerInv'
  <2>1. \A q \in Producers : q = p
    BY DEF SingleProducer
  <2>2. pc'[p] = "idle"
    BY <1>1 DEF TypeOK
  <2>3. QED BY <2>1, <2>2 DEF ProducerInv
<1>7. ConsumerInv'
  <2>1. cpc' # "idle" => head' # tail'
    BY <1>1, <1>2, <1>3, LeadProps, SuccRange DEF SlotIndex
  <2>2. cpc' = "publish" => out' \in Records
    BY <1>1 DEF ConsumerInv
  <2>3. ASSUME NEW k \in 0 .. Lead(head', tail') - 1
        PROVE  (k = 0 /\ cpc' = "publish") \/ slots'[SlotAfter(tail', k)] \in Records
    <3>1. CASE k = n
      BY <1>1, <1>4, <3>1
    <3>2. CASE k # n
      <4>1. k \in 0 .. n - 1
        BY <1>2, <1>3, <3>2 DEF SlotIndex
      <4>2. QED BY <1>1, <4>1 DEF ConsumerInv
    <3>3. QED BY <3>1, <3>2
  <2>4. QED BY <2>1, <2>2, <2>3 DEF ConsumerInv
<1>8. QED BY <1>3, <1>5, <1>6, <1>7

\* Writing a slot touches none of the window.
LEMMA WriteStep ==
  ASSUME RingInv, SingleProducer, NEW p \in Producers, PushWrite(p)
  PROVE  /\ \A k \in 0 .. Lead(head, tail) - 1 :
              slots'[SlotAfter(tail, k)] = slots[SlotAfter(tail, k)]
         /\ WindowInv' /\ ProducerInv' /\ ConsumerInv'
<1> DEFINE n == Lead(head, tail)
<1> USE DEF RingInv
<1>1. /\ head \in Index /\ tail \in Index
      /\ head' = head /\ tail' = tail /\ cpc' = cpc /\ out' = out
      /\ rec' = rec /\ seen' = seen
      /\ pc' = [pc EXCEPT ![p] = "publish"]
      /\ seen[p] = head /\ rec[p] \in Records
      /\ slots' = [slots EXCEPT ![Slot(head)] = rec[p]]
      /\ n < Capacity
  BY DEF PushWrite, ProducerInv, TypeOK, consumerVars
<1>2. n \in SlotIndex
  BY <1>1, LeadProps, RingAssumption DEF SlotIndex, Index
<1>3. Slot(head) = SlotAfter(tail, n) /\ Slot(head) \in SlotIndex
  BY <1>1, SlotRange DEF WindowInv
<1>4. ASSUME NEW k \in 0 .. n - 1
      PROVE  slots'[SlotAfter(tail, k)] = slots[SlotAfter(tail, k)]
  <2>1. k \in SlotIndex /\ k # n
    BY <1>2, RingAssumption DEF SlotIndex
  <2>2. SlotAfter(tail, n) = SlotAfter(tail, k) => n = k
    BY <1>1, <1>2, <2>1, SlotAfterProps
  <2>3. SlotAfter(tail, k) # Slot(head) /\ SlotAfter(tail, k) \in SlotIndex
    BY <1>1, <1>3, <2>1, <2>2, SlotAfterProps
  <2>4. QED BY <1>1, <2>3 DEF TypeOK
<1>5. WindowInv'
  BY <1>1 DEF WindowInv
<1>6. ProducerInv'
  <2>1. \A q \in Producers : q = p
    BY DEF SingleProducer
  <2>2. pc'[p] = "publish" /\ slots'[Slot(head)] = rec[p]
    BY <1>1, <1>3 DEF TypeOK
  <2>3. QED BY <1>1, <2>1, <2>2 DEF ProducerInv
<1>7. ConsumerInv'
  BY <1>1, <1>4 DEF ConsumerInv
<1>8. QED BY <1>4, <1>5, <1>6, <1>7

\* Moving a record out touches only the oldest slot of the window.
LEMMA MoveStep ==
  ASSUME RingInv, PopMove
  PROVE  /\ Lead(head, tail) \in 1 .. Capacity
         /\ slots[SlotAfter(tail, 0)] \in Records
         /\ out' = slots[SlotAfter(tail, 0)]
         /\ \A k \in 1 .. Lead(head, tail) - 1 :
              slots'[SlotAfter(tail, k)] = slots[SlotAfter(tail, k)]
         /\ WindowInv' /\ ProducerInv' /\ ConsumerInv'
<1> DEFINE n == Lead(head, tail)
<1> USE DEF RingInv
<1>1. /\ head \in Index /\ tail \in Index /\ cpc = "move"
      /\ head' = head /\ tail' = tail /\ cpc' = "publish"
      /\ pc' = pc /\ rec' = rec /\ seen' = seen
      /\ out' = slots[Slot(tail)]
      /\ slots' = [slots EXCEPT ![Slot(tail)] = Empty]
  BY DEF PopMove, TypeOK, producerVars
<1>2. n \in 1 .. Capacity
  BY <1>1, LeadProps, RingAssumption DEF ConsumerInv, WindowInv, Index
<1>3. SlotAfter(tail, 0) = Slot(tail) /\ Slot(tail) \in SlotIndex
  BY <1>1, SlotAfterProps, SlotRange, RingAssumption DEF SlotIndex
<1>4. slots[Slot(tail)] \in Records
  BY <1>1, <1>2, <1>3, RingAssumption DEF ConsumerInv
<1>5. ASSUME NEW k \in 1 .. n - 1
      PROVE  slots'[SlotAfter(tail, k)] = slots[SlotAfter(tail, k)]
  <2>1. k \in SlotIndex /\ 0 \in SlotIndex /\ k # 0
    BY <1>2, RingAssumption DEF SlotIndex
  <2>2. SlotAfter(tail, k) # Slot(tail) /\ SlotAfter(tail, k) \in SlotIndex
    BY <1>1, <1>3, <2>1, SlotAfterProps
  <2>3. QED BY <1>1, <2>2 DEF TypeOK
<1>6. WindowInv'
  BY <1>1 DEF WindowInv
<1>7. ProducerInv'
  <2> SUFFICES ASSUME NEW q \in Producers, pc[q] = "publish"
               PROVE  slots'[Slot(head)] = rec[q]
    BY <1>1 DEF ProducerInv
  <2>1. slots[Slot(head)] = rec[q] /\ n \in SlotIndex /\ n # 0
    BY <1>2, RingAssumption DEF ProducerInv, SlotIndex
  <2>2. Slot(head) # Slot(tail) /\ Slot(head) \in SlotIndex
    BY <1>1, <1>3, <2>1, SlotAfterProps, RingAssumption DEF WindowInv, SlotIndex
  <2>3. QED BY <1>1, <2>1, <2>2 DEF TypeOK
<1>8. ConsumerInv'
  <2>1. head' # tail' /\ out' \in Records
    BY <1>1, <1>4 DEF ConsumerInv
  <2>2. \A k \in 0 .. n - 1 : k = 0 \/ slots'[SlotAfter(tail, k)] \in Records
    BY <1>1, <1>2, <1>5, RingAssumption DEF ConsumerInv
  <2>3. QED BY <1>1, <2>1, <2>2 DEF ConsumerInv
<1>9. QED BY <1>1, <1>2, <1>3, <1>4, <1>5, <1>6, <1>7, <1>8

\* Storing _tail shifts the window by one slot.
LEMMA TakeStep ==
  ASSUME RingInv, PopPublish
  PROVE  /\ Lead(head, tail) \in 1 .. Capacity
         /\ Lead(head', tail') = Lead(head, tail) - 1
         /\ \A k \in 0 .. Lead(head, tail) - 2 :
              SlotAfter(tail', k) = SlotAfter(tail, k + 1)
         /\ WindowInv' /\ ProducerInv' /\ ConsumerInv'
<1> DEFINE n == Lead(head, tail)
<1> USE DEF RingInv
<1>1. /\ head \in Index /\ tail \in Index /\ cpc = "publish"
      /\ head' = head /\ tail' = Succ(tail) /\ cpc' = "idle"
      /\ pc' = pc /\ rec' = rec /\ seen' = seen /\ slots' = slots
  BY DEF PopPublish, TypeOK, producerVars
<1>2. n \in 1 .. Capacity
  BY <1>1, LeadProps, RingAssumption DEF ConsumerInv, WindowInv, Index
<1>3. Lead(head', tail') = n - 1
  BY <1>1, LeadProps DEF ConsumerInv
<1>4. ASSUME NEW k \in 0 .. n - 2
      PROVE  SlotAfter(tail', k) = SlotAfter(tail, k + 1)
  <2>1. k \in SlotIndex /\ k + 1 < Capacity
    BY <1>2, RingAssumption DEF SlotIndex
  <2>2. QED BY <1>1, <2>1, SlotAfterProps
<1>5. WindowInv'
  <2>1. Slot(tail') = SlotAfter(tail, 1) /\ Slot(tail) \in SlotIndex
    BY <1>1, SlotSucc, SlotRange
  <2>2. SlotAfter(tail', n - 1) = SlotAfter(tail, n)
    BY <1>2, <2>1, RingAssumption DEF SlotAfter, SlotIndex
  <2>3. QED BY <1>1, <1>2, <1>3, <2>2, RingAssumption DEF WindowInv
<1>6. ProducerInv'
  BY <1>1, <1>2, <1>3, RingAssumption DEF ProducerInv
<1>7. ConsumerInv'
  <2> SUFFICES ASSUME NEW k \in 0 .. n - 2
               PROVE  slots[SlotAfter(tail', k)] \in Records
    BY <1>1, <1>2, <1>3, RingAssumption DEF ConsumerInv
  <2>1. k + 1 \in 0 .. n - 1 /\ k + 1 # 0
    BY <1>2, RingAssumption
  <2>2. QED BY <1>4, <2>1 DEF ConsumerInv
<1>8. QED BY <1>2, <1>3, <1>4, <1>5, <1>6, <1>7

\* Every access of the producer and the consumer keeps the window whole.
LEMMA RingInvStep == SingleProducer /\ RingInv /\ [Next]_vars => RingInv'
<1> SUFFICES ASSUME SingleProducer, RingInv, [Next]_vars PROVE RingInv'
  OBVIOUS
<1>1. TypeOK'
  BY TypeStep DEF RingInv
<1>2. WindowInv' /\ ProducerInv' /\ ConsumerInv'
  <2>1. ASSUME NEW p \in Producers, NEW r \in Records, PushLoadHead(p, r)
        PROVE  WindowInv' /\ ProducerInv' /\ ConsumerInv'
    BY <2>1 DEF RingInv, TypeOK, PushLoadHead, consumerVars,
                WindowInv, ProducerInv, ConsumerInv, SingleProducer
  <2>2. ASSUME NEW p \in Producers, PushReject(p)
        PROVE  WindowInv' /\ ProducerInv' /\ ConsumerInv'
    BY <2>2 DEF RingInv, TypeOK, PushReject, consumerVars,
                WindowInv, ProducerInv, ConsumerInv
  <2>3. ASSUME NEW p \in Producers, PushAdmit(p)
        PROVE  WindowInv' /\ ProducerInv' /\ ConsumerInv'
    <3>1. Lead(head, tail) < Capacity
      BY <2>3 DEF RingInv, PushAdmit, ProducerInv
    <3>2. QED BY <2>3, <3>1 DEF RingInv, TypeOK, PushAdmit, consumerVars,
                     WindowInv, ProducerInv, ConsumerInv
  <2>4. ASSUME NEW p \in Producers, PushWrite(p)
        PROVE  WindowInv' /\ ProducerInv' /\ ConsumerInv'
    BY <2>4, WriteStep
  <2>5. ASSUME NEW p \in Producers, PushPublish(p)
        PROVE  WindowInv' /\ ProducerInv' /\ ConsumerInv'
    BY <2>5, PublishStep
  <2>6. CASE PopAdmit
    BY <2>6 DEF RingInv, PopAdmit, producerVars,
                WindowInv, ProducerInv, ConsumerInv
  <2>7. CASE PopMove
    BY <2>7, MoveStep
  <2>8. CASE PopPublish
    BY <2>8, TakeStep
  <2>9. CASE UNCHANGED vars
    BY <2>9 DEF vars, RingInv, WindowInv, ProducerInv, ConsumerInv
  <2>10. QED
    BY <2>1, <2>2, <2>3, <2>4, <2>5, <2>6, <2>7, <2>8, <2>9
    DEF Next, Producing, Consuming
<1>3. QED BY <1>1, <1>2 DEF RingInv

(* With one producer the window of published records stays whole: it never *)
(* exceeds the capacity, and a place TryPush was admitted to stays free    *)
(* until it stores _head.                                                  *)
THEOREM RingInvariant ==
  ASSUME SingleProducer
  PROVE  Spec => []RingInv
<1>1. RingInv /\ [Next]_vars => RingInv'
  BY RingInvStep
<1>2. QED BY RingInvInit, <1>1, PTL DEF Spec

(* With one producer, TryPush and TryPop never touch the same slot at the  *)
(* same time: the plain accesses to _slots do not race.                    *)
THEOREM NoRace ==
  ASSUME SingleProducer
  PROVE  Spec => []NoSlotRace
<1>1. RingInv => NoSlotRace
  <2> SUFFICES ASSUME RingInv, NEW p \in Producers,
                      pc[p] = "write", cpc = "move"
               PROVE  Slot(seen[p]) # Slot(tail)
    BY DEF NoSlotRace
  <2> DEFINE n == Lead(head, tail)
  <2>1. /\ head \in Index /\ tail \in Index
        /\ seen[p] = head /\ n < Capacity /\ head # tail
        /\ Slot(head) = SlotAfter(tail, n)
    BY DEF RingInv, TypeOK, ProducerInv, ConsumerInv, WindowInv
  <2>2. n \in SlotIndex /\ 0 \in SlotIndex /\ n # 0
    BY <2>1, LeadProps, RingAssumption DEF SlotIndex, Index
  <2>3. SlotAfter(tail, 0) = Slot(tail)
    BY <2>1, <2>2, SlotAfterProps
  <2>4. SlotAfter(tail, n) = SlotAfter(tail, 0) => n = 0
    BY <2>1, <2>2, SlotAfterProps
  <2>5. QED BY <2>1, <2>2, <2>3, <2>4
<1>2. QED BY RingInvariant, <1>1, PTL
-----------------------------------------------------------------------------
(***************************************************************************)
(* The ring implements the bounded FIFO.                                   *)
(***************************************************************************)
ContentsOK ==
  /\ Lead(head, tail) \in Nat
  /\ Contents \in Seq(Records)
  /\ Len(Contents) = Lead(head, tail)
  /\ \A k \in 1 .. Lead(head, tail) :
       Contents[k] = IF k = 1 /\ cpc = "publish"
                     THEN out ELSE slots[SlotAfter(tail, k - 1)]

\* What the ring holds, as a sequence.
LEMMA ContentsProps == RingInv => ContentsOK
<1> SUFFICES ASSUME RingInv PROVE ContentsOK
  OBVIOUS
<1> USE DEF ContentsOK
<1> DEFINE n == Lead(head, tail)
<1>1. n \in Nat
  BY LeadProps, RingAssumption DEF RingInv, TypeOK, Index
<1>2. ASSUME NEW k \in 1 .. n
      PROVE  (IF k = 1 /\ cpc = "publish" THEN out ELSE slots[SlotAfter(tail, k - 1)])
             \in Records
  <2>1. k - 1 \in 0 .. n - 1
    BY <1>1
  <2>2. QED BY <2>1, <1>1 DEF RingInv, ConsumerInv
<1> HIDE DEF n
<1>3. QED BY <1>1, <1>2 DEF Contents, n

\* Sequences of the same length with the same elements are equal.
LEMMA SeqEqual ==
  ASSUME NEW S, NEW s \in Seq(S), NEW t \in Seq(S), Len(s) = Len(t),
         \A k \in 1 .. Len(s) : s[k] = t[k]
  PROVE  s = t
OBVIOUS

\* A step that leaves both ends in place leaves the contents as they are,
\* if it changes neither the records of the window nor what was moved out.
LEMMA ContentsKept ==
  ASSUME RingInv, RingInv', head' = head, tail' = tail,
         \A k \in 1 .. Lead(head, tail) :
           (IF k = 1 /\ cpc' = "publish" THEN out' ELSE slots'[SlotAfter(tail, k - 1)])
         = (IF k = 1 /\ cpc = "publish" THEN out ELSE slots[SlotAfter(tail, k - 1)])
  PROVE  Contents' = Contents
BY DEF Contents

\* Each step is a Push, a Take or a stutter of the FIFO.
LEMMA QueueStep ==
  ASSUME RingInv, RingInv', SingleProducer, [Next]_vars
  PROVE  [Queue!Next]_(Queue!queueVars)
<1> DEFINE n == Lead(head, tail)
<1> USE DEF RingInv
<1> USE DEF ContentsOK
<1>a. ContentsOK
  BY ContentsProps
<1>b. ContentsOK'
  <2>1. (RingInv => ContentsOK)'
    BY ContentsProps, PTL
  <2>2. QED BY <2>1
<1>0. n \in Nat /\ n <= Capacity /\ Capacity \in Nat
  BY <1>a, RingAssumption DEF WindowInv
<1>1. ASSUME NEW p \in Producers, NEW r \in Records, PushLoadHead(p, r)
      PROVE  Contents' = Contents /\ dropped' = dropped
  BY <1>1, ContentsKept DEF PushLoadHead, consumerVars
<1>2. ASSUME NEW p \in Producers, PushReject(p)
      PROVE  Queue!Refuse
  <2>1. Contents' = Contents
    BY <1>2, ContentsKept DEF PushReject, consumerVars
  <2>2. Len(Contents) = Capacity
    BY <1>0, <1>2, <1>a, RingAssumption
    DEF PushReject, ProducerInv, WindowInv
  <2>3. dropped' = (dropped + 1) % IndexSpan
    <3>1. dropped \in Index /\ dropped' = Succ(dropped)
      BY <1>2 DEF PushReject, TypeOK
    <3>2. IndexSpan \in Nat \ {0} /\ dropped \in Nat
      BY <3>1, RingAssumption DEF Index
    <3>3. CASE dropped + 1 = IndexSpan
      <4>1. (IndexSpan * 1 + 0) % IndexSpan = 0
        BY <3>2, ModUnique
      <4>2. QED BY <3>1, <3>2, <3>3, <4>1 DEF Succ
    <3>4. CASE dropped + 1 # IndexSpan
      <4>1. dropped + 1 \in 0 .. IndexSpan - 1
        BY <3>1, <3>2, <3>4 DEF Index
      <4>2. QED BY <3>1, <3>2, <3>4, <4>1 DEF Succ
    <3>5. QED BY <3>3, <3>4
  <2>4. QED BY <2>1, <2>2, <2>3 DEF Queue!Refuse
<1>3. ASSUME NEW p \in Producers, PushAdmit(p)
      PROVE  Contents' = Contents /\ dropped' = dropped
  BY <1>3, ContentsKept DEF PushAdmit, consumerVars
<1>4. ASSUME NEW p \in Producers, PushWrite(p)
      PROVE  Contents' = Contents /\ dropped' = dropped
  <2>1. /\ head' = head /\ tail' = tail /\ cpc' = cpc /\ out' = out
        /\ dropped' = dropped
    BY <1>4 DEF PushWrite, consumerVars
  <2>2. \A k \in 1 .. n : slots'[SlotAfter(tail, k - 1)] = slots[SlotAfter(tail, k - 1)]
    <3>1. \A k \in 0 .. n - 1 : slots'[SlotAfter(tail, k)] = slots[SlotAfter(tail, k)]
      BY <1>4, WriteStep
    <3>2. \A k \in 1 .. n : k - 1 \in 0 .. n - 1
      BY <1>0
    <3>3. QED BY <3>1, <3>2
  <2>3. QED BY <2>1, <2>2, ContentsKept
<1>5. ASSUME NEW p \in Producers, PushPublish(p)
      PROVE  \E r \in Records : Queue!Accept(r)
  <2>1. /\ tail' = tail /\ slots' = slots /\ cpc' = cpc /\ out' = out
        /\ dropped' = dropped /\ n < Capacity
        /\ rec[p] \in Records /\ slots[Slot(head)] = rec[p]
        /\ Slot(head) = SlotAfter(tail, n)
    BY <1>5 DEF PushPublish, consumerVars, ProducerInv, WindowInv
  <2>2. Lead(head', tail') = n + 1
    BY <1>5, PublishStep
  <2>3. /\ Contents \in Seq(Records) /\ Len(Contents) = n
        /\ Contents' \in Seq(Records) /\ Len(Contents') = n + 1
    BY <1>a, <1>b, <2>2
  <2>4. n = 0 => cpc # "publish"
    BY LeadProps DEF ConsumerInv, TypeOK
  <2>5. ASSUME NEW k \in 1 .. n + 1
        PROVE  Contents'[k] = Append(Contents, rec[p])[k]
    <3>1. Contents'[k] = IF k = 1 /\ cpc = "publish"
                         THEN out ELSE slots[SlotAfter(tail, k - 1)]
      BY <1>b, <2>1, <2>2
    <3>2. CASE k = n + 1
      BY <1>0, <2>1, <2>3, <2>4, <3>1, <3>2
    <3>3. CASE k # n + 1
      <4>1. k \in 1 .. n
        BY <1>0, <3>3
      <4>2. Contents[k] = Contents'[k]
        BY <3>1, <4>1, <1>a
      <4>3. QED BY <2>1, <2>3, <4>1, <4>2
    <3>4. QED BY <3>2, <3>3
  <2>6. Contents' = Append(Contents, rec[p])
    <3>1. Append(Contents, rec[p]) \in Seq(Records)
          /\ Len(Append(Contents, rec[p])) = n + 1
      BY <2>1, <2>3
    <3>2. QED BY <2>3, <2>5, <3>1, SeqEqual
  <2>7. QED BY <2>1, <2>3, <2>6 DEF Queue!Accept
<1>6. CASE PopAdmit
  <2>1. Contents' = Contents /\ dropped' = dropped
    BY <1>6, ContentsKept DEF PopAdmit, producerVars
  <2>2. QED BY <2>1 DEF Queue!queueVars
<1>7. CASE PopMove
  <2>1. /\ head' = head /\ tail' = tail /\ dropped' = dropped
        /\ cpc = "move" /\ cpc' = "publish"
    BY <1>7 DEF PopMove, producerVars
  <2>2. \A k \in 1 .. n :
          (IF k = 1 /\ cpc' = "publish" THEN out' ELSE slots'[SlotAfter(tail, k - 1)])
        = slots[SlotAfter(tail, k - 1)]
    <3>1. out' = slots[SlotAfter(tail, 0)]
          /\ \A k \in 1 .. n - 1 : slots'[SlotAfter(tail, k)] = slots[SlotAfter(tail, k)]
      BY <1>7, MoveStep
    <3>2. \A k \in 1 .. n : k # 1 => k - 1 \in 1 .. n - 1
      BY <1>0
    <3>3. QED BY <2>1, <3>1, <3>2
  <2>3. Contents' = Contents
    BY <2>1, <2>2, ContentsKept
  <2>4. QED BY <2>1, <2>3 DEF Queue!queueVars
<1>8. CASE PopPublish
  <2>1. /\ slots' = slots /\ dropped' = dropped /\ cpc' = "idle"
    BY <1>8 DEF PopPublish, producerVars
  <2>2. /\ n \in 1 .. Capacity
        /\ Lead(head', tail') = n - 1
        /\ \A k \in 0 .. n - 2 : SlotAfter(tail', k) = SlotAfter(tail, k + 1)
    BY <1>8, TakeStep
  <2>3. /\ Contents \in Seq(Records) /\ Len(Contents) = n
        /\ Contents' \in Seq(Records) /\ Len(Contents') = n - 1
    BY <1>a, <1>b, <2>2
  <2>4. /\ Tail(Contents) \in Seq(Records)
        /\ Len(Tail(Contents)) = n - 1
        /\ \A k \in 1 .. n - 1 : Tail(Contents)[k] = Contents[k + 1]
        /\ Contents # <<>>
    BY <1>0, <2>2, <2>3
  <2>5. ASSUME NEW k \in 1 .. n - 1
        PROVE  Contents'[k] = Contents[k + 1]
    <3>1. Contents'[k] = slots[SlotAfter(tail', k - 1)]
      BY <1>b, <2>1, <2>2
    <3>2. k - 1 \in 0 .. n - 2 /\ k + 1 \in 1 .. n /\ k + 1 # 1 /\ k - 1 + 1 = k /\ k + 1 - 1 = k
      BY <1>0
    <3>3. SlotAfter(tail', k - 1) = SlotAfter(tail, k)
      BY <2>2, <3>2
    <3>4. Contents[k + 1] = slots[SlotAfter(tail, k)]
      BY <3>2, <1>a
    <3>5. QED BY <3>1, <3>3, <3>4
  <2>6. Contents' = Tail(Contents)
    BY <2>3, <2>4, <2>5, SeqEqual
  <2>7. Queue!Take
    BY <2>1, <2>4, <2>6 DEF Queue!Take
  <2>8. QED BY <2>7 DEF Queue!Next
<1>9. CASE UNCHANGED vars
  BY <1>9 DEF vars, Contents, Queue!queueVars
<1>10. ASSUME NEW p \in Producers, Producing(p)
       PROVE  [Queue!Next]_(Queue!queueVars)
  <2>1. ASSUME NEW r \in Records, PushLoadHead(p, r)
        PROVE  [Queue!Next]_(Queue!queueVars)
    BY <1>1, <2>1 DEF Queue!queueVars
  <2>2. CASE PushReject(p)
    <3>1. \E r \in Records : TRUE
      BY <2>2 DEF PushReject, ProducerInv
    <3>2. QED BY <1>2, <2>2, <3>1 DEF Queue!Next, Queue!Push
  <2>3. CASE PushAdmit(p)
    BY <1>3, <2>3 DEF Queue!queueVars
  <2>4. CASE PushWrite(p)
    BY <1>4, <2>4 DEF Queue!queueVars
  <2>5. CASE PushPublish(p)
    BY <1>5, <2>5 DEF Queue!Next, Queue!Push
  <2>6. QED BY <1>10, <2>1, <2>2, <2>3, <2>4, <2>5 DEF Producing
<1>11. QED
  BY <1>6, <1>7, <1>8, <1>9, <1>10 DEF Next, Consuming

(* With one producer the ring is a bounded FIFO queue: every record that   *)
(* TryPush accepts is handed to the consumer once, whole and in order, and *)
(* a record is refused, and counted, only when Capacity records are queued.*)
THEOREM RingImplementsQueue ==
  ASSUME SingleProducer
  PROVE  Spec => ImplementsQueue
<1>1. Init => Queue!Init
  <2> SUFFICES ASSUME Init PROVE Queue!Init
    OBVIOUS
  <2>1. RingInv /\ Lead(head, tail) = 0
    BY RingInvInit DEF Init, Lead
  <2>2. Contents = <<>>
    BY <2>1, ContentsProps DEF ContentsOK
  <2>3. QED BY <2>2 DEF Init, Queue!Init
<1>2. RingInv /\ RingInv' /\ [Next]_vars => [Queue!Next]_(Queue!queueVars)
  BY QueueStep
<1>3. Spec => []RingInv
  BY RingInvariant
<1>4. QED BY <1>1, <1>2, <1>3, PTL DEF Spec, ImplementsQueue, Queue!Spec
=============================================================================
