--------------------------- MODULE SpscRingProofs ---------------------------
(***************************************************************************)
(* Proofs about SpscRing, for every capacity, item set and number of       *)
(* pushes: the ring is free of data races, its size is always an           *)
(* occupancy, and it implements BoundedQueue.                              *)
(*                                                                         *)
(* The inductive invariant adds to TypeOK the order of the four indices    *)
(* (IndicesOrdered) and what each program counter knows (PcKnowledge).     *)
(***************************************************************************)
EXTENDS SpscRing, TLAPS

IInv == TypeOK /\ IndicesOrdered /\ PcKnowledge /\ SizeApproxInRange

\* A slot number is an index of the buffer (head & kMask stays below
\* CapacityPow2).
LEMMA SlotType == \A i \in Nat : slot(i) \in 0 .. Capacity - 1
  BY CapacityAssumption DEF slot

\* Two indices less than a buffer length apart never share a slot.
LEMMA SlotsDistinct ==
  ASSUME NEW i \in Nat, NEW j \in Nat, i < j, j - i < Capacity
  PROVE  slot(i) # slot(j)
  <1> DEFINE C == Capacity
             qi == i \div C
             qj == j \div C
  <1>1. C \in Nat /\ C > 0
    BY CapacityAssumption
  <1>2. i = C * qi + slot(i) /\ qi \in Int
    BY <1>1 DEF slot
  <1>3. j = C * qj + slot(j) /\ qj \in Int
    BY <1>1 DEF slot
  <1>4. SUFFICES ASSUME slot(i) = slot(j) PROVE FALSE
    OBVIOUS
  <1>5. j - i = C * (qj - qi)
    <2>1. slot(i) \in Int
      BY SlotType, <1>1
    <2> HIDE DEF C, qi, qj
    <2> QED BY <1>1, <1>2, <1>3, <1>4, <2>1
  <1>6. qj - qi \in Int
    BY <1>2, <1>3
  <1>7. CASE qj - qi <= 0
    <2> DEFINE d == qj - qi
    <2> HIDE DEF C, d, qi, qj
    <2>1. C * d <= 0
      BY <1>1, <1>6, <1>7 DEF d
    <2> QED BY <1>5, <2>1 DEF d
  <1>8. CASE qj - qi >= 1
    <2> DEFINE d == qj - qi
    <2> HIDE DEF d, qi, qj
    <2>1. C * d >= C
      BY <1>1, <1>6, <1>8 DEF d
    <2> QED BY <1>1, <1>5, <1>6, <2>1 DEF d
  <1> QED BY <1>6, <1>7, <1>8
-----------------------------------------------------------------------------
\* The empty ring satisfies the invariant.
LEMMA InitIInv == Init => IInv
  BY CapacityAssumption, BoundAssumption
     DEF Init, IInv, TypeOK, IndicesOrdered, PcKnowledge, SizeApproxInRange

\* Every access to shared memory by either thread preserves it.
LEMMA NextIInv == IInv /\ [Next]_vars => IInv'
  <1> SUFFICES ASSUME IInv, [Next]_vars PROVE IInv'
    OBVIOUS
  <1> USE CapacityAssumption, BoundAssumption
      DEF IInv, TypeOK, IndicesOrdered, PcKnowledge, SizeApproxInRange
  <1>1. ASSUME NEW x \in Items, PushCall(x) PROVE IInv'
    BY <1>1 DEF PushCall, looks_full, consumer
  <1>2. ASSUME NEW t \in cached_tail .. tail, PushRefresh(t) PROVE IInv'
    BY <1>2 DEF PushRefresh, looks_full, consumer
  <1>3. CASE PushWrite
    <2>1. slot(head) \in 0 .. Capacity - 1 /\ slot(tail) \in 0 .. Capacity - 1
      BY SlotType
    <2>2. cpc = "release" => slot(head) # slot(tail)
      BY <1>3, SlotsDistinct DEF PushWrite
    <2> QED BY <1>3, <2>1, <2>2 DEF PushWrite, consumer
  <1>4. CASE PushPublish
    BY <1>4 DEF PushPublish, consumer
  <1>5. ASSUME NEW t \in cached_tail .. tail, PushSize(t) PROVE IInv'
    BY <1>5 DEF PushSize, size_approx, consumer
  <1>6. CASE PopCall
    BY <1>6 DEF PopCall, producer
  <1>7. ASSUME NEW h \in cached_head .. head, PopRefresh(h) PROVE IInv'
    BY <1>7 DEF PopRefresh, producer
  <1>8. CASE PopRead
    BY <1>8, SlotType DEF PopRead, producer
  <1>9. CASE PopRelease
    BY <1>9 DEF PopRelease, producer
  <1>10. ASSUME NEW h \in cached_head .. head, PopSize(h) PROVE IInv'
    BY <1>10 DEF PopSize, size_approx, producer
  <1>11. CASE UNCHANGED vars
    BY <1>11 DEF vars
  <1> QED
    BY <1>1, <1>2, <1>3, <1>4, <1>5, <1>6, <1>7, <1>8, <1>9, <1>10, <1>11
       DEF Next

\* TypeOK, the index order and the size bound hold in every reachable state
\* of the ring: the cached copies never run ahead of the index they copy and
\* the window between tail_ and head_ never exceeds the buffer.
THEOREM RingInvariant == Spec => []IInv
  BY InitIInv, NextIInv, PTL DEF Spec

\* Indices, slots and locals keep their types: neither the producer nor the
\* consumer ever copies from a slot outside the buffer.
THEOREM RingTypeCorrect == Spec => []TypeOK
  <1>1. IInv => TypeOK
    BY DEF IInv
  <1> QED BY <1>1, RingInvariant, PTL

\* size_approx, called from either end, returns an occupancy of the ring.
THEOREM SizeAlwaysInRange == Spec => []SizeApproxInRange
  <1>1. IInv => SizeApproxInRange
    BY DEF IInv
  <1> QED BY <1>1, RingInvariant, PTL

\* The producer never writes the slot the consumer is copying out of.
THEOREM RaceFree == Spec => []NoDataRace
  <1>1. IInv => NoDataRace
    BY SlotsDistinct, CapacityAssumption, BoundAssumption
       DEF IInv, TypeOK, IndicesOrdered, PcKnowledge, NoDataRace
  <1> QED BY <1>1, RingInvariant, PTL
-----------------------------------------------------------------------------
(* The refinement: contents maps every step to a queue step or a stutter.  *)

ContentsOK ==
  /\ contents \in Seq(Items \cup {NoItem})
  /\ Len(contents) = head - tail
  /\ \A k \in 1 .. head - tail : contents[k] = buf[slot(tail + k - 1)]

\* The window from tail_ to head_ is a sequence of at most Capacity items.
LEMMA ContentsType == IInv => ContentsOK
  <1> SUFFICES ASSUME IInv PROVE ContentsOK
    OBVIOUS
  <1>1. head - tail \in 0 .. Capacity
    BY CapacityAssumption, BoundAssumption DEF IInv, TypeOK, IndicesOrdered
  <1>2. \A k \in 1 .. head - tail :
          buf[slot(tail + k - 1)] \in Items \cup {NoItem}
    BY SlotType, BoundAssumption DEF IInv, TypeOK
  <1> QED BY <1>1, <1>2 DEF contents, ContentsOK

\* A step that leaves the indices and the buffer alone, and pops nothing,
\* is a stutter of the queue.
LEMMA QueueStutter ==
  ASSUME UNCHANGED <<head, tail, buf, out>>
  PROVE  UNCHANGED Queue!vars
  BY DEF Queue!vars, contents, slot

\* Writing a slot outside the window changes no item in it.
LEMMA WriteStutters ==
  ASSUME IInv, PushWrite
  PROVE  UNCHANGED Queue!vars
  <1>1. \A k \in 1 .. head - tail : slot(tail + k - 1) # slot(head)
    <2> SUFFICES ASSUME NEW k \in 1 .. head - tail
                 PROVE  slot(tail + k - 1) # slot(head)
      OBVIOUS
    <2>1. /\ tail + k - 1 \in Nat /\ head \in Nat
          /\ tail + k - 1 < head /\ head - (tail + k - 1) < Capacity
      BY CapacityAssumption, BoundAssumption
         DEF IInv, TypeOK, IndicesOrdered, PcKnowledge, PushWrite
    <2> QED BY <2>1, SlotsDistinct
  <1>2. \A k \in 1 .. head - tail :
          slot(tail + k - 1) \in 0 .. Capacity - 1
    BY SlotType, BoundAssumption DEF IInv, TypeOK
  <1>3. \A k \in 1 .. head - tail :
          buf'[slot(tail + k - 1)] = buf[slot(tail + k - 1)]
    BY <1>1, <1>2 DEF IInv, TypeOK, PushWrite
  <1>4. contents' = contents
    BY <1>3 DEF contents, slot, PushWrite, consumer
  <1> QED BY <1>4 DEF Queue!vars, PushWrite, consumer

\* The release store of head_ appends the item just written: a Push.
LEMMA PublishPushes ==
  ASSUME IInv, IInv', PushPublish
  PROVE  Queue!Push(item)
  <1> USE CapacityAssumption, BoundAssumption
  <1>1. head' = head + 1 /\ UNCHANGED <<tail, buf, out>>
    BY DEF PushPublish, consumer
  <1>2. head - tail < Capacity /\ head - tail \in Nat /\ head \in Nat
                               /\ tail \in Nat
    BY DEF IInv, TypeOK, IndicesOrdered, PcKnowledge, PushPublish
  <1>3. /\ contents \in Seq(Items \cup {NoItem})
        /\ Len(contents) = head - tail
        /\ \A k \in 1 .. head - tail : contents[k] = buf[slot(tail + k - 1)]
    BY ContentsType DEF ContentsOK
  <1>4. /\ contents' \in Seq(Items \cup {NoItem})
        /\ Len(contents') = head - tail + 1
        /\ \A k \in 1 .. head - tail + 1 :
              contents'[k] = buf[slot(tail + k - 1)]
    <2>1. head' - tail' = head - tail + 1
      BY <1>1, <1>2
    <2>2. ContentsOK'
      BY ContentsType, PTL
    <2> QED BY <1>1, <2>1, <2>2 DEF ContentsOK, slot
  <1>5. item = buf[slot(head)] /\ item \in Items \cup {NoItem}
    BY DEF IInv, TypeOK, PcKnowledge, PushPublish
  <1>6. contents' = Append(contents, item)
    <2>1. tail + (head - tail + 1) - 1 = head
      BY <1>2
    <2>2. contents'[head - tail + 1] = item
      BY <1>4, <1>5, <2>1, <1>2
    <2>3. \A k \in 1 .. head - tail : contents'[k] = contents[k]
      BY <1>3, <1>4, <1>2
    <2> QED BY <1>2, <1>3, <1>4, <1>5, <2>2, <2>3
  <1> QED BY <1>1, <1>2, <1>3, <1>6 DEF Queue!Push

\* The release store of tail_ hands out the oldest item: a Pop.
LEMMA ReleasePops ==
  ASSUME IInv, IInv', PopRelease
  PROVE  Queue!Pop
  <1> USE CapacityAssumption, BoundAssumption
  <1>1. tail' = tail + 1 /\ out' = val /\ UNCHANGED <<head, buf>>
    BY DEF PopRelease, producer
  <1>2. head - tail > 0 /\ head - tail \in Nat /\ head \in Nat
                        /\ tail \in Nat
    BY DEF IInv, TypeOK, IndicesOrdered, PcKnowledge, PopRelease
  <1>3. /\ contents \in Seq(Items \cup {NoItem})
        /\ Len(contents) = head - tail
        /\ \A k \in 1 .. head - tail : contents[k] = buf[slot(tail + k - 1)]
    BY ContentsType DEF ContentsOK
  <1>4. /\ contents' \in Seq(Items \cup {NoItem})
        /\ Len(contents') = head - tail - 1
        /\ \A k \in 1 .. head - tail - 1 :
              contents'[k] = buf[slot(tail + k)]
    <2>1. head' - tail' = head - tail - 1
      BY <1>1, <1>2
    <2>2. ContentsOK'
      BY ContentsType, PTL
    <2>3. \A k \in 1 .. head - tail - 1 : tail' + k - 1 = tail + k
      BY <1>1, <1>2
    <2> QED BY <1>1, <2>1, <2>2, <2>3 DEF ContentsOK, slot
  <1>5. contents # <<>> /\ out' = Head(contents)
    <2>1. tail + 1 - 1 = tail
      BY <1>2
    <2>2. contents[1] = buf[slot(tail)]
      BY <1>2, <1>3, <2>1
    <2>3. val = buf[slot(tail)]
      BY DEF IInv, PcKnowledge, PopRelease
    <2> QED BY <1>1, <1>2, <1>3, <2>2, <2>3
  <1>6. contents' = Tail(contents)
    <2>1. \A k \in 1 .. head - tail - 1 : contents[k + 1] = buf[slot(tail + k)]
      <3> SUFFICES ASSUME NEW k \in 1 .. head - tail - 1
                   PROVE  contents[k + 1] = buf[slot(tail + k)]
        OBVIOUS
      <3>1. k + 1 \in 1 .. head - tail /\ tail + (k + 1) - 1 = tail + k
        BY <1>2
      <3> QED BY <1>3, <3>1
    <2> DEFINE t == Tail(contents)
    <2>2. /\ t \in Seq(Items \cup {NoItem}) /\ Len(t) = head - tail - 1
          /\ \A k \in 1 .. Len(t) : t[k] = contents[k + 1]
      BY <1>2, <1>3, <1>5
    <2> HIDE DEF t
    <2>3. Len(contents') = Len(t) /\ \A k \in 1 .. Len(t) : contents'[k] = t[k]
      BY <1>4, <2>1, <2>2
    <2>4. contents' = t
      BY <1>4, <2>2, <2>3
    <2> QED BY <2>4 DEF t
  <1> QED BY <1>1, <1>5, <1>6 DEF Queue!Pop

\* The ring, stale loads included, implements the bounded FIFO queue that
\* the other modules use in its place.
THEOREM RingImplementsQueue == Spec => ImplementsQueue
  <1>1. Init => Queue!Init
    BY DEF Init, Queue!Init, contents
  <1>2. IInv /\ IInv' /\ [Next]_vars => [Queue!Next]_(Queue!vars)
    <2> SUFFICES ASSUME IInv, IInv', [Next]_vars
                 PROVE  Queue!Next \/ UNCHANGED Queue!vars
      OBVIOUS
    <2>1. ASSUME NEW x \in Items, PushCall(x) PROVE UNCHANGED Queue!vars
      BY <2>1, QueueStutter DEF PushCall, consumer
    <2>2. ASSUME NEW t \in cached_tail .. tail, PushRefresh(t)
          PROVE  UNCHANGED Queue!vars
      BY <2>2, QueueStutter DEF PushRefresh, consumer
    <2>3. ASSUME PushWrite PROVE UNCHANGED Queue!vars
      BY <2>3, WriteStutters
    <2>4. ASSUME PushPublish PROVE Queue!Next
      <3>1. item \in Items
        BY <2>4 DEF IInv, PcKnowledge, PushPublish
      <3> QED BY <2>4, <3>1, PublishPushes DEF Queue!Next
    <2>5. ASSUME NEW t \in cached_tail .. tail, PushSize(t)
          PROVE  UNCHANGED Queue!vars
      BY <2>5, QueueStutter DEF PushSize, consumer
    <2>6. ASSUME PopCall PROVE UNCHANGED Queue!vars
      BY <2>6, QueueStutter DEF PopCall, producer
    <2>7. ASSUME NEW h \in cached_head .. head, PopRefresh(h)
          PROVE  UNCHANGED Queue!vars
      BY <2>7, QueueStutter DEF PopRefresh, producer
    <2>8. ASSUME PopRead PROVE UNCHANGED Queue!vars
      BY <2>8, QueueStutter DEF PopRead, producer
    <2>9. ASSUME PopRelease PROVE Queue!Next
      BY <2>9, ReleasePops DEF Queue!Next
    <2>10. ASSUME NEW h \in cached_head .. head, PopSize(h)
           PROVE  UNCHANGED Queue!vars
      BY <2>10, QueueStutter DEF PopSize, producer
    <2>11. ASSUME UNCHANGED vars PROVE UNCHANGED Queue!vars
      BY <2>11, QueueStutter DEF vars
    <2> QED
      BY <2>1, <2>2, <2>3, <2>4, <2>5, <2>6, <2>7, <2>8, <2>9, <2>10, <2>11
         DEF Next
  <1> QED BY <1>1, <1>2, RingInvariant, PTL DEF Spec, ImplementsQueue, Queue!Spec
=============================================================================
