------------------------------ MODULE SpscRing ------------------------------
(***************************************************************************)
(* The single-producer single-consumer ring of src/common/spsc_ring.hpp,   *)
(* one step per access to memory the two threads share.                    *)
(*                                                                         *)
(* Memory model.  head_ and tail_ are atomics published with release and   *)
(* observed with acquire, so an acquire load may return any value of the   *)
(* modification order that is not older than the last one this thread      *)
(* observed: a load of tail_ by the producer returns some t in             *)
(* cached_tail .. tail, a load of head_ by the consumer some h in          *)
(* cached_head .. head.  Each thread reads its own index exactly.  buf_ is *)
(* plain memory: a copy into or out of a slot is in progress while the     *)
(* thread is at "write" or "read", and two such copies of one slot are a   *)
(* data race (NoDataRace).                                                 *)
(*                                                                         *)
(* The 64-bit indices are naturals here: 2^64 pushes are out of reach.     *)
(***************************************************************************)
EXTENDS Integers, Sequences

CONSTANTS Items,      \* values of the element type T
          Capacity,   \* CapacityPow2
          NoItem,     \* a slot or a result that holds no item
          MaxPush     \* bound: the producer pushes at most MaxPush items

\* static_assert((CapacityPow2 & (CapacityPow2 - 1)) == 0), and an array of
\* at least one slot; a power of two makes head & kMask equal head % Capacity.
ASSUME CapacityAssumption ==
  /\ Capacity \in Nat \ {0}
  /\ \E k \in 0 .. Capacity : Capacity = 2 ^ k

ASSUME BoundAssumption == MaxPush \in Nat

ASSUME NoItemAssumption == NoItem \notin Items

VARIABLES head,          \* head_: the producer's published index
          tail,          \* tail_: the consumer's published index
          cached_head,   \* consumer-local copy of head_
          cached_tail,   \* producer-local copy of tail_
          buf,           \* buf_
          ppc, item,     \* producer: where it is in try_push, its argument
          cpc, val,      \* consumer: where it is in try_pop, its out argument
          out,           \* the item of the last successful try_pop
          psize, csize   \* last size_approx() of the producer, the consumer

producer == <<head, cached_tail, ppc, item, psize>>
consumer == <<tail, cached_head, cpc, val, out, csize>>
vars == <<head, tail, cached_head, cached_tail, buf, ppc, item, cpc, val,
          out, psize, csize>>

slot(i) == i % Capacity            \* i & kMask

Init ==
  /\ head = 0 /\ tail = 0
  /\ cached_head = 0 /\ cached_tail = 0
  /\ buf = [i \in 0 .. Capacity - 1 |-> NoItem]
  /\ ppc = "idle" /\ item = NoItem
  /\ cpc = "idle" /\ val = NoItem
  /\ out = NoItem
  /\ psize = 0 /\ csize = 0
-----------------------------------------------------------------------------
(* try_push, called by the producer thread.                                *)

\* Mutated form: one item too many.
looks_full_off_by_one(t) == head - t > Capacity

\* next - cached_tail_ > CapacityPow2
looks_full(t) == head + 1 - t > Capacity

\* Entry: load head_ (own, exact) and test against the cached tail.
PushCall(x) ==
  /\ ppc = "idle"
  /\ head < MaxPush
  /\ item' = x
  /\ ppc' = IF looks_full(cached_tail) THEN "refresh" ELSE "write"
  /\ UNCHANGED <<head, cached_tail, psize, buf, consumer>>

\* Mutated form: the loaded tail is not stored.
PushRefresh_not_stored(t) ==
  /\ ppc = "refresh"
  /\ cached_tail' = cached_tail
  /\ ppc' = IF looks_full(cached_tail) THEN "idle" ELSE "write"
  /\ UNCHANGED <<head, item, psize, buf, consumer>>

\* Slow path: acquire load of tail_; still full means return false.
PushRefresh(t) ==
  /\ ppc = "refresh"
  /\ cached_tail' = t
  /\ ppc' = IF looks_full(t) THEN "idle" ELSE "write"
  /\ UNCHANGED <<head, item, psize, buf, consumer>>

\* Mutated form: writes one slot ahead.
PushWrite_at_next ==
  /\ ppc = "write"
  /\ buf' = [buf EXCEPT ![slot(head + 1)] = item]
  /\ ppc' = "publish"
  /\ UNCHANGED <<head, cached_tail, item, psize, consumer>>

\* buf_[head & kMask] = item
PushWrite ==
  /\ ppc = "write"
  /\ buf' = [buf EXCEPT ![slot(head)] = item]
  /\ ppc' = "publish"
  /\ UNCHANGED <<head, cached_tail, item, psize, consumer>>

\* Mutated form: publishes an item never written.
PushPublish_twice ==
  /\ ppc = "publish"
  /\ head' = head + 2
  /\ ppc' = "idle"
  /\ UNCHANGED <<cached_tail, item, psize, buf, consumer>>

\* head_.store(next, release); return true
PushPublish ==
  /\ ppc = "publish"
  /\ head' = head + 1
  /\ ppc' = "idle"
  /\ UNCHANGED <<cached_tail, item, psize, buf, consumer>>
-----------------------------------------------------------------------------
(* try_pop, called by the consumer thread.                                 *)

\* Entry: load tail_ (own, exact) and test against the cached head.
PopCall ==
  /\ cpc = "idle"
  /\ cpc' = IF tail = cached_head THEN "refresh" ELSE "read"
  /\ UNCHANGED <<tail, cached_head, val, out, csize, buf, producer>>

\* Slow path: acquire load of head_; still empty means return false.
PopRefresh(h) ==
  /\ cpc = "refresh"
  /\ cached_head' = h
  /\ cpc' = IF tail = h THEN "idle" ELSE "read"
  /\ UNCHANGED <<tail, val, out, csize, buf, producer>>

\* out = buf_[tail & kMask]
PopRead ==
  /\ cpc = "read"
  /\ val' = buf[slot(tail)]
  /\ cpc' = "release"
  /\ UNCHANGED <<tail, cached_head, out, csize, buf, producer>>

\* tail_.store(tail + 1, release); return true
PopRelease ==
  /\ cpc = "release"
  /\ tail' = tail + 1
  /\ out' = val
  /\ cpc' = "idle"
  /\ UNCHANGED <<cached_head, val, csize, buf, producer>>
-----------------------------------------------------------------------------
(* size_approx.  The producer calls it after a push (track_max); the LMDB  *)
(* and log threads call it on the rings they consume.  In both cases one   *)
(* of the two loads is of the caller's own index.                          *)

\* Mutated form: the operands exchanged.
size_approx_swapped(h, t) == t - h

\* static_cast<std::size_t>(h - t)
size_approx(h, t) == h - t

PushSize(t) ==
  /\ ppc = "idle"
  /\ psize' = size_approx(head, t)
  /\ UNCHANGED <<head, cached_tail, ppc, item, buf, consumer>>

PopSize(h) ==
  /\ cpc = "idle"
  /\ csize' = size_approx(h, tail)
  /\ UNCHANGED <<tail, cached_head, cpc, val, out, buf, producer>>
-----------------------------------------------------------------------------
Next ==
  \/ \E x \in Items : PushCall(x)
  \/ \E t \in cached_tail .. tail : PushRefresh(t)
  \/ PushWrite
  \/ PushPublish
  \/ \E t \in cached_tail .. tail : PushSize(t)
  \/ PopCall
  \/ \E h \in cached_head .. head : PopRefresh(h)
  \/ PopRead
  \/ PopRelease
  \/ \E h \in cached_head .. head : PopSize(h)

Spec == Init /\ [][Next]_vars

\* Both threads keep running: the consumer polls in a loop and the producer
\* retries a failed push (the back-pressure spin of run_bench).  A store
\* becomes visible to the other thread in finite time, so a load repeated
\* for ever eventually returns the latest value: strong fairness of the
\* refresh that reads the current index.
ConsumerFairness ==
  /\ WF_vars(PopCall)
  /\ WF_vars(PopRead)
  /\ WF_vars(PopRelease)
  /\ SF_vars(PopRefresh(head))

ProducerFairness ==
  /\ WF_vars(\E x \in Items : PushCall(x))
  /\ WF_vars(PushWrite)
  /\ WF_vars(PushPublish)
  /\ SF_vars(PushRefresh(tail))

FairSpec == Spec /\ ConsumerFairness /\ ProducerFairness
-----------------------------------------------------------------------------
TypeOK ==
  /\ head \in 0 .. MaxPush /\ tail \in Nat
  /\ cached_head \in Nat /\ cached_tail \in Nat
  /\ buf \in [0 .. Capacity - 1 -> Items \cup {NoItem}]
  /\ ppc \in {"idle", "refresh", "write", "publish"}
  /\ cpc \in {"idle", "refresh", "read", "release"}
  /\ item \in Items \cup {NoItem}
  /\ val \in Items \cup {NoItem}
  /\ out \in Items \cup {NoItem}
  /\ psize \in Int /\ csize \in Int

\* The cached copies are never ahead of the index they copy, and the live
\* window tail .. head - 1 never exceeds the buffer.
IndicesOrdered ==
  /\ cached_tail <= tail
  /\ tail <= cached_head
  /\ cached_head <= head
  /\ head - cached_tail <= Capacity

\* What each program counter knows about the indices.
PcKnowledge ==
  /\ ppc \in {"write", "publish"} => head + 1 - cached_tail <= Capacity
  /\ ppc \in {"write", "publish"} => item \in Items /\ head < MaxPush
  /\ ppc = "refresh" => item \in Items /\ head < MaxPush
  /\ ppc = "publish" => buf[slot(head)] = item
  /\ cpc \in {"read", "release"} => tail < cached_head
  /\ cpc = "release" => val = buf[slot(tail)]

\* The two threads never copy into and out of the same slot at the same
\* time (spsc_ring.hpp:46 and :58 are plain accesses): the slot being filled
\* is never the slot being drained, whatever stale index either side holds.
NoDataRace ==
  ~ (ppc = "write" /\ cpc = "read" /\ slot(head) = slot(tail))

\* size_approx called from either end of the ring returns an occupancy, not
\* a wrapped-around difference: the two relaxed-in-time loads of
\* spsc_ring.hpp:65-67 cannot make the subtraction negative or exceed the
\* capacity, so the high-water marks and the drain loops can rely on it.
SizeApproxInRange ==
  /\ psize \in 0 .. Capacity
  /\ csize \in 0 .. Capacity

\* The live window of the buffer, oldest item first.
contents == [k \in 1 .. head - tail |-> buf[slot(tail + k - 1)]]

Queue == INSTANCE BoundedQueue WITH queue <- contents

\* The ring implements the bounded FIFO queue: items come out once each, in
\* the order try_push published them, and never more than Capacity of them
\* are held (try_push and try_pop of spsc_ring.hpp:39-61).
ImplementsQueue == Queue!Spec

\* With a consumer that keeps polling and a producer that keeps retrying,
\* every item is eventually published and eventually popped: neither cached
\* index can make a thread see "full" or "empty" for ever.
AllDelivered == <>(tail = MaxPush)
=============================================================================
