# A TLA+ verification of mm-engine

mm-engine is a market-making engine: it follows the books of a few futures over
a FIX session, quotes inside a wide spread, cancels in a narrow one, and tracks
one quote per symbol and side. Its threads share nothing but lock-free rings.
This directory models the rings, the live engine built on them with its session,
venue and restarts, the persister, the logger, the metrics and the load test;
checks them with TLC on small instances; and proves every invariant and action
property that the runs check with TLAPS, for every number of symbols, ring
capacity, message loss, recording thread and restart.

Paths below are relative to the repository root.

## 1. The system

| Component | State | Operations | Talks to |
|---|---|---|---|
| SPSC ring, `src/common/spsc_ring.hpp` | two atomic indices, two cached copies, the buffer | `try_push`, `try_pop`, `size_approx` | one producer thread, one consumer thread |
| Event PODs, `src/common/events.hpp` | - | - | what crosses a ring |
| Order book, `src/book/order_book.hpp` | best levels per symbol | `apply_snapshot`, `has_bba`, `spread`, (`mid`, `vwap` unused) | owned by the strategy |
| Order manager, `src/oms/order_manager.hpp` | a `Quote` per symbol and side: None, PendingNew, Live, PendingCancel | `on_exec` | owned by the strategy |
| Strategy, `src/strategy/market_maker.hpp` | books, quotes, the ClOrdID seed, the snapshot timer | `run`: `decide`, `requote`, `cancel_side`, `push_snapshots` | pops MdRing, ExecRing; pushes OrdRing, SnapRing, TradeRing, LogRing |
| FIX application, `src/fix/fix_app.hpp` | `logged_on_`, symbol table | `onLogon`, `onLogout`, `fromApp`/`onMessage`, `send_order_cmd` | QuickFIX reader thread pushes MdRing, ExecRing; the sender thread calls `send_order_cmd` |
| Sender thread, `src/main.cpp` | the command it holds | pop, test `logged_on()`, send or drop | OrdRing, the FIX session |
| LMDB persister, `src/storage/lmdb_persister.hpp` | two rings, two sequence numbers, the database | `run` | SnapRing, TradeRing |
| Async logger, `src/common/async_logger.hpp` | a ring, a file | `log`, `run` | LogRing |
| Latency histogram, `src/common/latency_histogram.hpp` | atomic buckets, an atomic maximum | `record`, `snapshot`, (`reset` unused) | recorded into by the strategy and the sender, read by the metrics thread |
| Metrics, `src/metrics/` | atomic counters and high-water marks, the Prometheus counters | `track_max`, `run` with `publish` and `set_counter` | every thread; the metrics thread |
| Bench mode, `src/main.cpp` | the generated messages, what the sink has counted | producer, sink, joins | the strategy, logger and LMDB threads |
| Main, `src/main.cpp` | `g_running` | start, shutdown, `--bench` | all threads |
| Venue, `scripts/mock_exchange.py` or reMarkets | its order book | acknowledges, fills, cancels | the FIX session |

What is hard here:

* The ring's correctness rests on stale copies of the other side's index being
  stale in the harmless direction only.
* Between a decision and its effect lie four hand-overs (ring, sender, wire,
  venue), and the answer comes back over two more (wire, ring). Snapshots keep
  arriving meanwhile, the venue trades meanwhile, any of the queues may be
  full, and the session may go down with messages in any of them. The engine
  has no timeouts and no retries: the `Quote` state machine alone must keep it
  from quoting twice, and nothing but a report ever moves a pending slot.
* A report is matched by one number, and what it means depends on two fields
  that the venue fills in.
* Shutdown is one relaxed flag read by every loop, and nothing of the order
  state survives a restart, while the orders at the venue do.
* The metrics are read without a lock while they change: bucket by bucket and
  counter by counter.

What makes each part correct: the ring is a FIFO queue that loses, duplicates
and reorders nothing, without a data race. The order manager and strategy have
at most one open order per symbol and side, never lose track of one, never
cancel what is not acknowledged or is already being cancelled, agree with the
venue when nothing is in flight, and never wait for an answer that cannot come.
A narrow market ends with no quotes. Fills reach the database, operations the
log. A snapshot of the metrics is one the engine went through, up to the width
of a bucket. `PROJECT.json`
lists the hazards line by line with the properties that cover them.

## 2. The modules

| Module | Models | Notes |
|---|---|---|
| `BoundedQueue` | what a ring promises | abstract specification |
| `SpscRing` | `spsc_ring.hpp` | one action per access to shared memory |
| `SpscRingProofs` | | types; the ring implements the queue, is race free, `size_approx` is in range |
| `Events` | `events.hpp` and the rings as queues | |
| `OrderBook`, `OrderManager` | the two headers of that name | operators on values, used by the strategy |
| `MarketMaker` | the strategy thread | one action per ring access of `run()` |
| `FixWire` | the FIX session (external) | two FIFO channels, cut by `Disconnect` |
| `FixApp` | QuickFIX callbacks and the sender thread | |
| `Exchange` | the venue (external) | `VenueMay` selects its behaviours |
| `Engine` | the composition, fairness and properties | `Next` has a disjunct per actor |
| `EngineInvariant` | the inductive invariants `OrderIdsInv`, `SlotsInv`, `ReportsInv` and `AgreeInv` | checked by TLC in the `venue` run, the last two in `reliable` |
| `MarketMakerProofs` | | what the strategy's operators and its thread keep; used by the engine and the bench |
| `EngineProofs` | | types, one open order, no orphans, cancel after acknowledgement |
| `EngineSlotProofs` | | no second cancel, the life of a slot |
| `EngineAgreeProofs` | | how many reports can wait; engine and venue agree when nothing is in flight |
| `FillHistory` | an append-only history of fills | abstract specification |
| `LmdbPersister` | the LMDB thread, shutdown and restart | one action per ring access, LMDB call or flag read |
| `LmdbPersisterProofs` | | types, shutdown drains the ring, the thread implements `FillHistory` |
| `LatencyHistogram` | `latency_histogram.hpp` | bucket arithmetic, `record` and `snapshot` by memory access |
| `MetricsServer` | the registry and the metrics thread | extends `LatencyHistogram` |
| `MetricsProofs` | | no maximum lost, sound snapshots, right percentiles, consistent and monotone counters; first, sums over finite sets |
| `AsyncLogger` | `async_logger.hpp` | extends `Events` |
| `Bench` | `run_bench` | composes `MarketMaker` and `AsyncLogger` with producer, sink and LMDB thread |
| `BenchProofs` | | nothing dropped, one order per slot, the log is complete |
| `MCSpscRing`, `MCEngine`, `MCLmdbPersister`, `MCMetrics`, `MCBench` | instances for TLC | sets of market data snapshots, latencies |

`Events` is extended by `OrderBook` and `OrderManager`, both by `MarketMaker`;
`FixWire` by `FixApp` and `Exchange`; `Engine` extends all three ends.

### SpscRing

`try_push` is `PushCall`, `PushRefresh` (only when the cached tail says full),
`PushWrite`, `PushPublish`; `try_pop` is `PopCall`, `PopRefresh`, `PopRead`,
`PopRelease`. A failed call is one that returns to `"idle"` from the refresh. An
acquire load returns any value of the index that is not older than the last one
the thread has observed, which is what release/acquire on one atomic allows; a
thread reads its own index exactly. The buffer is plain memory, so two
copies of one slot at a time would be a data race. Indices are natural numbers
(2^64 pushes are out of reach) and `& kMask` is `%` by a power of two.

`size_approx` is called by the producer after a push and by the LMDB and log
threads on the rings they consume. It is modelled for these two callers: a
third thread that loads head first and tail later can get a wrapped difference.

### The engine

The strategy thread is a program counter `spc` over `run()`: `PopExec` until
`ExecDrained`; `PopMd` or `MdEmpty`; `ActBuy`, `ActSell` (the two calls
`decide()` makes); `SnapshotDue` or `SnapshotNotDue` (the clock); `PushSnapshot`
for every symbol. The other threads run between any two of these. `requote`,
`cancel_side`, `on_exec` and `exec_kind` keep the branches of the functions they
are named after. Prices are integers in a unit that divides the tick, so that
the half-tick tolerances are exact; of a book side only the number of levels
and the best price are kept, because nothing else is read. Sequence numbers,
timestamps, log records, metrics and the exchange's order id steer nothing and
are left out. The ClOrdID seed starts at 1: only that it grows, and is not
the 0 of an empty slot, is used.

The sender is `SenderPop` and `SenderSend` (`logged_on()` is read at the send,
not at the decision). The reader is `OnMarketData`, `FromApp` for reports,
`OnLogon`, `OnLogout`. The session drops at `Disconnect`: a prefix of what was
sent reaches the venue, unread reports are lost, and `onLogout` comes a step
later, so a sender may still see the old flag. Nothing is resent, because
`config/fix_config.cfg` resets the sequence numbers on logon, logout and
disconnect.

The venue keeps its set of working orders. `VenueMay` lists what it may do
beyond accepting orders and executing cancels: name the order or the request in
a Canceled report, confirm or refuse cancels of orders that are gone, reject
orders, refuse cancels of working orders, fill in whole or in part, use OrdStatus PENDING_CANCEL for a
trade ahead of a received cancel, cancel an order itself, let it expire, or
report on orders of the account that this engine did not send (`Stray`, whose
ClOrdID parses as 0). `mock_exchange.py` is `{"ack_request", "blind_ack",
"fill"}`. Reports carry configured symbols.

`Restart` ends the process at any point of any thread and starts the next with
empty rings and slots. The orders at the venue stay, and so may a part of what
was on the wire; reports about them reach the new process. `first_id` is where the
seed of the present process started. The seed is the clock's milliseconds times
1000, so it is past every id drawn before, provided the machine stays up; the
properties about orders are about those of the present process (`Ids`).

A ring of the engine is the queue of `BoundedQueue`; the theorem
`RingImplementsQueue` is what allows this.

### LmdbPersister

The LMDB thread is modelled apart from the engine, with the strategy thread as far
as it pushes: `PushTrade` in its drain loop, which does not look at `running`,
and `PushSnapshot`. The loop condition of the LMDB thread is three reads
(`TestRunning`, `TestSnaps`, `TestTrades`); `PopSnap` and `PopTrade` open a
transaction when there is none, or lose the item when `mdb_txn_begin` fails;
`Commit` makes the batch visible or, failing, loses it. `Restart` ends the
process anywhere and starts another on the same database; it is a step of
`RestartSpec` only, `Spec` being the life of one process. Fills and snapshots are
their numbers in the order they happen, keys keep their structure.

### Metrics

`record()` is `RecordBucket`, `RecordLoad` and as many `RecordExchange` as its CAS
loop needs; `snapshot()` is `SnapshotCall`, a `SnapshotRead` per bucket in the order
of the loop, and `SnapshotReturn`, which loads `max_` and does the local walk. The
constants are those of the source (5 bits, 32 sub-buckets); only buckets that a
value of `Values` falls into are kept, since the others stay 0. Every histogram of
the engine has one recording thread; the class is written for more, and the run
has two. Relaxed accesses take effect in program order, as on the x86 builds.

`MetricsServer` adds the counters, the reader's three updates per snapshot (count,
drop, high-water mark), and the loop of `run()`: `ReadMd`, the histogram snapshot,
a `SetCounter` per counter, `SetGauges`. The three flows, three queue marks and the
three counters that are one `fetch_add` differ in name only; one of each is kept.

### Logger and bench

`AsyncLogger` separates what is in the ring, what is written but not flushed and
what is flushed; its loop condition is two reads. `Bench` runs the strategy of
`MarketMaker` unchanged, with the flag tested at the top of a turn. A command that
enters the ring is logged in the same step; nothing the model states can tell
whether the sink saw it before. The LMDB thread is
reduced to its pops and its exit test (`LmdbPersister` has the rest). The share of
narrow events is one in `NarrowEvery` (7 in the source), and the half spreads are
the constants `narrow_half` and `wide_half` (0.01 and 0.10), which are independent
of the configuration: with the shipped `TICK_SIZE=0.5` and `MINIMUM_SPREAD=0.05` the
wide events are skipped as crossing (`market_maker.hpp:97`) and the bench places
nothing. The run has a tick small enough for the wide events to be quoted; the
theorems cover both.

## 3. The runs

Bounds: `MaxMd` snapshots are delivered, `MaxLogouts` disconnects and `MaxRestarts`
restarts happen, the snapshot timer expires `MaxSnapshots` times, and a stray report
comes only while fewer than `StrayRoom` reports wait; everything else is bounded by
these, since the strategy emits at most two commands per snapshot. Capacities of
one or two make rings that fill up. The exception is the order ring of `session`,
which is never full at a push, since each of the two slots has at most one command
on its way; in `venue` stray reports, which an empty slot takes for its own, lead
to a push into a full order ring, in `bench` the orders of the second symbol do, and
the theorems are for every capacity. A capacity of 8 is "never full" for two or three snapshots. A quote takes one snapshot to place, one to cancel and one to place
again, so three or four snapshots reach a second order on the same side, the
shortest path to every double quote. `dry_run` is FALSE in all runs (with TRUE
the strategy emits nothing); the proofs cover both.

| Run | Checks | Instance | Shows |
|---|---|---|---|
| `ring` | TypeOK, NoDataRace, SizeApproxInRange, ImplementsQueue, AllDelivered | 2 slots, 5 pushes of 2 values | the ring is a queue, with stale loads; every item arrives |
| `session` | TypeOK, OneWorkingOrder, NoOrphanOrder, CancelFollowsAck, NoRepeatedCancel, SlotLifecycle | 3 snapshots of a moving market, ExecRing of 1, 1 disconnect, 1 restart, book snapshots | no double quote, no orphan, no second or early cancel, whatever the disconnect, the full rings or the restart lose |
| `venue` | OrderIdsInv, SlotsInv | 2 snapshots of 5 shapes, every venue behaviour but PENDING_CANCEL, stray reports | the invariants of the proofs |
| `reliable` | ReportsInv, ReportsFit, AgreeInv, AgreeWhenQuiet, PendingResolved | 2 snapshots, quantity 2, fills in parts, rejects, unsolicited cancels, no disconnect | no more reports wait than the slots can cause; engine and venue agree when nothing is in flight; every wait ends |
| `history` | TypeOK, HistoryInv, OwedInv, DrainedAtExit, KeepsHistory, JoinReturns | 4 fills, 1 snapshot, 1 failing LMDB call | stored fills are append-only and in order; shutdown commits what is in the ring, then the thread ends |
| `metrics` | TypeOK, MetricsInv, PercentileInv, SnapshotBetween, PercentileBound, MaxWhenIdle, PublishedConsistent, NeverGoesBack, CatchesUp | 2 recording threads, 2 values, 3 updates, a stop at any time | lock-free snapshots are consistent, percentiles right up to a bucket, counters published exactly and in the end completely |
| `bench` | TypeOK, NothingDropped, OneOrderPerSlot, LogDrained, LogAccounted, Reports | 2 symbols, 4 events, rings of 1 or 2, a signal at any time | backpressure drops nothing, the sink accounts for every order, the log is complete, every join returns |
| `mock` | PendingResolved: violated | the mock's behaviours | finding 1 |
| `logout` | PendingResolved: violated | 1 disconnect | finding 2 |
| `narrow` | NarrowStandsDown: violated | one wide and one narrow market | finding 3 |
| `pending_status` | OneWorkingOrder: violated | partial fills with PENDING_CANCEL | finding 4 |
| `restart` | KeepsHistory: violated | 2 fills, 1 restart | finding 5 |

One symbol is enough for the engine runs, because slots of different symbols
share nothing but the rings and the id counter; two symbols are in the `bench` run,
and the theorems are for any number.

In the metrics run three updates are three recorded values, or a mixture with
counted events: enough for p50 and p90 to differ, for two threads to race in the
CAS loop, and for a counter to move before, during and after a round. The bucket
arithmetic is checked apart for every value up to 4100 ns (`BucketsFit`, which
the proofs extend to half a second, and `UpperEndsOrdered`, in `MCMetrics`). In the
bench run four events with every third narrow give each symbol a wide event and one a
narrow event after its orders; the price is the same each time, since a slot that
waits does not look at it.

Deadlock is checked in the ring and engine runs, whose loops never stop; in the
others the threads end after a shutdown.

Each property of a passing run has a mutant in `PROJECT.json`: an operator
marked "Mutated form" next to the definition it distorts, under which TLC finds
the property violated.

### Fairness

`FairSpec` of the ring: both threads keep calling (the consumer polls, the
producer retries as the spin of `run_bench` does), and a load repeated for ever
eventually returns the latest value, since a store becomes visible in finite
time: strong fairness of the refresh that reads the current index.

`FairSpec` of the engine: weak fairness of the strategy and sender threads (loops
that never block), of the reader's delivery and session callbacks, and of the
venue's answers. The initiator reconnects every `ReconnectInterval`. Nothing is
assumed about market data, trades or the connection, so `PendingResolved` in
`reliable` needs no further snapshot, and the violations in `mock` and `logout` are
not caused by an actor that stops.

`FairSpec` of the persister, of the metrics and of the bench: weak fairness of
each thread, loops that spin or sleep but never block for ever. In the metrics
nothing is assumed of the threads that record and count. No signal is assumed in
the bench: `Reports` holds with and without one.

### Findings

1. `mock`: the mock answers a cancel with the *request's* ClOrdID
   (`scripts/mock_exchange.py:123`, `:193`), `on_exec` only knows the order's
   (`src/oms/order_manager.hpp:29`). The slot stays PendingCancel. README.md
   (196-199) says both branches of the strategy run continuously; each slot goes
   through them once. The console log in `docs/ANALYSIS.md` shows a single cycle.
2. `logout`: a command popped while logged off is dropped (`src/main.cpp:217`);
   its slot was set to pending when it was pushed and is never reset.
   `market_maker.hpp:110` calls the state "in flight, wait".
3. `narrow`: a narrow snapshot that finds an order unacknowledged does not cancel
   it (`market_maker.hpp:133`), and once acknowledged it works in the narrow
   market until the next snapshot; line 10 says "cancel all active quotes,
   stand down".
4. `pending_status`: a trade is a complete fill unless OrdStatus is
   PARTIALLY_FILLED (`src/fix/fix_app.hpp:169`); a partial fill with
   OrdStatus PENDING_CANCEL frees the slot while the rest of the order
   works, against "One working quote per (symbol, side)"
   (`order_manager.hpp:4`).
5. `restart`: sequence numbers start at 0 in every process and `mdb_put`
   overwrites (`lmdb_persister.hpp:85`, `:80`), so a session replaces the "trade/
   holdings history" (line 3) of the one before.

Met on the way, without a run of their own: a fill pushed after the LMDB thread has
found its rings empty at shutdown is not stored (`lmdb_persister.hpp:49`,
`market_maker.hpp:53`); the bench places one order per symbol and side in all and
never cancels (`OneOrderPerSlot`), because nothing acknowledges them, so its narrow
events exercise an empty `cancel_side`; below 32 ns the histogram's upper ends are
not monotone (`UpperEndsOrdered`), so a p50 above p99 can be printed.

## 4. The proofs

**The ring** (`SpscRingProofs`), for every power-of-two capacity and item set. The
inductive invariant adds to the types that
`cached_tail <= tail <= cached_head <= head <= cached_tail + Capacity`, what each
program counter knows (a producer about to write has room by its *cached* tail,
a consumer about to read has an item by its *cached* head) and what has been
written or read so far. The distance bound puts the slot being written and the
slot being read less than a buffer apart, so they differ (`SlotsDistinct`): that
is `RaceFree`. `RingImplementsQueue` maps the window of the buffer between tail
and head to the queue: a write is outside the window and a stutter, the store of
head is a push, the store of tail is a pop.

**The engine** (`EngineProofs`). `TypeCorrect` holds for all constants. The others
follow from `OrderIdsInv`, which follows an id from the counter through the
pipeline (ring, sender, wire) to the venue and back:

* `IdsKnown`: every id anywhere is below the counter;
* `PipeDistinct`: no id is in two places of the pipeline;
* `Answered`: ids at the venue, in reports, and in Live or PendingCancel slots
  have left the pipeline;
* `TerminalIsGone`: a report that frees a slot is about an order that no longer
  works;
* `Owned`: the slot of an order in the pipeline or at the venue holds its id;
* `CancelsAnswered`: a cancel names an order that has left the pipeline;
* `WorkingDistinct`: the venue holds an id once.

`OneWorkingOrder` alone is not inductive: it needs `Owned`; freeing a slot keeps
`Owned` only by `TerminalIsGone` and `Answered` (the order is neither at the
venue nor still on its way); and these need ids to be unique. Two open orders
of one side would both be owned by one slot, hence `NeverDoubleQuotes`;
`NeverOrphaned` is `Owned`; `CancelAlwaysFollowsAck` is `CancelsAnswered`.
The proof has one lemma per actor's step. A restart keeps the invariant because it
empties the slots together with the range of ids that `Owned` speaks of: ids below
`first_id` belong to no slot, and no id is drawn twice. Stray reports keep it because
id 0 is no order's.

On top of it `SlotsInv` (`EngineSlotProofs`) keeps a slot from going back:

* `SlotIds`: a free slot holds the id 0, one in use an id of this process;
* `AckPending`: while an acknowledgement is on its way, the slot of its order is
  PendingNew;
* `AckOnce`: no two acknowledgements of one order are in flight, on the wire and
  in the ring together;
* `CancelPending`: while a cancel is on its way, the slot of its order, if it still
  holds it, is PendingCancel.

`NeverCancelsTwice` is `CancelPending`. It is not inductive alone: a second
acknowledgement would make a PendingCancel slot Live again, which `AckPending`
excludes, and that in turn needs `AckOnce` when the first of two would be applied.
`SlotsNeverGoBack` is the action property `SlotLifecycle`, from the same invariant.

Assumptions: those named in the modules (positive capacities and tick, 1 to 8
symbols, depth 1 to 5), and for everything that rests on `OrderIdsInv`,
`"pending_status" \notin VenueMay`. The run `pending_status` shows that the last
one is necessary. No assumption is made about losses, full rings, refused
cancels, disconnects, restarts, stray reports or the id in a Canceled report.

`ReportsAlwaysFit` (`EngineAgreeProofs`) answers whether `ExecRing`, whose
`try_push` result is ignored (`fix_app.hpp:186`), can overflow. `Reports` are those
the strategy has not seen, on the wire and in the ring, `Sent` the commands the venue
has not taken. `ReportsInv` follows the reports on one order:

* `LeavesFall`: each leaves less of the order than the one before, since the
  acknowledgement comes first, a partial fill takes something away and an end leaves
  nothing; on the wire and in the ring together they stay in that order;
* `LeavesBounded`: what they leave is at most `order_qty`, at least what still works
  at the venue, and 0 at the end;
* `Awaited`: the slot of the order still holds its id. A slot is freed only by the
  end of its order, and by `LeavesFall` no report on it is behind that.

So the pair of slot and remaining quantity is different for every report that waits,
and there are `2 * NSyms * (order_qty + 1)` such pairs: that is `ReportsFit`, by
counting an injection. The condition is `ReportsNamed`: one process, and a venue that
names the engine's own order in every report (no Canceled under the request's id, no
PENDING_CANCEL status for a partial fill, no stray reports). Disconnects, full rings,
refused cancels and expiring orders are allowed. `NoReportDropped`: with at least
that capacity (`RingIsLarge`) the ring takes every report. The 4096 places of the
source suffice for eight symbols and up to 255 whole lots per quote.

`AgreesWhenQuiet` (`EngineAgreeProofs`) says that the slots and the venue agree,
order by order, when nothing is in flight. `AgreeInv` says it of every other state:
whatever the two differ by is on its way, in `Sent` or in `Reports`.

* `AnswersComing`: a slot in use has its order under way, at the venue, or the end
  of it in a report; a slot that waits has its request or the answer under way;
* `LeavesReported`: what is left at the venue is what the slot says, or what a
  partial fill under way will make it say; by `LeavesFall` the last one to be applied
  is the one that counts;
* `TermsKept`: slot and order have the same price, and the same quantity until the
  venue takes the order;
* `ReportsFindSlot`: a report reaches the slot of its order, because no two slots
  hold one id;
* `Connected`: before the logon nothing has been decided.

The invariant rests on `OrderIdsInv`, `SlotsInv` and `ReportsInv`: a refused cancel
may be forgotten (as the code does) because the order is then no longer at the venue
and, by `AnswersComing`, its end is on the way; a report of the end answers every wait
for that id. It holds for every number of symbols, quantity and market under two
conditions. `NothingLost`: no disconnect and no restart, and of the venue that its
Canceled reports carry the order's id, that it confirms a cancel exactly when the
order works, and that no order expires; rejects, fills in any parts and cancels of
its own are allowed. `RingIsLarge`: the capacity above. Findings 1, 2 and 4 are what
happens without the first; without the second a report may be dropped, and its slot
never learns of it.

**The persister** (`LmdbPersisterProofs`), for any number of fills, snapshots,
failing calls and restarts. `PersisterTypeCorrect` needs that sequence numbers and
what is left in a ring never exceed what was pushed. `ShutdownDrains` proves
`OwedInv` and `DrainedAtExit` together: `OwedInv`
says that a fill that was in the ring when the shutdown began is still there or
has been put under a number of this process, until an LMDB call fails; `LoopInv`
says what each program counter knows, in particular that the two size tests run
only after the flag was seen down. `StoresHistory` is the refinement of
`FillHistory` within a process: `HistoryInv` orders ring, transaction and database
(numbers grow along the ring, all keys of the database are before those of the
transaction, both grow with the fill), so a commit extends the stored history at
its end and an abort is a stutter. `HistoryAlways` and `OwedAlways` state the two
invariants by themselves.

**The metrics** (`MetricsProofs`), for any finite set of values
below 2^29 ns, any finite set of recording threads and any number of updates. `RecordInv`: a recorded value that
`max_` does not cover is in the hands of a thread inside its CAS loop, hence
`NoMaximumLost`. `SnapshotInv`: were the buckets not yet read to stay as they are,
the snapshot would count at least what was recorded before the call, and it never
counts more than is recorded, hence `SnapshotsSound`. `RoundInv`: what a round of
the publishing loop has loaded and published, hence `PublishesConsistently` and,
with the first, `PublishedMonotone`. `PercentilesRight`: `PercentileInv` says that up
to any bucket the histogram counts what was recorded up to there, and that a snapshot
during which nothing was recorded has read the buckets as they still are. The bucket
index is monotone (`BucketOrder`), so the first bucket at which the walk reaches a rank
is the bucket of the true percentile (`RankBucket`), and the upper end of a bucket is
close to every value in it (`UpperApproximates`). Both rest on a table of the powers
of two up to 2^30, and so on `HistogramAssumption`: values below 2^29 ns, half a
second; larger ones are not covered. The sums over buckets are folds over a finite
set; the facts about them are inductions, carried out by taking a
minimal counterexample with the library's well-founded orderings.

**The bench** (`BenchProofs`), for any number of events, symbols and capacities.
`BenchInv` accounts for each event (in the ring, processed, held by the producer or
given up at a signal), each order (a slot that is not None is the one New in the
order ring or counted by the sink; no report ever comes) and each log record.
`BenchDropsNothing`, `BenchQuotesOnce`, `RecordsAccounted` and `LoggerDrains` are its
parts.

Only model-checked: liveness (`AllDelivered`, `PendingResolved`, `JoinReturns`,
`CatchesUp`, and `Reports` of the bench), which is out of the prover's reach.

## 5. Not modelled

Configuration parsing, thread affinity, clocks, credentials, the Prometheus
exposer, Grafana, FIX dictionaries, the report of the bench and log formatting are
I/O without control of their own. `ObjectPool`, `OrderBook::vwap`, `mid`,
`OrderManager::any_active`, `LatencyHistogram::reset` and `AsyncLogger::log_text` are
called by nothing. Rounding of doubles and wrap-around of 64-bit indices are
abstracted away. A report about a symbol that is not configured makes `on_exec` index
out of bounds, which is undefined; the model's reports carry configured symbols. A
report without ExecType, a required field, keeps kind New in the code
(`fix_app.hpp:148-165`); the model's reports carry one. A failing `mdb_put` or
`mdb_dbi_open` is part of a failing commit, as LMDB refuses to commit a transaction
with an error in it. A
reboot, after which the clock's seed may repeat ids, is the mutant
`Restart_same_seed`; a machine crash, which may undo LMDB commits, is not modelled.

## 6. Plan

Done: the ring, the live engine with session, venue, stray reports and restarts,
persister, logger, histogram, metrics server and load test, model-checked; every
invariant and action property of the passing runs proved.

Left:

1. `PercentileBound` for values of 2^29 ns and more, which needs the powers of two
   in general instead of a table.
2. `ReportsFit` across restarts, where reports on the orders of an earlier process
   come on top.
