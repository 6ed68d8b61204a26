-------------------------------- MODULE Bench -------------------------------
(***************************************************************************)
(* run_bench() of src/main.cpp: the offline load test.  The strategy       *)
(* thread of MarketMaker is fed by a producer that waits while the ring is *)
(* full, and its commands go to a sink that counts them; nobody answers    *)
(* them.  The logger and the LMDB thread run as in live mode.  A signal    *)
(* may stop the whole at any time.                                         *)
(***************************************************************************)
EXTENDS MarketMaker, AsyncLogger, FiniteSets, SequencesExt

CONSTANTS n_msgs,        \* messages to generate
          NarrowEvery,   \* how often the spread is narrow (7)
          narrow_half,   \* half the spread of those events (0.01)
          wide_half,     \* and of the others (0.10)
          Mids           \* mid prices the generator may draw

ASSUME BenchAssumption ==
  /\ n_msgs \in Nat
  /\ NarrowEvery \in Nat \ {0}
  /\ {narrow_half, wide_half} \subseteq Nat
  /\ Mids \subseteq Int
  /\ dry_run = FALSE       \* run_bench() overrides the configuration

VARIABLES ppc,         \* where the main thread, the producer, is
          ev,          \* the event it is pushing
          msgs,        \* md_msgs_total, and its loop index
          kpc,         \* where the sink thread is
          sunk,        \* orders_sent_total and cancels_sent_total
          dpc,         \* where the LMDB thread is
          processed,   \* history: events the strategy has taken
          given_up     \* history: events the producer did not push

producer == <<ppc, ev, msgs, given_up>>
sink == <<kpc, sunk>>
vars == <<strategy, rings, logger, logRing, owed, running, producer, sink, dpc,
          processed>>

NoEvent == [symbol_id |-> 0, n_bids |-> 0, n_asks |-> 0, bid_px |-> 0, ask_px |-> 0]

Init ==
  /\ RingsInit
  /\ MarketMakerInit
  /\ LoggerInit
  /\ running = TRUE
  /\ ppc = "loop" /\ ev = NoEvent /\ msgs = 0 /\ given_up = 0
  /\ kpc = "test"
  /\ sunk = [New |-> 0, Cancel |-> 0]
  /\ dpc = "drain"
  /\ processed = 0
-----------------------------------------------------------------------------
(* The producer: the main thread.                                          *)

\* Half the spread of the i-th event, whatever the configuration quotes on.
half(i) == IF i % NarrowEvery = 0 THEN narrow_half ELSE wide_half

Generate ==
  /\ ppc = "loop"
  /\ msgs < n_msgs
  /\ running
  /\ \E mid \in Mids :
       ev' = [symbol_id |-> msgs % NSyms, n_bids |-> kMaxDepth, n_asks |-> kMaxDepth,
              bid_px |-> mid - half(msgs), ask_px |-> mid + half(msgs)]
  /\ msgs' = msgs + 1
  /\ ppc' = "push"
  /\ UNCHANGED <<running, given_up, rings>>

\* Mutated form: one try.
Push_once ==
  /\ ppc = "push"
  /\ mdRing' = try_push(mdRing, MdCap, ev)
  /\ ev' = NoEvent
  /\ ppc' = "loop"
  /\ UNCHANGED <<running, msgs, given_up, execRing, ordRing, tradeRing, snapRing>>

\* The try_push that succeeds; the ones that fail change nothing.
Push ==
  /\ ppc = "push"
  /\ can_push(mdRing, MdCap)
  /\ mdRing' = Append(mdRing, ev)
  /\ ev' = NoEvent
  /\ ppc' = "loop"
  /\ UNCHANGED <<running, msgs, given_up, execRing, ordRing, tradeRing, snapRing>>

\* Mutated form: the spin does not look at the flag.
GiveUp_never == FALSE

\* The spin on a full ring is left when the flag has gone.
GiveUp ==
  /\ ppc = "push"
  /\ ~can_push(mdRing, MdCap)
  /\ ~running
  /\ given_up' = given_up + 1
  /\ ev' = NoEvent
  /\ ppc' = "loop"
  /\ UNCHANGED <<running, msgs, rings>>

\* The loop has ended, then the half second and g_running.store(false).
StopAll ==
  /\ ppc = "loop"
  /\ msgs = n_msgs \/ ~running
  /\ running' = FALSE
  /\ ppc' = "join"
  /\ UNCHANGED <<ev, msgs, given_up, rings>>

strategy_ended == ~running /\ spc = "exec"

\* t_strat, t_sink, t_db, t_log, and then the report.
Join ==
  /\ ppc = "join"
  /\ strategy_ended /\ kpc = "ended" /\ dpc = "ended" /\ lpc = "ended"
  /\ ppc' = "report"
  /\ UNCHANGED <<running, ev, msgs, given_up, rings>>

Producer ==
  /\ Generate \/ Push \/ GiveUp \/ StopAll \/ Join
  /\ UNCHANGED <<strategy, logger, logRing, owed, sink, dpc, processed>>
-----------------------------------------------------------------------------
(* The strategy thread.                                                    *)

\* The id a command's log record carries.
logged_id(c) == IF c.type = "New" THEN c.cl_ord_id ELSE c.orig_cl_ord_id

\* run() tests the flag at the top of each turn; a command that went into the
\* ring is logged.  No execution report ever comes.
Strategy ==
  /\ ~strategy_ended
  /\ StrategyStep
  /\ IF Len(ordRing') > Len(ordRing)
     THEN log(logged_id(Last(ordRing')))
     ELSE UNCHANGED <<logRing, owed>>
  /\ processed' = processed + (Len(mdRing) - Len(mdRing'))
  /\ UNCHANGED <<logger, running, producer, sink, dpc>>
-----------------------------------------------------------------------------
(* The sink, the LMDB thread and the logger.                               *)

SinkTest ==
  /\ kpc = "test"
  /\ kpc' = IF running THEN "drain" ELSE "ended"
  /\ UNCHANGED <<sunk, ordRing>>

SinkPop ==
  /\ kpc = "drain"
  /\ ordRing # <<>>
  /\ sunk' = [sunk EXCEPT ![Head(ordRing).type] = @ + 1]
  /\ ordRing' = Tail(ordRing)
  /\ UNCHANGED kpc

SinkDrained ==
  /\ kpc = "drain"
  /\ ordRing = <<>>
  /\ kpc' = "test"
  /\ UNCHANGED <<sunk, ordRing>>

Sink ==
  /\ SinkTest \/ SinkPop \/ SinkDrained
  /\ UNCHANGED <<strategy, mdRing, execRing, tradeRing, snapRing, logger,
                 logRing, owed, running, producer, dpc, processed>>

\* The LMDB thread as far as the others can see it: it pops, and it ends when
\* the flag has gone and the rings are empty.
Persist ==
  /\ dpc = "drain"
  /\ snapRing # <<>>
  /\ snapRing' = Tail(snapRing)
  /\ UNCHANGED dpc

PersistEnd ==
  /\ dpc = "drain"
  /\ ~running /\ snapRing = <<>> /\ tradeRing = <<>>
  /\ dpc' = "ended"
  /\ UNCHANGED snapRing

Persister ==
  /\ Persist \/ PersistEnd
  /\ UNCHANGED <<strategy, mdRing, execRing, ordRing, tradeRing, logger,
                 logRing, owed, running, producer, sink, processed>>

Logger ==
  /\ LoggerStep
  /\ UNCHANGED <<strategy, rings, owed, running, producer, sink, dpc, processed>>

\* on_signal()
Signal ==
  /\ running
  /\ running' = FALSE
  /\ UNCHANGED <<strategy, rings, logger, logRing, owed, producer, sink, dpc,
                 processed>>

Next == Producer \/ Strategy \/ Sink \/ Persister \/ Logger \/ Signal

Spec == Init /\ [][Next]_vars

\* Every thread is a loop that spins or sleeps for a bounded time.
FairSpec ==
  /\ Spec
  /\ WF_vars(Producer)
  /\ WF_vars(Strategy)
  /\ WF_vars(Sink)
  /\ WF_vars(Persister)
  /\ WF_vars(Logger)
-----------------------------------------------------------------------------
TypeOK ==
  /\ RingsTypeOK
  /\ MarketMakerTypeOK
  /\ LoggerTypeOK
  /\ ppc \in {"loop", "push", "join", "report"}
  /\ ev \in MdEvent
  /\ {msgs, processed, given_up} \subseteq 0 .. n_msgs
  /\ kpc \in {"test", "drain", "ended"}
  /\ sunk \in [{"New", "Cancel"} -> Nat]
  /\ dpc \in {"drain", "ended"}

\* "nothing dropped" (docs/ANALYSIS.md:58): every generated event is taken by
\* the strategy or still on its way; only a signal that finds the ring full
\* makes the producer give one up (main.cpp:125-127).
NothingDropped ==
  /\ msgs = processed + Len(mdRing) + given_up + (IF ppc = "push" THEN 1 ELSE 0)
  /\ given_up <= (IF running THEN 0 ELSE 1)

InFlight == {q \in Syms \X Sides : oms[q[1]][q[2]].state = "PendingNew"}

\* As nobody answers, a slot that has placed its order waits for ever: the
\* bench places one order per symbol and side, however many events it sends,
\* never cancels, and the sink's counters account for each of them
\* (main.cpp:88-103 with market_maker.hpp:109-110 and :133).
OneOrderPerSlot ==
  /\ sunk["Cancel"] = 0
  /\ sunk["New"] + Len(ordRing) = Cardinality(InFlight)
  /\ \A sym \in Syms, side \in Sides : oms[sym][side].state \in {"None", "PendingNew"}

\* A record that was in the ring when the shutdown began is in the file when
\* the logger thread ends, flushed, although the strategy may still be
\* pushing (the loop condition and the flush of async_logger.hpp:49-59).
LogDrained ==
  lpc = "ended" => owed \subseteq Range(file)

\* No record that was in the ring before the shutdown is lost on its way: it
\* is in the ring, in the buffer or in the file.  Whatever was written is
\* flushed before the thread looks at the flag or sleeps, and the size of the
\* ring is looked at only after the flag was seen gone
\* (async_logger.hpp:49-59).
LogAccounted ==
  /\ owed \subseteq Range(logRing) \cup Range(buffered) \cup Range(file)
  /\ lpc \in {"test", "size", "ended"} => buffered = <<>>
  /\ lpc \in {"size", "ended"} => ~running

\* The joins of main.cpp:134 return and the report is printed, whether the
\* events run out or a signal comes while the producer spins on a full ring.
Reports == <>(ppc = "report")
-----------------------------------------------------------------------------
(* The inductive invariant of the proofs, with the properties above.       *)

\* No report comes and no fill is handed on, and of the commands waiting for
\* the sink none is a cancel.
Unanswered ==
  /\ execRing = <<>> /\ tradeRing = <<>>
  /\ \A k \in 1 .. Len(ordRing) : ordRing[k].type = "New"

\* The producer does not come back to the spin it has given up.
GaveUpOnce == ppc = "push" => given_up = 0

\* What relates the threads of the bench at every moment: where each event,
\* each order and each record is.
BenchInv ==
  /\ NothingDropped /\ GaveUpOnce
  /\ Unanswered /\ OneOrderPerSlot
  /\ LogAccounted /\ LogDrained
=============================================================================
