----------------------------- MODULE AsyncLogger ----------------------------
(***************************************************************************)
(* src/common/async_logger.hpp: the operations log.  The strategy thread   *)
(* pushes records into a ring and ignores whether they fit; the logger     *)
(* thread writes them to a buffered file that it flushes whenever it has   *)
(* emptied the ring.  A record is the id of the order it is about; its     *)
(* formatting is left out.  The file is one that could be opened: with     *)
(* f_ null the thread does the same and the records go nowhere.            *)
(***************************************************************************)
EXTENDS Events

CONSTANT LogCap   \* capacity of ring_ (1 << 14)

ASSUME LogCapAssumption == LogCap \in Nat \ {0}

VARIABLES running,    \* g_running
          logRing,    \* ring_
          lpc,        \* where the logger thread is
          buffered,   \* written, not yet flushed
          file,       \* flushed
          owed        \* history: records that went into the ring before the
                      \* shutdown

logger == <<lpc, buffered, file>>

LoggerInit ==
  /\ logRing = <<>>
  /\ lpc = "test"
  /\ buffered = <<>>
  /\ file = <<>>
  /\ owed = {}

\* log()
log(r) ==
  /\ logRing' = try_push(logRing, LogCap, r)
  /\ owed' = IF running /\ can_push(logRing, LogCap) THEN owed \cup {r} ELSE owed

\* Mutated form: the ring is not looked at.
LoggerTest_only ==
  /\ lpc = "test"
  /\ lpc' = IF running THEN "drain" ELSE "ended"
  /\ UNCHANGED <<logRing, buffered, file>>

\* The two reads of the loop condition.
LoggerTest ==
  /\ lpc = "test"
  /\ lpc' = IF running THEN "drain" ELSE "size"
  /\ UNCHANGED <<logRing, buffered, file>>

LoggerSize ==
  /\ lpc = "size"
  /\ lpc' = IF logRing # <<>> THEN "drain" ELSE "ended"
  /\ UNCHANGED <<logRing, buffered, file>>

LoggerPop ==
  /\ lpc = "drain"
  /\ logRing # <<>>
  /\ buffered' = Append(buffered, Head(logRing))
  /\ logRing' = Tail(logRing)
  /\ UNCHANGED <<lpc, file>>

\* Mutated form: what was written stays in the buffer.
LoggerDrained_unflushed ==
  /\ lpc = "drain"
  /\ logRing = <<>>
  /\ lpc' = "test"
  /\ UNCHANGED <<logRing, buffered, file>>

\* The ring is empty: flush what was written, or sleep.
LoggerDrained ==
  /\ lpc = "drain"
  /\ logRing = <<>>
  /\ file' = file \o buffered
  /\ buffered' = <<>>
  /\ lpc' = "test"
  /\ UNCHANGED logRing

LoggerStep == LoggerTest \/ LoggerSize \/ LoggerPop \/ LoggerDrained

LoggerTypeOK ==
  /\ running \in BOOLEAN
  /\ logRing \in Seq(Nat) /\ Len(logRing) <= LogCap
  /\ lpc \in {"test", "size", "drain", "ended"}
  /\ buffered \in Seq(Nat) /\ file \in Seq(Nat)
  /\ owed \subseteq Nat
=============================================================================
