--------------------------- MODULE AnalyticsFlusher ---------------------------
(***************************************************************************)
(* The ClickHouse sink (crates/analytics/flusher.rs): producers push rows  *)
(* into an unbounded channel after their commits, one flusher task drains  *)
(* it into a buffer and writes the buffer as one INSERT per tick and once  *)
(* more at shutdown.  The select of the flusher is not biased: when        *)
(* several branches are ready any of them runs.                            *)
(*                                                                         *)
(* Producers are the backfill and the tail.  They see the cancellation at  *)
(* their own pace and may push after it (run_backfill flushes its buffer   *)
(* on cancel).  The branch for a channel without senders is not modelled:  *)
(* main keeps a handle until it has joined the flusher.                    *)
(***************************************************************************)
EXTENDS Integers, Sequences, SequencesExt

CONSTANTS
  Producers,   \* tasks that hold an AnalyticsHandle
  MaxRows,     \* bound: rows each producer pushes
  MaxErrors    \* bound: failed INSERTs

ASSUME FlusherAssumption == MaxRows \in Nat /\ MaxErrors \in Nat

VARIABLES
  next,       \* number of the row each producer pushes next
  queue,      \* the channel, rows <<producer, number>>
  buf,        \* the flusher's Vec
  batch,      \* rows of the INSERT under way
  fpc,        \* select, flush (in the loop), final (before exit), exited
  cancelled,  \* the CancellationToken
  accepted,   \* history: rows whose push returned Ok
  delivered,  \* the ClickHouse table, in insertion order (external)
  errors      \* number of failed INSERTs

vars == <<next, queue, buf, batch, fpc, cancelled, accepted, delivered, errors>>

Rows == Producers \X (1..MaxRows)

TypeOK ==
  /\ next \in [Producers -> 1..(MaxRows + 1)]
  /\ queue \in Seq(Rows) /\ buf \in Seq(Rows) /\ batch \in Seq(Rows)
  /\ fpc \in {"select", "flush", "final", "exited"}
  /\ cancelled \in BOOLEAN
  /\ accepted \subseteq Rows
  /\ delivered \in Seq(Rows)
  /\ errors \in 0..MaxErrors

Init ==
  /\ next = [p \in Producers |-> 1]
  /\ queue = <<>> /\ buf = <<>> /\ batch = <<>>
  /\ fpc = "select"
  /\ cancelled = FALSE
  /\ accepted = {} /\ delivered = <<>> /\ errors = 0

\* run_flusher owns the receiver and drops it when it returns (or panics).
ReceiverAlive == fpc \in {"select", "flush", "final"}

\* AnalyticsHandle::push of the next row.  Ok unless the receiver is gone; the
\* producer goes on with its next row either way.
Push(p) ==
  /\ next[p] <= MaxRows
  /\ next' = [next EXCEPT ![p] = @ + 1]
  /\ \/ /\ ReceiverAlive
        /\ queue' = Append(queue, <<p, next[p]>>)
        /\ accepted' = accepted \cup {<<p, next[p]>>}
     \/ /\ ~ReceiverAlive
        /\ UNCHANGED <<queue, accepted>>
  /\ UNCHANGED <<buf, batch, fpc, cancelled, delivered, errors>>

Cancel ==
  /\ ~cancelled
  /\ cancelled' = TRUE
  /\ UNCHANGED <<next, queue, buf, batch, fpc, accepted, delivered, errors>>

\* The recv branch: one row moves to the buffer.
Recv ==
  /\ fpc = "select"
  /\ queue # <<>>
  /\ buf' = Append(buf, Head(queue))
  /\ queue' = Tail(queue)
  /\ UNCHANGED <<next, batch, fpc, cancelled, accepted, delivered, errors>>

\* Mutant: what the drain takes from the channel is not written.
StartFlush_LosesQueue(to) ==
  /\ batch' = buf
  /\ queue' = <<>>
  /\ buf' = <<>>
  /\ fpc' = to

\* Mutant: the rows in the channel go before the rows received earlier.
StartFlush_Reversed(to) ==
  /\ batch' = queue \o buf
  /\ queue' = <<>>
  /\ buf' = <<>>
  /\ fpc' = to

\* try_recv until the channel is empty, then flush takes the whole buffer.
StartFlush(to) ==
  /\ batch' = buf \o queue
  /\ queue' = <<>>
  /\ buf' = <<>>
  /\ fpc' = to

\* The tick branch; with nothing to write it goes back to the select.
Tick ==
  /\ fpc = "select"
  /\ buf # <<>> \/ queue # <<>>
  /\ StartFlush("flush")
  /\ UNCHANGED <<next, cancelled, accepted, delivered, errors>>

\* The cancellation branch.
FinalDrain ==
  /\ fpc = "select" /\ cancelled
  /\ StartFlush("final")
  /\ UNCHANGED <<next, cancelled, accepted, delivered, errors>>

\* insert.end() succeeds.
InsertEnds ==
  /\ fpc \in {"flush", "final"}
  /\ delivered' = delivered \o batch
  /\ batch' = <<>>
  /\ fpc' = IF fpc = "flush" THEN "select" ELSE "exited"
  /\ UNCHANGED <<next, queue, buf, cancelled, accepted, errors>>

\* Mutant: a failed INSERT is swallowed and the loop goes on without the rows.
InsertFails_Swallowed ==
  /\ fpc \in {"flush", "final"} /\ batch # <<>>
  /\ errors < MaxErrors
  /\ errors' = errors + 1
  /\ batch' = <<>>
  /\ fpc' = "select"
  /\ UNCHANGED <<next, queue, buf, cancelled, accepted, delivered>>

\* An error of insert, write or end: `drain' has emptied the buffer and `?'
\* ends the task, dropping the receiver.  The table may have got the rows.
InsertFails ==
  /\ fpc \in {"flush", "final"} /\ batch # <<>>
  /\ errors < MaxErrors
  /\ errors' = errors + 1
  /\ delivered' \in {delivered, delivered \o batch}
  /\ batch' = <<>>
  /\ fpc' = "exited"
  /\ UNCHANGED <<next, queue, buf, cancelled, accepted>>

Next ==
  \/ \E p \in Producers : Push(p)
  \/ Cancel
  \/ Recv \/ Tick \/ FinalDrain
  \/ InsertEnds \/ InsertFails

Spec == Init /\ [][Next]_vars

-----------------------------------------------------------------------------

\* Until an INSERT fails, every accepted row is in the table, the batch, the
\* buffer or the channel, exactly once: no drain, tick or receive loses or
\* repeats one, and a shutdown leaves behind only what producers pushed while
\* the final INSERT was under way.
EveryRowOnce ==
  errors = 0 =>
    LET all == delivered \o batch \o buf \o queue
    IN  /\ Len(all) = Cardinality(accepted)
        /\ ToSet(all) = accepted

\* The rows of one producer reach the table in the order of its commits, never
\* twice, even when it pushes while a flush is under way.
ProducerOrderKept ==
  \A i, j \in 1..Len(delivered) :
    i < j /\ delivered[i][1] = delivered[j][1] => delivered[i][2] < delivered[j][2]

\* An accepted row is in the table after some tick, unless the flusher ended.
AcceptedIsDelivered ==
  \A r \in Rows : (r \in accepted) ~> (r \in ToSet(delivered) \/ ~ReceiverAlive)
=============================================================================
