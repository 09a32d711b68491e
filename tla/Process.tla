------------------------------- MODULE Process -------------------------------
(***************************************************************************)
(* The indexer process (bin/indexer.rs): main spawns the tasks, waits for  *)
(* a signal, cancels the shared token and awaits the tasks' handles one    *)
(* after the other.  The analytics flusher is the one of AnalyticsFlusher, *)
(* fed here by the real life cycle of its two producers; the stats loop    *)
(* refreshes its materialized view.                                        *)
(*                                                                         *)
(* Every committed block gives one row.  A zero interval in the            *)
(* configuration makes tokio::time::interval panic when the task starts.   *)
(* Without GRPC_URL the tail is a task that has ended, without             *)
(* CLICKHOUSE_URL the flusher is.                                          *)
(***************************************************************************)
EXTENDS AnalyticsFlusher

CONSTANTS
  MaxCommits,  \* bound: commits of both producers together
  MaxLost      \* bound: commits whose answer is lost

ASSUME ProcessAssumption ==
  /\ Producers = {"backfill", "tail"}
  /\ MaxCommits \in Nat /\ MaxLost \in Nat

VARIABLES
  mpc,        \* main: run, join, exited, failed (an error or a panic seen by `?')
  awaiting,   \* the position of the handle main awaits
  tpc,        \* of each task: loop (its select), walk (an iteration), committed
              \* (its rows are still to be pushed), ended, panicked
  buffered,   \* the backfill has bundles in its buffer
  commits,    \* number of commits that took effect
  lost,       \* number of them whose answer was lost
  early       \* history: rows pushed before the signal

main == <<mpc, awaiting, early>>
written == <<commits, lost>>
processVars == <<vars, main, tpc, buffered, written>>

\* Mutant: the tail's handle is dropped instead of awaited.
JoinOrder_NoTail == <<"stats", "detector", "backfill", "coinblast", "analytics">>

\* The order in which main awaits the handles.
JoinOrder == <<"stats", "detector", "backfill", "coinblast", "tail", "analytics">>

Tasks == {"stats", "detector", "backfill", "coinblast", "tail"}

\* Tasks whose interval is configured.
Ticking == {"stats", "detector", "backfill", "analytics"}

ProcessInit ==
  /\ \E zero \in {{}} \cup {{t} : t \in Ticking} :
       /\ tpc = [t \in Tasks |-> IF t \in zero THEN "panicked" ELSE "loop"]
       /\ fpc = IF "analytics" \in zero THEN "panicked" ELSE "select"
  /\ next = [p \in Producers |-> 1]
  /\ queue = <<>> /\ buf = <<>> /\ batch = <<>>
  /\ cancelled = FALSE
  /\ accepted = {} /\ delivered = <<>> /\ errors = 0
  /\ mpc = "run" /\ awaiting = 1 /\ early = {}
  /\ buffered = FALSE /\ commits = 0 /\ lost = 0

Goto(t, l) == tpc' = [tpc EXCEPT ![t] = l]

-----------------------------------------------------------------------------
(***************************************************************************)
(* Backfill and tail.                                                      *)
(***************************************************************************)

\* A tick starts run_backfill, an event handle_finalized.  The backfill's select
\* is not biased and may take the tick once more after the cancellation; the
\* tail's is, and takes no event then.
Walk(p) ==
  /\ tpc[p] = "loop"
  /\ p = "tail" => ~cancelled
  /\ Goto(p, "walk")
  /\ UNCHANGED <<vars, main, buffered, written>>

\* The backfill's pipeline yields a bundle; its select is biased to the
\* cancellation, after which it only writes what it has.
Fetch ==
  /\ tpc["backfill"] = "walk" /\ ~buffered /\ ~cancelled
  /\ next["backfill"] <= MaxRows
  /\ buffered' = TRUE
  /\ UNCHANGED <<vars, main, tpc, written>>

\* batch_write_blocks, or write_block in ingest_one.  The tail does not look at
\* the token between the blocks of one event.
Commit(p) ==
  /\ tpc[p] = "walk" /\ next[p] <= MaxRows /\ commits < MaxCommits
  /\ \/ p = "backfill" /\ buffered /\ buffered' = FALSE
     \/ p = "tail" /\ UNCHANGED buffered
  /\ commits' = commits + 1
  /\ Goto(p, "committed")
  /\ UNCHANGED <<vars, main, lost>>

\* The commit takes effect and its answer is lost: the error leaves write_block or
\* batch_write_blocks before the pushes and ends the walk.  The next one begins
\* above the block, whose rows are never pushed.
CommitUnknown(p) ==
  /\ tpc[p] = "walk" /\ next[p] <= MaxRows /\ commits < MaxCommits
  /\ p = "backfill" => buffered
  /\ lost < MaxLost
  /\ commits' = commits + 1 /\ lost' = lost + 1
  /\ Goto(p, "loop")
  /\ buffered' = (buffered /\ p = "tail")
  /\ UNCHANGED <<vars, main>>

\* The analytics push after the commit.
PushRow(p) ==
  /\ tpc[p] = "committed"
  /\ Push(p)
  /\ Goto(p, "walk")
  /\ UNCHANGED <<main, buffered, written>>

\* The walk is done, cancelled, or failed with whatever was buffered.
Leave(p) ==
  /\ tpc[p] = "walk"
  /\ Goto(p, "loop")
  /\ buffered' = (buffered /\ p = "tail")
  /\ UNCHANGED <<vars, main, written>>

\* Mutant: the tail's reconnect loop does not look at the token.
Ends_TailReconnects(t) ==
  /\ tpc[t] = "loop" /\ cancelled /\ t # "tail"
  /\ Goto(t, "ended")
  /\ UNCHANGED <<vars, main, buffered, written>>

\* A task at its select (or its reconnect) sees the cancellation.
Ends(t) ==
  /\ tpc[t] = "loop" /\ cancelled
  /\ Goto(t, "ended")
  /\ UNCHANGED <<vars, main, buffered, written>>

\* The detector and the CoinBlast worker return the errors of their own reads;
\* main does not notice before it awaits them.
WorkerFails(t) ==
  /\ t \in {"detector", "coinblast"}
  /\ tpc[t] = "loop" /\ ~cancelled
  /\ Goto(t, "ended")
  /\ UNCHANGED <<vars, main, buffered, written>>

-----------------------------------------------------------------------------
(***************************************************************************)
(* The stats loop.                                                         *)
(***************************************************************************)

\* A tick starts a REFRESH of the materialized view, which the select waits for.
Refresh ==
  /\ tpc["stats"] = "loop"
  /\ Goto("stats", "walk")
  /\ UNCHANGED <<vars, main, buffered, written>>

\* The REFRESH succeeds or is only logged when it fails.
Refreshed ==
  /\ tpc["stats"] = "walk"
  /\ Goto("stats", "loop")
  /\ UNCHANGED <<vars, main, buffered, written>>

-----------------------------------------------------------------------------
(***************************************************************************)
(* The flusher and main.                                                   *)
(***************************************************************************)

Flush ==
  /\ Recv \/ Tick \/ FinalDrain \/ InsertEnds \/ InsertFails
  /\ UNCHANGED <<main, tpc, buffered, written>>

\* SIGTERM or Ctrl-C, then cancel().
Signal ==
  /\ mpc = "run"
  /\ Cancel
  /\ mpc' = "join"
  /\ early' = accepted
  /\ UNCHANGED <<awaiting, tpc, buffered, written>>

Status(t) == IF t = "analytics" THEN fpc ELSE tpc[t]

\* The awaited task has ended; its own error is not looked at.
Join ==
  /\ mpc = "join"
  /\ Status(JoinOrder[awaiting]) \in {"ended", "exited"}
  /\ \/ /\ awaiting < Len(JoinOrder)
        /\ awaiting' = awaiting + 1
        /\ UNCHANGED mpc
     \/ /\ awaiting = Len(JoinOrder)
        /\ mpc' = "exited"
        /\ UNCHANGED awaiting
  /\ UNCHANGED <<vars, tpc, buffered, written, early>>

\* `handle.await?' of a task that panicked: main returns the JoinError and the
\* runtime drops every task where it stands.
JoinFails ==
  /\ mpc = "join"
  /\ Status(JoinOrder[awaiting]) = "panicked"
  /\ mpc' = "failed"
  /\ tpc' = [t \in Tasks |-> IF tpc[t] = "panicked" THEN "panicked" ELSE "ended"]
  /\ fpc' = "exited"
  /\ UNCHANGED <<next, queue, buf, batch, cancelled, accepted, delivered, errors>>
  /\ UNCHANGED <<awaiting, early, buffered, written>>

-----------------------------------------------------------------------------

Produce(p) == Walk(p) \/ Commit(p) \/ CommitUnknown(p) \/ PushRow(p) \/ Leave(p)

ProcessNext ==
  \/ \E p \in Producers : Produce(p)
  \/ Fetch
  \/ \E t \in Tasks : Ends(t) \/ WorkerFails(t)
  \/ Refresh \/ Refreshed
  \/ Flush
  \/ Signal \/ Join \/ JoinFails

ProcessSpec == ProcessInit /\ [][ProcessNext]_processVars

\* Calls to Postgres, ClickHouse and the chain return, the intervals keep
\* ticking, and a cancellation that stays ready is chosen by every select in
\* the end.  A walk ends: the tail takes no event while it runs one.
ProcessFairSpec ==
  /\ ProcessSpec
  /\ \A p \in Producers : WF_processVars(Commit(p) \/ PushRow(p) \/ Leave(p))
  /\ WF_processVars(Refreshed)
  /\ WF_processVars(\E t \in {"detector", "coinblast", "tail"} : Ends(t))
  /\ SF_processVars(Ends("stats")) /\ SF_processVars(Ends("backfill"))
  /\ WF_processVars(Flush) /\ SF_processVars(FinalDrain /\ Flush)
  /\ WF_processVars(Join \/ JoinFails)

-----------------------------------------------------------------------------

\* When main returns Ok every task has ended by itself, so that each commit whose
\* answer arrived has had its rows pushed: cancellation never takes a task away
\* between the two ("waits for in-flight commits before exiting", indexer.rs).  If
\* no INSERT failed, every row pushed before the signal is in the table.  Rows
\* pushed later may come after the final drain, because the flusher is cancelled
\* together with its producers; a commit whose answer was lost leaves none.
CleanExit ==
  mpc = "exited" =>
    /\ \A t \in Tasks : tpc[t] = "ended"
    /\ commits - lost = next["backfill"] - 1 + next["tail"] - 1
    /\ errors = 0 => early \subseteq ToSet(delivered)

\* A signal always brings the process to its end, with whatever a task was doing
\* and whether or not one of them had died before.
ShutdownEnds == cancelled ~> (mpc \in {"exited", "failed"})
=============================================================================
