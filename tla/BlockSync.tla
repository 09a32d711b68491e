------------------------------ MODULE BlockSync ------------------------------
(***************************************************************************)
(* The block synchronisation core of the indexer process: the backfill     *)
(* loop, the tail loop and the single-flight gate between the tail's       *)
(* events, writing one Postgres database through write_block and           *)
(* batch_write_blocks.                                                     *)
(*                                                                         *)
(* Both loops run in parallel in one process (src/bin/indexer.rs), read    *)
(* the persisted cursor at different moments and commit heights that may   *)
(* overlap.  Every await of the code is a boundary between two actions: a  *)
(* read of the cursor, a call to the chain, a commit.  The process may be  *)
(* killed between any two of them; the database survives, the rest does    *)
(* not.                                                                    *)
(*                                                                         *)
(* A block's rows (header, txs, logs, transfers) are one height in the set *)
(* `blocks': they are inserted by one transaction with ON CONFLICT DO      *)
(* NOTHING, so they are all there or all absent, and inserting them twice  *)
(* changes nothing.                                                        *)
(***************************************************************************)
EXTENDS Integers, FiniteSets

CONSTANTS
  MaxHeight,   \* bound: the chain stops growing at this height
  SafeLag,     \* SyncConfig::safe_lag
  BatchSize,   \* INDEXER_BACKFILL_BATCH
  Damaged,     \* heights whose block the chain lost: every endpoint says 404
  Lagging,     \* TRUE: an endpoint behind the others answers 404 for any height
  MaxFaults    \* bound: errors, kills and shutdowns in one behaviour

ASSUME SyncAssumption ==
  /\ MaxHeight \in Nat
  /\ SafeLag \in Nat
  /\ BatchSize \in Nat \ {0}
  /\ Damaged \subseteq 0..MaxHeight
  /\ Lagging \in BOOLEAN
  /\ MaxFaults \in Nat

VARIABLES
  tip,        \* highest finalized block of the chain
  blocks,     \* heights whose rows are committed
  cursor,     \* _meta.last_synced_height, -1 when there is no row
  bpc,        \* where the backfill task is
  bnext,      \* next height the backfill takes from its ordered fetch stream
  bcap,       \* last height of this backfill walk
  buf,        \* bundles fetched and not committed, then committed and not pushed
  bthen,      \* where the backfill goes on after the flush under way
  tpc,        \* where the tail task is
  tcur,       \* `current' of handle_finalized: the tip it works towards
  th,         \* height the tail ingests next
  tcap,       \* last height of this tail walk
  inflight,   \* SingleFlight::inflight
  pending,    \* SingleFlight::pending, -1 for None
  pushed,     \* analytics rows pushed: how often, per loop and height
  cancelled,  \* the CancellationToken
  faults      \* number of faults so far

chainVars == <<tip>>
dbVars    == <<blocks, cursor>>
bfVars    == <<bpc, bnext, bcap, buf, bthen>>
tailVars  == <<tpc, tcur, th, tcap>>
gateVars  == <<inflight, pending>>
vars == <<chainVars, dbVars, bfVars, tailVars, gateVars, pushed, cancelled, faults>>

Heights == 0..MaxHeight
NoTip   == -1                       \* Option::None of a height
Larger(a, b) == IF a >= b THEN a ELSE b
Highest(S) == CHOOSE x \in S : \A y \in S : x >= y
Lowest(S)  == CHOOSE x \in S : \A y \in S : x <= y

BackfillPC == {"idle", "tip", "walk", "flush", "push", "gap", "exited"}
TailPC     == {"down", "stream", "read", "ingest", "push", "exited"}

TypeOK ==
  /\ tip \in Heights
  /\ blocks \subseteq Heights
  /\ cursor \in Heights \cup {-1}
  /\ bpc \in BackfillPC /\ bthen \in {"walk", "gap", "idle"}
  /\ bnext \in Int /\ bcap \in Int /\ buf \subseteq Heights
  /\ tpc \in TailPC
  /\ tcur \in Heights /\ th \in Int /\ tcap \in Int
  /\ inflight \in BOOLEAN /\ pending \in Heights \cup {NoTip}
  /\ pushed \in [{"backfill", "tail"} -> [Heights -> Nat]]
  /\ cancelled \in BOOLEAN
  /\ faults \in 0..MaxFaults

(***************************************************************************)
(* A booting process: both loops at their start, the gate free.  `buf' and *)
(* the walk's bounds are locals without a value until the walk sets them.  *)
(***************************************************************************)
Init ==
  /\ tip = 0 /\ blocks = {} /\ cursor = -1
  /\ bpc = "idle" /\ bnext = 0 /\ bcap = 0 /\ buf = {} /\ bthen = "idle"
  /\ tpc = "down" /\ tcur = 0 /\ th = 0 /\ tcap = 0
  /\ inflight = FALSE /\ pending = NoTip
  /\ pushed = [w \in {"backfill", "tail"} |-> [h \in Heights |-> 0]]
  /\ cancelled = FALSE
  /\ faults = 0

Fault == faults < MaxFaults /\ faults' = faults + 1

-----------------------------------------------------------------------------
(***************************************************************************)
(* The chain (external), as the REST and JSON-RPC clients see it.          *)
(***************************************************************************)

ChainGrows ==
  /\ tip < MaxHeight
  /\ tip' = tip + 1
  /\ UNCHANGED <<dbVars, bfVars, tailVars, gateVars, pushed, cancelled, faults>>

\* The answers block_number may give: with several endpoints, a stale one.
TipAnswers == IF Lagging THEN 0..tip ELSE {tip}

\* RestClient::block returns Some(block) or None (404) for height h.
FoundAt(h)   == h \notin Damaged
MissingAt(h) == h \in Damaged \/ Lagging

-----------------------------------------------------------------------------
(***************************************************************************)
(* The one transaction both writers use: rows and cursor together, the     *)
(* cursor through GREATEST.                                                *)
(***************************************************************************)

\* Mutant: a plain upsert instead of GREATEST.
WriteCursor_Overwrites(h) == cursor' = h

WriteCursor(h) == cursor' = Larger(cursor, h)

\* The rows of the blocks S, ON CONFLICT DO NOTHING in every table.
InsertBatch(S) == blocks' = blocks \cup S

CommitBlocks(S) ==
  /\ InsertBatch(S)
  /\ WriteCursor(Highest(S))

PushRow(w, h) == pushed' = [pushed EXCEPT ![w][h] = @ + 1]

-----------------------------------------------------------------------------
(***************************************************************************)
(* The backfill task.                                                      *)
(***************************************************************************)

\* A tick of the interval: run_backfill reads the cursor.  The select around
\* the tick is not biased, so a tick can still win after a cancellation.
BackfillReadCursor ==
  /\ bpc = "idle"
  /\ bpc' = "tip"
  /\ bnext' = cursor + 1
  /\ UNCHANGED <<bcap, buf, bthen>>
  /\ UNCHANGED <<chainVars, dbVars, tailVars, gateVars, pushed, cancelled, faults>>

\* Mutant: safe_lag is not subtracted.
BackfillReadTip_NoLag ==
  /\ bpc = "tip"
  /\ \E t \in TipAnswers :
       /\ bcap' = t
       /\ bpc' = IF t < bnext THEN "idle" ELSE "walk"
  /\ UNCHANGED <<bnext, buf, bthen>>
  /\ UNCHANGED <<chainVars, dbVars, tailVars, gateVars, pushed, cancelled, faults>>

\* The tip arrives (later than the cursor was read) and fixes the walk.
BackfillReadTip ==
  /\ bpc = "tip"
  /\ \E t \in TipAnswers :
       /\ bcap' = t - SafeLag
       /\ bpc' = IF t - SafeLag < bnext THEN "idle" ELSE "walk"
  /\ UNCHANGED <<bnext, buf, bthen>>
  /\ UNCHANGED <<chainVars, dbVars, tailVars, gateVars, pushed, cancelled, faults>>

\* `buffered' yields the fetched heights in order; the bundle joins the buffer,
\* which is flushed when it has batch_size bundles.
BackfillTake ==
  /\ bpc = "walk" /\ ~cancelled /\ bnext <= bcap
  /\ FoundAt(bnext)
  /\ buf' = buf \cup {bnext}
  /\ bnext' = bnext + 1
  /\ bpc' = IF Cardinality(buf') >= BatchSize THEN "flush" ELSE "walk"
  /\ bthen' = "walk"
  /\ UNCHANGED bcap
  /\ UNCHANGED <<chainVars, dbVars, tailVars, gateVars, pushed, cancelled, faults>>

\* Mutant: the cursor passes the gap before the buffered blocks are written.
BackfillMissing_NoFlush ==
  /\ bpc = "walk" /\ ~cancelled /\ bnext <= bcap
  /\ MissingAt(bnext)
  /\ bpc' = "gap"
  /\ bthen' = "gap"
  /\ UNCHANGED <<bnext, bcap, buf>>
  /\ UNCHANGED <<chainVars, dbVars, tailVars, gateVars, pushed, cancelled, faults>>

\* A 404: what is buffered is flushed before the cursor may pass the gap.
BackfillMissing ==
  /\ bpc = "walk" /\ ~cancelled /\ bnext <= bcap
  /\ MissingAt(bnext)
  /\ bpc' = IF buf = {} THEN "gap" ELSE "flush"
  /\ bthen' = "gap"
  /\ UNCHANGED <<bnext, bcap, buf>>
  /\ UNCHANGED <<chainVars, dbVars, tailVars, gateVars, pushed, cancelled, faults>>

\* write_cursor(h, 0), a statement of its own outside the batch's transaction.
BackfillGap ==
  /\ bpc = "gap"
  /\ WriteCursor(bnext)
  /\ bnext' = bnext + 1
  /\ bpc' = "walk"
  /\ UNCHANGED <<blocks, bcap, buf, bthen>>
  /\ UNCHANGED <<chainVars, tailVars, gateVars, pushed, cancelled, faults>>

\* Mutant: the flush after the stream's end is missing.
BackfillFinish_NoFlush ==
  /\ bpc = "walk"
  /\ cancelled \/ bnext > bcap
  /\ bpc' = "idle"
  /\ buf' = {}
  /\ UNCHANGED <<bnext, bcap, bthen>>
  /\ UNCHANGED <<chainVars, dbVars, tailVars, gateVars, pushed, cancelled, faults>>

\* The stream ended, or the biased select saw the cancellation: flush the rest
\* and return.
BackfillFinish ==
  /\ bpc = "walk"
  /\ cancelled \/ bnext > bcap
  /\ bpc' = IF buf = {} THEN "idle" ELSE "flush"
  /\ bthen' = "idle"
  /\ UNCHANGED <<bnext, bcap, buf>>
  /\ UNCHANGED <<chainVars, dbVars, tailVars, gateVars, pushed, cancelled, faults>>

\* batch_write_blocks up to its commit.
BackfillCommit ==
  /\ bpc = "flush"
  /\ CommitBlocks(buf)
  /\ bpc' = "push"
  /\ UNCHANGED <<bnext, bcap, buf, bthen>>
  /\ UNCHANGED <<chainVars, tailVars, gateVars, pushed, cancelled, faults>>

\* Mutant: the buffer is not emptied by the flush (no mem::take).
BackfillPush_KeepsBuffer ==
  /\ bpc = "push"
  /\ PushRow("backfill", Lowest(buf))
  /\ bpc' = bthen
  /\ UNCHANGED <<bnext, bcap, buf, bthen>>
  /\ UNCHANGED <<chainVars, dbVars, tailVars, gateVars, cancelled, faults>>

\* batch_write_blocks after its commit: one analytics row per bundle, in order.
BackfillPush ==
  /\ bpc = "push"
  /\ PushRow("backfill", Lowest(buf))
  /\ buf' = buf \ {Lowest(buf)}
  /\ bpc' = IF buf' = {} THEN bthen ELSE "push"
  /\ UNCHANGED <<bnext, bcap, bthen>>
  /\ UNCHANGED <<chainVars, dbVars, tailVars, gateVars, cancelled, faults>>

\* A call to the chain or the database fails after its retries: `?' leaves
\* run_backfill, what it buffered is dropped and the task waits for a tick.
BackfillError ==
  /\ bpc \in {"tip", "walk", "flush", "gap"}
  /\ Fault
  /\ bpc' = "idle"
  /\ buf' = {}
  /\ UNCHANGED <<bnext, bcap, bthen>>
  /\ UNCHANGED <<chainVars, dbVars, tailVars, gateVars, pushed, cancelled>>

\* The commit took effect but its answer was lost: the data is there, the
\* rows are never pushed.
BackfillCommitUnknown ==
  /\ bpc = "flush"
  /\ Fault
  /\ CommitBlocks(buf)
  /\ bpc' = "idle"
  /\ buf' = {}
  /\ UNCHANGED <<bnext, bcap, bthen>>
  /\ UNCHANGED <<chainVars, tailVars, gateVars, pushed, cancelled>>

BackfillExit ==
  /\ bpc = "idle" /\ cancelled
  /\ bpc' = "exited"
  /\ UNCHANGED <<bnext, bcap, buf, bthen>>
  /\ UNCHANGED <<chainVars, dbVars, tailVars, gateVars, pushed, cancelled, faults>>

Backfill ==
  \/ BackfillReadCursor \/ BackfillReadTip \/ BackfillTake \/ BackfillMissing
  \/ BackfillGap \/ BackfillFinish \/ BackfillCommit \/ BackfillPush
  \/ BackfillExit

-----------------------------------------------------------------------------
(***************************************************************************)
(* The tail task.                                                          *)
(***************************************************************************)

\* The top of the task's loop: leave when cancelled, else connect.
TailConnect ==
  /\ tpc = "down"
  /\ tpc' = IF cancelled THEN "exited" ELSE "stream"
  /\ UNCHANGED <<tcur, th, tcap>>
  /\ UNCHANGED <<chainVars, dbVars, bfVars, gateVars, pushed, cancelled, faults>>

\* The biased select of run_tail sees the cancellation before any event.
TailCancelled ==
  /\ tpc = "stream" /\ cancelled
  /\ tpc' = "exited"
  /\ UNCHANGED <<tcur, th, tcap>>
  /\ UNCHANGED <<chainVars, dbVars, bfVars, gateVars, pushed, cancelled, faults>>

\* The stream closed, failed, or reported StreamLagged: reconnect.
TailDropped ==
  /\ tpc = "stream" /\ ~cancelled
  /\ tpc' = "down"
  /\ UNCHANGED <<tcur, th, tcap>>
  /\ UNCHANGED <<chainVars, dbVars, bfVars, gateVars, pushed, cancelled, faults>>

\* BlockFinalized(t): handle_finalized offers t to the gate.  An event may be
\* old by the time it is read.
TailEvent(t) ==
  /\ tpc = "stream" /\ ~cancelled
  /\ t <= tip
  /\ \/ /\ ~inflight
        /\ inflight' = TRUE
        /\ tcur' = Larger(pending, t)
        /\ pending' = NoTip
        /\ tpc' = "read"
     \/ /\ inflight
        /\ pending' = Larger(pending, t)
        /\ UNCHANGED <<inflight, tcur, tpc>>
  /\ UNCHANGED <<th, tcap>>
  /\ UNCHANGED <<chainVars, dbVars, bfVars, pushed, cancelled, faults>>

\* The walk's bounds: from the persisted cursor up to the tip less the lag.
TailReadCursor ==
  /\ tpc = "read"
  /\ th' = cursor + 1
  /\ tcap' = tcur - SafeLag
  /\ tpc' = "ingest"
  /\ UNCHANGED tcur
  /\ UNCHANGED <<chainVars, dbVars, bfVars, gateVars, pushed, cancelled, faults>>

\* ingest_one finds the block: write_block up to its commit.
TailCommit ==
  /\ tpc = "ingest" /\ th <= tcap
  /\ FoundAt(th)
  /\ CommitBlocks({th})
  /\ tpc' = "push"
  /\ UNCHANGED <<tcur, th, tcap>>
  /\ UNCHANGED <<chainVars, bfVars, gateVars, pushed, cancelled, faults>>

\* write_block after its commit.
TailPush ==
  /\ tpc = "push"
  /\ PushRow("tail", th)
  /\ th' = th + 1
  /\ tpc' = "ingest"
  /\ UNCHANGED <<tcur, tcap>>
  /\ UNCHANGED <<chainVars, dbVars, bfVars, gateVars, cancelled, faults>>

\* ingest_one gets a 404: the cursor steps over the height.
TailMissing ==
  /\ tpc = "ingest" /\ th <= tcap
  /\ MissingAt(th)
  /\ WriteCursor(th)
  /\ th' = th + 1
  /\ UNCHANGED <<blocks, tpc, tcur, tcap>>
  /\ UNCHANGED <<chainVars, bfVars, gateVars, pushed, cancelled, faults>>

\* Mutant: the stash is taken without looking whether there is one.
TailRelease_NoCheck ==
  /\ tpc = "ingest" /\ th > tcap
  /\ tcur' = pending
  /\ pending' = NoTip
  /\ tpc' = "read"
  /\ UNCHANGED <<inflight, th, tcap>>
  /\ UNCHANGED <<chainVars, dbVars, bfVars, pushed, cancelled, faults>>

\* take_pending_and_release: go on with the stashed tip or free the gate.
TailRelease ==
  /\ tpc = "ingest" /\ th > tcap
  /\ \/ /\ pending # NoTip
        /\ tcur' = pending
        /\ pending' = NoTip
        /\ tpc' = "read"
        /\ UNCHANGED inflight
     \/ /\ pending = NoTip
        /\ inflight' = FALSE
        /\ tpc' = "stream"
        /\ UNCHANGED <<tcur, pending>>
  /\ UNCHANGED <<th, tcap>>
  /\ UNCHANGED <<chainVars, dbVars, bfVars, pushed, cancelled, faults>>

\* An error of read_cursor or ingest_one leaves handle_finalized and run_tail
\* through `?'; take_pending_and_release is not reached.
TailError ==
  /\ tpc \in {"read", "ingest"}
  /\ Fault
  /\ tpc' = "down"
  /\ UNCHANGED <<tcur, th, tcap>>
  /\ UNCHANGED <<chainVars, dbVars, bfVars, gateVars, pushed, cancelled>>

TailCommitUnknown ==
  /\ tpc = "ingest" /\ th <= tcap
  /\ FoundAt(th)
  /\ Fault
  /\ CommitBlocks({th})
  /\ tpc' = "down"
  /\ UNCHANGED <<tcur, th, tcap>>
  /\ UNCHANGED <<chainVars, bfVars, gateVars, pushed, cancelled>>

Tail ==
  \/ TailConnect \/ TailCancelled \/ TailReadCursor \/ TailCommit \/ TailPush
  \/ TailMissing \/ TailRelease

-----------------------------------------------------------------------------
(***************************************************************************)
(* The process.                                                            *)
(***************************************************************************)

\* SIGTERM or ctrl-c: cancel.cancel().
Shutdown ==
  /\ ~cancelled
  /\ Fault
  /\ cancelled' = TRUE
  /\ UNCHANGED <<chainVars, dbVars, bfVars, tailVars, gateVars, pushed>>

\* The volatile state of a process that boots again.
Boot ==
  /\ bpc' = "idle" /\ bnext' = 0 /\ bcap' = 0 /\ buf' = {} /\ bthen' = "idle"
  /\ tpc' = "down" /\ tcur' = 0 /\ th' = 0 /\ tcap' = 0
  /\ inflight' = FALSE /\ pending' = NoTip
  /\ cancelled' = FALSE
  /\ UNCHANGED <<chainVars, dbVars, pushed>>

\* Started again after a graceful shutdown joined both tasks.
Restart ==
  /\ bpc = "exited" /\ tpc = "exited"
  /\ Boot
  /\ UNCHANGED faults

\* Killed at any point, and started again.
Crash ==
  /\ Fault
  /\ Boot

Next ==
  \/ ChainGrows
  \/ Backfill \/ BackfillError \/ BackfillCommitUnknown
  \/ Tail \/ TailDropped \/ (\E t \in Heights : TailEvent(t))
  \/ TailError \/ TailCommitUnknown
  \/ Shutdown \/ Restart \/ Crash

Spec == Init /\ [][Next]_vars

\* The interval keeps ticking and an await that does not fail completes: the
\* backfill task takes its enabled steps.  Nothing is assumed of the tail.
FairSpec == Spec /\ WF_vars(Backfill)

\* The stream reconnects and delivers events again, and the tail's own awaits
\* return too.
TailFairSpec ==
  FairSpec /\ WF_vars(Tail) /\ WF_vars(\E t \in Heights : TailEvent(t))

-----------------------------------------------------------------------------
(***************************************************************************)
(* Properties.                                                             *)
(***************************************************************************)

\* When every endpoint is current, the database holds exactly the chain's
\* blocks from genesis to the cursor: nothing above the cursor although two
\* loops commit out of order, nothing missing below it except blocks the
\* chain itself lost (cursor.rs: "highest height the indexer has fully
\* written").
IndexExact == blocks = (0..cursor) \ Damaged

\* No row and no cursor is ever closer to the tip than safe_lag blocks, though
\* each loop computes its cap from a tip it read earlier (SAFE_LAG, spec 5
\* invariant 4).
SafeLagKept == cursor = -1 \/ cursor <= tip - SafeLag

\* A row reaches analytics only for committed data, and at most once from each
\* loop: the push follows the commit, and no crash, retry or restart makes a
\* loop push a height again.  The two loops may each push the same height.
PushedOnce ==
  \A w \in {"backfill", "tail"}, h \in Heights :
    /\ pushed[w][h] <= 1
    /\ pushed[w][h] = 1 => h \in blocks

\* The persisted cursor never goes back and committed rows never disappear,
\* whatever order the loops commit in and wherever the process is killed
\* (spec 5 invariant 5, write_cursor's GREATEST).
CursorMonotonic == [][cursor' >= cursor /\ blocks \subseteq blocks']_<<cursor, blocks>>

\* Every finalized height is eventually indexed or skipped by the backfill
\* alone, however the tail fares, unless the process is being shut down.
CatchesUp ==
  \A h \in Heights : (tip - SafeLag >= h) ~> (cursor >= h \/ cancelled)

\* A stashed tip is picked up, unless the process is being shut down: "we stash
\* the pending tip, and the in-flight writer picks it up on completion"
\* (single_flight.rs).
StashPickedUp == (pending # NoTip) ~> (pending = NoTip \/ cancelled)

Abstract == INSTANCE IndexedChain WITH indexed <- blocks

\* Two loops, batches, crashes and retries together still implement the
\* append-only prefix of IndexedChain.
ImplementsIndexedChain == Abstract!AbsSpec
=============================================================================
