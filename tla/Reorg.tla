-------------------------------- MODULE Reorg --------------------------------
(***************************************************************************)
(* The reorg checker (crates/sync/reorg.rs) beside the backfill and the    *)
(* tail, on a chain that can be rolled back and grow another branch (the   *)
(* recovery the module's doc describes).                                   *)
(*                                                                         *)
(* The hash of the block at height h is the number of the branch it was    *)
(* produced on: two blocks at h are the same block iff the numbers agree,  *)
(* and a branch shares all blocks below its root with its parent branch,   *)
(* as parent hashes guarantee.  The cursor, the tip, each block and each   *)
(* commit are read or made in steps of their own, so that what a loop has  *)
(* in hand may be from before a rollback or a rewind.  The backfill's      *)
(* fetches are made one after the other.  The gate of the tail is left out *)
(* (BlockSync has it): there is one tail.                                  *)
(***************************************************************************)
EXTENDS Integers, FiniteSets

CONSTANTS
  MaxHeight,   \* bound: highest block the chain produces
  MaxForks,    \* bound: number of rollbacks
  SafeLag,     \* SyncConfig::safe_lag
  BatchSize,   \* INDEXER_BACKFILL_BATCH
  ProbeDepth,  \* SyncConfig::reorg_probe_depth
  Damaged,     \* heights every endpoint answers 404 for
  IngestErrors \* TRUE: a walk may also fail

ASSUME ReorgAssumption ==
  /\ MaxHeight \in Nat /\ MaxForks \in Nat /\ SafeLag \in Nat /\ ProbeDepth \in Nat
  /\ BatchSize \in Nat \ {0}
  /\ Damaged \subseteq 0..MaxHeight /\ IngestErrors \in BOOLEAN

VARIABLES
  tip,       \* highest block of the chain
  fork,      \* branch new blocks are produced on
  chain,     \* branch of the block at each height, for heights up to tip
  block,     \* `blocks': branch of the stored block, -1 when there is no row
  cursor,    \* _meta.last_synced_height
  ipc,       \* of each ingester: idle; tip or cursor (to be read); fetch; commit; gap
  ih, icap,  \* the height its walk is at, and the last one of the walk
  buf,       \* the blocks it has fetched and not committed
  cpc,       \* the checker: idle, probe, walk, rewind, then rewound or done
  probe,     \* probe_h of this pass
  at,        \* `cursor' of walk_back_to_divergence, then the divergence
  quiet,     \* history: the chain has not changed since the pass began
  inserted   \* history: heights up to the probe that got a row since then

chainVars  == <<tip, fork, chain>>
dbVars     == <<block, cursor>>
ingestVars == <<ipc, ih, icap, buf>>
checkVars  == <<cpc, probe, at, quiet, inserted>>
vars == <<chainVars, dbVars, ingestVars, checkVars>>

Heights == 0..MaxHeight
Forks   == 0..MaxForks
NoBlock == -1
NoBlocks == [h \in Heights |-> NoBlock]
Ingesters == {"backfill", "tail"}
Larger(a, b) == IF a >= b THEN a ELSE b

TypeOK ==
  /\ tip \in Heights /\ fork \in Forks /\ chain \in [Heights -> Forks]
  /\ block \in [Heights -> Forks \cup {NoBlock}]
  /\ cursor \in Heights \cup {-1}
  /\ ipc \in [Ingesters -> {"idle", "tip", "cursor", "fetch", "commit", "gap"}]
  /\ ih \in [Ingesters -> 0..(MaxHeight + 1)]
  /\ icap \in [Ingesters -> Int]
  /\ buf \in [Ingesters -> [Heights -> Forks \cup {NoBlock}]]
  /\ cpc \in {"idle", "probe", "walk", "rewind", "rewound", "done"}
  /\ probe \in Heights /\ at \in Heights /\ quiet \in BOOLEAN
  /\ inserted \subseteq Heights

Init ==
  /\ tip = 0 /\ fork = 0 /\ chain = [h \in Heights |-> 0]
  /\ block = NoBlocks /\ cursor = -1
  /\ ipc = [i \in Ingesters |-> "idle"]
  /\ ih = [i \in Ingesters |-> 0] /\ icap = [i \in Ingesters |-> 0]
  /\ buf = [i \in Ingesters |-> NoBlocks]
  /\ cpc = "idle" /\ probe = 0 /\ at = 0 /\ quiet = TRUE /\ inserted = {}

-----------------------------------------------------------------------------
(***************************************************************************)
(* The chain (external).                                                   *)
(***************************************************************************)

ChainGrows ==
  /\ tip < MaxHeight
  /\ tip' = tip + 1
  /\ chain' = [chain EXCEPT ![tip + 1] = fork]
  /\ quiet' = (cpc = "idle")
  /\ UNCHANGED <<fork, cpc, probe, at, inserted>>
  /\ UNCHANGED <<dbVars, ingestVars>>

\* The chain loses its blocks from height d on and goes on with other ones.
ChainRollsBack(d) ==
  /\ fork < MaxForks
  /\ 0 < d /\ d <= tip
  /\ tip' = d - 1
  /\ fork' = fork + 1
  /\ quiet' = (cpc = "idle")
  /\ UNCHANGED <<chain, cpc, probe, at, inserted>>
  /\ UNCHANGED <<dbVars, ingestVars>>

\* block_with_txs(h): None, or the block.
RemoteHas(h) == h <= tip /\ h \notin Damaged

-----------------------------------------------------------------------------
(***************************************************************************)
(* The statements on `blocks' and the cursor.                              *)
(***************************************************************************)

\* get_by_height(h): None, or the block.
LocalHas(h) == block[h] # NoBlock

\* ON CONFLICT (height) DO NOTHING: a stored header is not replaced.
InsertBlocks(b) ==
  block' = [h \in Heights |-> IF block[h] = NoBlock THEN b[h] ELSE block[h]]

DeleteFrom(h) == block' = [k \in Heights |-> IF k >= h THEN NoBlock ELSE block[k]]

WriteCursor(h) == cursor' = Larger(cursor, h)

-----------------------------------------------------------------------------
(***************************************************************************)
(* The ingesters: run_backfill and handle_finalized.                       *)
(***************************************************************************)

\* A walk ends and its locals are gone.
EndWalk(i) ==
  /\ ipc' = [ipc EXCEPT ![i] = "idle"]
  /\ ih' = [ih EXCEPT ![i] = 0] /\ icap' = [icap EXCEPT ![i] = 0]

\* The walk of i goes on at h, or ends after its last height.
WalkTo(i, h, last) ==
  \/ /\ h <= last
     /\ ipc' = [ipc EXCEPT ![i] = "fetch"]
     /\ ih' = [ih EXCEPT ![i] = h] /\ icap' = [icap EXCEPT ![i] = last]
  \/ h > last /\ EndWalk(i)

\* The backfill reads the cursor first and the tip then, ...
BackfillReadCursor ==
  /\ ipc["backfill"] = "idle"
  /\ ih' = [ih EXCEPT !["backfill"] = cursor + 1]
  /\ ipc' = [ipc EXCEPT !["backfill"] = "tip"]
  /\ UNCHANGED <<icap, buf>>
  /\ UNCHANGED <<chainVars, dbVars, checkVars>>

BackfillReadTip ==
  /\ ipc["backfill"] = "tip"
  /\ WalkTo("backfill", ih["backfill"], tip - SafeLag)
  /\ UNCHANGED buf
  /\ UNCHANGED <<chainVars, dbVars, checkVars>>

\* ... the tail gets the tip with an event and reads the cursor then.
TailEvent ==
  /\ ipc["tail"] = "idle"
  /\ icap' = [icap EXCEPT !["tail"] = tip - SafeLag]
  /\ ipc' = [ipc EXCEPT !["tail"] = "cursor"]
  /\ UNCHANGED <<ih, buf>>
  /\ UNCHANGED <<chainVars, dbVars, checkVars>>

TailReadCursor ==
  /\ ipc["tail"] = "cursor"
  /\ WalkTo("tail", cursor + 1, icap["tail"])
  /\ UNCHANGED buf
  /\ UNCHANGED <<chainVars, dbVars, checkVars>>

\* batch_write_blocks when the buffer is full or the walk ends; the tail writes
\* every block by itself.
Full(i, b) ==
  \/ i = "tail"
  \/ ih[i] = icap[i]
  \/ Cardinality({h \in Heights : b[h] # NoBlock}) >= BatchSize

Fetch(i) ==
  /\ ipc[i] = "fetch"
  /\ RemoteHas(ih[i])
  /\ LET b == [buf[i] EXCEPT ![ih[i]] = chain[ih[i]]]
     IN  /\ buf' = [buf EXCEPT ![i] = b]
         /\ \/ /\ Full(i, b)
               /\ ipc' = [ipc EXCEPT ![i] = "commit"]
               /\ UNCHANGED <<ih, icap>>
            \/ ~Full(i, b) /\ WalkTo(i, ih[i] + 1, icap[i])
  /\ UNCHANGED <<chainVars, dbVars, checkVars>>

\* A 404, for a damaged height or one the chain no longer has.
Missing(i) ==
  /\ ipc[i] = "fetch"
  /\ ~RemoteHas(ih[i])
  /\ ipc' = [ipc EXCEPT ![i] = "gap"]
  /\ UNCHANGED <<ih, icap, buf>>
  /\ UNCHANGED <<chainVars, dbVars, checkVars>>

\* The buffered blocks and the cursor, in one transaction; before a gap too.
Commit(i) ==
  /\ ipc[i] \in {"commit", "gap"} /\ buf[i] # NoBlocks
  /\ InsertBlocks(buf[i])
  /\ LET top == CHOOSE h \in Heights :
                  /\ buf[i][h] # NoBlock
                  /\ \A g \in Heights : buf[i][g] # NoBlock => g <= h
     IN  WriteCursor(top)
  /\ buf' = [buf EXCEPT ![i] = NoBlocks]
  /\ \/ ipc[i] = "gap" /\ UNCHANGED <<ipc, ih, icap>>
     \/ ipc[i] = "commit" /\ WalkTo(i, ih[i] + 1, icap[i])
  /\ inserted' = inserted \cup {h \in 0..probe : /\ cpc # "idle" /\ block[h] = NoBlock
                                               /\ buf[i][h] # NoBlock}
  /\ UNCHANGED <<chainVars, cpc, probe, at, quiet>>

\* The cursor steps over a missing height.
Gap(i) ==
  /\ ipc[i] = "gap" /\ buf[i] = NoBlocks
  /\ WriteCursor(ih[i])
  /\ WalkTo(i, ih[i] + 1, icap[i])
  /\ UNCHANGED <<block, buf>>
  /\ UNCHANGED <<chainVars, checkVars>>

\* A call fails and the walk is given up with what it has buffered; the next tick
\* or event starts another.
IngestFails(i) ==
  /\ IngestErrors
  /\ ipc[i] # "idle"
  /\ EndWalk(i)
  /\ buf' = [buf EXCEPT ![i] = NoBlocks]
  /\ UNCHANGED <<chainVars, dbVars, checkVars>>

-----------------------------------------------------------------------------
(***************************************************************************)
(* check_once.                                                             *)
(***************************************************************************)

\* Called with the cursor the caller read.
CheckStart ==
  /\ cpc = "idle"
  /\ cursor >= 0
  /\ probe' = Larger(cursor - ProbeDepth, 0)
  /\ cpc' = "probe"
  /\ UNCHANGED <<at, quiet, inserted>>
  /\ UNCHANGED <<chainVars, dbVars, ingestVars>>

\* No local block, no remote block, or the hashes agree: nothing to do.
CheckProbe ==
  /\ cpc = "probe"
  /\ cpc' = IF \/ ~LocalHas(probe)
               \/ ~RemoteHas(probe)
               \/ block[probe] = chain[probe]
            THEN "done" ELSE "walk"
  /\ at' = probe
  /\ UNCHANGED <<probe, quiet, inserted>>
  /\ UNCHANGED <<chainVars, dbVars, ingestVars>>

\* Mutant: the matching parent itself is taken for the divergence.
WalkBack_ReturnsParent ==
  /\ cpc = "walk"
  /\ IF at = 0 \/ ~LocalHas(at - 1) \/ ~RemoteHas(at - 1)
     THEN cpc' = "rewind" /\ UNCHANGED at
     ELSE /\ at' = at - 1
          /\ cpc' = IF block[at - 1] = chain[at - 1] THEN "rewind" ELSE "walk"
  /\ UNCHANGED <<probe, quiet, inserted>>
  /\ UNCHANGED <<chainVars, dbVars, ingestVars>>

\* Mutant: the walk stops after one step whether or not the hashes agree.
WalkBack_OneStep ==
  /\ cpc = "walk"
  /\ cpc' = "rewind"
  /\ UNCHANGED <<probe, at, quiet, inserted>>
  /\ UNCHANGED <<chainVars, dbVars, ingestVars>>

\* One iteration of walk_back_to_divergence: stop at genesis, at a matching
\* parent, or where either side has no parent block.
WalkBack ==
  /\ cpc = "walk"
  /\ IF \/ at = 0
        \/ ~LocalHas(at - 1)
        \/ ~RemoteHas(at - 1)
        \/ block[at - 1] = chain[at - 1]
     THEN cpc' = "rewind" /\ UNCHANGED at
     ELSE at' = at - 1 /\ UNCHANGED cpc
  /\ UNCHANGED <<probe, quiet, inserted>>
  /\ UNCHANGED <<chainVars, dbVars, ingestVars>>

\* rewind_to: delete_from and write_cursor in one transaction.  The foreign
\* keys cascade to transactions and logs, which belong to `block' here (BlockRows
\* has the tables).  write_cursor keeps the GREATEST.
RewindTo ==
  /\ cpc = "rewind"
  /\ DeleteFrom(at)
  /\ WriteCursor(at - 1)
  /\ cpc' = "rewound"
  /\ UNCHANGED <<probe, at, quiet, inserted>>
  /\ UNCHANGED <<chainVars, ingestVars>>

\* The pass returns; or an error of any call, or a crash, ends it early.
CheckReturns ==
  /\ cpc # "idle"
  /\ cpc' = "idle" /\ probe' = 0 /\ at' = 0
  /\ quiet' = TRUE /\ inserted' = {}
  /\ UNCHANGED <<chainVars, dbVars, ingestVars>>

Ingest(i) == Fetch(i) \/ Missing(i) \/ Commit(i) \/ Gap(i)
StartWalk == BackfillReadCursor \/ BackfillReadTip \/ TailEvent \/ TailReadCursor
Check  == CheckStart \/ CheckProbe \/ WalkBack \/ RewindTo

Next ==
  \/ ChainGrows \/ \E d \in Heights : ChainRollsBack(d)
  \/ StartWalk
  \/ \E i \in Ingesters : Ingest(i) \/ IngestFails(i)
  \/ Check \/ CheckReturns

Spec == Init /\ [][Next]_vars

\* Used with IngestErrors = FALSE: the loops keep ticking and getting events, their
\* walks end, passes keep being made and end, the chain keeps producing up to the
\* bound.
FairSpec ==
  /\ Spec
  /\ WF_vars(ChainGrows)
  /\ WF_vars(BackfillReadCursor \/ BackfillReadTip \/ Ingest("backfill"))
  /\ WF_vars(TailEvent \/ TailReadCursor \/ Ingest("tail"))
  /\ WF_vars(Check \/ CheckReturns)

-----------------------------------------------------------------------------

Stale(h) == block[h] # NoBlock /\ h <= tip /\ block[h] # chain[h]

\* A rewind never starts at a block that is still right: between the walk's
\* last look and the delete, neither a rollback nor a loop can make the
\* stored block at the divergence the chain's block again.
RewindJustified ==
  cpc = "rewind" => /\ block[at] # NoBlock
                    /\ at <= tip => block[at] # chain[at]

\* Where the probe or the walk ends: either side has no block, or they agree.
Stop(g) == block[g] = NoBlock \/ ~RemoteHas(g) \/ block[g] = chain[g]

\* After a pass during which the chain stood still, a stale block that was there
\* all the time lies below a height where the two sides agree or one has no block,
\* or had none until a loop stored one meanwhile: no run of stale blocks at the
\* probe is missed or cut short, whatever the loops commit during the pass.  (A
\* stale block below such a height is not found: a loop may have gone on with the
\* new branch on top of it.)
VerifiedDownToStop ==
  quiet =>
    \A h \in (0..probe) \ inserted : Stale(h) =>
      /\ cpc = "rewound" => \E g \in (h + 1)..(at - 1) : Stop(g) \/ g \in inserted
      /\ cpc = "done" => \E g \in (h + 1)..probe : Stop(g) \/ g \in inserted

\* The divergent block a rewind removed is ingested again from the new branch
\* (reorg.rs: "reset the cursor to `divergence_h - 1`. Backfill re-ingests on
\* the next tick").
RewoundIsReingested ==
  \A h \in Heights : (cpc = "rewound" /\ at = h) ~> (block[h] # NoBlock)
=============================================================================
