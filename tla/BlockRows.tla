------------------------------ MODULE BlockRows ------------------------------
(***************************************************************************)
(* The rows of a block: what fetch_one and ingest_one make of the chain's  *)
(* answers (crates/sync/backfill.rs, convert.rs, token_decode.rs), how one *)
(* transaction stores it (block_writer.rs, crates/db), what a rewind takes *)
(* away again, and what the detail routes read of it (crates/api).         *)
(*                                                                         *)
(* The chain may be rolled back and go on with other blocks; the number of *)
(* a branch stands for the hash of its blocks.  Every block has one        *)
(* transaction with one log, of the same shape in all.  A transaction that *)
(* is also in the block at that height of the other branches has the same  *)
(* hash there; that one comes back at another height is left out.          *)
(* `reverted' ones are missing in the block's body while their log is      *)
(* still returned.  Body and logs come from two calls that may reach       *)
(* different endpoints and be on two sides of a rollback: an endpoint that *)
(* does not have the block yet answers eth_getLogs with no log.            *)
(* Which heights a walk takes, and gaps, are the subject of BlockSync; the *)
(* walk to the divergence is that of Reorg.                                *)
(***************************************************************************)
EXTENDS Integers

CONSTANTS
  MaxHeight,   \* bound: heights 0..MaxHeight
  Writers,     \* tasks that ingest blocks: backfill and tail
  MaxLagging,  \* bound: answers of endpoints that are behind
  MaxForks,    \* bound: rollbacks of the chain
  MaxRewinds,  \* bound: rewinds
  Kept,        \* heights whose transaction is the same on all branches
  None         \* no row, no decoded transfer

Heights  == 0..MaxHeight
Branches == 0..MaxForks
Keys     == Heights \X Branches

ASSUME RowsAssumption ==
  /\ MaxHeight \in Nat /\ MaxLagging \in Nat /\ MaxForks \in Nat /\ MaxRewinds \in Nat
  /\ Kept \subseteq Heights
  /\ None \notin {"erc20", "erc721"} /\ None \notin Branches /\ None \notin Keys

\* A log as eth_getLogs returns it: the number of its topics when the first is the
\* Transfer selector, and 0 for a log of any other event; and its data: empty, one
\* 32-byte word, or anything else.
RawLogs == [topics : 0..4, data : {"empty", "word", "other"}]

VARIABLES
  raw,        \* the log of every block (external)
  reverted,   \* heights whose transaction is missing in the body (external)
  chain,      \* branch of the chain's block at each height (external)
  fork,       \* number of the newest branch
  blocks,     \* branch of the stored header at each height, or None
  txs,        \* keys of the transactions with a row
  logs,       \* key of the transaction of the log at each (height, 0), or None
  transfers,  \* token_transfers: the standard of the row of each key, or None
  cursor,     \* the sync cursor
  pc,         \* of each writer: idle, fetch, body (has the body), ready (has all)
  at,         \* the height it ingests
  br,         \* branch of the body it has
  got,        \* the transactions its log call returned logs of
  rpc,        \* of the reader: idle, tx, logs, block, txs; GraphQL: gtx, glogs
  rh, rb,     \* the height it asked for; branch of the transaction or header
  reply,      \* what it has found: a subset of {"tx", "logs", "block"}
  whole,      \* history: what a reply must contain, judged at its first read
  blind,      \* history: heights stored without their logs so far
  overlaid,   \* history: stored heights that another branch was written onto
  left,       \* history: keys of the transfers that a rewind left behind
  disturbed,  \* history: a rewind ran since the reader began
  torn,       \* history: an undisturbed reply missed a part
  lagging,    \* number of answers without logs
  rewinds     \* number of rewinds

contentVars == <<raw, reverted>>
chainVars   == <<contentVars, chain, fork>>
tables      == <<blocks, txs, logs, transfers, cursor>>
writerVars  == <<pc, at, br, got, lagging>>
readerVars  == <<rpc, rh, rb, reply, whole, disturbed, torn>>
histories   == <<blind, overlaid, left>>
vars == <<chainVars, tables, writerVars, readerVars, histories, rewinds>>

Standards == {"erc20", "erc721"}

TypeOK ==
  /\ raw \in RawLogs /\ reverted \subseteq Heights
  /\ chain \in [Heights -> Branches] /\ fork \in Branches
  /\ blocks \in [Heights -> Branches \cup {None}]
  /\ txs \subseteq Keys /\ logs \in [Heights -> Keys \cup {None}]
  /\ transfers \in [Keys -> Standards \cup {None}]
  /\ cursor \in -1..MaxHeight
  /\ pc \in [Writers -> {"idle", "fetch", "body", "ready"}]
  /\ at \in [Writers -> Heights] /\ br \in [Writers -> Branches]
  /\ got \in [Writers -> SUBSET Keys]
  /\ rpc \in {"idle", "tx", "logs", "block", "txs", "gtx", "glogs"}
  /\ rh \in Heights /\ rb \in Branches
  /\ reply \subseteq {"tx", "logs", "block"} /\ whole \subseteq {"tx", "logs", "block"}
  /\ blind \subseteq Heights /\ overlaid \subseteq Heights /\ left \subseteq Keys
  /\ disturbed \in BOOLEAN /\ torn \in BOOLEAN
  /\ lagging \in 0..MaxLagging /\ rewinds \in 0..MaxRewinds

Init ==
  /\ raw \in RawLogs /\ reverted \in SUBSET Heights
  /\ chain = [h \in Heights |-> 0] /\ fork = 0
  /\ blocks = [h \in Heights |-> None] /\ txs = {} /\ logs = [h \in Heights |-> None]
  /\ transfers = [k \in Keys |-> None]
  /\ cursor = -1
  /\ pc = [w \in Writers |-> "idle"] /\ at = [w \in Writers |-> 0]
  /\ br = [w \in Writers |-> 0] /\ got = [w \in Writers |-> {}]
  /\ rpc = "idle" /\ rh = 0 /\ rb = 0
  /\ reply = {} /\ whole = {} /\ disturbed = FALSE /\ torn = FALSE
  /\ blind = {} /\ overlaid = {} /\ left = {}
  /\ lagging = 0 /\ rewinds = 0

-----------------------------------------------------------------------------
(***************************************************************************)
(* The chain (external).                                                   *)
(***************************************************************************)

\* The primary key of the transaction of block h of branch b: its hash.
TxAt(h, b) == <<h, IF h \in Kept THEN 0 ELSE b>>

\* The chain is restored from before height d and goes on with other blocks.
ChainRollsBack(d) ==
  /\ fork < MaxForks
  /\ fork' = fork + 1
  /\ chain' = [h \in Heights |-> IF h >= d THEN fork + 1 ELSE chain[h]]
  /\ UNCHANGED <<contentVars, tables, writerVars, readerVars, histories, rewinds>>

-----------------------------------------------------------------------------
(***************************************************************************)
(* Conversion.                                                             *)
(***************************************************************************)

\* Mutant: three indexed arguments make an ERC-721 transfer, whatever the data.
DecodeTransfer_AnyData(l) ==
  CASE l.topics < 3                      -> None
    [] l.topics = 4                      -> "erc721"
    [] l.topics = 3 /\ l.data # "word"   -> None
    [] l.topics = 3 /\ l.data = "word"   -> "erc20"

\* decode_transfer on what to_domain_log makes of a log: topics are whole words
\* and data is always there, so that what can be missing are topics and bytes.
DecodeTransfer(l) ==
  CASE l.topics < 3                      -> None
    [] l.topics = 4 /\ l.data # "empty"  -> None
    [] l.topics = 4 /\ l.data = "empty"  -> "erc721"
    [] l.topics = 3 /\ l.data # "word"   -> None
    [] l.topics = 3 /\ l.data = "word"   -> "erc20"

\* to_domain_txs_from_native: the transactions of a body.
BodyTxs(h, b) == IF h \in reverted THEN {} ELSE {TxAt(h, b)}

\* to_domain_log, and the filter on transactions of the same bundle.
BundleLogs(h, b, answer) == answer \cap BodyTxs(h, b)

-----------------------------------------------------------------------------
(***************************************************************************)
(* A writer: fetch_one or ingest_one, then write_block.                    *)
(***************************************************************************)

\* A walk begins above the cursor ...
StartWalk(w) ==
  /\ pc[w] = "idle" /\ cursor < MaxHeight
  /\ pc' = [pc EXCEPT ![w] = "fetch"] /\ at' = [at EXCEPT ![w] = cursor + 1]
  /\ UNCHANGED <<br, got, lagging>>
  /\ UNCHANGED <<chainVars, tables, readerVars, histories, rewinds>>

\* ... and goes on height by height, or ends.
WalkOn(w) ==
  /\ br' = [br EXCEPT ![w] = 0] /\ got' = [got EXCEPT ![w] = {}]
  /\ \/ /\ at[w] < MaxHeight
        /\ pc' = [pc EXCEPT ![w] = "fetch"] /\ at' = [at EXCEPT ![w] = at[w] + 1]
     \/ pc' = [pc EXCEPT ![w] = "idle"] /\ at' = [at EXCEPT ![w] = 0]

\* rest.block answers with the body.
FetchBody(w) ==
  /\ pc[w] = "fetch"
  /\ pc' = [pc EXCEPT ![w] = "body"] /\ br' = [br EXCEPT ![w] = chain[at[w]]]
  /\ UNCHANGED <<at, got, lagging>>
  /\ UNCHANGED <<chainVars, tables, readerVars, histories, rewinds>>

\* logs_in_range(h, h); the endpoint may be behind the one that gave the body.
FetchLogs(w) ==
  /\ pc[w] = "body"
  /\ pc' = [pc EXCEPT ![w] = "ready"]
  /\ \/ got' = [got EXCEPT ![w] = {TxAt(at[w], chain[at[w]])}] /\ UNCHANGED lagging
     \/ /\ lagging < MaxLagging
        /\ lagging' = lagging + 1
        /\ got' = [got EXCEPT ![w] = {}]
  /\ UNCHANGED <<at, br>>
  /\ UNCHANGED <<chainVars, tables, readerVars, histories, rewinds>>

\* A call, a conversion or the transaction fails: nothing is stored and the walk
\* is given up; the next one begins above the cursor again.
Abort(w) ==
  /\ pc[w] # "idle"
  /\ pc' = [pc EXCEPT ![w] = "idle"] /\ at' = [at EXCEPT ![w] = 0]
  /\ br' = [br EXCEPT ![w] = 0] /\ got' = [got EXCEPT ![w] = {}]
  /\ UNCHANGED <<chainVars, tables, lagging, readerVars, histories, rewinds>>

\* The inserts, each ON CONFLICT DO NOTHING: a row whose key is there stays.
InsertBlock(h, b) == blocks' = [blocks EXCEPT ![h] = IF @ = None THEN b ELSE @]

InsertTransactions(h, b) == txs' = txs \cup BodyTxs(h, b)

InsertLogs(h, b, answer) ==
  logs' = [logs EXCEPT ![h] =
    IF @ = None /\ BundleLogs(h, b, answer) # {} THEN TxAt(h, b) ELSE @]

InsertTransfers(h, b, answer) ==
  transfers' = [k \in Keys |->
    IF k \in BundleLogs(h, b, answer) /\ transfers[k] = None
    THEN DecodeTransfer(raw) ELSE transfers[k]]

InsertRows(h, b, answer) ==
  /\ InsertBlock(h, b) /\ InsertTransactions(h, b)
  /\ InsertLogs(h, b, answer) /\ InsertTransfers(h, b, answer)

\* What the histories keep of a bundle: whether its logs were there, and whether
\* it met a header of another branch.
Stored(h, b, answer) ==
  /\ blind' = IF TxAt(h, b) \in answer THEN blind \ {h}
              ELSE IF blocks[h] = None THEN blind \cup {h} ELSE blind
  /\ overlaid' = IF blocks[h] \in {None, b} THEN overlaid ELSE overlaid \cup {h}
  /\ UNCHANGED left

\* Mutant: a block that is there is not written again.
WriteBlock_SkipsKnown(w) ==
  /\ pc[w] = "ready"
  /\ \/ blocks[at[w]] = None /\ InsertRows(at[w], br[w], got[w])
     \/ blocks[at[w]] # None /\ UNCHANGED <<blocks, txs, logs, transfers>>
  /\ cursor' = IF at[w] > cursor THEN at[w] ELSE cursor
  /\ Stored(at[w], br[w], got[w])
  /\ WalkOn(w)
  /\ UNCHANGED <<chainVars, lagging, readerVars, rewinds>>

\* Mutant: a block that is there is replaced: one commit deletes it with its
\* transactions and logs, the next one inserts it.
WriteBlock_Replaces(w) ==
  /\ pc[w] = "ready"
  /\ \/ /\ blocks[at[w]] # None
        /\ blocks' = [blocks EXCEPT ![at[w]] = None]
        /\ txs' = {k \in txs : k[1] # at[w]} /\ logs' = [logs EXCEPT ![at[w]] = None]
        /\ blind' = blind \ {at[w]} /\ overlaid' = overlaid \ {at[w]}
        /\ UNCHANGED <<transfers, cursor, writerVars, left>>
     \/ /\ blocks[at[w]] = None
        /\ InsertRows(at[w], br[w], got[w])
        /\ cursor' = IF at[w] > cursor THEN at[w] ELSE cursor
        /\ Stored(at[w], br[w], got[w])
        /\ WalkOn(w)
        /\ UNCHANGED lagging
  /\ UNCHANGED <<chainVars, readerVars, rewinds>>

\* write_block, and batch_write_blocks of each bundle: one transaction with the
\* rows of all tables and the cursor.  Nothing is compared with what is stored.
WriteBlock(w) ==
  /\ pc[w] = "ready"
  /\ InsertRows(at[w], br[w], got[w])
  /\ cursor' = IF at[w] > cursor THEN at[w] ELSE cursor
  /\ Stored(at[w], br[w], got[w])
  /\ WalkOn(w)
  /\ UNCHANGED <<chainVars, lagging, readerVars, rewinds>>

-----------------------------------------------------------------------------

\* rewind_to(h), at a stored block that is not the chain's (Reorg has the walk
\* that finds it): the foreign keys cascade to transactions and logs; the cursor
\* keeps its value, and so do the rows of token_transfers.
RewindTo(h) ==
  /\ rewinds < MaxRewinds
  /\ blocks[h] \notin {None, chain[h]}
  /\ rewinds' = rewinds + 1
  /\ blocks' = [g \in Heights |-> IF g >= h THEN None ELSE blocks[g]]
  /\ txs' = {k \in txs : k[1] < h}
  /\ logs' = [g \in Heights |-> IF g >= h THEN None ELSE logs[g]]
  /\ blind' = {g \in blind : g < h} /\ overlaid' = {g \in overlaid : g < h}
  /\ left' = left \cup {k \in Keys : k[1] >= h /\ transfers[k] # None}
  /\ disturbed' = (rpc # "idle")
  /\ UNCHANGED <<chainVars, transfers, cursor, writerVars, rpc, rh, rb, reply, whole, torn>>

-----------------------------------------------------------------------------
(***************************************************************************)
(* A reader: /tx/:hash reads the transaction, its logs and its block,      *)
(* GraphQL's transaction the first two; /blocks/:height reads the block    *)
(* and then its transactions.  Each read is a query of its own.            *)
(***************************************************************************)

Ask(h, b, first) ==
  /\ rpc = "idle"
  /\ rpc' = first /\ rh' = h /\ rb' = b
  /\ UNCHANGED <<chainVars, tables, writerVars, reply, whole, disturbed, torn>>
  /\ UNCHANGED <<histories, rewinds>>

\* A query that found `found'; what is stored with it, `must', has to follow.
Read(next, found, must) ==
  /\ rpc' = next
  /\ reply' = reply \cup found /\ whole' = whole \cup must
  /\ UNCHANGED <<chainVars, tables, writerVars, rh, disturbed, torn>>
  /\ UNCHANGED <<histories, rewinds>>

\* The last query, and the reply.
ReadAndReply(found) ==
  /\ torn' = (torn \/ (~disturbed /\ ~(whole \subseteq reply \cup found)))
  /\ rpc' = "idle" /\ rh' = 0 /\ rb' = 0
  /\ reply' = {} /\ whole' = {} /\ disturbed' = FALSE
  /\ UNCHANGED <<chainVars, tables, writerVars, histories, rewinds>>

\* The transaction asked for, or that of the header read.
Tx == TxAt(rh, rb)

\* What a reply with the transaction has to contain of its logs.
LogsDue == IF rh \in blind \cup overlaid THEN {} ELSE {"logs"}

\* transactions::get_by_hash; without a row the reply is a 404.
ReadTx ==
  /\ rpc = "tx"
  /\ \/ /\ Tx \in txs
        /\ Read("logs", {"tx"}, {"block"} \cup LogsDue) /\ UNCHANGED rb
     \/ Tx \notin txs /\ ReadAndReply({})

LogsFound == IF logs[rh] = Tx THEN {"logs"} ELSE {}

\* logs::for_tx.
ReadLogs ==
  /\ rpc = "logs"
  /\ Read("block", LogsFound, {}) /\ UNCHANGED rb

\* GraphQL's transaction: the transaction, null without one, and its logs.
GqlTransaction ==
  \/ rpc = "gtx" /\ Tx \in txs /\ Read("glogs", {"tx"}, LogsDue) /\ UNCHANGED rb
  \/ rpc = "gtx" /\ Tx \notin txs /\ ReadAndReply({})
  \/ rpc = "glogs" /\ ReadAndReply(LogsFound)

\* blocks::get_by_height for the timestamp: the last read of /tx/:hash.
ReadTimestamp ==
  /\ rpc = "block" /\ "tx" \in reply
  /\ ReadAndReply(IF blocks[rh] # None THEN {"block"} ELSE {})

\* blocks::get_by_height, the first read of /blocks/:height; 404 without a row.
ReadBlock ==
  /\ rpc = "block" /\ "tx" \notin reply
  /\ \/ /\ blocks[rh] # None
        /\ rb' = blocks[rh]
        /\ Read("txs", {"block"}, IF rh \in reverted THEN {} ELSE {"tx"})
     \/ blocks[rh] = None /\ ReadAndReply({})

\* transactions::for_block.
ReadTxs ==
  /\ rpc = "txs"
  /\ ReadAndReply(IF Tx \in txs THEN {"tx"} ELSE {})

-----------------------------------------------------------------------------

Next ==
  \/ \E d \in Heights : ChainRollsBack(d)
  \/ \E w \in Writers : StartWalk(w) \/ FetchBody(w) \/ FetchLogs(w) \/ Abort(w) \/ WriteBlock(w)
  \/ \E h \in Heights : \/ RewindTo(h) \/ Ask(h, 0, "block")
                        \/ \E b \in Branches, first \in {"tx", "gtx"} :
                             TxAt(h, b) = <<h, b>> /\ Ask(h, b, first)
  \/ ReadTx \/ ReadLogs \/ ReadTimestamp \/ GqlTransaction
  \/ ReadBlock \/ ReadTxs

Spec == Init /\ [][Next]_vars

-----------------------------------------------------------------------------

\* A stored block has its own branch's transaction, and no other, exactly when the
\* body had it, and has its log exactly when some write of it came with logs: a
\* later write of the same block fills in what a lagging endpoint left out, and
\* the log of a reverted transaction never gets in and never blocks the write
\* (foreign key).  A height without a block has no rows.  Where another branch's
\* bundle was written onto a stored header, both branches' transactions are under
\* it, but a log still has its transaction.
RowsExact ==
  \A h \in Heights :
    /\ blocks[h] = None => logs[h] = None /\ \A k \in txs : k[1] # h
    /\ blocks[h] # None /\ h \notin overlaid =>
         /\ \A k \in Keys : k[1] = h => (k \in txs <=> k \in BodyTxs(h, blocks[h]))
         /\ logs[h] = IF h \in reverted \cup blind THEN None ELSE TxAt(h, blocks[h])
    /\ logs[h] \in txs \cup {None}

\* The transfer event of ERC-20 has two indexed addresses and an amount, the one
\* of ERC-721 three indexed arguments and nothing else.
Reference(l) ==
  [standard \in Standards |->
     IF standard = "erc20" THEN l.topics = 3 /\ l.data = "word"
                           ELSE l.topics = 4 /\ l.data = "empty"]

\* Every stored log has its transfer, under the standard of its event, and every
\* transfer is that of a stored log, except those a rewind has left behind, which
\* nothing ever deletes (token_transfers has no foreign key, although lib.rs says
\* that a rewind clears all downstream data), and those of a second branch's
\* bundle at one height, whose log found the first one's in its place.
TransfersExact ==
  /\ \A k \in Keys, s \in Standards : transfers[k] = s => Reference(raw)[s]
  /\ \A h \in Heights, s \in Standards :
       logs[h] # None /\ Reference(raw)[s] => transfers[logs[h]] = s
  /\ \A k \in Keys : transfers[k] # None =>
       logs[k[1]] = k \/ k \in left \/ k[1] \in overlaid

\* A detail reply is never torn: each part that was stored with the first one is
\* in it, although the parts are read by separate queries while blocks of either
\* branch are written ("shouldn't occur for an indexed tx", tx.rs).  Only a rewind
\* in the middle of the request breaks this.
DetailWhole == ~torn
=============================================================================
