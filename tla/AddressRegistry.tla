--------------------------- MODULE AddressRegistry ---------------------------
(***************************************************************************)
(* The `addresses' table: who is registered, when first and last seen, and *)
(* whether a contract.  Four tasks write it at once: the backfill and the  *)
(* tail register the addresses of the blocks they commit, a task started   *)
(* at boot seeds it from older blocks, and the detector classifies rows.   *)
(*                                                                         *)
(* The two loops are reduced to what BlockSync shows of them: the indexed  *)
(* heights are a prefix 0..top, a commit covers consecutive heights from   *)
(* some height of that prefix or the one after it, and heights may be      *)
(* committed again.  Damaged heights have no transactions here.  Before    *)
(* the table existed (migration 0005) heights were indexed without it.     *)
(***************************************************************************)
EXTENDS Integers, FiniteSets, FiniteSetsExt

CONSTANTS
  Addrs,        \* addresses
  Contracts,    \* those that have code
  OldBlocks,    \* number of blocks indexed before migration 0005
  BatchSize,    \* INDEXER_BACKFILL_BATCH
  DetectBatch,  \* INDEXER_CONTRACT_DETECT_BATCH
  LastBlock,    \* bound: last block
  MaxFaults     \* bound: errors and restarts in one behaviour

ASSUME RegistryAssumption ==
  /\ IsFiniteSet(Addrs) /\ Contracts \subseteq Addrs
  /\ LastBlock \in Nat /\ OldBlocks \in 0..LastBlock
  /\ BatchSize \in Nat \ {0} /\ DetectBatch \in Nat \ {0}
  /\ MaxFaults \in Nat

VARIABLES
  seenIn,        \* the from and to addresses of each block
  top,           \* highest indexed height
  first, last,   \* first_seen_block and last_seen_block, -1 without a row
  code,          \* code_hash: none (NULL), eoa ("0x") or contract (a hash)
  spc, snapshot, \* the seed task, and the height its SELECT saw
  dpc, cand,     \* the detector, and what is left of its batch
  faults         \* number of faults so far

rowVars  == <<first, last, code>>
seedVars == <<spc, snapshot>>
detVars  == <<dpc, cand>>
registryVars == <<seenIn, top, rowVars, seedVars, detVars, faults>>

Blocks == 0..LastBlock
NoRow   == -1
Larger(a, b) == IF a >= b THEN a ELSE b

\* Blocks of lo..hi with a transaction of address a.
Sightings(a, lo, hi) == {h \in lo..hi : a \in seenIn[h]}

RegistryTypeOK ==
  /\ seenIn \in [Blocks -> SUBSET Addrs]
  /\ top \in Blocks \cup {-1}
  /\ first \in [Addrs -> Blocks \cup {NoRow}] /\ last \in [Addrs -> Blocks \cup {NoRow}]
  /\ code \in [Addrs -> {"none", "eoa", "contract"}]
  /\ \A a \in Addrs : first[a] = NoRow => last[a] = NoRow /\ code[a] = "none"
  /\ spc \in {"count", "select", "insert", "done"} /\ snapshot \in Blocks \cup {-1}
  /\ dpc \in {"tick", "probe", "dead"} /\ cand \subseteq Addrs
  /\ Cardinality(cand) <= DetectBatch
  /\ faults \in 0..MaxFaults

RegistryInit ==
  /\ seenIn \in [Blocks -> SUBSET Addrs]
  /\ top = OldBlocks - 1
  /\ first = [a \in Addrs |-> NoRow] /\ last = first
  /\ code = [a \in Addrs |-> "none"]
  /\ spc = "count" /\ snapshot = -1
  /\ dpc = "tick" /\ cand = {}
  /\ faults = 0

Fault == faults < MaxFaults /\ faults' = faults + 1

-----------------------------------------------------------------------------
(***************************************************************************)
(* The block writer.                                                       *)
(***************************************************************************)

\* Mutant: one row per address, with the latest block of the batch.
TxAddress_Latest(a, lo, hi) == Max(Sightings(a, lo, hi))

\* tx_addresses: one row per address, with the earliest block of the batch.
TxAddress(a, lo, hi) == Min(Sightings(a, lo, hi))

\* The transactions of the heights up to hi are stored, those of heights that
\* were there already for the second time: ON CONFLICT DO NOTHING.
InsertTransactions(hi) == top' = Larger(top, hi)

\* upsert_batch within the commit of lo..hi: an existing row keeps its first
\* block and takes the GREATEST last one.
Commit(lo, hi) ==
  /\ lo <= top + 1 /\ hi - lo < BatchSize
  /\ InsertTransactions(hi)
  /\ LET seen == {a \in Addrs : Sightings(a, lo, hi) # {}}
     IN  /\ first' = [a \in Addrs |-> IF a \in seen /\ first[a] = NoRow
                                      THEN TxAddress(a, lo, hi) ELSE first[a]]
         /\ last'  = [a \in Addrs |-> IF a \in seen
                                      THEN Larger(last[a], TxAddress(a, lo, hi)) ELSE last[a]]
  /\ UNCHANGED <<seenIn, code, seedVars, detVars, faults>>

-----------------------------------------------------------------------------
(***************************************************************************)
(* The history seed, spawned at boot beside the loops.                     *)
(***************************************************************************)

SeedCount ==
  /\ spc = "count"
  /\ spc' = IF \A a \in Addrs : first[a] = NoRow THEN "select" ELSE "done"
  /\ UNCHANGED <<seenIn, top, rowVars, snapshot, detVars, faults>>

\* The statement starts: it reads `transactions' as of now.
SeedSelect ==
  /\ spc = "select"
  /\ snapshot' = top
  /\ spc' = "insert"
  /\ UNCHANGED <<seenIn, top, rowVars, detVars, faults>>

\* Mutant: an existing row is overwritten.
SeedInsert_Overwrites ==
  /\ spc = "insert"
  /\ LET new == {a \in Addrs : Sightings(a, 0, snapshot) # {}}
     IN  /\ first' = [a \in Addrs |-> IF a \in new THEN Min(Sightings(a, 0, snapshot)) ELSE first[a]]
         /\ last'  = [a \in Addrs |-> IF a \in new THEN Max(Sightings(a, 0, snapshot)) ELSE last[a]]
  /\ spc' = "done"
  /\ UNCHANGED <<seenIn, top, code, snapshot, detVars, faults>>

\* The statement ends, ON CONFLICT DO NOTHING against the rows of now.
SeedInsert ==
  /\ spc = "insert"
  /\ LET new == {a \in Addrs : first[a] = NoRow /\ Sightings(a, 0, snapshot) # {}}
     IN  /\ first' = [a \in Addrs |-> IF a \in new THEN Min(Sightings(a, 0, snapshot)) ELSE first[a]]
         /\ last'  = [a \in Addrs |-> IF a \in new THEN Max(Sightings(a, 0, snapshot)) ELSE last[a]]
  /\ spc' = "done"
  /\ UNCHANGED <<seenIn, top, code, snapshot, detVars, faults>>

\* An error, a deadlock with a commit for one, is logged and nothing more.
SeedFails ==
  /\ spc # "done"
  /\ Fault
  /\ spc' = "done"
  /\ UNCHANGED <<seenIn, top, rowVars, snapshot, detVars>>

-----------------------------------------------------------------------------
(***************************************************************************)
(* The contract detector.                                                  *)
(***************************************************************************)

Unclassified == {a \in Addrs : first[a] # NoRow /\ code[a] = "none"}

\* A tick: unclassified_batch, LIMIT without an order.
Sweep ==
  /\ dpc = "tick" /\ Unclassified # {}
  /\ \E batch \in SUBSET Unclassified :
       /\ Cardinality(batch) = Min({DetectBatch, Cardinality(Unclassified)})
       /\ cand' = batch
  /\ dpc' = "probe"
  /\ UNCHANGED <<seenIn, top, rowVars, seedVars, faults>>

Drop(a) ==
  /\ dpc = "probe" /\ a \in cand
  /\ cand' = cand \ {a}
  /\ dpc' = IF cand' = {} THEN "tick" ELSE "probe"

\* The UPDATE of classify: always a hash, "0x" without code.
SetCode(a, isContract) ==
  code' = [code EXCEPT ![a] = IF isContract THEN "contract" ELSE "eoa"]

\* Mutant: an address without code is left with a NULL hash.
Classify_ContractsOnly(a) ==
  /\ Drop(a)
  /\ code' = [code EXCEPT ![a] = IF a \in Contracts THEN "contract" ELSE @]
  /\ UNCHANGED <<seenIn, top, first, last, seedVars, faults>>

\* classify_one: eth_getCode and the UPDATE; no other task writes the hash.
Classify(a) ==
  /\ Drop(a)
  /\ SetCode(a, a \in Contracts)
  /\ UNCHANGED <<seenIn, top, first, last, seedVars, faults>>

\* classify_one fails: the row stays unclassified and the sweep goes on.
ClassifyFails(a) ==
  /\ Fault
  /\ Drop(a)
  /\ UNCHANGED <<seenIn, top, rowVars, seedVars>>

\* unclassified_batch fails: `?' ends the task, which nothing restarts.
DetectorDies ==
  /\ dpc = "tick"
  /\ Fault
  /\ dpc' = "dead"
  /\ UNCHANGED <<seenIn, top, rowVars, seedVars, cand>>

-----------------------------------------------------------------------------

\* The process is killed or stopped, and boots again.
Restart ==
  /\ Fault
  /\ spc' = "count" /\ snapshot' = -1
  /\ dpc' = "tick" /\ cand' = {}
  /\ UNCHANGED <<seenIn, top, rowVars>>

Seed     == SeedCount \/ SeedSelect \/ SeedInsert
Detector == Sweep \/ \E a \in Addrs : Classify(a)

RegistryNext ==
  \/ \E lo, hi \in Blocks : lo <= hi /\ Commit(lo, hi)
  \/ Seed \/ SeedFails
  \/ Detector \/ DetectorDies \/ \E a \in Addrs : ClassifyFails(a)
  \/ Restart

RegistrySpec == RegistryInit /\ [][RegistryNext]_registryVars

\* The interval keeps ticking and the detector's calls complete.
RegistryFairSpec == RegistrySpec /\ WF_registryVars(Detector)

-----------------------------------------------------------------------------

\* On a database that had the table from the start, exactly the addresses of
\* indexed blocks have a row and its first block is the earliest one, however
\* the seed, batches, repeated commits and restarts interleave (upsert_batch:
\* "Keeps the earliest `first_seen_block`").
FirstSeenExact ==
  \A a \in Addrs :
    first[a] = IF Sightings(a, 0, top) = {} THEN NoRow ELSE Min(Sightings(a, 0, top))

\* A registered address is classified in the end, although the batch is cut at
\* a limit without an order and probes fail, unless the detector ended.
EventuallyClassified ==
  \A a \in Addrs : (first[a] # NoRow) ~> (code[a] # "none" \/ dpc = "dead")

\* The last block of a row is behind the latest indexed one of its address by
\* less than a batch: a batch is recorded by its earliest sighting, but nothing
\* else, no seed, repetition or restart, makes it older.
LastSeenWithinBatch ==
  \A a \in Addrs :
    first[a] # NoRow =>
      LET latest == Max(Sightings(a, 0, top))
      IN  last[a] \in (latest - BatchSize + 1)..latest
=============================================================================
