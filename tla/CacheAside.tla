----------------------------- MODULE CacheAside -----------------------------
(***************************************************************************)
(* The API's read path: get_or_load (crates/api/src/cached.rs) over the    *)
(* Redis client and its circuit breaker (crates/cache).  Requests run in   *)
(* parallel and share one breaker: an atomic counter and a latch behind a  *)
(* mutex, which are not updated together.                                  *)
(*                                                                         *)
(* One cache key is modelled.  What its loader reads from Postgres is a    *)
(* version, raised by every write of the indexer; the cached entry is the  *)
(* version it was serialized from.  The mutex is held by a request at      *)
(* "reset"; every other critical section is a single step.                 *)
(***************************************************************************)
EXTENDS Integers, FiniteSets

CONSTANTS
  Requests,    \* concurrent requests
  Threshold,   \* CacheConfig::breaker_threshold
  MaxVersion,  \* bound: number of writes to the database
  NoEntry,     \* no entry under the key
  Alien        \* an entry that does not decode, left by another release

ASSUME CacheAssumption ==
  /\ IsFiniteSet(Requests) /\ Threshold \in Nat \ {0} /\ MaxVersion \in Nat
  /\ NoEntry \notin Nat /\ Alien \notin Nat \cup {NoEntry}

VARIABLES
  db,        \* version the loader reads
  entry,     \* the entry in Redis
  failures,  \* CircuitBreaker::failures
  latch,     \* open_until: none, in the future (open) or in the past (elapsed)
  pc,        \* where each request is
  op,        \* its call to the client: get, set or del (invalidate)
  val        \* what it has read

breakerVars == <<failures, latch>>
vars == <<db, entry, breakerVars, pc, op, val>>

Versions == 0..MaxVersion

TypeOK ==
  /\ db \in Versions
  /\ entry \in Versions \cup {NoEntry, Alien}
  /\ failures \in Nat
  /\ latch \in {"none", "open", "elapsed"}
  /\ pc \in [Requests -> {"idle", "check", "reset", "call", "ok", "failed", "trip", "load"}]
  /\ op \in [Requests -> {"get", "set", "del"}]
  /\ val \in [Requests -> Versions \cup {NoEntry, Alien}]
  /\ \A r \in Requests : op[r] = "set" => val[r] \in Versions

Init ==
  /\ db = 0
  /\ entry \in {NoEntry, Alien}
  /\ failures = 0 /\ latch = "none"
  /\ pc = [r \in Requests |-> "idle"]
  /\ op = [r \in Requests |-> "get"]
  /\ val = [r \in Requests |-> NoEntry]

At(r, l) == pc[r] = l
LockFree == \A r \in Requests : pc[r] # "reset"

\* The request goes on with the same locals, or ends and its locals with it.
Goto(r, l) == pc' = [pc EXCEPT ![r] = l] /\ UNCHANGED <<op, val>>
Return(r)  == /\ pc' = [pc EXCEPT ![r] = "idle"]
              /\ op' = [op EXCEPT ![r] = "get"]
              /\ val' = [val EXCEPT ![r] = NoEntry]

-----------------------------------------------------------------------------
(***************************************************************************)
(* The database, Redis' expiry and the clock (external).                   *)
(***************************************************************************)

Write ==
  /\ db < MaxVersion
  /\ db' = db + 1
  /\ UNCHANGED <<entry, breakerVars, pc, op, val>>

\* The TTL of the tier ends.
Expire ==
  /\ entry # NoEntry
  /\ entry' = NoEntry
  /\ UNCHANGED <<db, breakerVars, pc, op, val>>

\* open_for has passed.
Elapse ==
  /\ latch = "open"
  /\ latch' = "elapsed"
  /\ UNCHANGED <<db, entry, failures, pc, op, val>>

-----------------------------------------------------------------------------
(***************************************************************************)
(* CircuitBreaker.                                                         *)
(***************************************************************************)

\* The client returns CacheError::Open, or the error of a call: a read falls
\* back to the loader, a write or an invalidation is given up.
Fallback(r) == IF op[r] = "get" THEN Goto(r, "load") ELSE Return(r)

\* Mutant: the latch is cleared and the count is not.
IsOpen_KeepsCount(r) ==
  /\ At(r, "check") /\ LockFree
  /\ \/ latch = "open" /\ Fallback(r) /\ UNCHANGED latch
     \/ latch = "elapsed" /\ latch' = "none" /\ Goto(r, "call")
     \/ latch = "none" /\ Goto(r, "call") /\ UNCHANGED latch
  /\ UNCHANGED <<db, entry, failures>>

\* Mutant: an elapsed window lets the call through and leaves the latch.
IsOpen_KeepsLatch(r) ==
  /\ At(r, "check") /\ LockFree
  /\ \/ latch = "open" /\ Fallback(r) /\ UNCHANGED latch
     \/ latch = "elapsed" /\ Goto(r, "reset") /\ UNCHANGED latch
     \/ latch = "none" /\ Goto(r, "call") /\ UNCHANGED latch
  /\ UNCHANGED <<db, entry, failures>>

\* Mutant: only reads are gated.
IsOpen_ReadsOnly(r) ==
  /\ At(r, "check") /\ LockFree
  /\ \/ latch = "open" /\ op[r] = "get" /\ Fallback(r) /\ UNCHANGED latch
     \/ latch = "elapsed" /\ latch' = "none" /\ Goto(r, "reset")
     \/ (latch = "none" \/ op[r] # "get") /\ Goto(r, "call") /\ UNCHANGED latch
  /\ UNCHANGED <<db, entry, failures>>

\* is_open: an elapsed latch is cleared, the mutex still held.
IsOpen(r) ==
  /\ At(r, "check") /\ LockFree
  /\ \/ latch = "open" /\ Fallback(r) /\ UNCHANGED latch
     \/ latch = "elapsed" /\ latch' = "none" /\ Goto(r, "reset")
     \/ latch = "none" /\ Goto(r, "call") /\ UNCHANGED latch
  /\ UNCHANGED <<db, entry, failures>>

\* is_open: then the count, which others change without the mutex.
HalfOpen(r) ==
  /\ At(r, "reset")
  /\ failures' = 0
  /\ Goto(r, "call")
  /\ UNCHANGED <<db, entry, latch>>

\* record_failure: fetch_add, and the comparison of what it returned.
RecordFailure(r) ==
  /\ At(r, "failed")
  /\ failures' = failures + 1
  /\ IF failures + 1 >= Threshold THEN Goto(r, "trip") ELSE Fallback(r)
  /\ UNCHANGED <<db, entry, latch>>

\* record_failure: the latch, under the mutex.
Trip(r) ==
  /\ At(r, "trip") /\ LockFree
  /\ latch' = "open"
  /\ Fallback(r)
  /\ UNCHANGED <<db, entry, failures>>

\* Mutant: a hit is written back, which renews its TTL.
Answered_Refreshes(r) ==
  CASE op[r] = "get" /\ val[r] \in {NoEntry, Alien} -> Goto(r, "load")
    [] op[r] = "get" /\ val[r] \in Versions ->
         /\ pc' = [pc EXCEPT ![r] = "check"]
         /\ op' = [op EXCEPT ![r] = "set"]
         /\ UNCHANGED val
    [] op[r] # "get" -> Return(r)

\* What follows the answer of a call: a hit is returned, a miss or an entry
\* that does not decode goes to the loader, a write or invalidation is done.
Answered(r) ==
  IF op[r] = "get" /\ val[r] \in {NoEntry, Alien} THEN Goto(r, "load") ELSE Return(r)

\* record_success, before the answer is looked at.
RecordSuccess(r) ==
  /\ At(r, "ok")
  /\ failures' = 0
  /\ Answered(r)
  /\ UNCHANGED <<db, entry, latch>>

-----------------------------------------------------------------------------
(***************************************************************************)
(* CacheClient and get_or_load.                                            *)
(***************************************************************************)

\* get_or_load begins with a get.
GetOrLoad(r) ==
  /\ At(r, "idle")
  /\ op' = [op EXCEPT ![r] = "get"]
  /\ pc' = [pc EXCEPT ![r] = "check"]
  /\ UNCHANGED <<db, entry, breakerVars, val>>

\* invalidate, which no route calls: the client offers it.
Invalidate(r) ==
  /\ At(r, "idle")
  /\ op' = [op EXCEPT ![r] = "del"]
  /\ pc' = [pc EXCEPT ![r] = "check"]
  /\ UNCHANGED <<db, entry, breakerVars, val>>

\* pool.get, pool.set with the tier's TTL or pool.del, executed by Redis.
Execute(r) ==
  \/ op[r] = "get" /\ val' = [val EXCEPT ![r] = entry] /\ UNCHANGED entry
  \/ op[r] = "set" /\ entry' = val[r] /\ UNCHANGED val
  \/ op[r] = "del" /\ entry' = NoEntry /\ UNCHANGED val

Call(r) ==
  /\ At(r, "call")
  /\ Execute(r)
  /\ pc' = [pc EXCEPT ![r] = "ok"]
  /\ UNCHANGED <<db, breakerVars, op>>

\* The call fails: it did not reach Redis, or its answer was lost.
CallFails(r) ==
  /\ At(r, "call")
  /\ \/ UNCHANGED <<entry, val>>
     \/ op[r] # "get" /\ Execute(r)
  /\ pc' = [pc EXCEPT ![r] = "failed"]
  /\ UNCHANGED <<db, breakerVars, op>>

\* Mutant: a read that misses or fails goes on to the write without the loader.
Load_Skipped(r) ==
  /\ At(r, "load")
  /\ op' = [op EXCEPT ![r] = "set"]
  /\ pc' = [pc EXCEPT ![r] = "check"]
  /\ UNCHANGED <<db, entry, breakerVars, val>>

\* The loader's read, then the write of its value to the cache.
Load(r) ==
  /\ At(r, "load")
  /\ val' = [val EXCEPT ![r] = db]
  /\ op' = [op EXCEPT ![r] = "set"]
  /\ pc' = [pc EXCEPT ![r] = "check"]
  /\ UNCHANGED <<db, entry, breakerVars>>

\* The loader fails: `?' ends the request.
LoadFails(r) ==
  /\ At(r, "load")
  /\ Return(r)
  /\ UNCHANGED <<db, entry, breakerVars>>

-----------------------------------------------------------------------------

Step(r) ==
  \/ IsOpen(r) \/ HalfOpen(r) \/ RecordFailure(r) \/ Trip(r) \/ RecordSuccess(r)
  \/ Call(r) \/ CallFails(r) \/ Load(r) \/ LoadFails(r)

Next ==
  \/ Write \/ Expire \/ Elapse
  \/ \E r \in Requests : GetOrLoad(r) \/ Invalidate(r) \/ Step(r)

Spec == Init /\ [][Next]_vars

\* Time passes, a request that was made goes on, with success or not, and new
\* requests arrive.
FairSpec ==
  /\ Spec
  /\ WF_vars(Expire) /\ WF_vars(Elapse)
  /\ \A r \in Requests : WF_vars(Step(r)) /\ WF_vars(GetOrLoad(r))

-----------------------------------------------------------------------------

\* A count that reached the threshold is never left behind a closed latch:
\* either the latch is set or a request is about to set it or to clear the
\* count, although counter and latch change apart (is_open, record_failure).
TripAccounted ==
  failures >= Threshold =>
    latch # "none" \/ \E r \in Requests : pc[r] \in {"trip", "reset"}

\* An outage costs at most one failing call per request in flight beyond the
\* threshold, whatever late successes, re-opened latches and half-open probes
\* come between ("threshold consecutive failures trip", breaker.rs).
OutageCost == failures < Threshold + Cardinality(Requests)

\* Once the database stops changing, the entry is in the end absent or current:
\* a slow request may write an old value over a newer one, but nothing keeps it
\* alive (TTL of set; a hit is not written back).
EventuallyFresh ==
  \A v \in Versions : <>[](db = v) => <>[](entry \in {NoEntry, v})

\* The breaker does not stay open: its window ends and a request clears the
\* latch, however many requests in flight trip it again ("half-opens after the
\* window to probe recovery", breaker.rs).
BreakerRecovers == (latch # "none") ~> (latch = "none")
=============================================================================
