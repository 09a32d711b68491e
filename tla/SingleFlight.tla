----------------------------- MODULE SingleFlight -----------------------------
(***************************************************************************)
(* The single-flight gate of the tail loop (crates/sync/single_flight.rs), *)
(* at the grain of its atomic operations: offer is a compare-and-exchange  *)
(* on `inflight' followed by a critical section on `pending', so another   *)
(* caller's steps can fall between the two; take_pending_and_release is    *)
(* one critical section.  A caller that acquires the gate works on its     *)
(* target and then releases, as handle_finalized does.                     *)
(*                                                                         *)
(* The gate is Sync and shared through an Arc: the module is about any     *)
(* number of callers.  BlockSync uses it with the one caller of the        *)
(* deployed process.                                                       *)
(***************************************************************************)
EXTENDS Integers

CONSTANTS
  Callers,   \* tasks that share the gate
  MaxTip     \* bound: highest tip offered

ASSUME GateAssumption == MaxTip \in Nat

VARIABLES
  inflight,  \* AtomicBool
  pending,   \* Mutex<Option<BlockHeight>>, -1 for None
  stage,     \* where each caller is
  target,    \* the height each caller offered, then works on
  best,      \* history: highest tip ever offered
  served     \* history: highest tip a worker has finished

gateVars == <<inflight, pending, stage, target, best, served>>

Tips  == 0..MaxTip
NoTip == -1
Larger(a, b) == IF a >= b THEN a ELSE b

GateTypeOK ==
  /\ inflight \in BOOLEAN
  /\ pending \in Tips \cup {NoTip}
  /\ stage \in [Callers -> {"idle", "claim", "stash", "work"}]
  /\ target \in [Callers -> Tips]
  /\ best \in Tips \cup {NoTip}
  /\ served \in Tips \cup {NoTip}

GateInit ==
  /\ inflight = FALSE
  /\ pending = NoTip
  /\ stage = [c \in Callers |-> "idle"]
  /\ target = [c \in Callers |-> 0]
  /\ best = NoTip
  /\ served = NoTip

\* Mutant: the flag is read but never set (no exchange).
Offer_NoExchange(c, tip) ==
  /\ stage[c] = "idle"
  /\ target' = [target EXCEPT ![c] = tip]
  /\ best' = Larger(best, tip)
  /\ stage' = [stage EXCEPT ![c] = IF inflight THEN "stash" ELSE "claim"]
  /\ UNCHANGED <<inflight, pending, served>>

\* offer(tip), the compare-and-exchange.
Offer(c, tip) ==
  /\ stage[c] = "idle"
  /\ target' = [target EXCEPT ![c] = tip]
  /\ best' = Larger(best, tip)
  /\ \/ /\ ~inflight
        /\ inflight' = TRUE
        /\ stage' = [stage EXCEPT ![c] = "claim"]
     \/ /\ inflight
        /\ stage' = [stage EXCEPT ![c] = "stash"]
        /\ UNCHANGED inflight
  /\ UNCHANGED <<pending, served>>

\* Mutant: the stash is dropped without being compared with the offer.
Claim_IgnoresStash(c) ==
  /\ stage[c] = "claim"
  /\ pending' = NoTip
  /\ stage' = [stage EXCEPT ![c] = "work"]
  /\ UNCHANGED <<inflight, target, best, served>>

\* offer after a successful exchange: drain the stash, Acquired(max).
Claim(c) ==
  /\ stage[c] = "claim"
  /\ target' = [target EXCEPT ![c] = Larger(pending, @)]
  /\ pending' = NoTip
  /\ stage' = [stage EXCEPT ![c] = "work"]
  /\ UNCHANGED <<inflight, best, served>>

\* offer after a failed exchange: stash the higher of the two tips.
Stash(c) ==
  /\ stage[c] = "stash"
  /\ pending' = Larger(pending, target[c])
  /\ stage' = [stage EXCEPT ![c] = "idle"]
  /\ UNCHANGED <<inflight, target, best, served>>

\* Mutant: the stash is taken without looking whether there is one.
Release_NoCheck(c) ==
  /\ stage[c] = "work"
  /\ served' = Larger(served, target[c])
  /\ pending' = NoTip
  /\ target' = [target EXCEPT ![c] = pending]
  /\ UNCHANGED <<inflight, stage, best>>

\* The worker finished its chain; take_pending_and_release.
Release(c) ==
  /\ stage[c] = "work"
  /\ served' = Larger(served, target[c])
  /\ pending' = NoTip
  /\ \/ /\ pending # NoTip
        /\ target' = [target EXCEPT ![c] = pending]
        /\ UNCHANGED <<inflight, stage>>
     \/ /\ pending = NoTip
        /\ inflight' = FALSE
        /\ stage' = [stage EXCEPT ![c] = "idle"]
        /\ UNCHANGED target
  /\ UNCHANGED best

GateNext ==
  \E c \in Callers :
    \/ \E tip \in Tips : Offer(c, tip)
    \/ Claim(c) \/ Stash(c) \/ Release(c)

GateSpec == GateInit /\ [][GateNext]_gateVars

-----------------------------------------------------------------------------

Holding(c) == stage[c] \in {"claim", "work"}

\* Two callers are never in flight together, and the flag says whether one is
\* (spec 5 invariant 10: a second writer for the same height must not start).
MutualExclusion ==
  /\ \A c, d \in Callers : Holding(c) /\ Holding(d) => c = d
  /\ inflight <=> \E c \in Callers : Holding(c)

\* The freshest tip is never dropped: it is served, stashed, or in the hands
\* of a caller that will serve or stash it, whatever offers raced.  A stash may
\* be left without a worker until the next offer claims it.
FreshestKept ==
  \/ best = served
  \/ best = pending
  \/ \E c \in Callers : stage[c] # "idle" /\ target[c] = best
=============================================================================
