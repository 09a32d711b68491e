-------------------------- MODULE GateBreakerProofs --------------------------
(***************************************************************************)
(* The two structures that concurrent tasks share through an atomic and a  *)
(* mutex: the single-flight gate, for any set of callers and any bound on  *)
(* the tips, and the circuit breaker, for any finite set of requests, any  *)
(* threshold and any number of database writes.                            *)
(***************************************************************************)
EXTENDS SingleFlight, CacheAside, FiniteSetTheorems, TLAPS

-----------------------------------------------------------------------------
(***************************************************************************)
(* The gate.                                                               *)
(***************************************************************************)

\* FreshestKept needs the bound: nothing held anywhere exceeds the best tip.
GateInv ==
  /\ GateTypeOK
  /\ MutualExclusion
  /\ FreshestKept
  /\ served <= best /\ pending <= best
  /\ \A c \in Callers : stage[c] # "idle" => target[c] <= best

\* A gate nobody has used yet satisfies the invariant.
LEMMA GateInitInv == GateInit => GateInv
  <1> SUFFICES ASSUME GateInit PROVE GateInv
    OBVIOUS
  <1> USE GateAssumption DEF GateInit, Tips, NoTip
  <1>1. inflight \in BOOLEAN
    OBVIOUS
  <1>2. GateTypeOK
    BY <1>1 DEF GateTypeOK
  <1>3. MutualExclusion /\ FreshestKept
    BY DEF MutualExclusion, Holding, FreshestKept
  <1>4. QED
    BY <1>2, <1>3 DEF GateInv

\* offer's exchange.
LEMMA OfferKeepsGateInv ==
  ASSUME GateInv, NEW c \in Callers, NEW tip \in Tips, Offer(c, tip)
  PROVE  GateInv'
  <1> USE GateAssumption DEF GateInv, Tips, NoTip, Offer
  <1>1. GateTypeOK'
    BY DEF GateTypeOK, Larger
  <1>2. MutualExclusion'
    BY DEF GateTypeOK, MutualExclusion, Holding
  <1>3. /\ best' \in Int /\ best' >= best /\ best' >= tip
        /\ best' = best \/ best' = tip
    BY DEF GateTypeOK, Larger
  <1>4. FreshestKept'
    BY <1>3 DEF GateTypeOK, FreshestKept
  <1>5. (served <= best /\ pending <= best)'
    BY <1>3 DEF GateTypeOK
  <1>6. (\A d \in Callers : stage[d] # "idle" => target[d] <= best)'
    BY <1>3 DEF GateTypeOK
  <1>7. QED
    BY <1>1, <1>2, <1>4, <1>5, <1>6

\* The critical section that ends an offer.
LEMMA ClaimKeepsGateInv ==
  ASSUME GateInv, NEW c \in Callers, Claim(c) \/ Stash(c)
  PROVE  GateInv'
  <1> USE GateAssumption DEF GateInv, GateTypeOK, Tips, NoTip, Larger
  <1>1. CASE Claim(c)
    BY <1>1 DEF Claim, MutualExclusion, Holding, FreshestKept
  <1>2. CASE Stash(c)
    BY <1>2 DEF Stash, MutualExclusion, Holding, FreshestKept
  <1>3. QED
    BY <1>1, <1>2

\* take_pending_and_release.
LEMMA ReleaseKeepsGateInv ==
  ASSUME GateInv, NEW c \in Callers, Release(c)
  PROVE  GateInv'
  <1> USE GateAssumption DEF GateInv, GateTypeOK, Tips, NoTip, Release
  <1>1. served' \in Tips /\ served' >= served /\ served' >= target[c] /\ served' <= best
    BY DEF Larger
  <1>2. GateTypeOK'
    BY <1>1
  <1>3. MutualExclusion'
    BY DEF MutualExclusion, Holding
  <1>4. FreshestKept'
    BY <1>1 DEF FreshestKept
  <1>5. (/\ served <= best /\ pending <= best
         /\ \A d \in Callers : stage[d] # "idle" => target[d] <= best)'
    BY <1>1
  <1>6. QED
    BY <1>2, <1>3, <1>4, <1>5

\* Every step keeps the invariant.
LEMMA GateNextInv == GateInv /\ [GateNext]_gateVars => GateInv'
  <1> SUFFICES ASSUME GateInv, [GateNext]_gateVars PROVE GateInv'
    OBVIOUS
  <1>1. CASE UNCHANGED gateVars
    BY <1>1 DEF gateVars, GateInv, GateTypeOK, MutualExclusion, Holding, FreshestKept
  <1>2. CASE GateNext
    BY <1>2, OfferKeepsGateInv, ClaimKeepsGateInv, ReleaseKeepsGateInv DEF GateNext
  <1>3. QED
    BY <1>1, <1>2

\* The flag, the stash and the callers' targets keep their types.
THEOREM GateTypeCorrect == GateSpec => []GateTypeOK
  <1>1. GateInv => GateTypeOK
    BY DEF GateInv
  <1>2. QED
    BY <1>1, GateInitInv, GateNextInv, PTL DEF GateSpec

\* One indexing chain in flight at a time, for any number of callers.
THEOREM GateExcludes == GateSpec => []MutualExclusion
  <1>1. GateInv => MutualExclusion
    BY DEF GateInv
  <1>2. QED
    BY <1>1, GateInitInv, GateNextInv, PTL DEF GateSpec

\* max-wins never loses the freshest tip, for any number of callers.
THEOREM FreshestIsKept == GateSpec => []FreshestKept
  <1>1. GateInv => FreshestKept
    BY DEF GateInv
  <1>2. QED
    BY <1>1, GateInitInv, GateNextInv, PTL DEF GateSpec

-----------------------------------------------------------------------------
(***************************************************************************)
(* The breaker.                                                            *)
(***************************************************************************)

\* Requests that have no call under way whose failure is still to be counted,
\* and those about to set the latch.
Settled  == {r \in Requests : pc[r] \notin {"call", "failed"}}
Tripping == {r \in Requests : pc[r] = "trip"}

\* OutageCost is not inductive: what bounds the count is that each failure took
\* a call in flight and that no new call starts behind a set latch; while the
\* latch is not set, each failure beyond the threshold has a request tripping.
CostInv ==
  /\ failures < Threshold + Cardinality(Settled)
  /\ latch = "none" /\ LockFree => failures < Threshold + Cardinality(Tripping)

IInv == TypeOK /\ TripAccounted /\ CostInv

\* A subset of the requests is finite, and a larger one does not count fewer.
LEMMA Counting ==
  ASSUME NEW S \in SUBSET Requests, NEW T \in SUBSET S
  PROVE  /\ IsFiniteSet(S) /\ IsFiniteSet(T)
         /\ Cardinality(S) \in Nat /\ Cardinality(T) \in Nat
         /\ Cardinality(T) <= Cardinality(S)
  <1>1. IsFiniteSet(Requests) /\ T \in SUBSET Requests
    BY CacheAssumption
  <1>2. IsFiniteSet(S) /\ IsFiniteSet(T)
    BY <1>1, FS_Subset
  <1>3. Cardinality(T) <= Cardinality(S)
    BY <1>2, FS_Subset
  <1>4. QED
    BY <1>2, <1>3, FS_CardinalityType

\* One more request counts one more.
LEMMA CountingOne ==
  ASSUME NEW S \in SUBSET Requests, NEW r \in Requests \ S
  PROVE  Cardinality(S \cup {r}) = Cardinality(S) + 1
  <1>1. IsFiniteSet(S)
    BY Counting
  <1>2. QED
    BY <1>1, FS_AddElement

\* A fresh breaker satisfies the invariant.
LEMMA InitIInv == Init => IInv
  <1> SUFFICES ASSUME Init PROVE IInv
    OBVIOUS
  <1> USE CacheAssumption DEF Init
  <1>1. TypeOK
    BY DEF TypeOK, Versions
  <1>2. TripAccounted
    BY DEF TripAccounted
  <1>3. Settled \in SUBSET Requests /\ Tripping \in SUBSET Requests
    BY DEF Settled, Tripping
  <1>4. Cardinality(Settled) \in Nat /\ Cardinality(Tripping) \in Nat
    BY <1>3, Counting
  <1>5. CostInv
    BY <1>4 DEF CostInv
  <1>6. QED
    BY <1>1, <1>2, <1>5 DEF IInv

\* Type correctness: every step of a request and of its environment.
LEMMA TypeStep == TypeOK /\ [Next]_vars => TypeOK'
  <1> SUFFICES ASSUME TypeOK, [Next]_vars PROVE TypeOK'
    OBVIOUS
  <1> USE CacheAssumption DEF TypeOK, Versions
  <1>1. CASE UNCHANGED vars
    BY <1>1 DEF vars, breakerVars
  <1>2. CASE Write \/ Expire \/ Elapse
    BY <1>2 DEF Write, Expire, Elapse, breakerVars
  <1>3. ASSUME NEW r \in Requests, GetOrLoad(r) \/ Invalidate(r) \/ Load(r) \/ LoadFails(r)
        PROVE  TypeOK'
    BY <1>3 DEF GetOrLoad, Invalidate, Load, LoadFails, Return, At, breakerVars
  <1>4. ASSUME NEW r \in Requests, IsOpen(r) \/ HalfOpen(r) \/ RecordFailure(r) \/ Trip(r)
        PROVE  TypeOK'
    BY <1>4 DEF IsOpen, HalfOpen, RecordFailure, Trip, Fallback, Goto, Return, At
  <1>5. ASSUME NEW r \in Requests, RecordSuccess(r)
        PROVE  TypeOK'
    BY <1>5 DEF RecordSuccess, Answered, Goto, Return, At
  <1>6. ASSUME NEW r \in Requests, Call(r) \/ CallFails(r)
        PROVE  TypeOK'
    BY <1>6 DEF Call, CallFails, Execute, At, breakerVars
  <1>7. QED
    BY <1>1, <1>2, <1>3, <1>4, <1>5, <1>6 DEF Next, Step

\* How one step of the breaker's world looks to the count: nothing it depends
\* on changes, or it is one of the breaker's own operations.
Quiet ==
  /\ UNCHANGED failures
  /\ latch' = latch \/ (latch # "none" /\ latch' # "none")
  /\ LockFree' = LockFree
  /\ \A r \in Requests : (pc[r] = "trip") = (pc'[r] = "trip")
  /\ \A r \in Requests : (pc[r] = "reset") = (pc'[r] = "reset")
  /\ \A r \in Requests : pc[r] \notin {"call", "failed"} => pc'[r] \notin {"call", "failed"}

\* A quiet step keeps the invariant.
LEMMA QuietKeeps ==
  ASSUME TypeOK, TypeOK', TripAccounted, CostInv, Quiet
  PROVE  TripAccounted' /\ CostInv'
  <1>1. TripAccounted'
    BY DEF TripAccounted, Quiet
  <1>2. Settled \in SUBSET Settled' /\ Settled' \in SUBSET Requests
    BY DEF Quiet, Settled
  <1>3. Tripping' = Tripping
    BY DEF Quiet, Tripping
  <1>4. /\ Cardinality(Settled) \in Nat /\ Cardinality(Settled') \in Nat
        /\ Cardinality(Settled) <= Cardinality(Settled')
    BY <1>2, Counting
  <1>5. failures' < Threshold + Cardinality(Settled')
    BY <1>4, CacheAssumption DEF CostInv, Quiet, TypeOK
  <1>6. (latch = "none" /\ LockFree => failures < Threshold + Cardinality(Tripping))'
    BY <1>3 DEF CostInv, Quiet
  <1>7. QED
    BY <1>1, <1>5, <1>6 DEF CostInv

\* A count of zero satisfies it whatever the rest.
LEMMA ZeroKeeps ==
  ASSUME failures' = 0
  PROVE  TripAccounted' /\ CostInv'
  <1>1. Settled' \in SUBSET Requests /\ Tripping' \in SUBSET Requests
    BY DEF Settled, Tripping
  <1>2. Cardinality(Settled') \in Nat /\ Cardinality(Tripping') \in Nat
    BY <1>1, Counting
  <1>3. QED
    BY <1>2, CacheAssumption DEF TripAccounted, CostInv

\* is_open.
LEMMA IsOpenKeeps ==
  ASSUME IInv, TypeOK', NEW r \in Requests, IsOpen(r)
  PROVE  TripAccounted' /\ CostInv'
  <1> USE DEF IInv, TypeOK
  <1>1. CASE latch = "open" /\ Fallback(r) /\ UNCHANGED latch
    <2>1. Quiet
      BY <1>1 DEF IsOpen, Fallback, Goto, Return, At, Quiet, LockFree
    <2>2. QED
      BY <2>1, QuietKeeps
  <1>2. CASE latch = "elapsed" /\ latch' = "none" /\ Goto(r, "reset")
    <2>1. pc' = [pc EXCEPT ![r] = "reset"] /\ pc[r] = "check" /\ failures' = failures
      BY <1>2 DEF IsOpen, Goto, At
    <2>2. TripAccounted' /\ ~LockFree'
      BY <2>1 DEF TripAccounted, LockFree
    <2>3. Settled' = Settled
      BY <2>1 DEF Settled
    <2>4. QED
      BY <2>1, <2>2, <2>3 DEF CostInv
  <1>3. CASE latch = "none" /\ Goto(r, "call") /\ UNCHANGED latch
    <2>1. pc' = [pc EXCEPT ![r] = "call"] /\ pc[r] = "check" /\ failures' = failures /\ LockFree
      BY <1>3 DEF IsOpen, Goto, At
    <2>2. TripAccounted'
      BY <1>3, <2>1 DEF TripAccounted
    <2>3. Tripping' = Tripping
      BY <2>1 DEF Tripping
    <2>4. Tripping' \in SUBSET Settled' /\ Settled' \in SUBSET Requests
      BY DEF Tripping, Settled
    <2>5. /\ Cardinality(Settled') \in Nat /\ Cardinality(Tripping') \in Nat
          /\ Cardinality(Tripping') <= Cardinality(Settled')
      BY <2>4, Counting
    <2>6. failures' < Threshold + Cardinality(Tripping')
      BY <1>3, <2>1, <2>3 DEF CostInv
    <2>7. failures' < Threshold + Cardinality(Settled')
      BY <2>5, <2>6, CacheAssumption
    <2>8. QED
      BY <2>2, <2>6, <2>7 DEF CostInv
  <1>4. QED
    BY <1>1, <1>2, <1>3 DEF IsOpen

\* record_failure: the count goes up and a request leaves the calls under way.
LEMMA RecordFailureKeeps ==
  ASSUME IInv, TypeOK', NEW r \in Requests, RecordFailure(r)
  PROVE  TripAccounted' /\ CostInv'
  <1> USE DEF IInv, TypeOK
  <1>1. /\ pc[r] = "failed" /\ failures' = failures + 1 /\ latch' = latch
        /\ pc' = [pc EXCEPT ![r] = pc'[r]]
        /\ pc'[r] \in {"trip", "load", "idle"}
        /\ failures' >= Threshold <=> pc'[r] = "trip"
    BY CacheAssumption DEF RecordFailure, Fallback, Goto, Return, At
  <1>2. LockFree' = LockFree
    BY <1>1 DEF LockFree
  <1>3. TripAccounted'
    BY <1>1 DEF TripAccounted
  <1>4. Settled' = Settled \cup {r} /\ r \notin Settled /\ Settled \in SUBSET Requests
    BY <1>1 DEF Settled
  <1>5. Cardinality(Settled') = Cardinality(Settled) + 1 /\ Cardinality(Settled) \in Nat
    BY <1>4, CountingOne, Counting
  <1>6. failures' < Threshold + Cardinality(Settled')
    BY <1>1, <1>5, CacheAssumption DEF CostInv
  <1>7. ASSUME latch' = "none" /\ LockFree'
        PROVE  failures' < Threshold + Cardinality(Tripping')
    <2>1. failures < Threshold + Cardinality(Tripping)
      BY <1>1, <1>2, <1>7 DEF CostInv
    <2>2. Tripping \in SUBSET Requests /\ r \notin Tripping
      BY <1>1 DEF Tripping
    <2>3. Cardinality(Tripping) \in Nat
      BY <2>2, Counting
    <2>4. CASE pc'[r] = "trip"
      <3>1. Tripping' = Tripping \cup {r}
        BY <1>1, <2>4 DEF Tripping
      <3>2. Cardinality(Tripping') = Cardinality(Tripping) + 1
        BY <2>2, <3>1, CountingOne
      <3>3. QED
        BY <1>1, <2>1, <2>3, <3>2, CacheAssumption
    <2>5. CASE pc'[r] # "trip"
      <3>1. Tripping' = Tripping
        BY <1>1, <2>5 DEF Tripping
      <3>2. QED
        BY <1>1, <2>3, <2>5, <3>1, CacheAssumption
    <2>6. QED
      BY <2>4, <2>5
  <1>8. QED
    BY <1>3, <1>6, <1>7 DEF CostInv

\* record_failure: the latch is set.
LEMMA TripKeeps ==
  ASSUME IInv, TypeOK', NEW r \in Requests, Trip(r)
  PROVE  TripAccounted' /\ CostInv'
  <1> USE DEF IInv, TypeOK
  <1>1. /\ pc[r] = "trip" /\ failures' = failures /\ latch' = "open"
        /\ pc' = [pc EXCEPT ![r] = pc'[r]] /\ pc'[r] \in {"load", "idle"}
    BY DEF Trip, Fallback, Goto, Return, At
  <1>2. Settled' = Settled
    BY <1>1 DEF Settled
  <1>3. QED
    BY <1>1, <1>2 DEF TripAccounted, CostInv

\* Every step keeps the invariant.
LEMMA NextIInv == IInv /\ [Next]_vars => IInv'
  <1> SUFFICES ASSUME IInv, [Next]_vars PROVE IInv'
    OBVIOUS
  <1>1. TypeOK /\ TypeOK' /\ TripAccounted /\ CostInv
    BY TypeStep DEF IInv
  <1> USE DEF TypeOK
  <1>2. CASE UNCHANGED vars
    <2>1. Quiet
      BY <1>2 DEF vars, breakerVars, Quiet, LockFree
    <2>2. QED
      BY <1>1, <2>1, QuietKeeps DEF IInv
  <1>3. CASE Write \/ Expire \/ Elapse
    <2>1. Quiet
      BY <1>1, <1>3 DEF Write, Expire, Elapse, breakerVars, Quiet, LockFree
    <2>2. QED
      BY <1>1, <2>1, QuietKeeps DEF IInv
  <1>4. ASSUME NEW r \in Requests,
               GetOrLoad(r) \/ Invalidate(r) \/ Load(r) \/ LoadFails(r) \/ Call(r) \/ CallFails(r)
        PROVE  IInv'
    <2>1. /\ UNCHANGED breakerVars
          /\ pc' = [pc EXCEPT ![r] = pc'[r]]
          /\ \/ pc[r] \in {"idle", "load"} /\ pc'[r] \in {"check", "idle"}
             \/ pc[r] = "call" /\ pc'[r] \in {"ok", "failed"}
      BY <1>1, <1>4 DEF GetOrLoad, Invalidate, Load, LoadFails, Call, CallFails, Return, At
    <2>2. Quiet
      BY <1>1, <2>1 DEF breakerVars, Quiet, LockFree
    <2>3. QED
      BY <1>1, <2>2, QuietKeeps DEF IInv
  <1>5. ASSUME NEW r \in Requests, HalfOpen(r) \/ RecordSuccess(r)
        PROVE  IInv'
    <2>1. failures' = 0
      BY <1>5 DEF HalfOpen, RecordSuccess
    <2>2. QED
      BY <1>1, <2>1, ZeroKeeps DEF IInv
  <1>6. ASSUME NEW r \in Requests, IsOpen(r) \/ RecordFailure(r) \/ Trip(r)
        PROVE  IInv'
    BY <1>1, <1>6, IsOpenKeeps, RecordFailureKeeps, TripKeeps DEF IInv
  <1>7. QED
    BY <1>2, <1>3, <1>4, <1>5, <1>6 DEF Next, Step

\* Type correctness of breaker, client and get_or_load.
THEOREM CacheTypeCorrect == Spec => []TypeOK
  <1>1. IInv => TypeOK
    BY DEF IInv
  <1>2. QED
    BY <1>1, InitIInv, NextIInv, PTL DEF Spec

\* No count at the threshold behind a closed latch, for any number of requests
\* between is_open, record_success and record_failure.
THEOREM TripIsAccounted == Spec => []TripAccounted
  <1>1. IInv => TripAccounted
    BY DEF IInv
  <1>2. QED
    BY <1>1, InitIInv, NextIInv, PTL DEF Spec

\* The cost of an outage is bounded by the threshold and the requests in flight,
\* for any threshold and any finite set of requests.
THEOREM OutageCostBounded == Spec => []OutageCost
  <1>1. IInv => OutageCost
    <2> SUFFICES ASSUME IInv PROVE OutageCost
      OBVIOUS
    <2>1. Settled \in SUBSET Requests /\ Requests \in SUBSET Requests
      BY DEF Settled
    <2>2. /\ Cardinality(Settled) \in Nat /\ Cardinality(Requests) \in Nat
          /\ Cardinality(Settled) <= Cardinality(Requests)
      BY <2>1, Counting
    <2>3. QED
      BY <2>2, CacheAssumption DEF IInv, TypeOK, CostInv, OutageCost
  <1>2. QED
    BY <1>1, InitIInv, NextIInv, PTL DEF Spec
=============================================================================
