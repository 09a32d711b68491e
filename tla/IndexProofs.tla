----------------------------- MODULE IndexProofs -----------------------------
(***************************************************************************)
(* The two components that build on the indexed prefix of the chain: the   *)
(* address registry, for any addresses, batch sizes, blocks and faults,    *)
(* and the paged block list, for any clients, limits, walks and heights.   *)
(***************************************************************************)
EXTENDS BlockList, AddressRegistry, FiniteSetTheorems, WellFoundedInduction, TLAPS

-----------------------------------------------------------------------------
(***************************************************************************)
(* The address registry.                                                   *)
(***************************************************************************)

\* What holds of a row on every database, one from before migration 0005 too:
\* its blocks are sightings, and no block indexed since then is missed.
RegistrySound ==
  \A a \in Addrs :
    /\ first[a] # NoRow => /\ first[a] \in Sightings(a, 0, top) /\ last[a] \in Sightings(a, 0, top)
                           /\ first[a] <= last[a]
    /\ \A h \in Sightings(a, OldBlocks, top) :
         first[a] # NoRow /\ first[a] <= h /\ h - BatchSize < last[a]

\* The seed's snapshot is of the past.
SnapshotInv == snapshot <= top

\* The detector works on rows.
CandidatesInv == \A a \in cand : first[a] # NoRow

RegistryInv == RegistryTypeOK /\ RegistrySound /\ SnapshotInv /\ CandidatesInv

\* The earliest sighting of a batch, and of a snapshot.
LEMMA MinIs ==
  ASSUME NEW S \in SUBSET Nat, S # {}
  PROVE  Min(S) \in S /\ \A y \in S : Min(S) <= y
  <1> DEFINE R == OpToRel(<, Nat)
  <1>1. \E x \in S : \A y \in S : ~ (<<y, x>> \in R)
    <2>1. IsWellFoundedOn(R, Nat)
      BY NatLessThanWellFounded
    <2> HIDE DEF R
    <2>2. QED
      BY <2>1, WFMin
  <1>2. PICK x \in S : \A y \in S : ~ (<<y, x>> \in R)
    BY <1>1
  <1>3. R = {ss \in Nat \X Nat : ss[1] < ss[2]}
    BY DEF OpToRel
  <1> HIDE DEF R
  <1>4. ASSUME NEW y \in S PROVE x <= y
    <2>1. <<y, x>> \in R <=> y < x
      BY <1>3
    <2>2. QED
      BY <1>2, <2>1
  <1>5. QED
    BY <1>4 DEF Min

\* A bounded set has a latest sighting: the one that leaves least to the bound.
LEMMA MaxIs ==
  ASSUME NEW n \in Nat, NEW S \in SUBSET (0..n), S # {}
  PROVE  Max(S) \in S /\ \A y \in S : y <= Max(S)
  <1> DEFINE T == {t \in 0..n : n - t \in S}
             m == n - Min(T)
  <1>1. \A y \in S : y \in 0..n /\ n - y \in T /\ n - (n - y) = y
    OBVIOUS
  <1>2. T \in SUBSET Nat /\ \A t \in T : t \in 0..n /\ n - t \in S
    OBVIOUS
  <1> HIDE DEF T
  <1>9. T # {}
    BY <1>1
  <1>3. Min(T) \in T /\ \A t \in T : Min(T) <= t
    BY <1>2, <1>9, MinIs
  <1>4. m \in S /\ m \in 0..n
    BY <1>2, <1>3
  <1>5. ASSUME NEW y \in S PROVE m >= y
    <2>1. Min(T) <= n - y /\ Min(T) \in 0..n /\ y \in 0..n
      BY <1>1, <1>2, <1>3
    <2>2. QED
      BY <2>1
  <1> HIDE DEF m
  <1>6. \E x \in S : \A y \in S : x >= y
    BY <1>4, <1>5
  <1>7. Max(S) \in S /\ \A y \in S : Max(S) >= y
    BY <1>6 DEF Max
  <1>8. QED
    BY <1>7

\* What a sighting is.
LEMMA SightingIs ==
  ASSUME NEW a \in Addrs, NEW lo \in Nat, NEW hi \in Blocks \cup {-1}
  PROVE  /\ Sightings(a, lo, hi) \in SUBSET Nat /\ Sightings(a, lo, hi) \in SUBSET Blocks
         /\ \A h \in Blocks : h \in Sightings(a, lo, hi) <=> lo <= h /\ h <= hi /\ a \in seenIn[h]
  BY RegistryAssumption DEF Sightings, Blocks

\* An empty table satisfies the invariant, whatever was indexed before.
LEMMA RegistryInitInv == RegistryInit => RegistryInv
  <1> SUFFICES ASSUME RegistryInit PROVE RegistryInv
    OBVIOUS
  <1> USE RegistryAssumption DEF RegistryInit, Blocks, NoRow
  <1>1. Cardinality({}) = 0
    BY FS_EmptySet
  <1>2. RegistryTypeOK
    BY <1>1 DEF RegistryTypeOK
  <1>3. \A a \in Addrs : first[a] = NoRow /\ Sightings(a, OldBlocks, top) = {}
    BY DEF Sightings
  <1>4. RegistrySound /\ SnapshotInv /\ CandidatesInv
    BY <1>3 DEF RegistrySound, SnapshotInv, CandidatesInv
  <1>5. QED
    BY <1>2, <1>4 DEF RegistryInv

\* upsert_batch: a batch reaches from the indexed prefix on, so an address
\* without a row has all its new sightings in it, and the earliest is first.
LEMMA CommitKeepsInv ==
  ASSUME RegistryInv, NEW lo \in Blocks, NEW hi \in Blocks, lo <= hi, Commit(lo, hi)
  PROVE  RegistryInv'
  <1> DEFINE S(a) == Sightings(a, lo, hi)
             new(a) == Min(S(a))
  <1>1. /\ lo <= top + 1 /\ hi - lo < BatchSize /\ top' = Larger(top, hi)
        /\ first' = [a \in Addrs |-> IF S(a) # {} /\ first[a] = NoRow THEN new(a) ELSE first[a]]
        /\ last' = [a \in Addrs |-> IF S(a) # {} THEN Larger(last[a], new(a)) ELSE last[a]]
        /\ UNCHANGED <<seenIn, code, spc, snapshot, dpc, cand, faults>>
    BY DEF Commit, InsertTransactions, TxAddress, seedVars, detVars
  <1>2. /\ LastBlock \in Nat /\ OldBlocks \in Nat /\ BatchSize \in Nat \ {0} /\ top \in Blocks \cup {-1}
        /\ Blocks = 0..LastBlock /\ NoRow = -1
    BY RegistryAssumption DEF RegistryInv, RegistryTypeOK, Blocks, NoRow
  <1>3. /\ top' \in Blocks /\ top <= top' /\ hi <= top' /\ (top' = top \/ top' = hi)
    BY <1>1, <1>2 DEF Larger
  <1>4. ASSUME NEW a \in Addrs
        PROVE  /\ S(a) \in SUBSET Nat
               /\ \A h \in Blocks : h \in S(a) <=> lo <= h /\ h <= hi /\ a \in seenIn[h]
               /\ S(a) # {} => new(a) \in S(a) /\ new(a) \in Blocks /\ \A h \in S(a) : new(a) <= h
    <2>1. /\ S(a) \in SUBSET Nat /\ S(a) \in SUBSET Blocks
          /\ \A h \in Blocks : h \in S(a) <=> lo <= h /\ h <= hi /\ a \in seenIn[h]
      BY <1>2, SightingIs
    <2> HIDE DEF S
    <2>2. S(a) # {} => new(a) \in S(a) /\ \A h \in S(a) : new(a) <= h
      BY <2>1, MinIs
    <2>3. QED
      BY <2>1, <2>2
  <1> HIDE DEF S, new
  <1>5. ASSUME NEW a \in Addrs
        PROVE  /\ first[a] \in Blocks \cup {-1} /\ last[a] \in Blocks \cup {-1}
               /\ first'[a] = IF S(a) # {} /\ first[a] = -1 THEN new(a) ELSE first[a]
               /\ last'[a] = IF S(a) # {} THEN Larger(last[a], new(a)) ELSE last[a]
               /\ first[a] = -1 => last[a] = -1 /\ code[a] = "none"
               /\ first[a] # -1 => /\ first[a] <= top /\ a \in seenIn[first[a]] /\ first[a] \in Blocks
                                   /\ last[a] <= top /\ a \in seenIn[last[a]] /\ last[a] \in Blocks
                                   /\ first[a] <= last[a]
               /\ \A h \in Blocks : OldBlocks <= h /\ h <= top /\ a \in seenIn[h] =>
                    first[a] # -1 /\ first[a] <= h /\ h - BatchSize < last[a]
    <2>1. /\ first[a] \in Blocks \cup {-1} /\ last[a] \in Blocks \cup {-1}
          /\ first[a] = -1 => last[a] = -1 /\ code[a] = "none"
      BY <1>2 DEF RegistryInv, RegistryTypeOK
    <2>2. /\ \A h \in Blocks : h \in Sightings(a, 0, top) <=> h <= top /\ a \in seenIn[h]
          /\ Sightings(a, 0, top) \in SUBSET Blocks
      BY <1>2, SightingIs
    <2>3. \A h \in Blocks : h \in Sightings(a, OldBlocks, top) <=> OldBlocks <= h /\ h <= top /\ a \in seenIn[h]
      BY <1>2, SightingIs
    <2>4. first[a] # -1 => /\ first[a] \in Sightings(a, 0, top) /\ last[a] \in Sightings(a, 0, top)
                           /\ first[a] <= last[a]
      BY <1>2 DEF RegistryInv, RegistrySound
    <2>5. \A h \in Sightings(a, OldBlocks, top) :
            first[a] # -1 /\ first[a] <= h /\ h - BatchSize < last[a]
      BY <1>2 DEF RegistryInv, RegistrySound
    <2>6. QED
      BY <1>1, <1>2, <2>1, <2>2, <2>3, <2>4, <2>5
  <1>6. RegistryTypeOK'
    <2>1. \A a \in Addrs : /\ first'[a] \in Blocks \cup {-1} /\ last'[a] \in Blocks \cup {-1}
                           /\ first'[a] = -1 => last'[a] = -1 /\ code'[a] = "none"
      BY <1>1, <1>2, <1>4, <1>5 DEF Larger
    <2>2. first' \in [Addrs -> Blocks \cup {NoRow}] /\ last' \in [Addrs -> Blocks \cup {NoRow}]
      BY <1>1, <1>2, <2>1
    <2>3. QED
      BY <1>1, <1>2, <1>3, <2>1, <2>2 DEF RegistryInv, RegistryTypeOK
  <1>7. RegistrySound'
    <2> SUFFICES ASSUME NEW a \in Addrs
                 PROVE  /\ first'[a] # -1 => /\ first'[a] \in Sightings(a, 0, top)'
                                             /\ last'[a] \in Sightings(a, 0, top)'
                                             /\ first'[a] <= last'[a]
                        /\ \A h \in Sightings(a, OldBlocks, top)' :
                             first'[a] # -1 /\ first'[a] <= h /\ h - BatchSize < last'[a]
      BY <1>2 DEF RegistrySound
    <2>1. \A h \in Blocks : h \in Sightings(a, 0, top)' <=> h <= top' /\ a \in seenIn[h]
      BY <1>1, <1>2, <1>3 DEF Sightings
    <2>2. \A h \in Sightings(a, OldBlocks, top)' :
            h \in Blocks /\ OldBlocks <= h /\ h <= top' /\ a \in seenIn[h]
      BY <1>1, <1>2, <1>3 DEF Sightings
    <2>3. \A h \in S(a) : h \in Blocks /\ h <= hi /\ lo <= h /\ a \in seenIn[h]
      BY <1>2, <1>4 DEF S, Sightings
    <2>4. first'[a] # -1 => /\ first'[a] \in Blocks /\ first'[a] <= top' /\ a \in seenIn[first'[a]]
                            /\ last'[a] \in Blocks /\ last'[a] <= top' /\ a \in seenIn[last'[a]]
                            /\ first'[a] <= last'[a]
      BY <1>2, <1>3, <1>4, <1>5, <2>3 DEF Larger
    <2>5. ASSUME NEW h \in Blocks, OldBlocks <= h, h <= top', a \in seenIn[h]
          PROVE  first'[a] # -1 /\ first'[a] <= h /\ h - BatchSize < last'[a]
      <3>1. CASE h <= top
        BY <1>2, <1>4, <1>5, <2>5, <3>1 DEF Larger
      <3>2. CASE h > top
        <4>1. h \in S(a) /\ new(a) <= h /\ lo <= new(a) /\ new(a) \in Blocks
          BY <1>1, <1>2, <1>3, <1>4, <2>3, <2>5, <3>2
        <4>2. first'[a] <= h /\ first'[a] # -1
          BY <1>2, <1>5, <3>2, <4>1
        <4>3. h - BatchSize < last'[a]
          BY <1>1, <1>2, <1>3, <1>5, <2>5, <3>2, <4>1 DEF Larger
        <4>4. QED
          BY <4>2, <4>3
      <3>3. QED
        BY <1>2, <3>1, <3>2
    <2>6. QED
      BY <2>1, <2>2, <2>4, <2>5
  <1>8. SnapshotInv'
    BY <1>1, <1>2, <1>3 DEF RegistryInv, SnapshotInv, RegistryTypeOK
  <1>9. CandidatesInv'
    <2>1. \A a \in Addrs : first[a] # -1 => first'[a] # -1
      BY <1>5
    <2>2. QED
      BY <1>1, <1>2, <2>1 DEF RegistryInv, RegistryTypeOK, CandidatesInv
  <1>10. QED
    BY <1>6, <1>7, <1>8, <1>9 DEF RegistryInv

\* What the invariant says of one row, without the sets.
LEMMA RowIs ==
  ASSUME RegistryInv, NEW a \in Addrs
  PROVE  /\ first[a] \in Blocks \cup {-1} /\ last[a] \in Blocks \cup {-1}
         /\ first[a] = -1 => last[a] = -1 /\ code[a] = "none"
         /\ first[a] # -1 => /\ first[a] \in Sightings(a, 0, top) /\ last[a] \in Sightings(a, 0, top)
                             /\ first[a] <= last[a]
         /\ \A h \in Sightings(a, OldBlocks, top) :
              first[a] # -1 /\ first[a] <= h /\ h - BatchSize < last[a]
  BY DEF RegistryInv, RegistryTypeOK, RegistrySound, NoRow

\* A step that writes no row and no block keeps what is known of them.
LEMMA RowsUntouched ==
  ASSUME RegistryInv, RegistryTypeOK', UNCHANGED <<seenIn, top, first, last>>,
         snapshot' <= top, \A a \in cand' : first[a] # NoRow
  PROVE  RegistryInv'
  <1>1. RegistrySound'
    BY DEF RegistryInv, RegistrySound, Sightings
  <1>2. QED
    BY <1>1 DEF RegistryInv, SnapshotInv, CandidatesInv

\* A fault is counted within its bound.
LEMMA FaultCounted ==
  ASSUME RegistryInv, Fault
  PROVE  faults' \in 0..MaxFaults
  BY RegistryAssumption DEF RegistryInv, RegistryTypeOK, Fault

\* count and SELECT of the seed task, and its errors, write no row.
LEMMA SeedReadKeepsInv ==
  ASSUME RegistryInv, SeedCount \/ SeedSelect \/ SeedFails
  PROVE  RegistryInv'
  <1> USE DEF rowVars, detVars
  <1>1. \A a \in cand : first[a] # NoRow
    BY DEF RegistryInv, CandidatesInv
  <1>2. CASE SeedCount
    <2>1. RegistryTypeOK' /\ snapshot' <= top
      BY <1>2 DEF SeedCount, RegistryInv, RegistryTypeOK, SnapshotInv
    <2>2. QED
      BY <1>1, <1>2, <2>1, RowsUntouched DEF SeedCount
  <1>3. CASE SeedSelect
    <2>1. RegistryTypeOK' /\ snapshot' <= top
      BY <1>3, RegistryAssumption DEF SeedSelect, RegistryInv, RegistryTypeOK, Blocks
    <2>2. QED
      BY <1>1, <1>3, <2>1, RowsUntouched DEF SeedSelect
  <1>4. CASE SeedFails
    <2>1. RegistryTypeOK' /\ snapshot' <= top
      BY <1>4, FaultCounted DEF SeedFails, RegistryInv, RegistryTypeOK, SnapshotInv
    <2>2. QED
      BY <1>1, <1>4, <2>1, RowsUntouched DEF SeedFails
  <1>5. QED
    BY <1>2, <1>3, <1>4

\* The seed's INSERT: what it read is indexed by now, and an address still
\* without a row has no sighting since the table exists.
LEMMA SeedInsertKeepsInv ==
  ASSUME RegistryInv, SeedInsert
  PROVE  RegistryInv'
  <1> DEFINE S(a) == Sightings(a, 0, snapshot)
             lo(a) == Min(S(a))
             hi(a) == Max(S(a))
  <1>1. /\ first' = [a \in Addrs |-> IF first[a] = NoRow /\ S(a) # {} THEN lo(a) ELSE first[a]]
        /\ last' = [a \in Addrs |-> IF first[a] = NoRow /\ S(a) # {} THEN hi(a) ELSE last[a]]
        /\ spc' = "done" /\ UNCHANGED <<seenIn, top, code, snapshot, dpc, cand, faults>>
    BY DEF SeedInsert, detVars
  <1>2. /\ LastBlock \in Nat /\ OldBlocks \in Nat /\ top \in Blocks \cup {-1}
        /\ snapshot \in Blocks \cup {-1} /\ snapshot <= top
        /\ Blocks = 0..LastBlock /\ NoRow = -1
    BY RegistryAssumption DEF RegistryInv, RegistryTypeOK, SnapshotInv, Blocks, NoRow
  <1>3. ASSUME NEW a \in Addrs, S(a) # {}
        PROVE  /\ lo(a) \in Blocks /\ hi(a) \in Blocks /\ lo(a) <= hi(a)
               /\ lo(a) \in Sightings(a, 0, top) /\ hi(a) \in Sightings(a, 0, top)
    <2>1. S(a) \in SUBSET Nat /\ S(a) \in SUBSET (0..LastBlock) /\ S(a) \subseteq Sightings(a, 0, top)
      BY <1>2 DEF Sightings
    <2> HIDE DEF S
    <2>2. lo(a) \in S(a) /\ \A y \in S(a) : lo(a) <= y
      BY <1>3, <2>1, MinIs
    <2>3. hi(a) \in S(a)
      BY <1>2, <1>3, <2>1, MaxIs
    <2>4. QED
      BY <1>2, <2>1, <2>2, <2>3
  <1> HIDE DEF S, lo, hi
  <1>4. ASSUME NEW a \in Addrs
        PROVE  /\ first'[a] \in Blocks \cup {-1} /\ last'[a] \in Blocks \cup {-1}
               /\ first'[a] = -1 => last'[a] = -1 /\ code'[a] = "none"
               /\ first'[a] # -1 => /\ first'[a] \in Sightings(a, 0, top)
                                    /\ last'[a] \in Sightings(a, 0, top)
                                    /\ first'[a] <= last'[a]
               /\ \A h \in Sightings(a, OldBlocks, top) :
                    first'[a] # -1 /\ first'[a] <= h /\ h - BatchSize < last'[a]
    <2>1. /\ first'[a] = IF first[a] = -1 /\ S(a) # {} THEN lo(a) ELSE first[a]
          /\ last'[a] = IF first[a] = -1 /\ S(a) # {} THEN hi(a) ELSE last[a]
          /\ code' = code
      BY <1>1, <1>2
    <2>2. CASE first[a] = -1 /\ S(a) # {}
      <3>1. first'[a] = lo(a) /\ last'[a] = hi(a) /\ Sightings(a, OldBlocks, top) = {} /\ lo(a) # -1
        BY <1>2, <1>3, <2>1, <2>2, RowIs
      <3>2. QED
        BY <1>3, <2>2, <3>1
    <2>3. CASE ~ (first[a] = -1 /\ S(a) # {})
      <3>1. first'[a] = first[a] /\ last'[a] = last[a]
        BY <2>1, <2>3
      <3>2. QED
        BY <2>1, <3>1, RowIs
    <2>4. QED
      BY <2>2, <2>3
  <1>5. RegistryTypeOK'
    <2>1. first' \in [Addrs -> Blocks \cup {NoRow}] /\ last' \in [Addrs -> Blocks \cup {NoRow}]
      BY <1>1, <1>2, <1>4
    <2>2. QED
      BY <1>1, <1>2, <1>4, <2>1 DEF RegistryInv, RegistryTypeOK
  <1>6. RegistrySound'
    <2>1. seenIn' = seenIn /\ top' = top
      BY <1>1
    <2>2. QED
      BY <1>2, <1>4, <2>1 DEF RegistrySound, Sightings
  <1>7. CandidatesInv'
    <2>1. \A a \in Addrs : first[a] # -1 => first'[a] = first[a]
      BY <1>1, <1>2
    <2>2. QED
      BY <1>1, <1>2, <2>1 DEF RegistryInv, RegistryTypeOK, CandidatesInv
  <1>8. QED
    BY <1>1, <1>2, <1>5, <1>6, <1>7 DEF RegistryInv, SnapshotInv

\* A sweep takes no more than its limit.
LEMMA SweepKeepsInv ==
  ASSUME RegistryInv, Sweep
  PROVE  RegistryInv'
  <1>1. PICK batch \in SUBSET Unclassified :
          /\ Cardinality(batch) = Min({DetectBatch, Cardinality(Unclassified)})
          /\ cand' = batch
    BY DEF Sweep
  <1>2. Cardinality(Unclassified) \in Nat
    BY RegistryAssumption, FS_Subset, FS_CardinalityType DEF Unclassified
  <1>3. Cardinality(batch) <= DetectBatch
    <2> DEFINE S == {DetectBatch, Cardinality(Unclassified)}
    <2>1. S \in SUBSET Nat /\ S # {} /\ DetectBatch \in S
      BY <1>2, RegistryAssumption
    <2> HIDE DEF S
    <2>2. Min(S) <= DetectBatch
      BY <2>1, MinIs
    <2>3. QED
      BY <1>1, <2>2 DEF S
  <1>4. batch \subseteq Addrs
    BY DEF Unclassified
  <1>5. RegistryTypeOK' /\ snapshot' <= top
    BY <1>1, <1>3, <1>4 DEF Sweep, RegistryInv, RegistryTypeOK, SnapshotInv, rowVars, seedVars
  <1>6. \A a \in cand' : first[a] # NoRow
    BY <1>1 DEF Unclassified
  <1>7. QED
    BY <1>5, <1>6, RowsUntouched DEF Sweep, rowVars

\* What is left of a batch is no larger.
LEMMA DropKeepsBatch ==
  ASSUME RegistryInv, NEW a \in Addrs, Drop(a)
  PROVE  /\ cand' \subseteq Addrs /\ Cardinality(cand') <= DetectBatch /\ dpc' \in {"tick", "probe", "dead"}
  <1>1. cand' \subseteq cand /\ cand \subseteq Addrs /\ Cardinality(cand) <= DetectBatch
    BY DEF Drop, RegistryInv, RegistryTypeOK
  <1>2. IsFiniteSet(cand)
    BY <1>1, RegistryAssumption, FS_Subset
  <1>3. Cardinality(cand') <= Cardinality(cand) /\ Cardinality(cand) \in Nat /\ Cardinality(cand') \in Nat
    BY <1>1, <1>2, FS_Subset, FS_CardinalityType
  <1>4. Cardinality(cand') <= DetectBatch
    BY <1>1, <1>3, RegistryAssumption
  <1>5. QED
    BY <1>1, <1>4 DEF Drop

\* The detector writes no first and no last block, and only codes of rows.
LEMMA DetectorKeepsInv ==
  ASSUME RegistryInv, NEW a \in Addrs, Classify(a) \/ ClassifyFails(a) \/ DetectorDies
  PROVE  RegistryInv'
  <1> USE DEF rowVars, seedVars
  <1>1. \A c \in cand' : first[c] # NoRow
    BY DEF RegistryInv, CandidatesInv, Classify, ClassifyFails, DetectorDies, Drop
  <1>2. CASE Classify(a)
    <2>1. first[a] # NoRow /\ code \in [Addrs -> {"none", "eoa", "contract"}]
      BY <1>2 DEF Classify, Drop, RegistryInv, RegistryTypeOK, CandidatesInv
    <2>2. /\ code' \in [Addrs -> {"none", "eoa", "contract"}]
          /\ \A c \in Addrs : c # a => code'[c] = code[c]
      BY <1>2, <2>1 DEF Classify, SetCode
    <2>3. \A c \in Addrs : first[c] = NoRow => code'[c] = "none"
      BY <2>1, <2>2 DEF RegistryInv, RegistryTypeOK
    <2>4. RegistryTypeOK' /\ snapshot' <= top
      BY <1>2, <2>2, <2>3, DropKeepsBatch DEF Classify, RegistryInv, RegistryTypeOK, SnapshotInv
    <2>5. QED
      BY <1>1, <1>2, <2>4, RowsUntouched DEF Classify
  <1>3. CASE ClassifyFails(a)
    <2>1. RegistryTypeOK' /\ snapshot' <= top
      BY <1>3, FaultCounted, DropKeepsBatch DEF ClassifyFails, RegistryInv, RegistryTypeOK, SnapshotInv
    <2>2. QED
      BY <1>1, <1>3, <2>1, RowsUntouched DEF ClassifyFails
  <1>4. CASE DetectorDies
    <2>1. RegistryTypeOK' /\ snapshot' <= top
      BY <1>4, FaultCounted DEF DetectorDies, RegistryInv, RegistryTypeOK, SnapshotInv
    <2>2. QED
      BY <1>1, <1>4, <2>1, RowsUntouched DEF DetectorDies
  <1>5. QED
    BY <1>2, <1>3, <1>4

\* A restart loses the snapshot and the batch, which are not stored.
LEMMA RestartKeepsInv ==
  ASSUME RegistryInv, Restart
  PROVE  RegistryInv'
  <1>1. Cardinality({}) = 0
    BY FS_EmptySet
  <1>2. RegistryTypeOK'
    BY <1>1, FaultCounted, RegistryAssumption DEF Restart, RegistryInv, RegistryTypeOK, rowVars
  <1>3. snapshot' <= top
    BY RegistryAssumption DEF Restart, RegistryInv, RegistryTypeOK, Blocks
  <1>4. QED
    BY <1>2, <1>3, RowsUntouched DEF Restart, rowVars

\* Every step of the registry keeps the invariant.
LEMMA RegistryNextInv == RegistryInv /\ [RegistryNext]_registryVars => RegistryInv'
  <1> SUFFICES ASSUME RegistryInv, [RegistryNext]_registryVars PROVE RegistryInv'
    OBVIOUS
  <1>1. ASSUME NEW lo \in Blocks, NEW hi \in Blocks, lo <= hi, Commit(lo, hi) PROVE RegistryInv'
    BY <1>1, CommitKeepsInv
  <1>2. CASE SeedCount \/ SeedSelect \/ SeedFails
    BY <1>2, SeedReadKeepsInv
  <1>3. CASE SeedInsert
    BY <1>3, SeedInsertKeepsInv
  <1>4. CASE Sweep
    BY <1>4, SweepKeepsInv
  <1>5. ASSUME NEW a \in Addrs, Classify(a) \/ ClassifyFails(a) PROVE RegistryInv'
    BY <1>5, DetectorKeepsInv
  <1>6. CASE DetectorDies
    <2>1. RegistryTypeOK' /\ snapshot' <= top
      BY <1>6, FaultCounted DEF DetectorDies, RegistryInv, RegistryTypeOK, SnapshotInv, rowVars, seedVars
    <2>2. QED
      BY <1>6, <2>1, RowsUntouched DEF DetectorDies, RegistryInv, CandidatesInv, rowVars
  <1>7. CASE Restart
    BY <1>7, RestartKeepsInv
  <1>8. CASE UNCHANGED registryVars
    <2>1. UNCHANGED <<seenIn, top, first, last, code, spc, snapshot, dpc, cand, faults>>
      BY <1>8 DEF registryVars, rowVars, seedVars, detVars
    <2>2. RegistryTypeOK' /\ snapshot' <= top
      BY <2>1 DEF RegistryInv, RegistryTypeOK, SnapshotInv
    <2>3. QED
      BY <2>1, <2>2, RowsUntouched DEF RegistryInv, CandidatesInv
  <1>9. QED
    BY <1>1, <1>2, <1>3, <1>4, <1>5, <1>6, <1>7, <1>8 DEF RegistryNext, Seed, Detector

\* The table's columns and the tasks' states stay in range; a row that does not
\* exist has no last block and no code hash.
THEOREM RegistryTypeCorrect == RegistrySpec => []RegistryTypeOK
  <1>1. RegistryInv => RegistryTypeOK
    BY DEF RegistryInv
  <1>2. QED
    BY <1>1, RegistryInitInv, RegistryNextInv, PTL DEF RegistrySpec

\* On every database, one filled before migration 0005 too, both blocks of a
\* row are indexed sightings of its address, and a sighting since then has a
\* row that starts no later and ends less than a batch before it, whatever the
\* loops, the seed, the detector and restarts do to the table.
THEOREM RegistryIsSound == RegistrySpec => []RegistrySound
  <1>1. RegistryInv => RegistrySound
    BY DEF RegistryInv
  <1>2. QED
    BY <1>1, RegistryInitInv, RegistryNextInv, PTL DEF RegistrySpec

\* With the table there from the first block, first_seen_block is the earliest
\* indexed sighting, and an address without one has no row.
THEOREM FirstSeenIsExact ==
  ASSUME OldBlocks = 0
  PROVE  RegistrySpec => []FirstSeenExact
  <1>1. RegistryInv => FirstSeenExact
    <2> SUFFICES ASSUME RegistryInv, NEW a \in Addrs
                 PROVE  first[a] = IF Sightings(a, 0, top) = {} THEN NoRow
                                   ELSE Min(Sightings(a, 0, top))
      BY DEF FirstSeenExact
    <2> DEFINE S == Sightings(a, 0, top)
    <2>1. /\ first[a] # -1 => first[a] \in S
          /\ \A h \in S : first[a] # -1 /\ first[a] <= h
      BY RowIs
    <2>2. S \in SUBSET Nat /\ \A h \in S : h \in Nat
      BY SightingIs DEF RegistryInv, RegistryTypeOK
    <2> HIDE DEF S
    <2>3. CASE S = {}
      BY <2>1, <2>3 DEF S, NoRow
    <2>4. CASE S # {}
      <3>1. Min(S) \in S /\ \A y \in S : Min(S) <= y
        BY <2>2, <2>4, MinIs
      <3>2. first[a] \in S /\ first[a] <= Min(S) /\ Min(S) <= first[a]
        BY <2>1, <3>1
      <3>3. first[a] \in Nat /\ Min(S) \in Nat
        BY <2>2, <3>1, <3>2
      <3>4. first[a] = Min(S)
        BY <3>2, <3>3
      <3>5. QED
        BY <2>4, <3>4 DEF S
    <2>5. QED
      BY <2>3, <2>4
  <1>2. QED
    BY <1>1, RegistryInitInv, RegistryNextInv, PTL DEF RegistrySpec

\* There last_seen_block is the latest indexed sighting or less than a batch
\* behind it.
THEOREM LastSeenIsRecent ==
  ASSUME OldBlocks = 0
  PROVE  RegistrySpec => []LastSeenWithinBatch
  <1>1. RegistryInv => LastSeenWithinBatch
    <2> SUFFICES ASSUME RegistryInv, NEW a \in Addrs, first[a] # NoRow
                 PROVE  last[a] \in (Max(Sightings(a, 0, top)) - BatchSize + 1)..Max(Sightings(a, 0, top))
      BY DEF LastSeenWithinBatch
    <2> DEFINE S == Sightings(a, 0, top)
    <2>1. last[a] \in S /\ \A h \in S : h - BatchSize < last[a]
      BY RowIs DEF NoRow
    <2>2. S \in SUBSET (0..LastBlock) /\ LastBlock \in Nat /\ BatchSize \in Nat
      BY SightingIs, RegistryAssumption DEF RegistryInv, RegistryTypeOK, Blocks
    <2> HIDE DEF S
    <2>3. Max(S) \in S /\ \A y \in S : y <= Max(S)
      BY <2>1, <2>2, MaxIs
    <2>4. last[a] \in (Max(S) - BatchSize + 1)..Max(S)
      <3>1. \A h \in S : h \in Nat
        BY <2>2
      <3>2. Max(S) \in Nat /\ last[a] \in Nat
        BY <2>1, <2>3, <3>1
      <3>3. last[a] <= Max(S) /\ Max(S) - BatchSize < last[a]
        BY <2>1, <2>3
      <3>4. QED
        BY <2>2, <3>2, <3>3
    <2>5. QED
      BY <2>4 DEF S
  <1>2. QED
    BY <1>1, RegistryInitInv, RegistryNextInv, PTL DEF RegistrySpec

-----------------------------------------------------------------------------
(***************************************************************************)
(* The paged block list.                                                   *)
(***************************************************************************)

Pages == [rows : Seq(Heights), next : Heights \cup {None}, ahead : BOOLEAN]

Listed(rows) == {rows[i] : i \in 1..Len(rows)}
Descending(rows) == \A i, j \in 1..Len(rows) : i < j => rows[i] > rows[j]

\* The height below which a page leaves blocks to be listed.
Lowest(q) == IF q.next = None THEN -1 ELSE q.next

Stretch(index, lo, hi) == {h \in index : lo < h /\ h <= hi}

\* What a page for bound b still shows, however long ago it was loaded, of an
\* index that reaches up to height u: the stretch from its newest row down and,
\* if its bound was within the index, from the bound down.
PageOK(q, b, index, u) ==
  /\ q \in Pages /\ Descending(q.rows)
  /\ q.rows = <<>> => q.next = None
  /\ q.rows # <<>> => /\ q.rows[1] <= u
                      /\ Listed(q.rows) = Stretch(index, Lowest(q), q.rows[1])
  /\ b # Tip => Lowest(q) <= b
  /\ b # Tip /\ ~q.ahead => b <= u /\ Listed(q.rows) = Stretch(index, Lowest(q), b)

\* What a walk that goes on below height f has listed.
WalkOK(rows, index, f) ==
  rows # <<>> => Descending(rows) /\ Listed(rows) = Stretch(index, f, rows[1])

\* Nothing is indexed above the cursor, and the index grows above it only.
PrefixInv == indexed \subseteq 0..cursor /\ cursor <= tip

CacheInv == \A k \in Keys : cache[k] # None => PageOK(cache[k], k[2], indexed, cursor)

ClientInv(c) ==
  /\ pc[c] # "idle" => Key(c) \in Keys
  /\ pc[c] \in {"store", "reply"} => PageOK(page[c], before[c], indexed, cursor)
  /\ pc[c] # "idle" /\ seen[c] # <<>> => before[c] \in Heights
  /\ seen[c] # <<>> => seen[c][1] <= cursor
  /\ ~tainted[c] => WalkOK(seen[c], indexed, Floor(c))

ListInv == TypeOK /\ PrefixInv /\ CacheInv /\ \A c \in Clients : ClientInv(c)

\* Counting from the top ranks the heights of a finite set 1, 2, ... without a
\* gap: the rank falls strictly as the height rises, and an injection into as
\* many ranks as there are heights reaches each of them.
LEMMA RanksAreDense ==
  ASSUME NEW R, IsFiniteSet(R), \A h \in R : h \in Int
  PROVE  LET rank(h) == Cardinality({k \in R : k >= h})
         IN  /\ Cardinality(R) \in Nat
             /\ \A h \in R : rank(h) \in 1..Cardinality(R)
             /\ \A g, h \in R : g < h => rank(h) < rank(g)
             /\ \A i \in 1..Cardinality(R) : \E h \in R : rank(h) = i
  <1> DEFINE up(h) == {k \in R : k >= h}
             rank(h) == Cardinality(up(h))
             n == Cardinality(R)
  <1>1. n \in Nat
    BY FS_CardinalityType
  <1>2. ASSUME NEW h \in R
        PROVE  up(h) \in SUBSET R /\ IsFiniteSet(up(h)) /\ rank(h) \in 1..n
    <2>1. up(h) \in SUBSET R /\ h \in up(h)
      OBVIOUS
    <2> HIDE DEF up
    <2>2. IsFiniteSet(up(h)) /\ rank(h) <= n
      BY <2>1, FS_Subset
    <2>3. rank(h) \in Nat /\ rank(h) # 0
      BY <2>1, <2>2, FS_CardinalityType, FS_EmptySet
    <2> HIDE DEF rank, n
    <2>4. QED
      BY <1>1, <2>1, <2>2, <2>3
  <1>3. ASSUME NEW g \in R, NEW h \in R, g < h
        PROVE  rank(h) < rank(g)
    <2>1. up(h) \in SUBSET up(g) /\ g \in up(g) /\ g \notin up(h)
      <3>1. g \in Int /\ h \in Int /\ g < h
        BY <1>3
      <3>2. ASSUME NEW k \in R PROVE k >= h => k >= g
        <4>1. k \in Int
          OBVIOUS
        <4>2. QED
          BY <3>1, <4>1
      <3>3. g >= g /\ ~ (g >= h)
        BY <3>1
      <3>4. QED
        BY <3>2, <3>3
    <2>2. IsFiniteSet(up(g)) /\ rank(g) \in 1..n /\ rank(h) \in 1..n
      BY <1>2
    <2> HIDE DEF up
    <2>3. rank(h) <= rank(g) /\ rank(h) # rank(g)
      BY <2>1, <2>2, FS_Subset
    <2> HIDE DEF rank, n
    <2>4. QED
      BY <1>1, <2>2, <2>3
  <1> DEFINE f == [h \in R |-> rank(h)]
  <1> HIDE DEF rank, n
  <1>4. f \in Injection(R, 1..n)
    <2>1. f \in [R -> 1..n]
      BY <1>2
    <2>2. ASSUME NEW g \in R, NEW h \in R, f[g] = f[h] PROVE g = h
      <3>1. rank(g) = rank(h) /\ rank(g) \in 1..n
        BY <1>2, <2>2
      <3>2. ~ (g < h) /\ ~ (h < g)
        BY <1>1, <1>3, <3>1
      <3>3. QED
        BY <3>2
    <2>3. QED
      BY <2>1, <2>2 DEF Injection, IsInjective
  <1>5. f \in Surjection(R, 1..n)
    <2>1. IsFiniteSet(1..n) /\ Cardinality(1..n) = n
      BY <1>1, FS_Interval
    <2> HIDE DEF f
    <2>2. QED
      BY <1>4, <2>1, FS_Injection DEF n
  <1>6. \A i \in 1..n : \E h \in R : rank(h) = i
    BY <1>5 DEF Surjection
  <1>7. QED
    BY <1>1, <1>2, <1>3, <1>6 DEF rank, n

\* list_before lists the newest heights up to its bound, newest first, none
\* left out in between; nothing is listed only if there is nothing.
LEMMA ListBeforeIs ==
  ASSUME IsFiniteSet(indexed), indexed \in SUBSET Heights, NEW b \in Bounds, NEW n \in Nat \ {0}
  PROVE  LET R == {h \in indexed : b = Tip \/ h <= b}
             rows == ListBefore(b, n)
         IN  /\ rows \in Seq(Heights) /\ Descending(rows)
             /\ \A i \in 1..Len(rows) : rows[i] \in R
             /\ \A h \in R, i \in 1..Len(rows) : h >= rows[i] => h \in Listed(rows)
             /\ R # {} => Len(rows) >= 1 /\ \A h \in R : h <= rows[1]
  <1> DEFINE R == {h \in indexed : b = Tip \/ h <= b}
             rank(h) == Cardinality({k \in R : k >= h})
             len == IF Cardinality(R) < n THEN Cardinality(R) ELSE n
             rows == ListBefore(b, n)
  <1>1. /\ R \in SUBSET indexed
        /\ \A h \in R : h \in Int /\ h \in Heights
    <2>1. \A h \in Heights : h \in Int
      BY ListAssumption DEF Heights
    <2>2. R \in SUBSET indexed
      OBVIOUS
    <2> HIDE DEF R
    <2>3. QED
      BY <2>1, <2>2
  <1>2. IsFiniteSet(R)
    BY <1>1, FS_Subset
  <1>3. rows = [i \in 1..len |-> CHOOSE h \in R : rank(h) = i]
    BY DEF ListBefore
  <1> HIDE DEF R, rows
  <1>4. /\ Cardinality(R) \in Nat
        /\ \A h \in R : rank(h) \in 1..Cardinality(R)
        /\ \A g, h \in R : g < h => rank(h) < rank(g)
        /\ \A i \in 1..Cardinality(R) : \E h \in R : rank(h) = i
    BY <1>1, <1>2, RanksAreDense
  <1>5. len \in Nat /\ len <= Cardinality(R) /\ (Cardinality(R) >= 1 => len >= 1)
    BY <1>4
  <1>6. R # {} => Cardinality(R) >= 1
    BY <1>2, <1>4, FS_EmptySet
  <1> HIDE DEF rank, len
  <1>7. ASSUME NEW i \in 1..len PROVE rows[i] \in R /\ rank(rows[i]) = i
    <2>1. \E h \in R : rank(h) = i
      BY <1>4, <1>5
    <2>2. QED
      BY <1>3, <2>1
  <1>8. rows \in Seq(Heights) /\ Len(rows) = len
    <2>1. rows \in [1..len -> Heights]
      BY <1>1, <1>3, <1>7
    <2>2. QED
      BY <1>5, <2>1
  <1>9. ASSUME NEW i \in 1..len, NEW j \in 1..len, i < j PROVE rows[i] > rows[j]
    <2>1. rows[i] \in R /\ rows[j] \in R /\ rank(rows[i]) = i /\ rank(rows[j]) = j
      BY <1>7
    <2>2. rows[i] \in Int /\ rows[j] \in Int /\ i \in Int /\ j \in Int
      BY <1>1, <1>5, <2>1
    <2>3. rows[i] # rows[j] /\ ~ (rows[i] < rows[j])
      BY <1>4, <1>9, <2>1, <2>2
    <2>4. QED
      BY <2>2, <2>3
  <1>10. ASSUME NEW h \in R, NEW i \in 1..len, h >= rows[i] PROVE h \in Listed(rows)
    <2>1. rows[i] \in R /\ rank(rows[i]) = i /\ rank(h) \in Nat /\ rank(h) >= 1
      BY <1>4, <1>7
    <2>2. h \in Int /\ rows[i] \in Int
      BY <1>1, <2>1
    <2>3. h = rows[i] \/ rank(h) < i
      BY <1>4, <1>10, <2>1, <2>2
    <2>4. CASE h = rows[i]
      BY <1>8, <2>4 DEF Listed
    <2>5. CASE rank(h) < i
      <3>1. rank(h) \in 1..len
        BY <1>5, <2>1, <2>5
      <3>2. rows[rank(h)] \in R /\ rank(rows[rank(h)]) = rank(h)
        BY <1>7, <3>1
      <3>3. rows[rank(h)] \in Int /\ ~ (rows[rank(h)] < h) /\ ~ (h < rows[rank(h)])
        BY <1>1, <1>4, <2>1, <3>2
      <3>4. rows[rank(h)] = h
        BY <2>2, <3>3
      <3>5. QED
        BY <1>8, <3>1, <3>4 DEF Listed
    <2>6. QED
      BY <2>3, <2>4, <2>5
  <1>11. ASSUME NEW h \in R, len >= 1 PROVE h <= rows[1]
    <2>1. rows[1] \in R /\ rank(rows[1]) = 1 /\ rank(h) >= 1 /\ rank(h) \in Nat
      BY <1>4, <1>5, <1>7, <1>11
    <2>2. h \in Int /\ rows[1] \in Int
      BY <1>1, <2>1
    <2>3. ~ (rows[1] < h)
      BY <1>4, <2>1
    <2>4. QED
      BY <2>2, <2>3
  <1>12. Descending(rows)
    BY <1>8, <1>9 DEF Descending
  <1>13. QED
    BY <1>5, <1>6, <1>7, <1>8, <1>10, <1>11, <1>12 DEF R, rows

\* Rows are natural numbers.
LEMMA RowsAreHeights ==
  ASSUME NEW rows \in Seq(Heights)
  PROVE  /\ Len(rows) \in Nat /\ (rows # <<>> => Len(rows) >= 1)
         /\ \A i \in 1..Len(rows) : rows[i] \in Heights /\ rows[i] \in Nat
  <1>1. \A h \in Heights : h \in Nat
    BY ListAssumption DEF Heights
  <1>2. \A i \in 1..Len(rows) : rows[i] \in Heights
    OBVIOUS
  <1>3. QED
    BY <1>1, <1>2

\* The loader's response is what PageOK says at the time of the query.
LEMMA ResponseIsOK ==
  ASSUME TypeOK, PrefixInv, NEW b \in Bounds, NEW n \in Nat \ {0}
  PROVE  PageOK(Response(b, n), b, indexed, cursor)
  <1> DEFINE R == {h \in indexed : b = Tip \/ h <= b}
             rows == ListBefore(b, n)
             q == Response(b, n)
             l == rows[Len(rows)]
  <1>1. /\ indexed \in SUBSET Heights /\ cursor \in -1..MaxHeight /\ MaxHeight \in Nat
        /\ Heights = 0..MaxHeight /\ None \notin Heights /\ Tip \notin Heights
        /\ \A h \in indexed : h \in Nat /\ h <= cursor
    BY ListAssumption DEF TypeOK, PrefixInv, Heights
  <1>2. IsFiniteSet(indexed)
    <2>1. IsFiniteSet(0..MaxHeight)
      BY <1>1, FS_Interval
    <2>2. QED
      BY <1>1, <2>1, FS_Subset
  <1>3. /\ rows \in Seq(Heights) /\ Descending(rows)
        /\ \A i \in 1..Len(rows) : rows[i] \in R
        /\ \A h \in R, i \in 1..Len(rows) : h >= rows[i] => h \in Listed(rows)
        /\ R # {} => Len(rows) >= 1 /\ \A h \in R : h <= rows[1]
    BY <1>1, <1>2, ListBeforeIs
  <1>4. q = [rows |-> rows, next |-> NextCursor(rows), ahead |-> b # Tip /\ b > cursor]
    BY DEF Response
  <1> HIDE DEF rows, q
  <1>5. /\ Len(rows) \in Nat /\ (rows # <<>> => Len(rows) >= 1)
        /\ \A i \in 1..Len(rows) : rows[i] \in Heights /\ rows[i] \in Nat
    BY <1>3, RowsAreHeights
  <1>6. /\ rows = <<>> => NextCursor(rows) = None
        /\ rows # <<>> => /\ l \in Nat /\ l \in R
                          /\ NextCursor(rows) = IF l > 0 THEN l - 1 ELSE None
                          /\ \A i \in 1..Len(rows) : l <= rows[i]
    <2>1. CASE rows = <<>>
      BY <2>1 DEF NextCursor
    <2>2. CASE rows # <<>>
      <3>1. Len(rows) \in 1..Len(rows)
        BY <1>5, <2>2
      <3>2. l \in Nat /\ l \in R
        BY <1>3, <1>5, <3>1
      <3>3. NextCursor(rows) = IF l > 0 THEN l - 1 ELSE None
        BY <2>2 DEF NextCursor
      <3>4. ASSUME NEW i \in 1..Len(rows) PROVE l <= rows[i]
        <4>1. CASE i = Len(rows)
          BY <3>2, <4>1
        <4>2. CASE i < Len(rows)
          <5>1. rows[i] > l
            BY <1>3, <3>1, <4>2 DEF Descending
          <5>2. QED
            BY <1>5, <3>2, <5>1
        <4>3. QED
          BY <1>5, <4>1, <4>2
      <3>5. QED
        BY <2>2, <3>2, <3>3, <3>4
    <2>3. QED
      BY <2>1, <2>2
  <1>7. q.rows = rows /\ q.next = NextCursor(rows) /\ (q.ahead <=> b # Tip /\ b > cursor)
    BY <1>4
  <1>8. q \in Pages
    <2>1. NextCursor(rows) \in Heights \cup {None}
      <3>1. rows # <<>> => l \in Heights
        BY <1>5
      <3>2. QED
        BY <1>1, <1>6, <3>1
    <2>2. (b # Tip /\ b > cursor) \in BOOLEAN
      OBVIOUS
    <2>3. QED
      BY <1>3, <1>4, <2>1, <2>2 DEF Pages
  <1>9. Lowest(q) = IF rows = <<>> THEN -1 ELSE l - 1
    <2>1. \A h \in Nat : h > 0 => h - 1 # None
      BY ListAssumption
    <2>2. CASE rows = <<>>
      BY <1>6, <1>7, <2>2 DEF Lowest
    <2>3. CASE rows # <<>>
      BY <1>6, <1>7, <2>1, <2>3 DEF Lowest
    <2>4. QED
      BY <2>2, <2>3
  <1>10. \A h \in R : h \in indexed /\ h \in Nat /\ h <= cursor /\ (b # Tip => h <= b)
    BY <1>1
  <1>11. ASSUME rows # <<>>
         PROVE  rows[1] \in R /\ rows[1] \in Nat /\ \A h \in R : h <= rows[1]
    <2>1. 1 \in 1..Len(rows)
      BY <1>5, <1>11
    <2>2. QED
      BY <1>3, <1>5, <2>1
  <1>12. ASSUME rows # <<>>
         PROVE  Listed(rows) = {h \in R : l <= h}
    <2>1. Len(rows) \in 1..Len(rows)
      BY <1>5, <1>12
    <2>2. \A h \in R : l <= h => h \in Listed(rows)
      BY <1>3, <1>6, <1>10, <1>12, <2>1
    <2>3. \A h \in Listed(rows) : h \in R /\ l <= h
      BY <1>3, <1>6, <1>12 DEF Listed
    <2>4. QED
      BY <2>2, <2>3
  <1>13. ASSUME rows = <<>> PROVE R = {} /\ Listed(rows) = {}
    BY <1>3, <1>13 DEF Listed
  <1>14. b # Tip => b \in Nat
    BY <1>1 DEF Bounds
  <1>15. rows # <<>> => Listed(rows) = Stretch(indexed, l - 1, rows[1])
    <2> SUFFICES ASSUME rows # <<>> PROVE Listed(rows) = Stretch(indexed, l - 1, rows[1])
      OBVIOUS
    <2>1. \A h \in indexed : h \in R <=> b = Tip \/ h <= b
      OBVIOUS
    <2>2. /\ rows[1] \in R /\ rows[1] \in Nat /\ (\A h \in R : h <= rows[1])
          /\ l \in Nat /\ (b # Tip => rows[1] <= b)
      BY <1>6, <1>10, <1>11
    <2> HIDE DEF R, l
    <2>3. \A h \in indexed : l - 1 < h /\ h <= rows[1] <=> h \in R /\ l <= h
      BY <1>1, <1>14, <2>1, <2>2
    <2>4. QED
      BY <1>10, <1>12, <2>3 DEF Stretch
  <1>16. ASSUME b # Tip, rows # <<>> PROVE Listed(rows) = Stretch(indexed, l - 1, b)
    <2>1. \A h \in indexed : l - 1 < h /\ h <= b <=> h \in R /\ l <= h
      BY <1>1, <1>6, <1>14, <1>16
    <2>2. QED
      BY <1>10, <1>12, <1>16, <2>1 DEF Stretch
  <1>17. ASSUME b # Tip, rows = <<>> PROVE Listed(rows) = Stretch(indexed, -1, b)
    BY <1>1, <1>13, <1>17 DEF Stretch
  <1>18. b # Tip => Lowest(q) <= b
    BY <1>6, <1>9, <1>10, <1>14
  <1>19. b # Tip /\ ~ q.ahead => b <= cursor
    BY <1>1, <1>7, <1>14
  <1>20. rows # <<>> => rows[1] <= cursor
    BY <1>10, <1>11
  <1> HIDE DEF l, R
  <1>21. q.rows # <<>> => q.rows[1] <= cursor /\ Listed(q.rows) = Stretch(indexed, Lowest(q), q.rows[1])
    BY <1>7, <1>9, <1>15, <1>20
  <1>22. b # Tip => Listed(q.rows) = Stretch(indexed, Lowest(q), b)
    BY <1>7, <1>9, <1>16, <1>17
  <1>23. Descending(q.rows) /\ (q.rows = <<>> => q.next = None)
    BY <1>3, <1>6, <1>7
  <1> HIDE DEF q
  <1>24. PageOK(q, b, indexed, cursor)
    BY <1>8, <1>18, <1>19, <1>21, <1>22, <1>23, Zenon DEF PageOK
  <1>25. QED
    BY <1>24 DEF q

\* Heights indexed later are above everything an old page speaks of.
LEMMA StretchKept ==
  ASSUME NEW u \in Int, NEW index \in SUBSET Nat, NEW later \in SUBSET Nat, index \subseteq later,
         \A h \in later : h \notin index => h > u,
         NEW lo \in Int, NEW hi \in Int, hi <= u
  PROVE  Stretch(later, lo, hi) = Stretch(index, lo, hi)
  <1>1. \A h \in later : h <= hi => h \in index
    <2> TAKE h \in later
    <2>1. h \in Nat
      OBVIOUS
    <2>2. QED
      BY <2>1
  <1>2. QED
    BY <1>1 DEF Stretch

\* So a page stays right while the index grows.
LEMMA PageKept ==
  ASSUME NEW u \in Int, NEW v \in Int, u <= v,
         NEW index \in SUBSET Nat, NEW later \in SUBSET Nat, index \subseteq later,
         \A h \in later : h \notin index => h > u,
         NEW q, NEW b \in Bounds, PageOK(q, b, index, u)
  PROVE  PageOK(q, b, later, v)
  <1>1. q.rows \in Seq(Heights) /\ Lowest(q) \in Int /\ (b # Tip => b \in Int)
    BY ListAssumption DEF PageOK, Pages, Lowest, Heights, Bounds
  <1>2. q.rows # <<>> => q.rows[1] \in Int
    BY <1>1, RowsAreHeights
  <1>3. q.rows # <<>> => q.rows[1] <= u /\ Listed(q.rows) = Stretch(index, Lowest(q), q.rows[1])
    BY Zenon DEF PageOK
  <1>4. q.rows # <<>> => q.rows[1] <= v /\ Listed(q.rows) = Stretch(later, Lowest(q), q.rows[1])
    <2> SUFFICES ASSUME q.rows # <<>>
                 PROVE  q.rows[1] <= v /\ Listed(q.rows) = Stretch(later, Lowest(q), q.rows[1])
      OBVIOUS
    <2>1. q.rows[1] \in Int /\ q.rows[1] <= u
      BY <1>2, <1>3
    <2>2. Stretch(later, Lowest(q), q.rows[1]) = Stretch(index, Lowest(q), q.rows[1])
      BY <1>1, <2>1, StretchKept
    <2>3. QED
      BY <1>3, <2>1, <2>2
  <1>5. b # Tip /\ ~q.ahead => b <= u /\ Listed(q.rows) = Stretch(index, Lowest(q), b)
    BY Zenon DEF PageOK
  <1>6. b # Tip /\ b <= u => b <= v /\ Stretch(later, Lowest(q), b) = Stretch(index, Lowest(q), b)
    <2> SUFFICES ASSUME b # Tip, b <= u
                 PROVE  b <= v /\ Stretch(later, Lowest(q), b) = Stretch(index, Lowest(q), b)
      OBVIOUS
    <2>1. b \in Int /\ Lowest(q) \in Int
      BY <1>1
    <2>2. Stretch(later, Lowest(q), b) = Stretch(index, Lowest(q), b)
      BY <2>1, StretchKept
    <2>3. QED
      BY <2>1, <2>2
  <1>7. b # Tip /\ ~q.ahead => b <= v /\ Listed(q.rows) = Stretch(later, Lowest(q), b)
    BY <1>5, <1>6, Zenon
  <1>8. QED
    BY <1>4, <1>7, Zenon DEF PageOK

\* The first page that lists anything starts the walk at its newest row.
LEMMA WalkStarts ==
  ASSUME NEW q, NEW b, NEW index, NEW u, PageOK(q, b, index, u)
  PROVE  WalkOK(q.rows, index, Lowest(q))
  BY Zenon DEF PageOK, WalkOK

\* A page for the walk's cursor that was not cached ahead of the index
\* continues the stretch without a gap.
LEMMA WalkGoesOn ==
  ASSUME NEW index \in SUBSET Nat, NEW u \in Int, NEW s \in Seq(Heights), s # <<>>,
         NEW b \in Heights, WalkOK(s, index, b), NEW q, PageOK(q, b, index, u), ~q.ahead
  PROVE  WalkOK(s \o q.rows, index, Lowest(q))
  <1> DEFINE r == q.rows
             w == s \o r
  <1>1. b # Tip /\ b \in Nat /\ Lowest(q) \in Int
    BY ListAssumption DEF PageOK, Pages, Lowest, Heights
  <1>2. /\ r \in Seq(Heights) /\ Descending(r) /\ Lowest(q) <= b
        /\ Listed(r) = Stretch(index, Lowest(q), b)
    <2>1. q \in Pages
      BY Zenon DEF PageOK
    <2>2. r \in Seq(Heights)
      BY <2>1 DEF Pages
    <2>3. Descending(r) /\ Lowest(q) <= b /\ Listed(r) = Stretch(index, Lowest(q), b)
      BY <1>1, Zenon DEF PageOK
    <2>4. QED
      BY <2>2, <2>3
  <1>3. Descending(s) /\ Listed(s) = Stretch(index, b, s[1])
    BY DEF WalkOK
  <1> HIDE DEF r
  <1>4. /\ Len(s) \in Nat /\ Len(s) >= 1 /\ Len(r) \in Nat
        /\ \A i \in 1..Len(s) : s[i] \in Nat /\ s[i] \in Listed(s)
        /\ \A i \in 1..Len(r) : r[i] \in Nat /\ r[i] \in Listed(r)
    BY <1>2, RowsAreHeights DEF Listed
  <1>5. s[1] \in Nat /\ b < s[1]
    <2>1. 1 \in 1..Len(s)
      BY <1>4
    <2>2. s[1] \in Stretch(index, b, s[1]) /\ s[1] \in Nat
      BY <1>3, <1>4, <2>1
    <2>3. QED
      BY <2>2 DEF Stretch
  <1>6. /\ Len(w) = Len(s) + Len(r) /\ w # <<>> /\ w[1] = s[1]
        /\ \A i \in 1..Len(w) : w[i] = IF i <= Len(s) THEN s[i] ELSE r[i - Len(s)]
    BY <1>2, <1>4
  <1> HIDE DEF w
  <1>7. \A i \in 1..Len(s) : b < s[i]
    BY <1>3, <1>4 DEF Stretch
  <1>8. \A i \in 1..Len(r) : r[i] <= b
    BY <1>2, <1>4 DEF Stretch
  <1>9. Descending(w)
    <2> SUFFICES ASSUME NEW i \in 1..Len(w), NEW j \in 1..Len(w), i < j PROVE w[i] > w[j]
      BY DEF Descending
    <2>1. CASE j <= Len(s)
      BY <1>3, <1>4, <1>6, <2>1 DEF Descending
    <2>2. CASE i > Len(s)
      <3>1. /\ i - Len(s) \in 1..Len(r) /\ j - Len(s) \in 1..Len(r) /\ i - Len(s) < j - Len(s)
            /\ w[i] = r[i - Len(s)] /\ w[j] = r[j - Len(s)]
        BY <1>4, <1>6, <2>2
      <3>2. QED
        BY <1>2, <3>1 DEF Descending
    <2>3. CASE i <= Len(s) /\ j > Len(s)
      <3>1. /\ i \in 1..Len(s) /\ j - Len(s) \in 1..Len(r)
            /\ w[i] = s[i] /\ w[j] = r[j - Len(s)]
        BY <1>4, <1>6, <2>3
      <3>2. b < w[i] /\ w[j] <= b /\ w[i] \in Nat /\ w[j] \in Nat
        BY <1>4, <1>7, <1>8, <3>1
      <3>3. QED
        BY <1>1, <3>2
    <2>4. QED
      BY <1>4, <1>6, <2>1, <2>2, <2>3
  <1>10. Listed(w) = Listed(s) \cup Listed(r)
    <2>1. ASSUME NEW i \in 1..Len(w) PROVE w[i] \in Listed(s) \cup Listed(r)
      <3>1. CASE i <= Len(s)
        BY <1>4, <1>6, <3>1
      <3>2. CASE i > Len(s)
        <4>1. i - Len(s) \in 1..Len(r) /\ w[i] = r[i - Len(s)]
          BY <1>4, <1>6, <3>2
        <4>2. QED
          BY <1>4, <4>1
      <3>3. QED
        BY <1>4, <1>6, <3>1, <3>2
    <2>2. ASSUME NEW i \in 1..Len(s) PROVE \E j \in 1..Len(w) : w[j] = s[i]
      BY <1>4, <1>6
    <2>3. ASSUME NEW i \in 1..Len(r) PROVE \E j \in 1..Len(w) : w[j] = r[i]
      <3>1. i + Len(s) \in 1..Len(w) /\ ~ (i + Len(s) <= Len(s)) /\ (i + Len(s)) - Len(s) = i
        BY <1>4, <1>6
      <3>2. QED
        BY <1>6, <3>1
    <2>4. \A x \in Listed(w) : x \in Listed(s) \cup Listed(r)
      BY <2>1 DEF Listed
    <2>5. \A x \in Listed(s) : x \in Listed(w)
      BY <2>2 DEF Listed
    <2>6. \A x \in Listed(r) : x \in Listed(w)
      BY <2>3 DEF Listed
    <2>7. QED
      BY <2>4, <2>5, <2>6
  <1>11. Stretch(index, b, s[1]) \cup Stretch(index, Lowest(q), b) = Stretch(index, Lowest(q), s[1])
    <2>1. \A h \in index : h \in Nat
      OBVIOUS
    <2>2. \A h \in index : (b < h /\ h <= s[1]) \/ (Lowest(q) < h /\ h <= b) <=> Lowest(q) < h /\ h <= s[1]
      BY <1>1, <1>2, <1>5, <2>1
    <2>3. QED
      BY <2>2 DEF Stretch
  <1>12. WalkOK(w, index, Lowest(q))
    BY <1>2, <1>3, <1>6, <1>9, <1>10, <1>11 DEF WalkOK
  <1>13. QED
    BY <1>12 DEF w, r

\* Nothing is indexed or served yet.
LEMMA ListInitInv == Init => ListInv
  <1> SUFFICES ASSUME Init PROVE ListInv
    OBVIOUS
  <1> USE ListAssumption DEF Init, Indexer!AbsInit
  <1>1. /\ tip \in Heights /\ indexed \subseteq Heights /\ cursor \in -1..MaxHeight
        /\ DefaultLimit \in 1..MaxLimit /\ walks \in 0..MaxWalks
    BY DEF Heights
  <1>2. NoPage \in Pages
    <2>1. <<>> \in Seq(Heights) /\ FALSE \in BOOLEAN
      OBVIOUS
    <2>2. QED
      BY <2>1 DEF NoPage, Pages
  <1>3. TypeOK
    BY <1>1, <1>2 DEF TypeOK, Bounds, Pages
  <1>4. PrefixInv /\ CacheInv
    BY DEF PrefixInv, CacheInv
  <1>5. ASSUME NEW c \in Clients PROVE ClientInv(c)
    BY DEF ClientInv, WalkOK
  <1>6. QED
    BY <1>3, <1>4, <1>5 DEF ListInv

\* A client that a step does not touch, while the index stands still.
LEMMA OtherClient ==
  ASSUME NEW d \in Clients, ClientInv(d), UNCHANGED <<indexed, cursor>>,
         pc'[d] = pc[d], limit'[d] = limit[d], before'[d] = before[d], page'[d] = page[d],
         seen'[d] = seen[d], tainted'[d] = tainted[d]
  PROVE  ClientInv(d)'
  <1>1. Key(d)' = Key(d) /\ Floor(d)' = Floor(d)
    BY DEF Key, Floor
  <1>2. QED
    BY <1>1 DEF ClientInv

\* The same for all of them but one, by name of what the step did to it.
LEMMA ClientStep ==
  ASSUME ListInv, NEW c \in Clients, TypeOK', UNCHANGED <<tip, indexed, cursor>>, CacheInv', ClientInv(c)',
         \A d \in Clients \ {c} :
           /\ pc'[d] = pc[d] /\ limit'[d] = limit[d] /\ before'[d] = before[d] /\ page'[d] = page[d]
           /\ seen'[d] = seen[d] /\ tainted'[d] = tainted[d]
  PROVE  ListInv'
  <1>1. ASSUME NEW d \in Clients PROVE ClientInv(d)'
    <2>1. CASE d = c
      BY <2>1
    <2>2. CASE d # c
      BY <2>2, OtherClient DEF ListInv
    <2>3. QED
      BY <2>1, <2>2
  <1>2. PrefixInv'
    BY DEF ListInv, PrefixInv
  <1>3. QED
    BY <1>1, <1>2 DEF ListInv

\* What the invariant says of a client that asks, and of the pages around it.
LEMMA AskingClient ==
  ASSUME ListInv, NEW c \in Clients
  PROVE  /\ pc \in [Clients -> {"idle", "ask", "store", "reply"}]
         /\ limit \in [Clients -> 1..MaxLimit] /\ before \in [Clients -> Bounds]
         /\ page \in [Clients -> Pages] /\ seen \in [Clients -> Seq(Heights)]
         /\ tainted \in [Clients -> BOOLEAN] /\ cache \in [Keys -> {None} \cup Pages]
         /\ indexed \in SUBSET Nat /\ cursor \in Int
         /\ ClientInv(c) /\ TypeOK /\ PrefixInv /\ CacheInv
  BY ListAssumption DEF ListInv, TypeOK, Pages, Heights

\* A limit is one of the keys', and at least one.
LEMMA LimitIsKey ==
  ASSUME NEW n \in RawLimits, NEW b \in Bounds
  PROVE  ClampLimit(n) \in 1..MaxLimit /\ <<ClampLimit(n), b>> \in Keys
  BY ListAssumption DEF ClampLimit, Keys

\* A new walk has listed nothing.
LEMMA BeginKeepsInv ==
  ASSUME ListInv, NEW c \in Clients, NEW n \in RawLimits, NEW b \in Bounds, Begin(c, n, b)
  PROVE  ListInv'
  <1>1. /\ pc' = [pc EXCEPT ![c] = "ask"] /\ limit' = [limit EXCEPT ![c] = ClampLimit(n)]
        /\ before' = [before EXCEPT ![c] = b] /\ seen' = [seen EXCEPT ![c] = <<>>]
        /\ tainted' = [tainted EXCEPT ![c] = FALSE]
        /\ UNCHANGED <<tip, indexed, cursor, cache, page>>
        /\ walks < MaxWalks /\ walks' = walks + 1
    BY DEF Begin, chainVars
  <1>2. ClampLimit(n) \in 1..MaxLimit /\ <<ClampLimit(n), b>> \in Keys
    BY LimitIsKey
  <1>3. TypeOK'
    <2>1. tainted' \in [Clients -> BOOLEAN]
      BY <1>1, AskingClient, Zenon
    <2>2. walks' \in 0..MaxWalks
      BY <1>1, ListAssumption DEF ListInv, TypeOK
    <2>3. /\ pc' \in [Clients -> {"idle", "ask", "store", "reply"}] /\ limit' \in [Clients -> 1..MaxLimit]
          /\ before' \in [Clients -> Bounds] /\ seen' \in [Clients -> Seq(Heights)]
      BY <1>1, <1>2, AskingClient
    <2>4. QED
      BY <1>1, <2>1, <2>2, <2>3 DEF ListInv, TypeOK
  <1>4. CacheInv'
    BY <1>1 DEF ListInv, CacheInv
  <1>5. pc'[c] = "ask" /\ limit'[c] = ClampLimit(n) /\ before'[c] = b /\ seen'[c] = <<>>
    BY <1>1, AskingClient
  <1>6. ClientInv(c)'
    BY <1>2, <1>5 DEF ClientInv, Key, WalkOK
  <1>7. \A d \in Clients \ {c} :
          /\ pc'[d] = pc[d] /\ limit'[d] = limit[d] /\ before'[d] = before[d] /\ page'[d] = page[d]
          /\ seen'[d] = seen[d] /\ tainted'[d] = tainted[d]
    BY <1>1, AskingClient
  <1>8. QED
    BY <1>1, <1>3, <1>4, <1>6, <1>7, ClientStep

\* A request is answered with a page for its bound, from the cache (Hit) or from
\* the query (Load, GqlBlocks).
LEMMA AnswerKeepsInv ==
  ASSUME ListInv, NEW c \in Clients, pc[c] = "ask", NEW q, NEW p \in {"store", "reply"},
         PageOK(q, before[c], indexed, cursor),
         page' = [page EXCEPT ![c] = q], pc' = [pc EXCEPT ![c] = p],
         UNCHANGED <<tip, indexed, cursor, cache, limit, before, seen, tainted, walks>>
  PROVE  ListInv'
  <1>1. q \in Pages
    BY Zenon DEF PageOK
  <1>2. TypeOK'
    <2>1. /\ pc' \in [Clients -> {"idle", "ask", "store", "reply"}] /\ page' \in [Clients -> Pages]
      BY <1>1, AskingClient
    <2>2. QED
      BY <2>1 DEF ListInv, TypeOK, Pages
  <1>3. CacheInv'
    BY DEF ListInv, CacheInv
  <1>4. pc'[c] = p /\ page'[c] = q /\ pc'[c] # "idle"
    BY AskingClient
  <1>5. ClientInv(c)'
    <2>1. Key(c)' = Key(c) /\ Floor(c)' = Floor(c)
      BY <1>4 DEF Key, Floor
    <2>2. ClientInv(c)
      BY DEF ListInv
    <2>3. QED
      BY <1>4, <2>1, <2>2 DEF ClientInv
  <1>6. \A d \in Clients \ {c} : pc'[d] = pc[d] /\ page'[d] = page[d]
    BY AskingClient
  <1>7. QED
    BY <1>2, <1>3, <1>5, <1>6, ClientStep

\* A cached page was loaded for the bound of its key, and the query's page is
\* right at the time of the query.
LEMMA RequestKeepsInv ==
  ASSUME ListInv, NEW c \in Clients, Hit(c) \/ Load(c) \/ GqlBlocks(c)
  PROVE  ListInv'
  <1> USE DEF chainVars
  <1>1. pc[c] = "ask" /\ before[c] \in Bounds /\ limit[c] \in Nat \ {0} /\ Key(c) \in Keys
    BY AskingClient, ListAssumption DEF Hit, Load, GqlBlocks, ClientInv
  <1>2. CASE Hit(c)
    <2>1. PageOK(cache[Key(c)], Key(c)[2], indexed, cursor)
      BY <1>1, <1>2 DEF Hit, ListInv, CacheInv
    <2>2. PageOK(cache[Key(c)], before[c], indexed, cursor)
      BY <2>1 DEF Key
    <2>3. QED
      BY <1>1, <1>2, <2>2, AnswerKeepsInv DEF Hit
  <1>3. CASE Load(c) \/ GqlBlocks(c)
    <2>1. PageOK(Response(before[c], limit[c]), before[c], indexed, cursor)
      BY <1>1, ResponseIsOK DEF ListInv
    <2>2. QED
      BY <1>1, <1>3, <2>1, AnswerKeepsInv DEF Load, GqlBlocks
  <1>4. QED
    BY <1>2, <1>3

\* The page is stored under the key of its own bound, however late.
LEMMA StoreKeepsInv ==
  ASSUME ListInv, NEW c \in Clients, Store(c)
  PROVE  ListInv'
  <1>1. /\ pc[c] = "store" /\ pc' = [pc EXCEPT ![c] = "reply"]
        /\ cache' = cache \/ cache' = [cache EXCEPT ![Key(c)] = page[c]]
        /\ UNCHANGED <<tip, indexed, cursor, limit, before, page, seen, tainted, walks>>
    BY DEF Store, chainVars
  <1>2. ClientInv(c) /\ Key(c) \in Keys /\ PageOK(page[c], before[c], indexed, cursor) /\ page[c] \in Pages
    BY <1>1, AskingClient DEF ClientInv
  <1>3. cache' \in [Keys -> {None} \cup Pages]
    BY <1>1, <1>2, AskingClient
  <1>4. TypeOK'
    <2>1. pc' \in [Clients -> {"idle", "ask", "store", "reply"}]
      BY <1>1, AskingClient
    <2>2. QED
      BY <1>1, <1>3, <2>1 DEF ListInv, TypeOK, Pages
  <1>5. CacheInv'
    <2> SUFFICES ASSUME NEW k \in Keys, cache'[k] # None
                 PROVE  PageOK(cache'[k], k[2], indexed, cursor)
      BY <1>1 DEF CacheInv
    <2>1. CASE cache'[k] = cache[k]
      BY <2>1 DEF ListInv, CacheInv
    <2>2. CASE k = Key(c) /\ cache'[k] = page[c]
      <3>1. k[2] = before[c]
        BY <2>2 DEF Key
      <3>2. QED
        BY <1>2, <2>2, <3>1
    <2>3. QED
      BY <1>1, <1>2, <2>1, <2>2, AskingClient
  <1>6. pc'[c] = "reply"
    BY <1>1, AskingClient
  <1>7. ClientInv(c)'
    <2>1. Key(c)' = Key(c) /\ Floor(c)' = Floor(c)
      BY <1>1, <1>6 DEF Key, Floor
    <2>2. QED
      BY <1>1, <1>2, <1>6, <2>1 DEF ClientInv
  <1>8. \A d \in Clients \ {c} : pc'[d] = pc[d]
    BY <1>1, AskingClient
  <1>9. QED
    BY <1>1, <1>4, <1>5, <1>7, <1>8, ClientStep

\* The client lists the page and goes on below it.
LEMMA ReplyKeepsInv ==
  ASSUME ListInv, NEW c \in Clients, Reply(c)
  PROVE  ListInv'
  <1> DEFINE q == page[c]
             s == seen[c]
  <1>1. /\ pc[c] = "reply" /\ seen' = [seen EXCEPT ![c] = s \o q.rows]
        /\ tainted' = [tainted EXCEPT ![c] = tainted[c] \/ (s # <<>> /\ q.ahead)]
        /\ \/ /\ q.next # None /\ before' = [before EXCEPT ![c] = q.next]
              /\ pc' = [pc EXCEPT ![c] = "ask"]
           \/ /\ q.next = None /\ before' = [before EXCEPT ![c] = Tip]
              /\ pc' = [pc EXCEPT ![c] = "idle"]
        /\ page' = [page EXCEPT ![c] = NoPage]
        /\ UNCHANGED <<tip, indexed, cursor, cache, limit, walks>>
    BY DEF Reply, chainVars
  <1>2. /\ PageOK(q, before[c], indexed, cursor) /\ Key(c) \in Keys
        /\ s # <<>> => before[c] \in Heights /\ s[1] <= cursor
        /\ ~tainted[c] => WalkOK(s, indexed, before[c])
    BY <1>1, AskingClient DEF ClientInv, Floor
  <1>3. /\ s \in Seq(Heights) /\ q \in Pages /\ q.rows \in Seq(Heights)
        /\ q.next \in Heights \cup {None} /\ before[c] \in Bounds /\ limit[c] \in 1..MaxLimit
    BY AskingClient DEF Pages
  <1>4. /\ seen'[c] = s \o q.rows
        /\ pc'[c] = (IF q.next = None THEN "idle" ELSE "ask")
        /\ before'[c] = (IF q.next = None THEN Tip ELSE q.next)
        /\ tainted'[c] = (tainted[c] \/ (s # <<>> /\ q.ahead))
    BY <1>1, AskingClient
  <1>5. TypeOK'
    <2>1. NoPage \in Pages
      BY DEF NoPage, Pages
    <2>2. pc' \in [Clients -> {"idle", "ask", "store", "reply"}] /\ page' \in [Clients -> Pages]
      BY <1>1, <2>1, AskingClient
    <2>3. before' \in [Clients -> Bounds]
      <3>1. Tip \in Bounds /\ (q.next # None => q.next \in Bounds)
        BY <1>3 DEF Bounds
      <3>2. QED
        BY <1>1, <3>1, AskingClient
    <2>4. seen' \in [Clients -> Seq(Heights)]
      <3>1. s \o q.rows \in Seq(Heights)
        BY <1>3
      <3>2. QED
        BY <1>1, <3>1, AskingClient
    <2>5. tainted' \in [Clients -> BOOLEAN]
      BY <1>1, AskingClient
    <2>6. QED
      BY <1>1, <2>2, <2>3, <2>4, <2>5 DEF ListInv, TypeOK, Pages
  <1>6. CacheInv'
    BY <1>1 DEF ListInv, CacheInv
  <1>7. ~tainted'[c] => WalkOK(seen'[c], indexed, Floor(c)')
    <2>1. Floor(c)' = Lowest(q)
      BY <1>4 DEF Floor, Lowest
    <2>2. CASE s = <<>>
      <3>1. seen'[c] = q.rows
        BY <1>3, <1>4, <2>2
      <3>2. QED
        BY <1>2, <2>1, <3>1, WalkStarts
    <2>3. CASE s # <<>>
      <3> SUFFICES ASSUME ~tainted'[c] PROVE WalkOK(seen'[c], indexed, Floor(c)')
        OBVIOUS
      <3>1. ~tainted[c] /\ ~q.ahead
        BY <1>4, <2>3
      <3> HIDE DEF q, s
      <3>2. WalkOK(s \o q.rows, indexed, Lowest(q))
        BY <1>2, <1>3, <2>3, <3>1, WalkGoesOn, AskingClient
      <3>3. QED
        BY <1>4, <2>1, <3>2
    <2>4. QED
      BY <2>2, <2>3
  <1>8. seen'[c] # <<>> => seen'[c][1] <= cursor
    <2>1. CASE s = <<>>
      <3>1. seen'[c] = q.rows
        BY <1>3, <1>4, <2>1
      <3>2. q.rows # <<>> => q.rows[1] <= cursor
        BY <1>2, Zenon DEF PageOK
      <3>3. QED
        BY <3>1, <3>2
    <2>2. CASE s # <<>>
      <3>1. (s \o q.rows)[1] = s[1]
        <4>1. Len(s) >= 1 /\ Len(s) \in Nat
          BY <1>3, <2>2, RowsAreHeights
        <4> HIDE DEF s, q
        <4>2. QED
          BY <1>3, <4>1
      <3>2. QED
        BY <1>2, <1>4, <2>2, <3>1
    <2>3. QED
      BY <2>1, <2>2
  <1>9. ClientInv(c)'
    <2>1. pc'[c] # "idle" => before'[c] \in Heights
      BY <1>3, <1>4
    <2>2. pc'[c] # "idle" => Key(c)' \in Keys
      <3>1. limit'[c] = limit[c] /\ Key(c) = <<limit[c], before[c]>> /\ Key(c)' = <<limit'[c], before'[c]>>
        BY <1>1 DEF Key
      <3>2. QED
        BY <1>2, <2>1, <3>1 DEF Keys, Bounds
    <2>3. pc'[c] \notin {"store", "reply"}
      BY <1>4
    <2>4. QED
      BY <1>1, <1>7, <1>8, <2>1, <2>2, <2>3 DEF ClientInv
  <1>10. \A d \in Clients \ {c} :
           /\ pc'[d] = pc[d] /\ limit'[d] = limit[d] /\ before'[d] = before[d] /\ page'[d] = page[d]
           /\ seen'[d] = seen[d] /\ tainted'[d] = tainted[d]
    BY <1>1, AskingClient
  <1>11. QED
    BY <1>1, <1>5, <1>6, <1>9, <1>10, ClientStep

\* A key that expires leaves the other pages as they are.
LEMMA ExpireKeepsInv ==
  ASSUME ListInv, NEW k \in Keys, Expire(k)
  PROVE  ListInv'
  <1>1. /\ cache' = [cache EXCEPT ![k] = None]
        /\ UNCHANGED <<tip, indexed, cursor, pc, limit, before, page, seen, tainted, walks>>
    BY DEF Expire, chainVars, clientVars
  <1>2. cache \in [Keys -> {None} \cup Pages]
    BY DEF ListInv, TypeOK, Pages
  <1>3. TypeOK'
    BY <1>1, <1>2 DEF ListInv, TypeOK, Pages
  <1>4. CacheInv'
    BY <1>1, <1>2 DEF ListInv, CacheInv
  <1>5. ASSUME NEW d \in Clients PROVE ClientInv(d)'
    BY <1>1, OtherClient DEF ListInv
  <1>6. QED
    BY <1>1, <1>3, <1>4, <1>5 DEF ListInv, PrefixInv

\* The index grows above all that was listed, loaded or cached.
LEMMA IndexKeepsInv ==
  ASSUME ListInv, Index
  PROVE  ListInv'
  <1>1. UNCHANGED <<cache, pc, limit, before, page, seen, tainted, walks>>
    BY DEF Index, clientVars
  <1>2. /\ tip \in Heights /\ indexed \subseteq Heights /\ cursor \in -1..MaxHeight
        /\ indexed \subseteq 0..cursor /\ cursor <= tip
        /\ MaxHeight \in Nat /\ SafeLag \in Nat /\ Heights = 0..MaxHeight
    BY ListAssumption DEF ListInv, TypeOK, PrefixInv, Heights
  <1>3. /\ tip' \in Heights /\ cursor' \in -1..MaxHeight /\ cursor <= cursor' /\ cursor' <= tip'
        /\ indexed \subseteq indexed' /\ \A h \in indexed' : h \notin indexed => h > cursor
        /\ \A h \in indexed' : h \in Heights /\ h <= cursor'
    <2>1. CASE Indexer!Grow
      BY <1>2, <2>1 DEF Indexer!Grow
    <2>2. CASE Indexer!Append
      <3>1. /\ cursor' \in Int /\ cursor < cursor' /\ cursor' <= tip /\ tip' = tip
            /\ \A h \in (cursor + 1)..cursor' : h \in Nat /\ h > cursor /\ h <= cursor'
        BY <1>2, <2>2 DEF Indexer!Append
      <3>2. \A h \in indexed' : h \in indexed \/ h \in (cursor + 1)..cursor'
        BY <2>2 DEF Indexer!Append
      <3>3. indexed \subseteq indexed'
        BY <2>2 DEF Indexer!Append
      <3>4. \A h \in indexed : h \in Nat /\ h <= cursor
        BY <1>2
      <3>5. cursor' \in -1..MaxHeight /\ tip' \in Heights /\ cursor' <= tip'
        BY <1>2, <3>1
      <3>6. QED
        BY <1>2, <3>1, <3>2, <3>3, <3>4, <3>5
    <2>3. QED
      BY <2>1, <2>2 DEF Index, Indexer!AbsNext
  <1>4. /\ indexed \in SUBSET Nat /\ indexed' \in SUBSET Nat /\ indexed' \subseteq Heights
        /\ indexed' \subseteq 0..cursor' /\ cursor \in Int /\ cursor' \in Int
    BY <1>2, <1>3
  <1>5. TypeOK' /\ PrefixInv'
    BY <1>1, <1>3, <1>4 DEF ListInv, TypeOK, PrefixInv
  <1>6. \A q : \A b \in Bounds : PageOK(q, b, indexed, cursor) => PageOK(q, b, indexed', cursor')
    BY <1>3, <1>4, PageKept
  <1>7. CacheInv'
    <2>1. \A k \in Keys : k[2] \in Bounds
      BY DEF Keys
    <2>2. QED
      BY <1>1, <1>6, <2>1 DEF ListInv, CacheInv
  <1>8. ASSUME NEW c \in Clients PROVE ClientInv(c)'
    <2>1. /\ before[c] \in Bounds /\ seen[c] \in Seq(Heights) /\ ClientInv(c)
      BY AskingClient
    <2>2. Key(c)' = Key(c) /\ Floor(c)' = Floor(c)
      BY <1>1 DEF Key, Floor
    <2>3. seen[c] # <<>> => seen[c][1] \in Int /\ seen[c][1] <= cursor /\ seen[c][1] <= cursor'
      BY <1>3, <1>4, <2>1, RowsAreHeights DEF ClientInv
    <2>4. seen[c] # <<>> => Floor(c) \in Int
      BY <2>1, ListAssumption DEF ClientInv, Floor, Heights
    <2>5. WalkOK(seen[c], indexed, Floor(c)) => WalkOK(seen[c], indexed', Floor(c))
      <3>1. CASE seen[c] = <<>>
        BY <3>1 DEF WalkOK
      <3>2. CASE seen[c] # <<>>
        <4>1. Stretch(indexed', Floor(c), seen[c][1]) = Stretch(indexed, Floor(c), seen[c][1])
          <5>1. \A lo, hi \in Int : hi <= cursor => Stretch(indexed', lo, hi) = Stretch(indexed, lo, hi)
            BY <1>3, <1>4, StretchKept
          <5>2. Floor(c) \in Int /\ seen[c][1] \in Int /\ seen[c][1] <= cursor
            BY <2>3, <2>4, <3>2
          <5>3. QED
            BY <5>1, <5>2
        <4>2. QED
          BY <4>1 DEF WalkOK
      <3>3. QED
        BY <3>1, <3>2
    <2>6. pc[c] \in {"store", "reply"} => PageOK(page[c], before[c], indexed', cursor')
      BY <1>6, <2>1 DEF ClientInv
    <2>7. QED
      BY <1>1, <2>1, <2>2, <2>3, <2>5, <2>6 DEF ClientInv
  <1>9. QED
    BY <1>5, <1>7, <1>8 DEF ListInv

\* Every step of the clients, the cache and the indexer keeps the invariant.
LEMMA ListNextInv == ListInv /\ [Next]_vars => ListInv'
  <1> SUFFICES ASSUME ListInv, [Next]_vars PROVE ListInv'
    OBVIOUS
  <1>1. CASE Index
    BY <1>1, IndexKeepsInv
  <1>2. ASSUME NEW c \in Clients, NEW n \in RawLimits, NEW b \in Bounds, Begin(c, n, b) PROVE ListInv'
    BY <1>2, BeginKeepsInv
  <1>3. ASSUME NEW c \in Clients, Serve(c) PROVE ListInv'
    BY <1>3, RequestKeepsInv, StoreKeepsInv, ReplyKeepsInv DEF Serve
  <1>4. ASSUME NEW k \in Keys, Expire(k) PROVE ListInv'
    BY <1>4, ExpireKeepsInv
  <1>5. CASE UNCHANGED vars
    <2>1. UNCHANGED <<tip, indexed, cursor, cache, pc, limit, before, page, seen, tainted, walks>>
      BY <1>5 DEF vars, chainVars, clientVars
    <2>2. TypeOK' /\ PrefixInv' /\ CacheInv'
      BY <2>1 DEF ListInv, TypeOK, PrefixInv, CacheInv
    <2>3. ASSUME NEW d \in Clients PROVE ClientInv(d)'
      BY <2>1, OtherClient DEF ListInv
    <2>4. QED
      BY <2>2, <2>3 DEF ListInv
  <1>6. QED
    BY <1>1, <1>2, <1>3, <1>4, <1>5 DEF Next

\* Requests, pages and cached pages keep their types: a next cursor is a height
\* or none, and a limit is at least one.
THEOREM ListTypeCorrect == Spec => []TypeOK
  <1>1. ListInv => TypeOK
    BY DEF ListInv
  <1>2. QED
    BY <1>1, ListInitInv, ListNextInv, PTL DEF Spec

\* For any number of clients, limits and heights, a walk along next_cursor lists
\* every indexed block between its newest and its cursor, newest first, none
\* twice and none left out, unless it went on with a page that was cached for a
\* bound above the index of its time.
THEOREM WalksAreExact == Spec => []WalkExact
  <1>1. ListInv => WalkExact
    BY DEF ListInv, ClientInv, WalkOK, WalkExact, Descending, Listed, Stretch
  <1>2. QED
    BY <1>1, ListInitInv, ListNextInv, PTL DEF Spec

=============================================================================
