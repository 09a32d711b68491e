--------------------------- MODULE BlockSyncProofs ---------------------------
(***************************************************************************)
(* Proofs about BlockSync for every chain length, safe lag, batch size,    *)
(* set of damaged blocks and number of faults.                             *)
(***************************************************************************)
EXTENDS BlockSync, WellFoundedInduction, TLAPS

(***************************************************************************)
(* The inductive invariant.  IndexInv is the claim; the others say why it  *)
(* is kept: what a loop read earlier is at most stale in the safe          *)
(* direction.  A loop's walk began at or below the present cursor, and its *)
(* cap was computed from a tip the chain had already reached.              *)
(***************************************************************************)

Walking == bpc \in {"walk", "flush", "push", "gap"}

\* Everything below the walk's next height is committed or in the buffer.
BackfillInv ==
  /\ bpc \in {"idle", "tip", "gap", "exited"} => buf = {}
  /\ bpc \in {"flush", "push"} => buf # {}
  /\ bpc = "tip" => bnext \in 0..(cursor + 1)
  /\ Walking =>
       /\ bnext >= 0 /\ bnext <= bcap + 1 /\ bcap <= tip - SafeLag
       /\ \A h \in buf : h < bnext /\ h \notin Damaged
       /\ \A h \in 0..(bnext - 1) : h \in buf \/ h <= cursor
       /\ bpc \in {"walk", "flush"} /\ buf # {} => bnext - 1 \in buf
  /\ bpc = "push" => bnext - 1 <= cursor /\ buf \subseteq blocks
  /\ bpc = "gap" \/ (bpc \in {"flush", "push"} /\ bthen = "gap") =>
       bnext <= bcap /\ MissingAt(bnext)

TailInv ==
  /\ tcur <= tip /\ pending <= tip
  /\ tpc \in {"ingest", "push"} =>
       th \in 0..(cursor + 1) /\ tcap <= tip - SafeLag
  /\ tpc = "push" => th \in blocks
  /\ tpc \in {"read", "ingest", "push"} => inflight /\ pending = NoTip
  /\ pending # NoTip => inflight

IndexInv ==
  /\ blocks \subseteq 0..cursor
  /\ blocks \cap Damaged = {}
  /\ ~Lagging => (0..cursor) \ Damaged \subseteq blocks
  /\ SafeLagKept

\* What a loop pushed lies below its walk, so it is not pushed again.
PushInv ==
  /\ PushedOnce
  /\ bpc \in {"tip", "walk", "flush", "push", "gap"} =>
       \A h \in Heights : pushed["backfill"][h] # 0 => h < bnext /\ h \notin buf
  /\ tpc \in {"ingest", "push"} =>
       \A h \in Heights : pushed["tail"][h] # 0 => h < th

IInv == TypeOK /\ BackfillInv /\ TailInv /\ IndexInv /\ PushInv

-----------------------------------------------------------------------------
(***************************************************************************)
(* The helpers on heights.                                                 *)
(***************************************************************************)

\* Highest picks the maximum when there is one: batch_write_blocks' max_height.
LEMMA HighestIsMax ==
  ASSUME NEW S \in SUBSET Int, NEW m \in S, \A y \in S : m >= y
  PROVE  Highest(S) = m
  <1>1. \A x \in S : (\A y \in S : x >= y) => x = m
    OBVIOUS
  <1>2. QED
    BY <1>1 DEF Highest

\* A non-empty set of heights has a lowest one, the first bundle to push.
LEMMA LowestIsMember ==
  ASSUME NEW S \in SUBSET Nat, S # {}
  PROVE  Lowest(S) \in S
  <1> DEFINE R == OpToRel(<, Nat)
  <1>1. \E x \in S : \A y \in S : ~ (<<y, x>> \in R)
    <2>1. IsWellFoundedOn(R, Nat)
      BY NatLessThanWellFounded
    <2> HIDE DEF R
    <2>2. QED
      BY <2>1, WFMin
  <1>2. PICK x \in S : \A y \in S : ~ (<<y, x>> \in R)
    BY <1>1
  <1>3. R = {ss \in Nat \X Nat : ss[1] < ss[2]}
    BY DEF OpToRel
  <1> HIDE DEF R
  <1>4. ASSUME NEW y \in S PROVE x <= y
    <2>1. <<y, x>> \in R <=> y < x
      BY <1>3
    <2>2. QED
      BY <1>2, <2>1
  <1>5. QED
    BY <1>4 DEF Lowest

-----------------------------------------------------------------------------
(***************************************************************************)
(* The invariant is inductive.                                             *)
(***************************************************************************)

\* The state of a fresh database and a booting process satisfies the invariant.
LEMMA InitIInv == Init => IInv
  <1> SUFFICES ASSUME Init PROVE IInv
    OBVIOUS
  <1> USE SyncAssumption DEF Init, Heights, NoTip
  <1>1. pushed \in [{"backfill", "tail"} -> [Heights -> Nat]]
    OBVIOUS
  <1>2. inflight \in BOOLEAN /\ cancelled \in BOOLEAN
    OBVIOUS
  <1>3. TypeOK
    BY <1>1, <1>2 DEF TypeOK, BackfillPC, TailPC
  <1>4. BackfillInv /\ TailInv /\ IndexInv
    BY DEF BackfillInv, TailInv, IndexInv, SafeLagKept, Walking
  <1>5. PushInv
    BY DEF PushInv, PushedOnce
  <1>6. QED
    BY <1>3, <1>4, <1>5 DEF IInv

\* Steps that write neither the database nor an analytics row: they move a
\* program counter, and the bounds they compute from the cursor or the tip
\* they see are safe for as long as the walk lasts.
LEMMA QuietStepKeepsIInv ==
  ASSUME IInv,
         \/ ChainGrows \/ BackfillReadCursor \/ BackfillReadTip \/ BackfillTake
         \/ BackfillMissing \/ BackfillFinish \/ BackfillError \/ BackfillExit
         \/ TailConnect \/ TailCancelled \/ TailDropped \/ TailReadCursor
         \/ (\E t \in Heights : TailEvent(t)) \/ TailRelease \/ TailError
         \/ Shutdown \/ Restart \/ Crash
  PROVE  IInv'
  <1> USE SyncAssumption
      DEF IInv, TypeOK, BackfillPC, TailPC, BackfillInv, Walking, TailInv,
          IndexInv, SafeLagKept, PushInv, PushedOnce, Heights, NoTip,
          chainVars, dbVars, bfVars, tailVars, gateVars, Fault
  <1>1. CASE ChainGrows
    BY <1>1 DEF ChainGrows
  <1>2. CASE BackfillReadCursor
    <2>3. TypeOK'
      BY <1>2 DEF BackfillReadCursor
    <2>4. BackfillInv'
      BY <1>2 DEF BackfillReadCursor
    <2>5. TailInv'
      BY <1>2 DEF BackfillReadCursor
    <2>6. IndexInv'
      BY <1>2 DEF BackfillReadCursor
    <2>7. PushInv'
      BY <1>2 DEF BackfillReadCursor
    <2>8. QED
      BY <2>3, <2>4, <2>5, <2>6, <2>7
  <1>3. CASE BackfillReadTip
    <2>1. PICK t \in TipAnswers :
            /\ bcap' = t - SafeLag
            /\ bpc' = IF t - SafeLag < bnext THEN "idle" ELSE "walk"
      BY <1>3 DEF BackfillReadTip
    <2>2. t \in 0..tip
      BY DEF TipAnswers
    <2>3. TypeOK'
      BY <1>3, <2>1, <2>2 DEF BackfillReadTip
    <2>4. BackfillInv'
      <3>1. \A h \in 0..(bnext - 1) : h <= cursor
        BY <1>3 DEF BackfillReadTip
      <3>2. buf' = {} /\ bpc' \in {"idle", "walk"}
        BY <1>3 DEF BackfillReadTip
      <3>3. QED
        BY <1>3, <2>1, <2>2, <3>1, <3>2 DEF BackfillReadTip
    <2>5. TailInv'
      BY <1>3, <2>1, <2>2 DEF BackfillReadTip
    <2>6. IndexInv'
      BY <1>3, <2>1, <2>2 DEF BackfillReadTip
    <2>7. PushInv'
      BY <1>3, <2>1, <2>2 DEF BackfillReadTip
    <2>8. QED
      BY <2>3, <2>4, <2>5, <2>6, <2>7
  <1>4. CASE BackfillTake
    BY <1>4 DEF BackfillTake, FoundAt
  <1>5. CASE BackfillMissing
    BY <1>5 DEF BackfillMissing, MissingAt
  <1>6. CASE BackfillFinish
    <2>3. TypeOK'
      BY <1>6 DEF BackfillFinish
    <2>4. BackfillInv'
      BY <1>6 DEF BackfillFinish
    <2>5. TailInv'
      BY <1>6 DEF BackfillFinish
    <2>6. IndexInv'
      BY <1>6 DEF BackfillFinish
    <2>7. PushInv'
      BY <1>6 DEF BackfillFinish
    <2>8. QED
      BY <2>3, <2>4, <2>5, <2>6, <2>7
  <1>7. CASE BackfillError
    BY <1>7 DEF BackfillError
  <1>8. CASE BackfillExit
    BY <1>8 DEF BackfillExit
  <1>9. CASE TailConnect
    BY <1>9 DEF TailConnect
  <1>10. CASE TailCancelled
    BY <1>10 DEF TailCancelled
  <1>11. CASE TailDropped
    BY <1>11 DEF TailDropped
  <1>12. CASE TailReadCursor
    BY <1>12 DEF TailReadCursor
  <1>13. CASE \E t \in Heights : TailEvent(t)
    <2>1. inflight' \in BOOLEAN /\ cancelled' \in BOOLEAN
      BY <1>13 DEF TailEvent, Larger
    <2>3. TypeOK'
      BY <1>13, <2>1 DEF TailEvent, Larger
    <2>4. BackfillInv'
      BY <1>13 DEF TailEvent, Larger
    <2>5. TailInv'
      BY <1>13 DEF TailEvent, Larger
    <2>6. IndexInv'
      BY <1>13 DEF TailEvent, Larger
    <2>7. PushInv'
      BY <1>13 DEF TailEvent, Larger
    <2>8. QED
      BY <2>3, <2>4, <2>5, <2>6, <2>7
  <1>14. CASE TailRelease
    BY <1>14 DEF TailRelease
  <1>15. CASE TailError
    <2>3. TypeOK'
      BY <1>15 DEF TailError
    <2>4. BackfillInv'
      BY <1>15 DEF TailError
    <2>5. TailInv'
      BY <1>15 DEF TailError
    <2>6. IndexInv'
      BY <1>15 DEF TailError
    <2>7. PushInv'
      BY <1>15 DEF TailError
    <2>8. QED
      BY <2>3, <2>4, <2>5, <2>6, <2>7
  <1>16. CASE Shutdown
    BY <1>16 DEF Shutdown
  <1>17. CASE Restart
    <2>1. inflight' \in BOOLEAN /\ cancelled' \in BOOLEAN
      BY <1>17 DEF Restart, Boot
    <2>3. TypeOK'
      BY <1>17, <2>1 DEF Restart, Boot
    <2>4. BackfillInv'
      BY <1>17 DEF Restart, Boot
    <2>5. TailInv'
      BY <1>17 DEF Restart, Boot
    <2>6. IndexInv'
      BY <1>17 DEF Restart, Boot
    <2>7. PushInv'
      BY <1>17 DEF Restart, Boot
    <2>8. QED
      BY <2>3, <2>4, <2>5, <2>6, <2>7
  <1>18. CASE Crash
    <2>1. inflight' \in BOOLEAN /\ cancelled' \in BOOLEAN
      BY <1>18 DEF Crash, Boot
    <2>3. TypeOK'
      BY <1>18, <2>1 DEF Crash, Boot
    <2>4. BackfillInv'
      BY <1>18 DEF Crash, Boot
    <2>5. TailInv'
      BY <1>18 DEF Crash, Boot
    <2>6. IndexInv'
      BY <1>18 DEF Crash, Boot
    <2>7. PushInv'
      BY <1>18 DEF Crash, Boot
    <2>8. QED
      BY <2>3, <2>4, <2>5, <2>6, <2>7
  <1>19. QED
    BY <1>1, <1>2, <1>3, <1>4, <1>5, <1>6, <1>7, <1>8, <1>9, <1>10, <1>11, <1>12, <1>13, <1>14, <1>15, <1>16, <1>17, <1>18

\* A walk that starts right after an older cursor also starts at or below the
\* height after a newer one.
LEMMA StartStaysBelow ==
  ASSUME NEW a \in Int, NEW b \in Int, b >= a, NEW x \in 0..(a + 1)
  PROVE  x \in 0..(b + 1)
  OBVIOUS

\* The height after one that was indexed or skipped is at most one past the
\* cursor, also when the cursor has moved on.
LEMMA SuccessorStaysBelow ==
  ASSUME NEW b \in Int, NEW x \in 0..b
  PROVE  x + 1 \in 0..(b + 1)
  OBVIOUS

\* A fully covered stretch of heights ends at or below the cursor.
LEMMA CoveredEndsBelow ==
  ASSUME NEW a \in Nat, NEW b \in Int, b >= -1, \A h \in 0..(a - 1) : h <= b
  PROVE  a <= b + 1
  <1>1. CASE a = 0
    BY <1>1
  <1>2. CASE a > 0
    <2>1. a - 1 \in 0..(a - 1)
      BY <1>2
    <2>2. a - 1 <= b
      BY <2>1
    <2>3. QED
      BY <2>2
  <1>3. QED
    BY <1>1, <1>2

\* The two loops do not disturb each other: a walk whose bounds were computed
\* from an older cursor stays right when the cursor and the blocks grow.
LEMMA BackfillNotDisturbed ==
  ASSUME IInv, cursor' \in Heights, cursor' >= cursor, blocks \subseteq blocks',
         UNCHANGED <<tip, bfVars>>
  PROVE  BackfillInv'
  <1> USE SyncAssumption DEF Heights, bfVars
  <1>1. cursor \in Int /\ cursor' \in Int /\ bnext \in Int /\ bcap \in Int /\ tip \in Int
    BY DEF IInv, TypeOK
  <1>2. \A h \in Int : h <= cursor => h <= cursor'
    BY <1>1
  <1>3. bpc = "tip" => bnext \in 0..(cursor' + 1)
    BY <1>1, StartStaysBelow DEF IInv, BackfillInv
  <1>4. bpc = "push" => bnext - 1 <= cursor' /\ buf \subseteq blocks'
    BY <1>1 DEF IInv, BackfillInv
  <1>5. Walking => \A h \in 0..(bnext - 1) : h \in buf \/ h <= cursor'
    BY <1>1, <1>2 DEF IInv, BackfillInv
  <1>6. QED
    BY <1>3, <1>4, <1>5 DEF IInv, BackfillInv, Walking, MissingAt

\* The same for the tail's walk.
LEMMA TailNotDisturbed ==
  ASSUME IInv, cursor' \in Heights, cursor' >= cursor, blocks \subseteq blocks',
         UNCHANGED <<tip, tailVars, gateVars>>
  PROVE  TailInv'
  <1> USE SyncAssumption DEF Heights, tailVars, gateVars
  <1>1. cursor \in Int /\ cursor' \in Int /\ th \in Int
    BY DEF IInv, TypeOK
  <1>2. tpc \in {"ingest", "push"} => th \in 0..(cursor' + 1)
    BY <1>1, StartStaysBelow DEF IInv, TailInv
  <1>3. QED
    BY <1>2 DEF IInv, TailInv

\* The commit both writers share: if the committed heights close the distance
\* between the cursor and the highest of them, the index stays a prefix.
LEMMA CommitKeepsIndex ==
  ASSUME IInv,
         NEW S \in SUBSET Heights, NEW m \in S, \A h \in S : h <= m,
         \A h \in 0..m : h \in S \/ h <= cursor,
         S \cap Damaged = {},
         m <= tip - SafeLag,
         CommitBlocks(S), UNCHANGED tip
  PROVE  /\ cursor' \in Heights /\ cursor' >= cursor /\ cursor' >= m
         /\ blocks' \in SUBSET Heights
         /\ IndexInv'
  <1> USE SyncAssumption DEF Heights
  <1>1. Highest(S) = m
    BY HighestIsMax
  <1>2. cursor' = IF cursor >= m THEN cursor ELSE m
    BY <1>1 DEF CommitBlocks, InsertBatch, WriteCursor, Larger
  <1>3. /\ cursor' \in Heights /\ cursor' >= cursor /\ cursor' >= m
        /\ blocks' \in SUBSET Heights
    BY <1>2 DEF IInv, TypeOK, CommitBlocks, InsertBatch
  <1>4. blocks' = blocks \cup S
    BY DEF CommitBlocks, InsertBatch
  <1>5. IndexInv'
    BY <1>2, <1>3, <1>4 DEF IInv, IndexInv, SafeLagKept, TypeOK
  <1>6. QED
    BY <1>3, <1>5

\* batch_write_blocks' commit.
LEMMA BackfillCommitKeepsIInv ==
  ASSUME IInv, BackfillCommit \/ BackfillCommitUnknown
  PROVE  IInv'
  <1> USE SyncAssumption DEF Heights, NoTip
  <1>1. bpc = "flush" /\ CommitBlocks(buf) /\ UNCHANGED <<tip, tpc, tcur, th, tcap, inflight, pending, pushed, cancelled, bnext, bcap, bthen>>
    BY DEF BackfillCommit, BackfillCommitUnknown, chainVars, tailVars, gateVars
  <1>2. /\ bnext - 1 \in buf
        /\ \A h \in buf : h <= bnext - 1
        /\ \A h \in 0..(bnext - 1) : h \in buf \/ h <= cursor
        /\ bnext - 1 <= tip - SafeLag
        /\ buf \cap Damaged = {}
        /\ buf \in SUBSET Heights
    BY <1>1 DEF IInv, TypeOK, BackfillInv, Walking
  <1>3. /\ cursor' \in Heights /\ cursor' >= cursor /\ cursor' >= bnext - 1
        /\ blocks' \in SUBSET Heights
        /\ IndexInv'
    BY <1>1, <1>2, CommitKeepsIndex
  <1>4. blocks' = blocks \cup buf
    BY <1>1 DEF CommitBlocks, InsertBatch
  <1>5. \/ bpc' = "push" /\ buf' = buf /\ faults' = faults
        \/ bpc' = "idle" /\ buf' = {} /\ faults' \in 0..MaxFaults
    BY DEF BackfillCommit, BackfillCommitUnknown, Fault, IInv, TypeOK
  <1>6. TypeOK'
    BY <1>1, <1>3, <1>5 DEF IInv, TypeOK, BackfillPC
  <1>7. BackfillInv'
    <2>1. cursor' \in Int /\ bnext \in Int /\ \A h \in 0..(bnext - 1) : h <= cursor'
      BY <1>3 DEF IInv, TypeOK
    <2>2. CASE bpc' = "push" /\ buf' = buf
      BY <1>1, <1>2, <1>3, <1>4, <2>1, <2>2 DEF IInv, BackfillInv, Walking, MissingAt
    <2>3. CASE bpc' = "idle" /\ buf' = {}
      BY <2>3 DEF BackfillInv, Walking
    <2>4. QED
      BY <1>5, <2>2, <2>3
  <1>8. TailInv'
    BY <1>1, <1>3, <1>4, TailNotDisturbed DEF tailVars, gateVars
  <1>9. PushInv'
    BY <1>1, <1>4, <1>5 DEF IInv, TypeOK, PushInv, PushedOnce
  <1>10. QED
    BY <1>3, <1>6, <1>7, <1>8, <1>9 DEF IInv

\* write_block's commit.
LEMMA TailCommitKeepsIInv ==
  ASSUME IInv, TailCommit \/ TailCommitUnknown
  PROVE  IInv'
  <1> USE SyncAssumption DEF Heights, NoTip
  <1>1. /\ tpc = "ingest" /\ th <= tcap /\ th \notin Damaged /\ CommitBlocks({th})
        /\ UNCHANGED <<tip, bpc, bnext, bcap, buf, bthen, tcur, th, tcap, inflight, pending, pushed, cancelled>>
    BY DEF TailCommit, TailCommitUnknown, FoundAt, chainVars, bfVars, gateVars
  <1>2. /\ th \in 0..(cursor + 1)
        /\ th <= tip - SafeLag
        /\ {th} \in SUBSET Heights
    BY <1>1 DEF IInv, TypeOK, TailInv
  <1>3. /\ cursor' \in Heights /\ cursor' >= cursor /\ cursor' >= th
        /\ blocks' \in SUBSET Heights
        /\ IndexInv'
    <2>1. \A h \in 0..th : h \in {th} \/ h <= cursor
      BY <1>2 DEF IInv, TypeOK
    <2>2. QED
      BY <1>1, <1>2, <2>1, CommitKeepsIndex
  <1>4. blocks' = blocks \cup {th}
    BY <1>1 DEF CommitBlocks, InsertBatch
  <1>5. \/ tpc' = "push" /\ faults' = faults
        \/ tpc' = "down" /\ faults' \in 0..MaxFaults
    BY DEF TailCommit, TailCommitUnknown, Fault, IInv, TypeOK
  <1>6. TypeOK'
    BY <1>1, <1>3, <1>5 DEF IInv, TypeOK, TailPC
  <1>7. BackfillInv'
    BY <1>1, <1>3, <1>4, BackfillNotDisturbed DEF bfVars
  <1>8. TailInv'
    <2>1. th \in 0..(cursor' + 1)
      <3>1. cursor \in Int /\ cursor' \in Int
        BY <1>3 DEF IInv, TypeOK
      <3>2. QED
        BY <1>2, <1>3, <3>1, StartStaysBelow
    <2>2. QED
      BY <1>1, <1>4, <1>5, <2>1 DEF IInv, TailInv
  <1>9. PushInv'
    BY <1>1, <1>4, <1>5 DEF IInv, TypeOK, PushInv, PushedOnce
  <1>10. QED
    BY <1>3, <1>6, <1>7, <1>8, <1>9 DEF IInv

\* Stepping the cursor over a height that answered 404.
LEMMA SkipKeepsIInv ==
  ASSUME IInv, BackfillGap \/ TailMissing
  PROVE  IInv'
  <1> USE SyncAssumption
      DEF IInv, TypeOK, Heights, NoTip, MissingAt, chainVars, bfVars, tailVars, gateVars
  <1>1. ASSUME NEW h \in 0..(cursor + 1), h <= tip - SafeLag, MissingAt(h),
               WriteCursor(h), UNCHANGED <<tip, blocks>>
        PROVE  IndexInv' /\ cursor' \in Heights /\ cursor' >= cursor /\ cursor' >= h
    BY <1>1 DEF IndexInv, SafeLagKept, WriteCursor, Larger
  <1>2. CASE BackfillGap
    <2>1. bnext \in 0..(cursor + 1) /\ bnext <= tip - SafeLag /\ MissingAt(bnext)
      <3>1. bnext >= 0 /\ \A h \in 0..(bnext - 1) : h <= cursor
        BY <1>2 DEF BackfillGap, BackfillInv, Walking
      <3>2. bnext <= cursor + 1
        <4>1. cursor \in Int /\ cursor >= -1 /\ bnext \in Nat
          BY <3>1
        <4>2. QED
          BY <3>1, <4>1, CoveredEndsBelow
      <3>3. QED
        BY <1>2, <3>1, <3>2 DEF BackfillGap, BackfillInv, Walking
    <2>2. IndexInv' /\ cursor' \in Heights /\ cursor' >= cursor /\ cursor' >= bnext
      BY <1>1, <1>2, <2>1 DEF BackfillGap
    <2>3. TypeOK'
      BY <1>2, <2>2 DEF BackfillGap, BackfillPC
    <2>7. TailInv'
      BY <1>2, <2>2, TailNotDisturbed DEF BackfillGap
    <2>4. BackfillInv'
      <3>1. bpc' = "walk" /\ bnext' = bnext + 1 /\ buf = {} /\ UNCHANGED <<bcap, buf, tip>>
        BY <1>2 DEF BackfillGap, BackfillInv
      <3>2. bnext <= bcap /\ bcap <= tip - SafeLag
        BY <1>2 DEF BackfillGap, BackfillInv, Walking
      <3>3. \A h \in 0..bnext : h <= cursor'
        BY <2>1, <2>2
      <3>4. QED
        BY <2>1, <3>1, <3>2, <3>3 DEF BackfillInv, Walking
    <2>5. PushInv'
      BY <1>2 DEF BackfillGap, PushInv, PushedOnce
    <2>6. QED
      BY <2>2, <2>3, <2>4, <2>5, <2>7
  <1>3. CASE TailMissing
    <2>1. th \in 0..(cursor + 1) /\ th <= tip - SafeLag
      BY <1>3 DEF TailMissing, TailInv
    <2>2. IndexInv' /\ cursor' \in Heights /\ cursor' >= cursor /\ cursor' >= th
      BY <1>1, <1>3, <2>1 DEF TailMissing
    <2>3. TypeOK'
      BY <1>3, <2>1, <2>2 DEF TailMissing
    <2>4. BackfillInv'
      BY <1>3, <2>2, BackfillNotDisturbed DEF TailMissing
    <2>7. TailInv'
      <3>1. th' \in 0..(cursor' + 1)
        <4>1. th' = th + 1 /\ th \in 0..cursor' /\ cursor' \in Int
          BY <1>3, <2>1, <2>2 DEF TailMissing
        <4>2. QED
          BY <4>1, SuccessorStaysBelow
      <3>2. QED
        BY <1>3, <3>1 DEF TailMissing, TailInv
    <2>5. PushInv'
      BY <1>3 DEF TailMissing, PushInv, PushedOnce
    <2>6. QED
      BY <2>2, <2>3, <2>4, <2>5, <2>7
  <1>4. QED
    BY <1>2, <1>3

\* Pushing a committed height's rows to analytics.
LEMMA PushKeepsIInv ==
  ASSUME IInv, BackfillPush \/ TailPush
  PROVE  IInv'
  <1> USE SyncAssumption DEF Heights, NoTip, chainVars, dbVars, bfVars, tailVars, gateVars
  <1>1. ASSUME NEW w \in {"backfill", "tail"}, NEW h \in Heights,
               PushRow(w, h), pushed[w][h] = 0
        PROVE  /\ pushed' \in [{"backfill", "tail"} -> [Heights -> Nat]]
               /\ \A v \in {"backfill", "tail"}, g \in Heights :
                    pushed'[v][g] = IF v = w /\ g = h THEN 1 ELSE pushed[v][g]
    BY <1>1 DEF IInv, TypeOK, PushRow
  <1>2. CASE BackfillPush
    <2> DEFINE h == Lowest(buf)
    <2>1. h \in buf /\ h \in Heights /\ h \in blocks /\ pushed["backfill"][h] = 0
      <3>1. bpc = "push" /\ buf # {} /\ buf \in SUBSET Heights /\ buf \subseteq blocks
        BY <1>2 DEF BackfillPush, IInv, TypeOK, BackfillInv
      <3>2. h \in buf
        BY <3>1, LowestIsMember
      <3>3. QED
        BY <3>1, <3>2 DEF IInv, PushInv, TypeOK
    <2>2. PushRow("backfill", h) /\ buf' = buf \ {h}
      BY <1>2 DEF BackfillPush
    <2> HIDE DEF h
    <2>3. /\ pushed' \in [{"backfill", "tail"} -> [Heights -> Nat]]
          /\ \A v \in {"backfill", "tail"}, g \in Heights :
                pushed'[v][g] = IF v = "backfill" /\ g = h THEN 1 ELSE pushed[v][g]
      BY <1>1, <2>1, <2>2
    <2>4. TypeOK'
      BY <1>2, <2>1, <2>2, <2>3 DEF BackfillPush, IInv, TypeOK, BackfillPC
    <2>5. BackfillInv'
      <3>1. /\ bpc = "push" /\ UNCHANGED <<bnext, bcap, bthen, tip, cursor, blocks>>
            /\ bpc' = IF buf' = {} THEN bthen ELSE "push"
        BY <1>2 DEF BackfillPush
      <3>2. bthen \in {"walk", "gap", "idle"} /\ bnext \in Int /\ cursor \in Int
        BY DEF IInv, TypeOK
      <3>3. \A g \in 0..(bnext - 1) : g <= cursor
        BY <3>1, <3>2 DEF IInv, BackfillInv
      <3>4. QED
        BY <2>2, <3>1, <3>2, <3>3 DEF IInv, BackfillInv, Walking, MissingAt
    <2>6. TailInv' /\ IndexInv'
      BY <1>2 DEF BackfillPush, IInv, TailInv, IndexInv, SafeLagKept
    <2>7. PushInv'
      <3>1. PushedOnce'
        <4>1. blocks' = blocks
          BY <1>2 DEF BackfillPush
        <4>2. PushedOnce
          BY DEF IInv, PushInv
        <4>3. ASSUME NEW v \in {"backfill", "tail"}, NEW g \in Heights
              PROVE  pushed'[v][g] <= 1 /\ (pushed'[v][g] = 1 => g \in blocks')
          <5>1. CASE v = "backfill" /\ g = h
            BY <2>1, <2>3, <4>1, <4>3, <5>1
          <5>2. CASE ~(v = "backfill" /\ g = h)
            <6>1. pushed'[v][g] = pushed[v][g]
              BY <2>3, <4>3, <5>2
            <6>2. QED
              BY <4>1, <4>2, <4>3, <6>1 DEF PushedOnce
          <5>3. QED
            BY <5>1, <5>2
        <4>4. QED
          BY <4>3 DEF PushedOnce
      <3>2. h < bnext /\ UNCHANGED <<bnext, th, tpc>> /\ bpc = "push"
        BY <1>2, <2>1 DEF BackfillPush, IInv, BackfillInv, Walking
      <3>3. \A g \in Heights : pushed'["backfill"][g] # 0 => g < bnext' /\ g \notin buf'
        BY <2>2, <2>3, <3>2 DEF IInv, PushInv
      <3>4. tpc' \in {"ingest", "push"} =>
              \A g \in Heights : pushed'["tail"][g] # 0 => g < th'
        BY <2>3, <3>2 DEF IInv, PushInv
      <3>5. QED
        BY <3>1, <3>3, <3>4 DEF PushInv
    <2>8. QED
      BY <2>4, <2>5, <2>6, <2>7 DEF IInv
  <1>3. CASE TailPush
    <2>1. th \in Heights /\ th \in blocks /\ th <= cursor /\ pushed["tail"][th] = 0
      BY <1>3 DEF TailPush, IInv, TypeOK, TailInv, IndexInv, PushInv
    <2>2. PushRow("tail", th)
      BY <1>3 DEF TailPush
    <2>3. /\ pushed' \in [{"backfill", "tail"} -> [Heights -> Nat]]
          /\ \A v \in {"backfill", "tail"}, g \in Heights :
                pushed'[v][g] = IF v = "tail" /\ g = th THEN 1 ELSE pushed[v][g]
      BY <1>1, <2>1, <2>2
    <2>4. TypeOK'
      BY <1>3, <2>3 DEF TailPush, IInv, TypeOK, TailPC
    <2>5. TailInv'
      BY <1>3, <2>1 DEF TailPush, IInv, TypeOK, TailInv
    <2>6. BackfillInv' /\ IndexInv'
      BY <1>3 DEF TailPush, IInv, BackfillInv, Walking, MissingAt, IndexInv, SafeLagKept
    <2>7. PushInv'
      <3>1. /\ pushed'["tail"][th] = 1
            /\ \A g \in Heights : g # th => pushed'["tail"][g] = pushed["tail"][g]
            /\ \A g \in Heights : pushed'["backfill"][g] = pushed["backfill"][g]
        BY <2>1, <2>3
      <3>2. th' = th + 1 /\ UNCHANGED <<bpc, bnext, buf, blocks>> /\ tpc = "push"
        BY <1>3 DEF TailPush
      <3>3. PushedOnce'
        BY <2>1, <3>1, <3>2 DEF IInv, PushInv, PushedOnce
      <3>4. \A g \in Heights : pushed'["tail"][g] # 0 => g < th'
        <4>1. \A g \in Heights : pushed["tail"][g] # 0 => g < th
          BY <3>2 DEF IInv, PushInv
        <4>2. \A g \in Heights : g < th => g < th'
          BY <2>1, <3>2
        <4>3. th < th'
          BY <2>1, <3>2
        <4>4. QED
          BY <3>1, <4>1, <4>2, <4>3
      <3>5. QED
        BY <3>1, <3>2, <3>3, <3>4 DEF IInv, PushInv
    <2>8. QED
      BY <2>4, <2>5, <2>6, <2>7 DEF IInv
  <1>4. QED
    BY <1>2, <1>3

\* Every step of the process keeps the invariant.
LEMMA NextIInv == IInv /\ [Next]_vars => IInv'
  <1> SUFFICES ASSUME IInv, [Next]_vars PROVE IInv'
    OBVIOUS
  <1>1. CASE UNCHANGED vars
    BY <1>1 DEF vars, chainVars, dbVars, bfVars, tailVars, gateVars, IInv, TypeOK,
       BackfillInv, Walking, MissingAt, TailInv, IndexInv, SafeLagKept, PushInv, PushedOnce
  <1>2. CASE Next
    BY <1>2, QuietStepKeepsIInv, BackfillCommitKeepsIInv, TailCommitKeepsIInv,
       SkipKeepsIInv, PushKeepsIInv DEF Next, Backfill, Tail
  <1>3. QED
    BY <1>1, <1>2

\* The inductive invariant holds in every reachable state of both loops.
LEMMA SpecIInv == Spec => []IInv
  BY InitIInv, NextIInv, PTL DEF Spec

-----------------------------------------------------------------------------
(***************************************************************************)
(* What follows for the readers of the database.                           *)
(***************************************************************************)

\* Type correctness of the two loops, the gate and the database.
THEOREM TypeCorrect == Spec => []TypeOK
  BY SpecIInv, PTL DEF IInv

\* With current endpoints the database is exactly the chain up to the cursor:
\* run_backfill, run_tail and write_cursor's GREATEST together.
THEOREM IndexIsExact == ASSUME Lagging = FALSE PROVE Spec => []IndexExact
  <1>1. IInv => IndexExact
    BY DEF IInv, IndexInv, IndexExact
  <1>2. QED
    BY <1>1, SpecIInv, PTL

\* Neither loop writes closer to the tip than safe_lag.
THEOREM SafeLagIsKept == Spec => []SafeLagKept
  <1>1. IInv => SafeLagKept
    BY DEF IInv, IndexInv
  <1>2. QED
    BY <1>1, SpecIInv, PTL

\* A loop pushes a height's rows at most once, and only committed ones.
THEOREM RowsPushedOnce == Spec => []PushedOnce
  <1>1. IInv => PushedOnce
    BY DEF IInv, PushInv
  <1>2. QED
    BY <1>1, SpecIInv, PTL

\* The tip is stashed behind a gate that is taken while the one task that offers
\* tips is outside handle_finalized: nobody holds what the gate says is held.
StashMeansLeaked ==
  pending # NoTip => inflight /\ tpc \in {"down", "stream", "exited"}

\* Why StashPickedUp fails: in the deployed process every stash is made behind a
\* gate that an error of handle_finalized leaked, never behind a worker.
THEOREM StashIsLeaked == Spec => []StashMeansLeaked
  <1>1. IInv => StashMeansLeaked
    BY DEF IInv, TypeOK, TailInv, StashMeansLeaked, TailPC, NoTip
  <1>2. QED
    BY <1>1, SpecIInv, PTL

-----------------------------------------------------------------------------
(***************************************************************************)
(* Steps of the database: the chain grows, or the database grows, or       *)
(* neither changes.                                                        *)
(***************************************************************************)

\* What a step of either loop, of the chain or of the process may do to the
\* database: append up to a new cursor, or leave it alone.
LEMMA DatabaseStep ==
  ASSUME IInv, [Next]_vars
  PROVE  \/ UNCHANGED <<tip, cursor, blocks>>
         \/ tip < MaxHeight /\ tip' = tip + 1 /\ UNCHANGED <<cursor, blocks>>
         \/ tip' = tip /\ cursor' >= cursor /\ blocks \subseteq blocks'
  <1> USE DEF chainVars, dbVars
  <1>1. CASE ChainGrows
    BY <1>1 DEF ChainGrows
  <1>2. IInv'
    BY NextIInv
  <1>3. cursor \in Int /\ cursor' \in Int
    BY <1>2, SyncAssumption DEF IInv, TypeOK, Heights
  <1>4. ASSUME NEW S, CommitBlocks(S), Highest(S) \in Int
        PROVE  cursor' >= cursor /\ blocks \subseteq blocks'
    BY <1>3, <1>4 DEF CommitBlocks, InsertBatch, WriteCursor, Larger
  <1>5. CASE BackfillCommit \/ BackfillCommitUnknown
    <2>1. bpc = "flush" /\ CommitBlocks(buf) /\ tip' = tip
      BY <1>5 DEF BackfillCommit, BackfillCommitUnknown
    <2>2. /\ buf \in SUBSET Int /\ bnext - 1 \in buf
          /\ \A h \in buf : bnext - 1 >= h
      BY <2>1, SyncAssumption DEF IInv, TypeOK, Heights, BackfillInv, Walking
    <2>3. Highest(buf) = bnext - 1 /\ bnext - 1 \in Int
      BY <2>2, HighestIsMax
    <2>4. QED
      BY <1>4, <2>1, <2>3
  <1>6. CASE TailCommit \/ TailCommitUnknown
    <2>1. CommitBlocks({th}) /\ tip' = tip /\ th \in Int
      BY <1>6 DEF TailCommit, TailCommitUnknown, IInv, TypeOK
    <2>2. Highest({th}) = th
      BY <2>1, HighestIsMax
    <2>3. QED
      BY <1>4, <2>1, <2>2
  <1>7. CASE BackfillGap \/ TailMissing
    BY <1>3, <1>7 DEF BackfillGap, TailMissing, WriteCursor, Larger, IInv, TypeOK
  <1>8. CASE UNCHANGED vars
    BY <1>8 DEF vars
  <1>9. QED
    BY <1>1, <1>5, <1>6, <1>7, <1>8
    DEF Next, Backfill, Tail, BackfillReadCursor, BackfillReadTip, BackfillTake,
        BackfillMissing, BackfillFinish, BackfillPush, BackfillExit, BackfillError,
        TailConnect, TailCancelled, TailReadCursor, TailPush, TailRelease,
        TailDropped, TailEvent, TailError, Shutdown, Restart, Crash, Boot

\* The cursor and the stored blocks only grow: GREATEST in write_cursor, ON
\* CONFLICT DO NOTHING in the inserts, and no delete in either loop.
THEOREM CursorIsMonotonic == Spec => CursorMonotonic
  <1>1. IInv /\ [Next]_vars =>
          [cursor' >= cursor /\ blocks \subseteq blocks']_<<cursor, blocks>>
    BY DatabaseStep
  <1>2. QED
    BY <1>1, SpecIInv, PTL DEF Spec, CursorMonotonic

\* The synchronisation core implements the append-only prefix IndexedChain:
\* a commit that brings new heights is one Append, every other step a stutter.
THEOREM ImplementsAbstract ==
  ASSUME Lagging = FALSE
  PROVE  Spec => ImplementsIndexedChain
  <1> USE DEF Abstract!AbsInit, Abstract!AbsNext, Abstract!Grow, Abstract!Append, Abstract!absVars
  <1>1. Init => Abstract!AbsInit
    BY DEF Init
  <1>2. IInv /\ [Next]_vars => [Abstract!AbsNext]_Abstract!absVars
    <2> SUFFICES ASSUME IInv, [Next]_vars
                 PROVE  [Abstract!AbsNext]_Abstract!absVars
      OBVIOUS
    <2>1. IInv'
      BY NextIInv
    <2>2. /\ blocks = (0..cursor) \ Damaged
          /\ blocks' = (0..cursor') \ Damaged
      BY <2>1 DEF IInv, IndexInv
    <2>3. cursor \in Int /\ cursor' \in Int /\ tip' \in Int /\ cursor >= -1
      <3>1. /\ cursor \in (0..MaxHeight) \cup {-1}
            /\ cursor' \in (0..MaxHeight) \cup {-1}
            /\ tip' \in 0..MaxHeight
        BY <2>1 DEF IInv, TypeOK, Heights
      <3>2. QED
        BY <3>1, SyncAssumption
    <2>4. cursor' = -1 \/ cursor' <= tip' - SafeLag
      BY <2>1 DEF IInv, IndexInv, SafeLagKept
    <2>5. ASSUME tip' = tip, cursor' >= cursor
          PROVE  [Abstract!AbsNext]_Abstract!absVars
      <3>1. CASE cursor' = cursor
        BY <2>2, <2>5, <3>1
      <3>2. CASE cursor' > cursor
        <4>1. cursor' \in (cursor + 1)..(tip - SafeLag)
          BY <2>3, <2>4, <2>5, <3>2, SyncAssumption
        <4>2. blocks' = blocks \cup (((cursor + 1)..cursor') \ Damaged)
          <5>1. 0..cursor' = (0..cursor) \cup ((cursor + 1)..cursor')
            BY <2>3, <3>2
          <5>2. QED
            BY <2>2, <5>1
        <4>3. QED
          BY <2>5, <4>1, <4>2
      <3>3. QED
        BY <2>3, <2>5, <3>1, <3>2
    <2>6. QED
      BY <2>5, DatabaseStep
  <1>3. QED
    BY <1>1, <1>2, SpecIInv, PTL DEF Spec, ImplementsIndexedChain, Abstract!AbsSpec
=============================================================================
