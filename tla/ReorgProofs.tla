----------------------------- MODULE ReorgProofs -----------------------------
(***************************************************************************)
(* The reorg checker's safety for any chain height, number of rollbacks,   *)
(* lag, batch size, probe depth and set of damaged heights.                *)
(*                                                                         *)
(* Two facts carry the proofs.  What is stored, or fetched to be stored,   *)
(* above the tip comes from a branch the chain has left, so a growing      *)
(* chain cannot make it right again.  And a row is never replaced, so that *)
(* what a pass has looked at stays as it is, except where there was no row *)
(* and a loop inserts one.                                                 *)
(***************************************************************************)
EXTENDS Reorg, WellFoundedInduction, TLAPS

\* Branch numbers: none is newer than the current one, and above the tip
\* everything stored or fetched is older.
BranchInv ==
  /\ \A h \in Heights : chain[h] <= fork /\ block[h] <= fork
  /\ \A h \in Heights : h > tip => block[h] < fork
  /\ \A i \in Ingesters, h \in Heights : buf[i][h] <= fork /\ (h > tip => buf[i][h] < fork)

\* A walk is within its bounds, and holds no damaged block.
IngestInv ==
  /\ \A i \in Ingesters : icap[i] <= MaxHeight
  /\ \A i \in Ingesters : ipc[i] \in {"fetch", "commit", "gap"} => ih[i] <= icap[i]
  /\ \A i \in Ingesters, h \in Damaged : buf[i][h] = NoBlock
  /\ \A h \in Damaged : block[h] = NoBlock

\* A pass stays at or below its probe, which the cursor has reached.
RangeInv ==
  /\ cpc # "idle" => probe <= cursor
  /\ cpc \in {"walk", "rewind", "rewound"} => at <= probe

\* While walking, and until the delete, the block at the divergence is wrong.
DivergenceInv ==
  cpc \in {"walk", "rewind"} => /\ block[at] # NoBlock
                                /\ at <= tip => block[at] # chain[at]

\* A height where a pass may stop, or where a loop has inserted a row since.
Halt(g) == Stop(g) \/ g \in inserted

\* What a pass on a chain that stood still has found out.
PassInv ==
  quiet =>
    /\ cpc = "done" => Halt(probe)
    /\ cpc \in {"rewind", "rewound"} => at = 0 \/ Halt(at - 1)
    /\ cpc = "rewound" => \A h \in at..probe : block[h] = NoBlock \/ h \in inserted

IInv == TypeOK /\ BranchInv /\ IngestInv /\ RangeInv /\ DivergenceInv /\ PassInv

-----------------------------------------------------------------------------

\* An empty database on the first branch.
LEMMA InitIInv == Init => IInv
  <1> SUFFICES ASSUME Init PROVE IInv
    OBVIOUS
  <1> USE ReorgAssumption DEF Init, Heights, Forks, NoBlock, NoBlocks
  <1>1. quiet \in BOOLEAN
    OBVIOUS
  <1>2. TypeOK
    BY <1>1 DEF TypeOK
  <1>3. BranchInv /\ IngestInv
    BY DEF BranchInv, IngestInv
  <1>4. RangeInv /\ DivergenceInv /\ PassInv
    BY DEF RangeInv, DivergenceInv, PassInv
  <1>5. QED
    BY <1>2, <1>3, <1>4 DEF IInv

\* A new block is on the current branch; what was stored or fetched above the tip
\* is not.
LEMMA ChainGrowsKeepsIInv == ASSUME IInv, ChainGrows PROVE IInv'
  <1> USE ReorgAssumption DEF IInv, Heights, Forks, NoBlock, ChainGrows, dbVars, ingestVars
  <1>0. quiet' \in BOOLEAN /\ (quiet' => cpc = "idle")
    BY Zenon
  <1>1. /\ TypeOK'
        /\ tip' = tip + 1 /\ tip' \in Heights
        /\ \A h \in Heights : chain'[h] = IF h = tip + 1 THEN fork ELSE chain[h]
    BY <1>0 DEF TypeOK
  <1>2. BranchInv'
    BY <1>1 DEF BranchInv, TypeOK
  <1>3. IngestInv' /\ RangeInv'
    BY DEF IngestInv, RangeInv
  <1>4. DivergenceInv'
    BY <1>1 DEF DivergenceInv, BranchInv, TypeOK
  <1>5. PassInv'
    BY <1>0 DEF PassInv
  <1>6. QED
    BY <1>1, <1>2, <1>3, <1>4, <1>5

\* A rollback leaves everything stored or fetched on an older branch.
LEMMA ChainRollsBackKeepsIInv ==
  ASSUME IInv, NEW d \in Heights, ChainRollsBack(d)
  PROVE  IInv'
  <1> USE ReorgAssumption DEF IInv, Heights, Forks, NoBlock, ChainRollsBack, dbVars, ingestVars
  <1>0. quiet' \in BOOLEAN /\ (quiet' => cpc = "idle")
    BY Zenon
  <1>1. TypeOK' /\ tip' < tip /\ fork' = fork + 1
    BY <1>0 DEF TypeOK
  <1>2. BranchInv'
    <2>1. \A h \in Heights : /\ chain[h] \in Int /\ block[h] \in Int
                             /\ chain[h] < fork + 1 /\ block[h] < fork + 1
      BY DEF BranchInv, TypeOK
    <2>2. \A i \in Ingesters, h \in Heights : buf[i][h] \in Int /\ buf[i][h] < fork + 1
      BY DEF BranchInv, TypeOK
    <2>3. fork \in Int /\ fork' = fork + 1 /\ chain' = chain /\ block' = block /\ buf' = buf
      BY <1>1 DEF TypeOK
    <2>4. \A h \in Heights : /\ chain'[h] <= fork' /\ block'[h] <= fork'
                             /\ block'[h] < fork'
      BY <2>1, <2>3
    <2>5. \A i \in Ingesters, h \in Heights : buf'[i][h] <= fork' /\ buf'[i][h] < fork'
      BY <2>2, <2>3
    <2>6. QED
      BY <2>4, <2>5 DEF BranchInv
  <1>3. IngestInv' /\ RangeInv'
    BY DEF IngestInv, RangeInv
  <1>4. DivergenceInv'
    BY <1>1 DEF DivergenceInv, TypeOK
  <1>5. PassInv'
    BY <1>0 DEF PassInv
  <1>6. QED
    BY <1>1, <1>2, <1>3, <1>4, <1>5

-----------------------------------------------------------------------------

\* What a step does to the locals of one walk: it goes on within its bounds, or
\* ends; its buffer is what `b' says.
LEMMA WalkSteps ==
  ASSUME IInv, NEW i \in Ingesters, NEW h \in 0..(MaxHeight + 1), NEW last \in Int,
         last <= MaxHeight, WalkTo(i, h, last) \/ EndWalk(i)
  PROVE  /\ ipc' \in [Ingesters -> {"idle", "tip", "cursor", "fetch", "commit", "gap"}]
         /\ ih' \in [Ingesters -> 0..(MaxHeight + 1)]
         /\ icap' \in [Ingesters -> Int]
         /\ \A j \in Ingesters : icap'[j] <= MaxHeight
         /\ \A j \in Ingesters : ipc'[j] \in {"fetch", "commit", "gap"} => ih'[j] <= icap'[j]
         /\ \A j \in Ingesters : j # i => ipc'[j] = ipc[j] /\ ih'[j] = ih[j] /\ icap'[j] = icap[j]
         /\ ipc'[i] \in {"idle", "fetch"}
         /\ ipc'[i] = "fetch" => ih'[i] = h /\ icap'[i] = last
  <1>0. /\ ipc \in [Ingesters -> {"idle", "tip", "cursor", "fetch", "commit", "gap"}]
        /\ ih \in [Ingesters -> 0..(MaxHeight + 1)]
        /\ icap \in [Ingesters -> Int]
        /\ \A j \in Ingesters : icap[j] <= MaxHeight
        /\ \A j \in Ingesters : ipc[j] \in {"fetch", "commit", "gap"} => ih[j] <= icap[j]
        /\ MaxHeight \in Nat /\ 0 \in 0..(MaxHeight + 1)
    BY ReorgAssumption DEF IInv, TypeOK, IngestInv
  <1>1. CASE EndWalk(i)
    BY <1>0, <1>1 DEF EndWalk
  <1>2. CASE h <= last /\ WalkTo(i, h, last)
    <2>1. /\ ipc' = [ipc EXCEPT ![i] = "fetch"]
          /\ ih' = [ih EXCEPT ![i] = h] /\ icap' = [icap EXCEPT ![i] = last]
      BY <1>2 DEF WalkTo
    <2>2. \A j \in Ingesters : /\ ipc'[j] = IF j = i THEN "fetch" ELSE ipc[j]
                               /\ ih'[j] = IF j = i THEN h ELSE ih[j]
                               /\ icap'[j] = IF j = i THEN last ELSE icap[j]
      BY <1>0, <2>1
    <2>3. /\ ipc' \in [Ingesters -> {"idle", "tip", "cursor", "fetch", "commit", "gap"}]
          /\ ih' \in [Ingesters -> 0..(MaxHeight + 1)]
          /\ icap' \in [Ingesters -> Int]
      BY <1>0, <2>1
    <2>4. /\ \A j \in Ingesters : icap'[j] <= MaxHeight
          /\ \A j \in Ingesters : ipc'[j] \in {"fetch", "commit", "gap"} => ih'[j] <= icap'[j]
      BY <1>0, <1>2, <2>2
    <2>5. QED
      BY <2>2, <2>3, <2>4
  <1>3. QED
    BY <1>1, <1>2 DEF WalkTo

\* The locals of the walks, without their buffers.
WalkOK ==
  /\ ipc \in [Ingesters -> {"idle", "tip", "cursor", "fetch", "commit", "gap"}]
  /\ ih \in [Ingesters -> 0..(MaxHeight + 1)]
  /\ icap \in [Ingesters -> Int]
  /\ \A j \in Ingesters : icap[j] <= MaxHeight
  /\ \A j \in Ingesters : ipc[j] \in {"fetch", "commit", "gap"} => ih[j] <= icap[j]

\* The steps of a loop that only read: its own locals change.
LEMMA ReadsKeepIInv ==
  ASSUME IInv, UNCHANGED <<chainVars, dbVars, checkVars>>, WalkOK',
         buf' \in [Ingesters -> [Heights -> Forks \cup {NoBlock}]],
         \A i \in Ingesters, h \in Heights :
           \/ buf'[i][h] = buf[i][h]
           \/ buf'[i][h] = NoBlock
           \/ h <= tip /\ h \notin Damaged /\ buf'[i][h] = chain[h]
  PROVE  IInv'
  <1> USE ReorgAssumption DEF IInv, Heights, Forks, NoBlock, chainVars, dbVars, checkVars
  <1>1. TypeOK'
    BY DEF TypeOK, WalkOK
  <1>2. BranchInv'
    <2>1. fork \in Nat /\ tip \in Int /\ \A h \in Heights : chain[h] \in Int
      BY DEF TypeOK
    <2>2. \A i \in Ingesters, h \in Heights : buf'[i][h] <= fork /\ (h > tip => buf'[i][h] < fork)
      BY <2>1 DEF BranchInv
    <2>3. QED
      BY <2>2 DEF BranchInv
  <1>3. IngestInv'
    BY DEF IngestInv, WalkOK
  <1>4. RangeInv' /\ DivergenceInv' /\ PassInv'
    BY DEF RangeInv, DivergenceInv, PassInv, Halt, Stop, RemoteHas
  <1>5. QED
    BY <1>1, <1>2, <1>3, <1>4

\* The beginning of a walk, a fetch, a 404 and a walk that is given up.
LEMMA IngestReadsKeepsIInv ==
  ASSUME IInv, NEW i \in Ingesters, StartWalk \/ Fetch(i) \/ Missing(i) \/ IngestFails(i)
  PROVE  IInv'
  <1>0. WalkOK /\ buf \in [Ingesters -> [Heights -> Forks \cup {NoBlock}]]
        /\ cursor + 1 \in 0..(MaxHeight + 1) /\ tip - SafeLag \in Int /\ tip - SafeLag <= MaxHeight
        /\ "backfill" \in Ingesters /\ "tail" \in Ingesters
    BY ReorgAssumption DEF IInv, TypeOK, IngestInv, WalkOK, Heights, Ingesters
  <1>1. CASE BackfillReadCursor
    <2>1. WalkOK'
      BY <1>0, <1>1 DEF BackfillReadCursor, WalkOK
    <2>2. QED
      BY <1>0, <1>1, <2>1, ReadsKeepIInv DEF BackfillReadCursor
  <1>2. CASE BackfillReadTip
    <2>1. ih["backfill"] \in 0..(MaxHeight + 1)
      BY <1>0 DEF WalkOK
    <2>2. WalkOK'
      BY <1>0, <1>2, <2>1, WalkSteps DEF BackfillReadTip, WalkOK
    <2>3. QED
      BY <1>0, <1>2, <2>2, ReadsKeepIInv DEF BackfillReadTip
  <1>3. CASE TailEvent
    <2>1. WalkOK'
      BY <1>0, <1>3 DEF TailEvent, WalkOK
    <2>2. QED
      BY <1>0, <1>3, <2>1, ReadsKeepIInv DEF TailEvent
  <1>4. CASE TailReadCursor
    <2>1. icap["tail"] \in Int /\ icap["tail"] <= MaxHeight
      BY <1>0 DEF WalkOK
    <2>2. WalkOK'
      BY <1>0, <1>4, <2>1, WalkSteps DEF TailReadCursor, WalkOK
    <2>3. QED
      BY <1>0, <1>4, <2>2, ReadsKeepIInv DEF TailReadCursor
  <1>5. CASE Fetch(i)
    <2> DEFINE b == [buf[i] EXCEPT ![ih[i]] = chain[ih[i]]]
    <2>1. /\ ipc[i] = "fetch" /\ ih[i] <= icap[i] /\ icap[i] \in Int /\ icap[i] <= MaxHeight
          /\ ih[i] \in Heights /\ ih[i] + 1 \in 0..(MaxHeight + 1)
          /\ ih[i] <= tip /\ ih[i] \notin Damaged
      BY <1>0, <1>5, ReorgAssumption DEF Fetch, WalkOK, Heights, RemoteHas
    <2>2. /\ buf' = [buf EXCEPT ![i] = b]
          /\ UNCHANGED <<chainVars, dbVars, checkVars>>
          /\ \/ ipc' = [ipc EXCEPT ![i] = "commit"] /\ ih' = ih /\ icap' = icap
             \/ WalkTo(i, ih[i] + 1, icap[i])
      BY <1>5 DEF Fetch
    <2>3. WalkOK'
      <3>1. CASE ipc' = [ipc EXCEPT ![i] = "commit"] /\ ih' = ih /\ icap' = icap
        BY <1>0, <2>1, <3>1 DEF WalkOK
      <3>2. CASE WalkTo(i, ih[i] + 1, icap[i])
        BY <1>0, <2>1, <3>2, WalkSteps DEF WalkOK
      <3>3. QED
        BY <2>2, <3>1, <3>2
    <2>4. chain[ih[i]] \in Forks
      BY <2>1 DEF IInv, TypeOK
    <2>5. /\ b \in [Heights -> Forks \cup {NoBlock}]
          /\ \A h \in Heights : b[h] = IF h = ih[i] THEN chain[h] ELSE buf[i][h]
      BY <1>0, <2>1, <2>4
    <2> HIDE DEF b
    <2>6. /\ buf' \in [Ingesters -> [Heights -> Forks \cup {NoBlock}]]
          /\ \A j \in Ingesters : buf'[j] = IF j = i THEN b ELSE buf[j]
      BY <1>0, <2>2, <2>5
    <2>7. QED
      BY <2>1, <2>2, <2>3, <2>5, <2>6, ReadsKeepIInv
  <1>6. CASE Missing(i)
    <2>1. WalkOK'
      BY <1>0, <1>6 DEF Missing, WalkOK
    <2>2. QED
      BY <1>0, <1>6, <2>1, ReadsKeepIInv DEF Missing
  <1>7. CASE IngestFails(i)
    <2>0. 0 \in 0..(MaxHeight + 1) /\ 0 \in Int /\ 0 <= MaxHeight
      BY ReorgAssumption
    <2>1. WalkOK'
      BY <1>0, <1>7, <2>0, WalkSteps DEF IngestFails, WalkOK
    <2>2. /\ NoBlocks \in [Heights -> Forks \cup {NoBlock}]
          /\ \A h \in Heights : NoBlocks[h] = NoBlock
      BY DEF NoBlocks
    <2>3. /\ buf' \in [Ingesters -> [Heights -> Forks \cup {NoBlock}]]
          /\ \A j \in Ingesters : buf'[j] = IF j = i THEN NoBlocks ELSE buf[j]
      BY <1>0, <1>7, <2>2 DEF IngestFails
    <2>4. QED
      BY <1>7, <2>1, <2>2, <2>3, ReadsKeepIInv DEF IngestFails
  <1>8. QED
    BY <1>1, <1>2, <1>3, <1>4, <1>5, <1>6, <1>7 DEF StartWalk

\* A buffer that is not empty has a highest block.
LEMMA TopOfBuffer ==
  ASSUME NEW b \in [Heights -> Forks \cup {NoBlock}], b # NoBlocks
  PROVE  \E h \in Heights : /\ b[h] # NoBlock
                            /\ \A g \in Heights : b[g] # NoBlock => g <= h
  <1> DEFINE R == OpToRel(<, Nat)
             S == {h \in Heights : b[h] # NoBlock}
             T == {MaxHeight - h : h \in S}
  <1>0. MaxHeight \in Nat
    BY ReorgAssumption
  <1>1. S # {} /\ \A h \in S : h \in Heights /\ b[h] # NoBlock
    BY DEF NoBlocks
  <1>2. T \subseteq Nat /\ T # {}
    BY <1>0, <1>1 DEF Heights
  <1>3. PICK m \in T : \A n \in T : ~(<<n, m>> \in R)
    BY <1>2, NatLessThanWellFounded, WFMin
  <1>4. PICK h \in S : m = MaxHeight - h
    OBVIOUS
  <1>5. \A n \in T : ~(n < m)
    BY <1>2, <1>3 DEF OpToRel
  <1>6. ASSUME NEW g \in Heights, b[g] # NoBlock
        PROVE  g <= h
    <2>1. MaxHeight - g \in T
      BY <1>6
    <2>2. ~(MaxHeight - g < MaxHeight - h) /\ h \in Heights
      BY <1>1, <1>4, <1>5, <2>1
    <2>3. QED
      BY <1>0, <2>2 DEF Heights
  <1>7. QED
    BY <1>1, <1>4, <1>6

\* A commit inserts what was fetched where there is no row; a gap only moves the
\* cursor.  Neither lowers it, and every row a pass may have looked at is as it was.
LEMMA IngestWritesKeepsIInv ==
  ASSUME IInv, NEW i \in Ingesters, Commit(i) \/ Gap(i)
  PROVE  IInv'
  <1> USE ReorgAssumption DEF IInv, NoBlock
  <1>0. /\ MaxHeight \in Nat /\ 0 \in Nat
        /\ cursor \in Int /\ cursor >= -1 /\ cursor <= MaxHeight /\ tip \in Int /\ fork \in Nat
        /\ probe \in Heights /\ at \in Heights
        /\ \A h \in Heights : h \in Int
    BY DEF TypeOK, Heights, Forks
  <1>1. /\ tip' = tip /\ fork' = fork /\ chain' = chain
        /\ cpc' = cpc /\ probe' = probe /\ at' = at /\ quiet' = quiet
    BY DEF Commit, Gap, chainVars, checkVars
  <1>2. /\ ih[i] \in 0..(MaxHeight + 1) /\ icap[i] \in Int /\ icap[i] <= MaxHeight
        /\ ipc[i] \in {"commit", "gap"}
        /\ ih[i] \in Heights /\ ih[i] + 1 \in 0..(MaxHeight + 1)
    BY DEF TypeOK, IngestInv, Commit, Gap, Heights
  <1>3. WalkOK'
    <2>0. WalkOK
      BY DEF TypeOK, IngestInv, WalkOK
    <2>1. CASE UNCHANGED <<ipc, ih, icap>>
      BY <2>0, <2>1 DEF WalkOK
    <2>2. CASE WalkTo(i, ih[i] + 1, icap[i])
      BY <1>2, <2>2, WalkSteps DEF WalkOK
    <2>3. QED
      BY <2>1, <2>2 DEF Commit, Gap
  <1>4. /\ buf' \in [Ingesters -> [Heights -> Forks \cup {NoBlock}]]
        /\ \A j \in Ingesters, h \in Heights : buf'[j][h] = buf[j][h] \/ buf'[j][h] = NoBlock
    <2>1. /\ NoBlocks \in [Heights -> Forks \cup {NoBlock}]
          /\ \A h \in Heights : NoBlocks[h] = NoBlock
      BY DEF NoBlocks
    <2>2. buf \in [Ingesters -> [Heights -> Forks \cup {NoBlock}]]
      BY DEF TypeOK
    <2>3. buf' = [buf EXCEPT ![i] = NoBlocks] \/ buf' = buf
      BY DEF Commit, Gap
    <2>4. \A j \in Ingesters : buf'[j] = buf[j] \/ buf'[j] = NoBlocks
      BY <2>2, <2>3
    <2>5. QED
      BY <2>1, <2>2, <2>3, <2>4
  <1>5. /\ block' \in [Heights -> Forks \cup {NoBlock}]
        /\ \A h \in Heights :
             block'[h] = block[h] \/ (block[h] = NoBlock /\ block'[h] = buf[i][h])
    <2>1. block \in [Heights -> Forks \cup {NoBlock}] /\ buf[i] \in [Heights -> Forks \cup {NoBlock}]
      BY DEF TypeOK
    <2>2. CASE Commit(i)
      <3>1. block' = [h \in Heights |-> IF block[h] = NoBlock THEN buf[i][h] ELSE block[h]]
        BY <2>2 DEF Commit, InsertBlocks
      <3>2. \A h \in Heights : /\ block[h] \in Forks \cup {NoBlock}
                               /\ buf[i][h] \in Forks \cup {NoBlock}
        BY <2>1
      <3>3. block' \in [Heights -> Forks \cup {NoBlock}]
        BY <3>1, <3>2, Zenon
      <3>4. QED
        BY <3>1, <3>3
    <2>3. CASE Gap(i)
      <3>1. block' = block
        BY <2>3 DEF Gap
      <3>2. QED
        BY <2>1, <3>1
    <2>4. QED
      BY <2>2, <2>3
  <1>6. /\ cursor' \in Heights \cup {-1} /\ cursor' >= cursor
    <2>1. CASE Commit(i)
      <3> DEFINE top == CHOOSE h \in Heights :
                          /\ buf[i][h] # NoBlock
                          /\ \A g \in Heights : buf[i][g] # NoBlock => g <= h
      <3>1. cursor' = Larger(cursor, top)
        BY <2>1 DEF Commit, WriteCursor
      <3>2. top \in Heights
        <4>1. PICK h \in Heights : /\ buf[i][h] # NoBlock
                                   /\ \A g \in Heights : buf[i][g] # NoBlock => g <= h
          <5>1. buf[i] \in [Heights -> Forks \cup {NoBlock}] /\ buf[i] # NoBlocks
            BY <2>1 DEF TypeOK, Commit
          <5>2. QED
            BY <5>1, TopOfBuffer
        <4>2. QED
          BY <4>1
      <3> HIDE DEF top
      <3>3. QED
        BY <1>0, <3>1, <3>2 DEF Larger, Heights
    <2>2. CASE Gap(i)
      BY <1>0, <1>2, <2>2 DEF Gap, WriteCursor, Larger, Heights
    <2>3. QED
      BY <2>1, <2>2
  <1>7. /\ inserted' \subseteq Heights /\ inserted \subseteq inserted'
        /\ cpc # "idle" => \A h \in 0..probe : block'[h] # block[h] => h \in inserted'
    <2>1. inserted \subseteq Heights /\ 0..probe \subseteq Heights
      BY <1>0 DEF TypeOK, Heights
    <2>2. CASE Commit(i)
      BY <1>5, <2>1, <2>2 DEF Commit
    <2>3. CASE Gap(i)
      BY <2>1, <2>3 DEF Gap, checkVars
    <2>4. QED
      BY <2>2, <2>3
  <1>8. TypeOK'
    BY <1>1, <1>3, <1>4, <1>5, <1>6, <1>7 DEF TypeOK, WalkOK
  <1>9. BranchInv'
    <2>1. \A h \in Heights : block'[h] <= fork /\ (h > tip => block'[h] < fork)
      BY <1>0, <1>5 DEF BranchInv
    <2>2. \A j \in Ingesters, h \in Heights : buf'[j][h] <= fork /\ (h > tip => buf'[j][h] < fork)
      BY <1>0, <1>4 DEF BranchInv
    <2>3. QED
      BY <1>1, <2>1, <2>2 DEF BranchInv
  <1>10. IngestInv'
    BY <1>3, <1>4, <1>5 DEF IngestInv, WalkOK, Heights
  <1>11. RangeInv'
    BY <1>0, <1>1, <1>6 DEF RangeInv, Heights
  <1>12. DivergenceInv'
    BY <1>0, <1>1, <1>5 DEF DivergenceInv
  <1>13. PassInv'
    <2>1. cpc # "idle" => \A g \in 0..probe : Halt(g) => Halt(g)'
      BY <1>1, <1>7 DEF Halt, Stop, RemoteHas
    <2>2. cpc # "idle" => \A h \in 0..probe :
            block[h] = NoBlock \/ h \in inserted => block'[h] = NoBlock \/ h \in inserted'
      BY <1>7
    <2>3. probe \in 0..probe /\ (cpc \in {"rewind", "rewound"} /\ at # 0 => at - 1 \in 0..probe)
          /\ (cpc = "rewound" => at..probe \subseteq 0..probe)
      BY <1>0 DEF RangeInv, Heights
    <2>4. QED
      BY <1>1, <2>1, <2>2, <2>3 DEF PassInv
  <1>14. QED
    BY <1>8, <1>9, <1>10, <1>11, <1>12, <1>13

-----------------------------------------------------------------------------

\* A pass begins with a probe at or below the cursor.
LEMMA CheckStartKeepsIInv == ASSUME IInv, CheckStart PROVE IInv'
  <1> USE ReorgAssumption DEF IInv, Heights, Forks, NoBlock, CheckStart, chainVars, dbVars, ingestVars
  <1>1. probe' \in 0..cursor /\ cursor <= MaxHeight
    BY DEF TypeOK, Larger
  <1>2. TypeOK'
    BY <1>1 DEF TypeOK
  <1>3. BranchInv' /\ IngestInv'
    BY DEF BranchInv, IngestInv
  <1>4. RangeInv' /\ DivergenceInv' /\ PassInv'
    BY <1>1 DEF RangeInv, DivergenceInv, PassInv, TypeOK
  <1>5. QED
    BY <1>2, <1>3, <1>4

\* The probe, and one iteration of the walk.
LEMMA CheckReadsKeepsIInv ==
  ASSUME IInv, CheckProbe \/ WalkBack
  PROVE  IInv'
  <1> USE ReorgAssumption DEF IInv, Heights, Forks, NoBlock
  <1>1. UNCHANGED <<chainVars, dbVars, ingestVars, probe, quiet, inserted>>
    BY DEF CheckProbe, WalkBack
  <1>2. BranchInv' /\ IngestInv'
    BY <1>1 DEF BranchInv, IngestInv, chainVars, dbVars, ingestVars
  <1>3. CASE CheckProbe
    <2> USE <1>1, <1>3 DEF CheckProbe, LocalHas, RemoteHas, chainVars, dbVars, ingestVars
    <2>1. TypeOK'
      BY DEF TypeOK
    <2>2. RangeInv' /\ DivergenceInv'
      BY DEF RangeInv, DivergenceInv, TypeOK
    <2>3. PassInv'
      BY DEF PassInv, Halt, Stop
    <2>4. QED
      BY <1>2, <2>1, <2>2, <2>3
  <1>4. CASE WalkBack
    <2> USE <1>1, <1>4 DEF WalkBack, LocalHas, RemoteHas, chainVars, dbVars, ingestVars
    <2>1. TypeOK'
      BY DEF TypeOK
    <2>2. RangeInv' /\ DivergenceInv'
      BY DEF RangeInv, DivergenceInv, TypeOK
    <2>3. PassInv'
      BY DEF PassInv, Halt, Stop
    <2>4. QED
      BY <1>2, <2>1, <2>2, <2>3
  <1>5. QED
    BY <1>3, <1>4

\* The delete takes rows at and above the divergence; the cursor, which is not
\* below it, stays where it was.
LEMMA RewindToKeepsIInv == ASSUME IInv, RewindTo PROVE IInv'
  <1> USE ReorgAssumption DEF IInv, Heights, Forks, NoBlock, RewindTo, chainVars, ingestVars
  <1>1. /\ cursor' = cursor
        /\ at \in Heights /\ probe \in Heights
        /\ \A h \in Heights : block'[h] = IF h >= at THEN NoBlock ELSE block[h]
    BY DEF WriteCursor, Larger, DeleteFrom, RangeInv, TypeOK
  <1>2. TypeOK'
    <2>1. block' \in [Heights -> Forks \cup {NoBlock}]
      <3>1. /\ \A h \in Heights : block[h] \in Forks \cup {NoBlock}
            /\ block' = [h \in Heights |-> IF h >= at THEN NoBlock ELSE block[h]]
        BY DEF TypeOK, DeleteFrom
      <3>2. QED
        BY <3>1, Zenon
    <2>2. /\ tip' = tip /\ fork' = fork /\ chain' = chain /\ cursor' = cursor /\ ipc' = ipc
          /\ ih' = ih /\ icap' = icap /\ buf' = buf /\ cpc' = "rewound" /\ probe' = probe
          /\ at' = at /\ quiet' = quiet /\ inserted' = inserted
      BY <1>1
    <2>3. TypeOK
      OBVIOUS
    <2> HIDE DEF IInv, Heights, Forks, NoBlock, RewindTo
    <2>4. quiet' \in BOOLEAN
      BY <2>2, <2>3, Zenon DEF TypeOK
    <2>5. cpc' \in {"idle", "probe", "walk", "rewind", "rewound", "done"}
      BY <2>2
    <2>6. QED
      BY <2>1, <2>2, <2>3, <2>4, <2>5, Zenon DEF TypeOK
  <1>3. BranchInv'
    <2>1. /\ tip' = tip /\ fork' = fork /\ chain' = chain /\ buf' = buf
          /\ tip \in Int /\ fork \in Nat /\ \A h \in Heights : block[h] \in Int
      BY DEF TypeOK
    <2>2. \A h \in Heights : block'[h] = block[h] \/ block'[h] = -1
      BY <1>1
    <2>3. \A h \in Heights : block'[h] <= fork /\ (h > tip => block'[h] < fork)
      BY <2>1, <2>2 DEF BranchInv
    <2>4. QED
      BY <2>1, <2>3 DEF BranchInv
  <1>4. IngestInv'
    BY <1>1 DEF IngestInv
  <1>5. RangeInv' /\ DivergenceInv'
    BY <1>1 DEF RangeInv, DivergenceInv
  <1>6. PassInv'
    <2>1. at > 0 => (Halt(at - 1) => Halt(at - 1)')
      BY <1>1 DEF Halt, Stop, RemoteHas
    <2>2. \A h \in at..probe : block'[h] = NoBlock
      BY <1>1
    <2>3. QED
      BY <1>1, <2>1, <2>2 DEF PassInv
  <1>7. QED
    BY <1>2, <1>3, <1>4, <1>5, <1>6

\* The end of a pass.
LEMMA CheckReturnsKeepsIInv == ASSUME IInv, CheckReturns PROVE IInv'
  <1> USE ReorgAssumption DEF IInv, CheckReturns, chainVars, dbVars, ingestVars
  <1>1. quiet' \in BOOLEAN
    BY Zenon
  <1>2. TypeOK'
    BY <1>1 DEF TypeOK, Heights
  <1>3. QED
    BY <1>2 DEF BranchInv, IngestInv, RangeInv, DivergenceInv, PassInv

-----------------------------------------------------------------------------

\* Every step keeps the invariant.
LEMMA NextIInv == IInv /\ [Next]_vars => IInv'
  <1> SUFFICES ASSUME IInv, [Next]_vars PROVE IInv'
    OBVIOUS
  <1>1. CASE UNCHANGED vars
    BY <1>1 DEF vars, chainVars, dbVars, ingestVars, checkVars, IInv, TypeOK, BranchInv,
                IngestInv, RangeInv, DivergenceInv, PassInv, Halt, Stop, RemoteHas
  <1>2. CASE Next
    <2>0. "tail" \in Ingesters
      BY DEF Ingesters
    <2>1. QED
      BY <1>2, <2>0, ChainGrowsKeepsIInv, ChainRollsBackKeepsIInv, IngestReadsKeepsIInv,
         IngestWritesKeepsIInv, CheckStartKeepsIInv, CheckReadsKeepsIInv, RewindToKeepsIInv,
         CheckReturnsKeepsIInv DEF Next, Ingest, Check
  <1>3. QED
    BY <1>1, <1>2

\* The invariant of the checker, the ingester and the chain together.
LEMMA SpecIInv == Spec => []IInv
  BY InitIInv, NextIInv, PTL DEF Spec

\* Type correctness, for every value of the constants.
THEOREM ReorgTypeCorrect == Spec => []TypeOK
  <1>1. IInv => TypeOK
    BY DEF IInv
  <1>2. QED
    BY <1>1, SpecIInv, PTL

\* No rewind starts at a block that is right, whatever the chain and the ingester
\* do between the walk's last look and the delete.
THEOREM RewindIsJustified == Spec => []RewindJustified
  <1>1. IInv => RewindJustified
    BY DEF IInv, DivergenceInv, RewindJustified
  <1>2. QED
    BY <1>1, SpecIInv, PTL

\* A pass on a chain that stood still leaves no stale block above the height where
\* it stopped, whatever both loops insert meanwhile.
THEOREM PassIsComplete == Spec => []VerifiedDownToStop
  <1>1. IInv => VerifiedDownToStop
    <2> SUFFICES ASSUME IInv, quiet, NEW h \in (0..probe) \ inserted, Stale(h)
                 PROVE  /\ cpc = "rewound" => \E g \in (h + 1)..(at - 1) : Halt(g)
                        /\ cpc = "done" => \E g \in (h + 1)..probe : Halt(g)
      BY DEF VerifiedDownToStop, Halt
    <2> USE ReorgAssumption DEF Heights, NoBlock
    <2>1. h \in Heights /\ probe \in Heights /\ at \in Heights
      BY DEF IInv, TypeOK
    <2>2. ~Halt(h)
      BY <2>1 DEF IInv, IngestInv, Stale, Halt, Stop, RemoteHas
    <2>3. CASE cpc = "rewound"
      <3>1. h < at
        BY <2>1, <2>3 DEF IInv, PassInv, Stale
      <3>2. Halt(at - 1)
        BY <2>1, <2>3, <3>1 DEF IInv, PassInv
      <3>3. h + 1 <= at - 1
        BY <2>1, <2>2, <3>1, <3>2
      <3>4. QED
        BY <2>1, <2>3, <3>2, <3>3
    <2>4. CASE cpc = "done"
      <3>1. Halt(probe)
        BY <2>4 DEF IInv, PassInv
      <3>2. h + 1 <= probe
        BY <2>1, <2>2, <3>1
      <3>3. QED
        BY <2>1, <2>4, <3>1, <3>2
    <2>5. QED
      BY <2>3, <2>4
  <1>2. QED
    BY <1>1, SpecIInv, PTL

-----------------------------------------------------------------------------
(***************************************************************************)
(* What becomes of the heights a rewind deletes.                           *)
(***************************************************************************)

\* The walk under way of i may still store a block at h: it has fetched one, or
\* has h before it.
Covers(i, h) ==
  \/ buf[i][h] # NoBlock
  \/ ipc[i] = "tip" /\ ih[i] <= h
  \/ ipc[i] \in {"fetch", "commit", "gap"} /\ ih[i] <= h /\ h <= icap[i]

\* The cursor has passed h, h has no block and no walk under way comes to it.
Orphan(h) ==
  h <= cursor /\ block[h] = NoBlock /\ \A i \in Ingesters : ~Covers(i, h)

OrphansStay == [][\A h \in Heights : Orphan(h) => Orphan(h)']_vars

\* A walk that goes on covers no height it did not cover, and a new one begins
\* above the cursor.
LEMMA WalkCoversNoMore ==
  ASSUME IInv, NEW h \in Heights, h <= cursor, NEW i \in Ingesters, ~Covers(i, h),
         NEW j \in Ingesters, StartWalk \/ Ingest(j) \/ IngestFails(j)
  PROVE  ~Covers(i, h)'
  <1> USE ReorgAssumption DEF IInv, Heights, NoBlock
  <1>0. /\ ih \in [Ingesters -> 0..(MaxHeight + 1)] /\ icap \in [Ingesters -> Int]
        /\ ipc \in [Ingesters -> {"idle", "tip", "cursor", "fetch", "commit", "gap"}]
        /\ buf \in [Ingesters -> [Heights -> Forks \cup {NoBlock}]]
        /\ cursor \in Int
        /\ \A k \in Ingesters : ipc[k] \in {"fetch", "commit", "gap"} => ih[k] <= icap[k]
        /\ "backfill" \in Ingesters /\ "tail" \in Ingesters
    BY DEF TypeOK, IngestInv, Ingesters
  <1>1. buf[i][h] = NoBlock
    BY DEF Covers
  <1>2. CASE StartWalk
    BY <1>0, <1>1, <1>2 DEF StartWalk, BackfillReadCursor, BackfillReadTip, TailEvent,
       TailReadCursor, WalkTo, EndWalk, Covers
  <1>3. CASE Fetch(j)
    <2>1. ipc[j] = "fetch" /\ ih[j] <= icap[j]
      BY <1>0, <1>3 DEF Fetch
    <2>2. i = j => h # ih[j]
      BY <1>0, <2>1 DEF Covers
    <2>3. buf'[i][h] = NoBlock
      BY <1>0, <1>1, <1>3, <2>2 DEF Fetch
    <2>4. \/ ipc' = [ipc EXCEPT ![j] = "commit"] /\ ih' = ih /\ icap' = icap
          \/ WalkTo(j, ih[j] + 1, icap[j])
      BY <1>3 DEF Fetch
    <2>5. QED
      BY <1>0, <2>1, <2>3, <2>4 DEF WalkTo, EndWalk, Covers
  <1>4. CASE Missing(j)
    BY <1>0, <1>1, <1>4 DEF Missing, Covers
  <1>5. CASE Commit(j) \/ Gap(j)
    <2>1. buf'[i][h] = NoBlock
      <3>1. buf' = [buf EXCEPT ![j] = NoBlocks] \/ buf' = buf
        BY <1>5 DEF Commit, Gap
      <3>2. NoBlocks[h] = NoBlock
        BY DEF NoBlocks
      <3>3. buf'[i] = buf[i] \/ buf'[i] = NoBlocks
        BY <1>0, <3>1
      <3>4. QED
        BY <1>1, <3>2, <3>3
    <2>2. ipc[j] \in {"commit", "gap"} /\ ih[j] <= icap[j]
      BY <1>0, <1>5 DEF Commit, Gap
    <2>3. \/ ipc' = ipc /\ ih' = ih /\ icap' = icap
          \/ WalkTo(j, ih[j] + 1, icap[j])
      BY <1>5 DEF Commit, Gap
    <2>4. QED
      BY <1>0, <2>1, <2>2, <2>3 DEF WalkTo, EndWalk, Covers
  <1>6. CASE IngestFails(j)
    <2>1. buf'[i][h] = NoBlock
      BY <1>0, <1>1, <1>6 DEF IngestFails, NoBlocks
    <2>2. QED
      BY <1>0, <1>6, <2>1 DEF IngestFails, EndWalk, Covers
  <1>7. QED
    BY <1>2, <1>3, <1>4, <1>5, <1>6 DEF Ingest

\* For any constants, a height that has no block while no walk under way still
\* covers it never gets one: write_cursor keeps the GREATEST, so a rewind leaves
\* the cursor above what it deletes, and every later walk of either loop begins
\* above the cursor.  Only a walk that was under way at the rewind can fill the
\* hole; this is why "Backfill re-ingests on the next tick" (reorg.rs) does not
\* hold.
THEOREM RewoundStaysGone == Spec => OrphansStay
  <1> DEFINE Step == \A h \in Heights : Orphan(h) => Orphan(h)'
  <1>1. IInv /\ [Next]_vars => [Step]_vars
    <2> SUFFICES ASSUME IInv, [Next]_vars, ~UNCHANGED vars, NEW h \in Heights, Orphan(h)
                 PROVE  Orphan(h)'
      OBVIOUS
    <2> USE ReorgAssumption DEF IInv, NoBlock
    <2>0. h <= cursor /\ block[h] = NoBlock /\ \A i \in Ingesters : ~Covers(i, h) /\ buf[i][h] = NoBlock
      BY DEF Orphan, Covers
    <2>1. CASE UNCHANGED <<dbVars, ingestVars>>
      BY <2>0, <2>1 DEF dbVars, ingestVars, Orphan, Covers
    <2>2. CASE RewindTo
      <3>1. h <= cursor' /\ block'[h] = NoBlock
        BY <2>0, <2>2 DEF RewindTo, DeleteFrom, WriteCursor, Larger, RangeInv, TypeOK, Heights
      <3>2. QED
        BY <2>0, <2>2, <3>1 DEF RewindTo, ingestVars, Orphan, Covers
    <2>3. ASSUME NEW j \in Ingesters, StartWalk \/ Ingest(j) \/ IngestFails(j)
          PROVE  Orphan(h)'
      <3>1. \A i \in Ingesters : ~Covers(i, h)'
        BY <2>0, <2>3, WalkCoversNoMore
      <3>2. CASE Commit(j) \/ Gap(j)
        <4>1. block'[h] = NoBlock
          BY <2>0, <3>2 DEF Commit, Gap, InsertBlocks
        <4>2. h \in Int /\ cursor \in Int
          BY DEF Heights, TypeOK
        <4>3. \E c : cursor' = IF cursor >= c THEN cursor ELSE c
          BY <3>2 DEF Commit, Gap, WriteCursor, Larger
        <4>4. IInv'
          BY <3>2, IngestWritesKeepsIInv
        <4>5. h <= cursor'
          BY <2>0, <4>2, <4>3, <4>4 DEF TypeOK, Heights
        <4>6. QED
          BY <3>1, <4>1, <4>5 DEF Orphan
      <3>3. CASE UNCHANGED dbVars
        BY <2>0, <3>1, <3>3 DEF dbVars, Orphan
      <3>4. QED
        BY <2>3, <3>2, <3>3 DEF StartWalk, BackfillReadCursor, BackfillReadTip, TailEvent,
           TailReadCursor, Ingest, Fetch, Missing, IngestFails
    <2>4. QED
      <3>1. "tail" \in Ingesters
        BY DEF Ingesters
      <3>2. QED
        BY <2>1, <2>2, <2>3, <3>1 DEF Next, Check, ChainGrows, ChainRollsBack,
           CheckStart, CheckProbe, WalkBack, CheckReturns
  <1>2. QED
    BY <1>1, SpecIInv, PTL DEF Spec, OrphansStay
=============================================================================
