--------------------------- MODULE CoinblastProofs ---------------------------
(***************************************************************************)
(* Proofs about Coinblast for every set of curves and impostors, every     *)
(* chunk size, lag, cache bound, chain of logs and number of faults.       *)
(***************************************************************************)
EXTENDS Coinblast, FiniteSetTheorems, WellFoundedInduction, TLAPS

(***************************************************************************)
(* The inductive invariant.  The aggregates are right because a handler    *)
(* that inserts finds its curve's row, and the row's numbers were zero as  *)
(* long as there was none.  The price is right because the trades of a     *)
(* curve are stored in the order of the chain: what is stored is closed    *)
(* under earlier logs of the same curve, from the deploy block on.  That   *)
(* in turn rests on where a chunk starts, at the block after the cursor.   *)
(***************************************************************************)

\* The chain's logs are in the order of their blocks, up to the one after tip,
\* and the factory creates curves.
LogInv ==
  /\ Len(log) <= MaxLogs
  /\ \A i \in DOMAIN log : log[i].kind = "created" => log[i].curve \in Curves
  /\ \A i \in DOMAIN log : log[i].block \in 1..(tip + 1)
  /\ \A i, j \in DOMAIN log : i <= j => log[i].block <= log[j].block

\* A known curve has its row; a curve among the non-curves was misjudged.
MemoryInv ==
  /\ known \subseteq tokens \cup {Factory}
  /\ nonCurves \cap Curves \subseteq misjudged
  /\ IsFiniteSet(nonCurves)

\* The aggregates, of curves without a row too.
RowInv ==
  /\ \A i \in trades : log[i].curve \in tokens
  /\ \A e \in Emitters : /\ count[e] = Cardinality(Stored(e, "trade"))
                         /\ e \in graduated <=> Stored(e, "graduated") # {}
  /\ \A e \in Emitters \ misjudged : price[e] = Max(Stored(e, "trade") \cup {0})

\* A log the worker owes a row: of a curve, from the deploy block on.
Due(i) ==
  /\ log[i].kind \in Pass2Kinds /\ log[i].block >= DeployBlock
  /\ log[i].curve \in Curves \ misjudged

OrderInv ==
  \A i \in trades, j \in DOMAIN log :
    j < i /\ log[j].curve = log[i].curve /\ Due(j) => j \in trades

\* The first and the second pass have gone by log i.
Past1(i) == (pc = "pass1" /\ i < pos) \/ pc \in {"pass2", "write"}
Past2(i) == (pc = "pass2" /\ i < pos) \/ pc = "write"

\* The chunk under way starts after the cursor, and the logs of it that a pass
\* has gone by are handled.
ChunkInv ==
  /\ cursor <= tip
  /\ pc \in {"tip", "pass1", "pass2", "write"} =>
       from = Larger(GetI64(DeployBlock - 1), DeployBlock - 1) + 1
  /\ pc \in {"pass1", "pass2", "write"} => from <= to /\ to <= tip
  /\ \A i \in DOMAIN log : log[i].block \in from..to =>
       /\ log[i].kind = "created" /\ Past1(i) => log[i].curve \in tokens
       /\ Due(i) /\ Past2(i) => i \in trades

IInv == TypeOK /\ LogInv /\ MemoryInv /\ RowInv /\ OrderInv /\ ChunkInv /\ ScannedIsStored

-----------------------------------------------------------------------------
(***************************************************************************)
(* Sets of logs.                                                           *)
(***************************************************************************)

\* Max is the upper bound that belongs to the set.
LEMMA MaxIs ==
  ASSUME NEW S \in SUBSET Int, NEW m \in S, \A y \in S : m >= y
  PROVE  Max(S) = m
  <1>1. \A x \in S : (\A y \in S : x >= y) => x = m
    OBVIOUS
  <1>2. QED
    BY <1>1 DEF Max

\* A pass handles the first of the logs it has left.
LEMMA MinIs ==
  ASSUME NEW S \in SUBSET Nat, S # {}
  PROVE  Min(S) \in S /\ \A y \in S : Min(S) <= y
  <1> DEFINE R == OpToRel(<, Nat)
  <1>1. \E x \in S : \A y \in S : ~ (<<y, x>> \in R)
    <2>1. IsWellFoundedOn(R, Nat)
      BY NatLessThanWellFounded
    <2> HIDE DEF R
    <2>2. QED
      BY <2>1, WFMin
  <1>2. PICK x \in S : \A y \in S : ~ (<<y, x>> \in R)
    BY <1>1
  <1>3. R = {ss \in Nat \X Nat : ss[1] < ss[2]}
    BY DEF OpToRel
  <1> HIDE DEF R
  <1>4. ASSUME NEW y \in S PROVE x <= y
    <2>1. <<y, x>> \in R <=> y < x
      BY <1>3
    <2>2. QED
      BY <1>2, <2>1
  <1>5. QED
    BY <1>4 DEF Min

\* The parts of a log.
LEMMA LogParts ==
  ASSUME TypeOK
  PROVE  /\ Len(log) \in Nat /\ DOMAIN log = 1..Len(log)
         /\ \A i \in DOMAIN log : /\ i \in Nat /\ log[i].block \in Nat
                                  /\ log[i].kind \in Kinds /\ log[i].curve \in Emitters
  <1>1. log \in Seq(Logs) /\ MaxHeight \in Nat
    BY CoinblastAssumption DEF TypeOK
  <1>2. Len(log) \in Nat /\ DOMAIN log = 1..Len(log) /\ \A i \in DOMAIN log : log[i] \in Logs
    BY <1>1
  <1>3. QED
    BY <1>1, <1>2 DEF Logs

\* The stored logs of one curve and kind are finitely many.
LEMMA StoredFinite ==
  ASSUME TypeOK, NEW e, NEW k
  PROVE  /\ Stored(e, k) \subseteq Nat /\ IsFiniteSet(Stored(e, k))
         /\ Cardinality(Stored(e, k)) \in Nat
  <1>1. IsFiniteSet(1..Len(log))
    BY LogParts, FS_Interval
  <1>2. Stored(e, k) \subseteq 1..Len(log)
    BY LogParts DEF Stored, TypeOK
  <1>3. IsFiniteSet(Stored(e, k))
    BY <1>1, <1>2, FS_Subset
  <1>4. QED
    BY <1>2, <1>3, FS_CardinalityType

-----------------------------------------------------------------------------
(***************************************************************************)
(* Parts of the invariant that many steps leave alone.                     *)
(***************************************************************************)

\* No row of cb_trades is written: new rows of cb_tokens and new misjudgements
\* only ask less.
LEMMA RowsKept ==
  ASSUME RowInv, OrderInv, UNCHANGED <<log, count, price, graduated, trades>>,
         tokens \subseteq tokens', misjudged \subseteq misjudged'
  PROVE  RowInv' /\ OrderInv'
  <1>1. \A e, k : Stored(e, k)' = Stored(e, k)
    BY DEF Stored
  <1>2. RowInv'
    BY <1>1 DEF RowInv
  <1>3. OrderInv'
    BY DEF OrderInv, Due
  <1>4. QED
    BY <1>2, <1>3

\* The same for what the cursor covers, while it stays.
LEMMA ScanKept ==
  ASSUME ScannedIsStored, UNCHANGED <<log, cursor>>,
         tokens \subseteq tokens', trades \subseteq trades', misjudged \subseteq misjudged'
  PROVE  ScannedIsStored'
  BY DEF ScannedIsStored, Handled

\* Outside the passes a chunk asks for nothing.
LEMMA NoChunk ==
  ASSUME cursor' <= tip', pc' \in {"boot", "loop", "dead"}
  PROVE  ChunkInv'
  BY DEF ChunkInv, Past1, Past2

\* A chunk is above what the cursor covers, and reaches down to it.
LEMMA ChunkStart ==
  ASSUME TypeOK, ChunkInv, pc \in {"tip", "pass1", "pass2", "write"}
  PROVE  /\ from \in Nat /\ from >= DeployBlock
         /\ \A b \in Nat : b >= DeployBlock /\ b < from => b \in DeployBlock..cursor
  <1>1. /\ cursor \in Int /\ cursor >= -1 /\ from \in Nat /\ DeployBlock \in Nat \ {0}
    BY CoinblastAssumption DEF TypeOK
  <1>2. from = Larger(GetI64(DeployBlock - 1), DeployBlock - 1) + 1
    BY DEF ChunkInv
  <1>3. QED
    BY <1>1, <1>2 DEF Larger, GetI64

\* The log the second pass is at: everything due before it has been gone by.
LEMMA AtCurrent ==
  ASSUME IInv, NEW i, NEW e, Current(i, e)
  PROVE  /\ pc = "pass2" /\ i \in DOMAIN log /\ e = log[i].curve /\ e \in Emitters
         /\ log[i].kind \in Pass2Kinds /\ log[i].block \in from..to /\ i >= pos
         /\ \A j \in DOMAIN log :
              log[j].kind \in Pass2Kinds /\ log[j].block \in from..to => i <= j \/ j < pos
  <1> DEFINE S == Todo(Pass2Kinds)
  <1>1. /\ pc = "pass2" /\ S # {} /\ i = Min(S) /\ e = log[i].curve
    BY DEF Current
  <1>2. S = {j \in DOMAIN log : /\ log[j].block \in from..to /\ log[j].kind \in Pass2Kinds
                                /\ j >= pos}
    BY DEF Todo, LogsInRange
  <1>3. S \subseteq Nat
    BY <1>2, LogParts DEF IInv
  <1> HIDE DEF S
  <1>4. i \in S /\ \A j \in S : i <= j
    BY <1>1, <1>3, MinIs
  <1>5. pos \in Int
    BY CoinblastAssumption DEF IInv, TypeOK
  <1>6. \A j \in DOMAIN log : j \in Nat /\ log[j].curve \in Emitters
    BY LogParts DEF IInv
  <1>7. QED
    BY <1>1, <1>2, <1>4, <1>5, <1>6

\* What is due before the current log, in this chunk or below it, is stored.
LEMMA EarlierStored ==
  ASSUME IInv, NEW i, NEW e, Current(i, e), NEW j \in DOMAIN log, j < i, Due(j)
  PROVE  j \in trades
  <1>1. /\ pc = "pass2" /\ i \in DOMAIN log /\ log[i].block \in from..to
        /\ log[j].block \in from..to => j < pos
    BY AtCurrent, LogParts DEF Due, IInv
  <1>2. /\ log[j].block \in Nat /\ log[j].block <= log[i].block /\ log[j].block <= to
        /\ log[j].block >= DeployBlock /\ from \in Nat /\ to \in Nat
    BY <1>1, LogParts DEF IInv, LogInv, TypeOK, Due
  <1>3. CASE log[j].block \in from..to
    BY <1>1, <1>3 DEF IInv, ChunkInv, Past2
  <1>4. CASE log[j].block < from
    <2>1. log[j].block \in DeployBlock..cursor
      BY <1>1, <1>2, <1>4, ChunkStart DEF IInv
    <2>2. QED
      BY <2>1 DEF IInv, ScannedIsStored, Handled, Due, Pass2Kinds
  <1>5. QED
    BY <1>2, <1>3, <1>4


-----------------------------------------------------------------------------
(***************************************************************************)
(* The invariant is inductive: the chain and the worker outside run_chunk. *)
(***************************************************************************)

LEMMA InitIInv == Init => IInv
  <1> SUFFICES ASSUME Init PROVE IInv
    OBVIOUS
  <1> USE CoinblastAssumption DEF Init
  <1>1. IsFiniteSet({}) /\ Cardinality({}) = 0
    BY FS_EmptySet
  <1>2. TypeOK
    BY <1>1 DEF TypeOK
  <1>3. LogInv /\ MemoryInv /\ OrderInv /\ ScannedIsStored
    BY <1>1 DEF LogInv, MemoryInv, OrderInv, ScannedIsStored
  <1>4. ChunkInv
    BY DEF ChunkInv, Past1, Past2
  <1>5. \A e, k : Stored(e, k) = {}
    BY DEF Stored
  <1>6. Max({0}) = 0
    BY MaxIs
  <1>7. RowInv
    <2>1. \A e, k : Stored(e, k) \cup {0} = {0}
      BY <1>5
    <2>2. \A e, k : Cardinality(Stored(e, k)) = 0 /\ Max(Stored(e, k) \cup {0}) = 0
      BY <1>1, <1>5, <1>6, <2>1, Zenon
    <2>3. QED
      BY <1>5, <2>2 DEF RowInv
  <1>8. QED
    BY <1>2, <1>3, <1>4, <1>7 DEF IInv

\* A new log is above the tip, so above the cursor and above any chunk.
LEMMA EmitKeepsIInv == ASSUME IInv, NEW k \in Kinds, NEW e \in Emitters, Emit(k, e) PROVE IInv'
  <1> DEFINE r == [block |-> tip + 1, kind |-> k, curve |-> e]
             n == Len(log) + 1
  <1>1. /\ Len(log) < MaxLogs /\ tip < MaxHeight /\ log' = Append(log, r)
        /\ UNCHANGED <<tip, rowVars, cursor, pc, memVars, chunkVars, pos, misjudged, faults>>
    BY DEF Emit
  <1>2. UNCHANGED <<tip, tokens, count, price, graduated, trades, cursor, pc, known, nonCurves,
                    from, to, pos, misjudged, faults>>
    BY <1>1 DEF rowVars, memVars, chunkVars
  <1>3. /\ tip \in Nat /\ MaxHeight \in Nat /\ MaxLogs \in Nat /\ log \in Seq(Logs)
        /\ Len(log) \in Nat /\ DOMAIN log = 1..Len(log) /\ trades \subseteq DOMAIN log
    BY CoinblastAssumption, LogParts DEF IInv, TypeOK
  <1>4. r \in Logs
    BY <1>1, <1>3 DEF Logs
  <1>5. /\ log' \in Seq(Logs) /\ Len(log') = n /\ DOMAIN log' = 1..n
        /\ \A i \in DOMAIN log : log'[i] = log[i]
        /\ log'[n] = r
    BY <1>1, <1>3, <1>4
  <1>6. r.block = tip + 1 /\ r.kind = k /\ r.curve = e
    OBVIOUS
  <1> HIDE DEF r
  <1>7. TypeOK'
    BY <1>2, <1>3, <1>5 DEF IInv, TypeOK
  <1>8. LogInv'
    <2>1. \A i \in DOMAIN log : log[i].block \in 1..(tip + 1)
      BY DEF IInv, LogInv
    <2>2. \A i, j \in DOMAIN log : i <= j => log[i].block <= log[j].block
      BY DEF IInv, LogInv
    <2>3. \A i \in 1..n : i \in DOMAIN log \/ i = n
      BY <1>3
    <2>4. k = "created" => e \in Curves
      BY DEF Emit, Curves
    <2>5. \A i \in DOMAIN log : log[i].kind = "created" => log[i].curve \in Curves
      BY DEF IInv, LogInv
    <2>6. QED
      BY <1>1, <1>2, <1>3, <1>5, <1>6, <2>1, <2>2, <2>3, <2>4, <2>5 DEF LogInv
  <1>9. MemoryInv'
    BY <1>2 DEF IInv, MemoryInv
  <1>10. RowInv'
    <2>1. \A c, q : Stored(c, q)' = Stored(c, q)
      BY <1>2, <1>3, <1>5 DEF Stored
    <2>2. \A i \in trades : log'[i] = log[i]
      BY <1>3, <1>5
    <2>3. QED
      BY <1>2, <2>1, <2>2 DEF IInv, RowInv
  <1>11. OrderInv'
    <2> SUFFICES ASSUME NEW i \in trades', NEW j \in DOMAIN log', j < i,
                        log'[j].curve = log'[i].curve, Due(j)'
                 PROVE  j \in trades'
      BY DEF OrderInv
    <2>1. i \in DOMAIN log /\ j \in DOMAIN log /\ log'[i] = log[i] /\ log'[j] = log[j]
      BY <1>2, <1>3, <1>5
    <2>2. QED
      BY <1>2, <2>1 DEF IInv, OrderInv, Due
  <1>12. ChunkInv'
    <2>1. ASSUME NEW i \in DOMAIN log', log'[i].block \in from..to, pc \in {"pass1", "pass2", "write"}
          PROVE  i \in DOMAIN log /\ log'[i] = log[i]
      <3>1. to <= tip /\ to \in Nat /\ from \in Nat
        BY <1>3, <2>1 DEF IInv, ChunkInv, TypeOK
      <3>2. i # n
        BY <1>3, <1>5, <1>6, <2>1, <3>1
      <3>3. QED
        BY <1>3, <1>5, <3>2
    <2>2. QED
      BY <1>2, <2>1 DEF IInv, ChunkInv, Past1, Past2, Due, GetI64
  <1>13. ScannedIsStored'
    <2> SUFFICES ASSUME NEW i \in DOMAIN log', log'[i].block \in DeployBlock..cursor,
                        log'[i].curve \in Curves \ misjudged
                 PROVE  Handled(i)'
      BY <1>2 DEF ScannedIsStored
    <2>1. cursor <= tip /\ cursor \in Int
      BY DEF IInv, ChunkInv, TypeOK
    <2>2. i # n
      BY <1>3, <1>5, <1>6, <2>1, CoinblastAssumption
    <2>3. i \in DOMAIN log /\ log'[i] = log[i]
      BY <1>3, <1>5, <2>2
    <2>4. QED
      BY <1>2, <2>3 DEF IInv, ScannedIsStored, Handled
  <1>14. QED
    BY <1>7, <1>8, <1>9, <1>10, <1>11, <1>12, <1>13 DEF IInv

LEMMA NewBlockKeepsIInv == ASSUME IInv, NewBlock PROVE IInv'
  <1>1. /\ tip < MaxHeight /\ tip' = tip + 1
        /\ UNCHANGED <<log, tokens, count, price, graduated, trades, cursor, pc, known, nonCurves,
                       from, to, pos, misjudged, faults>>
    BY DEF NewBlock, rowVars, memVars, chunkVars
  <1>2. tip \in Nat /\ MaxHeight \in Nat
    BY CoinblastAssumption DEF IInv, TypeOK
  <1>3. TypeOK'
    BY <1>1, <1>2 DEF IInv, TypeOK
  <1>4. LogInv' /\ MemoryInv'
    BY <1>1, <1>2 DEF IInv, LogInv, MemoryInv
  <1>5. RowInv' /\ OrderInv' /\ ScannedIsStored'
    BY <1>1, RowsKept, ScanKept DEF IInv
  <1>6. ChunkInv'
    <2>1. cursor <= tip' /\ (pc \in {"pass1", "pass2", "write"} => to <= tip')
      BY <1>1, <1>2 DEF IInv, ChunkInv, TypeOK
    <2>2. QED
      BY <1>1, <2>1 DEF IInv, ChunkInv, Past1, Past2, Due, GetI64
  <1>7. QED
    BY <1>3, <1>4, <1>5, <1>6 DEF IInv

\* A step that leaves the tables, the cursor and the chain alone and is not in
\* a chunk afterwards: boot, restart, an error.
LEMMA OutsideKeepsIInv ==
  ASSUME IInv, UNCHANGED <<tip, log, tokens, count, price, graduated, trades, cursor, misjudged>>,
         pc' \in {"boot", "loop", "dead"},
         MemoryInv', from' \in Nat, to' \in 0..MaxHeight, pos' \in 0..MaxLogs + 1,
         nonCurves' \subseteq nonCurves, faults' \in 0..MaxFaults
  PROVE  IInv'
  <1>1. TypeOK'
    <2>1. Cardinality(nonCurves') <= NonCurvesMax
      <3>1. /\ IsFiniteSet(nonCurves) /\ Cardinality(nonCurves) <= NonCurvesMax
            /\ NonCurvesMax \in Nat
        BY CoinblastAssumption DEF IInv, MemoryInv, TypeOK
      <3>2. Cardinality(nonCurves') <= Cardinality(nonCurves)
        BY <3>1, FS_Subset
      <3>3. Cardinality(nonCurves) \in Nat /\ Cardinality(nonCurves') \in Nat
        BY <3>1, FS_Subset, FS_CardinalityType
      <3>4. QED
        BY <3>1, <3>2, <3>3
    <2>2. known' \subseteq Curves \cup {Factory} /\ nonCurves' \subseteq Emitters
      BY DEF IInv, TypeOK, MemoryInv
    <2>3. QED
      BY <2>1, <2>2 DEF IInv, TypeOK
  <1>2. LogInv'
    BY DEF IInv, LogInv
  <1>3. RowInv' /\ OrderInv' /\ ScannedIsStored'
    BY RowsKept, ScanKept DEF IInv
  <1>4. ChunkInv'
    BY NoChunk DEF IInv, ChunkInv
  <1>5. QED
    BY <1>1, <1>2, <1>3, <1>4 DEF IInv

LEMMA OutsideStepsKeepIInv ==
  ASSUME IInv, Hydrate \/ WorkerDies \/ Restart \/ ChunkFails
  PROVE  IInv'
  <1> USE CoinblastAssumption DEF chainVars, rowVars, memVars, chunkVars
  <1>1. /\ from \in Nat /\ to \in 0..MaxHeight /\ pos \in 0..MaxLogs + 1 /\ faults \in 0..MaxFaults
    BY DEF IInv, TypeOK
  <1>2. CASE Hydrate
    <2>1. MemoryInv'
      BY <1>2 DEF Hydrate, KnownCurveAddresses, IInv, MemoryInv
    <2>2. QED
      BY <1>1, <1>2, <2>1, OutsideKeepsIInv DEF Hydrate
  <1>3. CASE WorkerDies \/ ChunkFails
    <2>1. MemoryInv' /\ faults' \in 0..MaxFaults
      BY <1>1, <1>3 DEF WorkerDies, ChunkFails, Fault, IInv, MemoryInv
    <2>2. QED
      BY <1>1, <1>3, <2>1, OutsideKeepsIInv DEF WorkerDies, ChunkFails
  <1>4. CASE Restart
    <2>1. MemoryInv' /\ faults' \in 0..MaxFaults
      BY <1>1, <1>4, FS_EmptySet DEF Restart, Fault, MemoryInv
    <2>2. QED
      BY <1>1, <1>4, <2>1, OutsideKeepsIInv DEF Restart
  <1>5. QED
    BY <1>2, <1>3, <1>4

\* read_cursor and block_number: the chunk starts after the cursor and ends at
\* or below the tip.
LEMMA ReadsKeepIInv == ASSUME IInv, ReadCursor \/ ReadTip PROVE IInv'
  <1>1. UNCHANGED <<tip, log, tokens, count, price, graduated, trades, cursor, known, nonCurves,
                    misjudged, faults>>
    BY DEF ReadCursor, ReadTip, chainVars, rowVars, memVars
  <1>2. LogInv' /\ MemoryInv' /\ RowInv' /\ OrderInv' /\ ScannedIsStored'
    BY <1>1, RowsKept, ScanKept DEF IInv, LogInv, MemoryInv
  <1>3. /\ cursor \in Int /\ cursor >= -1 /\ from \in Nat /\ tip \in 0..MaxHeight /\ cursor <= tip
        /\ DeployBlock \in Nat \ {0} /\ ChunkSize \in Nat \ {0} /\ SafeLag \in Nat
        /\ MaxHeight \in Nat /\ MaxLogs \in Nat
    BY CoinblastAssumption DEF IInv, TypeOK, ChunkInv
  <1>4. CASE ReadCursor
    <2>1. /\ from' = Larger(GetI64(DeployBlock - 1), DeployBlock - 1) + 1 /\ pc' = "tip"
          /\ UNCHANGED <<to, pos>>
      BY <1>4 DEF ReadCursor
    <2>2. from' \in Nat
      BY <1>3, <2>1 DEF Larger, GetI64
    <2>3. TypeOK'
      BY <1>1, <2>1, <2>2 DEF IInv, TypeOK
    <2>4. ChunkInv'
      BY <1>1, <1>3, <2>1 DEF ChunkInv, GetI64, Past1, Past2
    <2>5. QED
      BY <1>2, <2>3, <2>4 DEF IInv
  <1>5. CASE ReadTip
    <2>1. pc = "tip" /\ from' = from
      BY <1>5 DEF ReadTip
    <2>2. CASE pc' = "loop" /\ UNCHANGED <<to, pos>>
      <3>1. TypeOK'
        BY <1>1, <2>1, <2>2 DEF IInv, TypeOK
      <3>2. ChunkInv'
        BY <1>1, <1>3, <2>2, NoChunk
      <3>3. QED
        BY <1>2, <3>1, <3>2 DEF IInv
    <2>3. CASE /\ from - 1 < tip - SafeLag /\ pos' = 1 /\ pc' = "pass1"
               /\ to' = Smaller(from - 1 + ChunkSize, tip - SafeLag)
      <3>1. to' \in 0..MaxHeight /\ from <= to' /\ to' <= tip
        BY <1>3, <2>3 DEF Smaller
      <3>2. TypeOK'
        BY <1>1, <1>3, <2>1, <2>3, <3>1 DEF IInv, TypeOK
      <3>3. \A i \in DOMAIN log : i \in Nat /\ ~ (i < 1)
        BY LogParts DEF IInv
      <3>4. ChunkInv'
        BY <1>1, <1>3, <2>1, <2>3, <3>1, <3>3 DEF IInv, ChunkInv, GetI64, Past1, Past2
      <3>5. QED
        BY <1>2, <3>2, <3>4 DEF IInv
    <2>4. QED
      BY <1>5, <2>2, <2>3 DEF ReadTip
  <1>6. QED
    BY <1>4, <1>5

\* write_cursor: below the chunk the old cursor's claim, in it the passes'.
LEMMA WriteCursorKeepsIInv == ASSUME IInv, WriteCursor PROVE IInv'
  <1>1. /\ pc = "write" /\ pc' = "loop" /\ cursor' = to
        /\ UNCHANGED <<tip, log, tokens, count, price, graduated, trades, known, nonCurves,
                       from, to, pos, misjudged, faults>>
    BY DEF WriteCursor, SetI64, chainVars, rowVars, memVars, chunkVars
  <1>2. LogInv' /\ MemoryInv' /\ RowInv' /\ OrderInv'
    BY <1>1, RowsKept DEF IInv, LogInv, MemoryInv
  <1>3. TypeOK'
    BY <1>1, CoinblastAssumption DEF IInv, TypeOK
  <1>4. ChunkInv'
    BY <1>1, NoChunk DEF IInv, ChunkInv
  <1>5. ScannedIsStored'
    <2> SUFFICES ASSUME NEW i \in DOMAIN log, log[i].block \in DeployBlock..to,
                        log[i].curve \in Curves \ misjudged
                 PROVE  Handled(i)
      BY <1>1 DEF ScannedIsStored, Handled
    <2>1. /\ log[i].block \in Nat /\ log[i].kind \in Kinds /\ from \in Nat /\ to \in Nat
          /\ DeployBlock \in Nat
      BY LogParts, CoinblastAssumption DEF IInv, TypeOK
    <2>2. CASE log[i].block < from
      <3>1. log[i].block \in DeployBlock..cursor
        BY <1>1, <2>1, <2>2, ChunkStart DEF IInv
      <3>2. QED
        BY <3>1 DEF IInv, ScannedIsStored
    <2>3. CASE log[i].block \in from..to
      <3>1. /\ log[i].kind = "created" => log[i].curve \in tokens
            /\ Due(i) => i \in trades
        BY <1>1, <2>3 DEF IInv, ChunkInv, Past1, Past2
      <3>2. QED
        BY <2>1, <3>1 DEF Handled, Due, Kinds, Pass2Kinds
    <2>4. QED
      BY <2>1, <2>2, <2>3
  <1>6. QED
    BY <1>2, <1>3, <1>4, <1>5 DEF IInv

-----------------------------------------------------------------------------
(***************************************************************************)
(* The invariant is inductive: run_chunk.                                  *)
(***************************************************************************)

\* apply_curve_created.
LEMMA CreatedKeepsIInv == ASSUME IInv, ApplyCurveCreated PROVE IInv'
  <1> DEFINE S == Todo({"created"})
             i == Min(S)
  <1>1. /\ pc = "pass1" /\ S # {} /\ tokens' = tokens \cup {log[i].curve} /\ pos' = i + 1
        /\ known' = known \cup {Factory}
        /\ UNCHANGED <<tip, log, count, price, graduated, trades, cursor, pc, nonCurves,
                       from, to, misjudged, faults>>
    BY DEF ApplyCurveCreated, InsertToken, chainVars, chunkVars
  <1>2. S = {j \in DOMAIN log : log[j].block \in from..to /\ log[j].kind = "created" /\ j >= pos}
    BY DEF Todo, LogsInRange
  <1>3. S \subseteq Nat
    BY <1>2, LogParts DEF IInv
  <1> HIDE DEF S
  <1>4. i \in S /\ \A j \in S : i <= j
    BY <1>1, <1>3, MinIs
  <1> HIDE DEF i
  <1>5. /\ i \in DOMAIN log /\ log[i].kind = "created" /\ log[i].curve \in Curves
        /\ i \in 1..MaxLogs /\ pos \in Int
    BY <1>2, <1>4, LogParts, CoinblastAssumption DEF IInv, LogInv, TypeOK
  <1>6. TypeOK'
    BY <1>1, <1>5, CoinblastAssumption DEF IInv, TypeOK
  <1>7. LogInv' /\ MemoryInv'
    BY <1>1 DEF IInv, LogInv, MemoryInv
  <1>8. RowInv' /\ OrderInv' /\ ScannedIsStored'
    BY <1>1, RowsKept, ScanKept DEF IInv
  <1>9. ChunkInv'
    <2>1. ASSUME NEW j \in DOMAIN log, log[j].block \in from..to, log[j].kind = "created", j < i + 1
          PROVE  log[j].curve \in tokens'
      <3>1. j \in Nat /\ i \in Nat
        BY <1>5, LogParts DEF IInv
      <3>2. CASE j < pos
        BY <1>1, <2>1, <3>2 DEF IInv, ChunkInv, Past1
      <3>3. CASE j >= pos
        BY <1>1, <1>2, <1>4, <2>1, <3>1, <3>3
      <3>4. QED
        BY <1>5, <3>1, <3>2, <3>3
    <2>2. QED
      BY <1>1, <2>1 DEF IInv, ChunkInv, GetI64, Past1, Past2
  <1>10. QED
    BY <1>6, <1>7, <1>8, <1>9 DEF IInv

\* Either pass ends when it has nothing left to do.
LEMMA EndPassKeepsIInv == ASSUME IInv, EndPass1 \/ EndPass2 PROVE IInv'
  <1>1. /\ pc' \in {"pass2", "write"} /\ pos' \in {1, pos}
        /\ UNCHANGED <<tip, log, tokens, count, price, graduated, trades, cursor, known, nonCurves,
                       from, to, misjudged, faults>>
    BY DEF EndPass1, EndPass2, chainVars, rowVars, memVars, chunkVars
  <1>2. TypeOK'
    BY <1>1, CoinblastAssumption DEF IInv, TypeOK
  <1>3. LogInv' /\ MemoryInv' /\ RowInv' /\ OrderInv' /\ ScannedIsStored'
    BY <1>1, RowsKept, ScanKept DEF IInv, LogInv, MemoryInv
  <1>4. pos \in Int /\ \A i \in DOMAIN log : i \in Nat /\ ~ (i < 1)
    BY LogParts, CoinblastAssumption DEF IInv, TypeOK
  <1>5. CASE EndPass1
    <2>1. pc = "pass1" /\ pc' = "pass2" /\ pos' = 1 /\ Todo({"created"}) = {}
      BY <1>5 DEF EndPass1
    <2>2. \A i \in DOMAIN log : log[i].block \in from..to /\ log[i].kind = "created" =>
            log[i].curve \in tokens
      BY <1>4, <2>1 DEF Todo, LogsInRange, IInv, ChunkInv, Past1
    <2>3. ChunkInv'
      BY <1>1, <1>4, <2>1, <2>2 DEF IInv, ChunkInv, GetI64, Past2
    <2>4. QED
      BY <1>2, <1>3, <2>3 DEF IInv
  <1>6. CASE EndPass2
    <2>1. pc = "pass2" /\ pc' = "write" /\ Todo(Pass2Kinds) = {}
      BY <1>6 DEF EndPass2
    <2>2. \A i \in DOMAIN log : log[i].block \in from..to /\ Due(i) => i \in trades
      BY <1>4, <2>1 DEF Todo, LogsInRange, IInv, ChunkInv, Past2, Due
    <2>3. ChunkInv'
      BY <1>1, <2>1, <2>2 DEF IInv, ChunkInv, GetI64, Past1, Due
    <2>4. QED
      BY <1>2, <1>3, <2>3 DEF IInv
  <1>7. QED
    BY <1>5, <1>6

\* The second pass goes by a log that is stored, or of which no row is due.
LEMMA PassGoesOn ==
  ASSUME IInv, NEW i, NEW e, Current(i, e), pos' = i + 1,
         UNCHANGED <<tip, log, cursor, pc, from, to>>, tokens \subseteq tokens',
         trades \subseteq trades', misjudged \subseteq misjudged', Due(i)' => i \in trades'
  PROVE  ChunkInv' /\ pos' \in 0..MaxLogs + 1
  <1>1. /\ pc = "pass2" /\ i \in DOMAIN log
        /\ \A j \in DOMAIN log :
              log[j].kind \in Pass2Kinds /\ log[j].block \in from..to => i <= j \/ j < pos
    BY AtCurrent
  <1>2. i \in 1..MaxLogs /\ pos \in Int /\ \A j \in DOMAIN log : j \in Nat
    BY <1>1, LogParts, CoinblastAssumption DEF IInv, TypeOK, LogInv
  <1>3. ASSUME NEW j \in DOMAIN log, log[j].block \in from..to, Due(j)', j < i + 1
        PROVE  j \in trades'
    <2>1. Due(j)
      BY <1>3 DEF Due
    <2>2. j = i \/ j < pos
      BY <1>1, <1>2, <1>3, <2>1 DEF Due
    <2>3. QED
      BY <1>1, <1>3, <2>1, <2>2 DEF IInv, ChunkInv, Past2
  <1>4. QED
    BY <1>1, <1>2, <1>3, CoinblastAssumption DEF IInv, ChunkInv, GetI64, Past1, Past2

\* A conflict, or a non-curve: the log is gone by and no table changes, but for the
\* row of a curve whose adoption failed.
LEMMA GoByKeepsIInv ==
  ASSUME IInv, NEW i, NEW e, Current(i, e), pos' = i + 1,
         UNCHANGED <<tip, log, count, price, graduated, trades, cursor, pc, known, from, to>>,
         tokens \subseteq tokens', tokens' \subseteq Curves,
         misjudged \subseteq misjudged', misjudged' \subseteq Curves,
         nonCurves' \subseteq Emitters, nonCurves' \cap Curves \subseteq misjudged',
         IsFiniteSet(nonCurves'), Cardinality(nonCurves') <= NonCurvesMax,
         faults' \in 0..MaxFaults, Due(i)' => i \in trades
  PROVE  IInv'
  <1>1. ChunkInv' /\ pos' \in 0..MaxLogs + 1
    BY PassGoesOn
  <1>2. TypeOK'
    BY <1>1 DEF IInv, TypeOK
  <1>3. LogInv' /\ MemoryInv' /\ RowInv' /\ OrderInv' /\ ScannedIsStored'
    BY RowsKept, ScanKept DEF IInv, LogInv, MemoryInv
  <1>4. QED
    BY <1>1, <1>2, <1>3 DEF IInv

\* What a new row of cb_trades adds to the stored logs of its curve and kind.
LEMMA StoredGrows ==
  ASSUME NEW i \in DOMAIN log, log' = log, trades' = trades \cup {i}, NEW c, NEW q
  PROVE  Stored(c, q)' = IF c = log[i].curve /\ q = log[i].kind
                         THEN Stored(c, q) \cup {i} ELSE Stored(c, q)
  BY DEF Stored

\* A new row: every earlier log of the curve that is due has its row already.
LEMMA NewRowOrder ==
  ASSUME IInv, NEW i, NEW e, Current(i, e), UNCHANGED <<log, misjudged>>,
         trades' = trades \cup {i}
  PROVE  OrderInv'
  <1> SUFFICES ASSUME NEW k \in trades', NEW j \in DOMAIN log, j < k,
                      log[j].curve = log[k].curve, Due(j)
               PROVE  j \in trades'
    BY DEF OrderInv, Due
  <1>1. CASE k = i
    BY <1>1, EarlierStored
  <1>2. CASE k \in trades
    BY <1>2 DEF IInv, OrderInv
  <1>3. QED
    BY <1>1, <1>2

\* No later trade of a curve that was never misjudged is stored before its
\* earlier ones, so the trade being inserted is the newest.
LEMMA NewestTrade ==
  ASSUME IInv, NEW i, NEW e, Current(i, e), i \notin trades, log[i].kind = "trade",
         e \in Curves \ misjudged
  PROVE  Max((Stored(e, "trade") \cup {i}) \cup {0}) = i
  <1>1. /\ pc = "pass2" /\ i \in DOMAIN log /\ e = log[i].curve /\ log[i].block \in from..to
    BY AtCurrent
  <1>2. Due(i)
    <2>1. from >= DeployBlock /\ from \in Nat /\ log[i].block \in Nat /\ DeployBlock \in Nat
      BY <1>1, ChunkStart, LogParts, CoinblastAssumption DEF IInv
    <2>2. QED
      BY <1>1, <2>1 DEF Due, Pass2Kinds
  <1>3. ASSUME NEW k \in Stored(e, "trade") PROVE k \in Nat /\ k <= i
    <2>1. k \in trades /\ log[k].curve = e /\ k \in DOMAIN log
      BY DEF Stored, IInv, TypeOK
    <2>2. ~ (i < k)
      BY <1>1, <1>2, <2>1 DEF IInv, OrderInv
    <2>3. QED
      BY <1>1, <2>1, <2>2, LogParts DEF IInv
  <1>4. i \in Nat
    BY <1>1, LogParts DEF IInv
  <1>5. QED
    BY <1>3, <1>4, MaxIs

\* apply_trade or apply_graduated of a known curve, by its row or by none.
LEMMA ApplyKeepsIInv ==
  ASSUME IInv, NEW i \in DOMAIN log, NEW e \in Emitters, Apply(i, e)
  PROVE  IInv'
  <1>1. /\ Current(i, e) /\ e \in known /\ pos' = i + 1
        /\ UNCHANGED <<tip, log, tokens, cursor, pc, known, nonCurves, from, to, misjudged, faults>>
    BY DEF Apply, chainVars, memVars, chunkVars
  <1>2. e \in tokens /\ e = log[i].curve /\ e \in Curves
    <2>1. e # Factory
      BY CoinblastAssumption DEF Factory, Emitters, Curves
    <2>2. e \in tokens
      BY <1>1, <2>1 DEF IInv, MemoryInv
    <2>3. QED
      BY <1>1, <2>2, AtCurrent DEF IInv, TypeOK
  <1>3. \/ /\ i \in trades /\ UNCHANGED <<count, price, graduated, trades>>
        \/ /\ i \notin trades /\ trades' = trades \cup {i} /\ log[i].kind = "trade"
           /\ count' = [count EXCEPT ![e] = @ + 1] /\ price' = [price EXCEPT ![e] = i]
           /\ UNCHANGED graduated
        \/ /\ i \notin trades /\ trades' = trades \cup {i} /\ log[i].kind = "graduated"
           /\ graduated' = graduated \cup {e} /\ UNCHANGED <<count, price>>
    <2>1. ASSUME NEW b \in BOOLEAN, InsertTrade(i, b)
          PROVE  (b <=> i \notin trades) /\ trades' = trades \cup {i}
      BY <2>1 DEF InsertTrade
    <2>2. CASE log[i].kind = "trade" /\ ApplyTrade(i, e)
      BY <1>2, <2>1, <2>2 DEF ApplyTrade, BumpTradeAggregate
    <2>3. CASE log[i].kind = "graduated" /\ ApplyGraduated(i, e)
      BY <1>2, <2>1, <2>3 DEF ApplyGraduated, MarkGraduated
    <2>4. QED
      BY <2>2, <2>3 DEF Apply
  <1>4. CASE i \in trades /\ UNCHANGED <<count, price, graduated, trades>>
    BY <1>1, <1>4, GoByKeepsIInv DEF IInv, TypeOK, MemoryInv
  <1>5. ASSUME i \notin trades, trades' = trades \cup {i}
        PROVE  /\ LogInv' /\ MemoryInv' /\ OrderInv' /\ ScannedIsStored' /\ ChunkInv'
               /\ pos' \in 0..MaxLogs + 1
               /\ \A k \in trades' : log'[k].curve \in tokens'
    <2>1. LogInv' /\ MemoryInv'
      BY <1>1 DEF IInv, LogInv, MemoryInv
    <2>2. OrderInv' /\ ScannedIsStored' /\ ChunkInv' /\ pos' \in 0..MaxLogs + 1
      BY <1>1, <1>5, NewRowOrder, ScanKept, PassGoesOn DEF IInv
    <2>3. QED
      BY <1>1, <1>2, <1>5, <2>1, <2>2 DEF IInv, RowInv
  <1>6. CASE /\ i \notin trades /\ trades' = trades \cup {i} /\ log[i].kind = "trade"
             /\ count' = [count EXCEPT ![e] = @ + 1] /\ price' = [price EXCEPT ![e] = i]
             /\ UNCHANGED graduated
    <2>1. /\ Stored(e, "trade")' = Stored(e, "trade") \cup {i}
          /\ \A c : c # e => Stored(c, "trade")' = Stored(c, "trade")
          /\ \A c : Stored(c, "graduated")' = Stored(c, "graduated")
      BY <1>1, <1>2, <1>6, StoredGrows
    <2>2. /\ i \notin Stored(e, "trade") /\ IsFiniteSet(Stored(e, "trade"))
          /\ count \in [Emitters -> Nat] /\ price \in [Emitters -> 0..MaxLogs]
      <3>1. TypeOK
        BY DEF IInv
      <3>2. IsFiniteSet(Stored(e, "trade"))
        BY <3>1, StoredFinite
      <3>3. i \notin Stored(e, "trade")
        BY <1>6 DEF Stored
      <3>4. QED
        BY <3>1, <3>2, <3>3 DEF TypeOK
    <2>3. Cardinality(Stored(e, "trade") \cup {i}) = Cardinality(Stored(e, "trade")) + 1
      BY <2>2, FS_AddElement
    <2>4. e \notin misjudged => Max((Stored(e, "trade") \cup {i}) \cup {0}) = i
      BY <1>1, <1>2, <1>6, NewestTrade
    <2>5. RowInv'
      <3>1. ASSUME NEW c \in Emitters
            PROVE  /\ count'[c] = Cardinality(Stored(c, "trade")')
                   /\ c \in graduated' <=> Stored(c, "graduated")' # {}
                   /\ c \notin misjudged => price'[c] = Max(Stored(c, "trade")' \cup {0})
        <4>1. /\ count[c] = Cardinality(Stored(c, "trade"))
              /\ c \in graduated <=> Stored(c, "graduated") # {}
              /\ c \notin misjudged => price[c] = Max(Stored(c, "trade") \cup {0})
          BY DEF IInv, RowInv
        <4>2. CASE c = e
          BY <1>6, <2>1, <2>2, <2>3, <2>4, <4>1, <4>2
        <4>3. CASE c # e
          BY <1>6, <2>1, <2>2, <4>1, <4>3
        <4>4. QED
          BY <4>2, <4>3
      <3>2. QED
        BY <1>1, <1>5, <1>6, <3>1 DEF RowInv
    <2>6. i \in 0..MaxLogs
      BY LogParts, CoinblastAssumption DEF IInv, LogInv
    <2>7. TypeOK'
      <3>1. count' \in [Emitters -> Nat] /\ price' \in [Emitters -> 0..MaxLogs]
        BY <1>6, <2>2, <2>6
      <3>2. trades' \subseteq DOMAIN log'
        BY <1>1, <1>6 DEF IInv, TypeOK
      <3>3. QED
        BY <1>1, <1>5, <1>6, <3>1, <3>2 DEF IInv, TypeOK
    <2>8. QED
      BY <1>5, <1>6, <2>5, <2>7 DEF IInv
  <1>7. CASE /\ i \notin trades /\ trades' = trades \cup {i} /\ log[i].kind = "graduated"
             /\ graduated' = graduated \cup {e} /\ UNCHANGED <<count, price>>
    <2>1. /\ Stored(e, "graduated")' = Stored(e, "graduated") \cup {i}
          /\ \A c : c # e => Stored(c, "graduated")' = Stored(c, "graduated")
          /\ \A c : Stored(c, "trade")' = Stored(c, "trade")
      BY <1>1, <1>2, <1>7, StoredGrows
    <2>2. RowInv'
      <3>1. ASSUME NEW c \in Emitters
            PROVE  /\ count'[c] = Cardinality(Stored(c, "trade")')
                   /\ c \in graduated' <=> Stored(c, "graduated")' # {}
                   /\ c \notin misjudged => price'[c] = Max(Stored(c, "trade")' \cup {0})
        <4>1. /\ count[c] = Cardinality(Stored(c, "trade"))
              /\ c \in graduated <=> Stored(c, "graduated") # {}
              /\ c \notin misjudged => price[c] = Max(Stored(c, "trade") \cup {0})
          BY DEF IInv, RowInv
        <4>2. c \in graduated' <=> Stored(c, "graduated")' # {}
          BY <1>7, <2>1, <4>1
        <4>3. QED
          BY <1>7, <2>1, <4>1, <4>2
      <3>2. QED
        BY <1>1, <1>5, <1>7, <3>1 DEF RowInv
    <2>3. TypeOK'
      BY <1>1, <1>2, <1>5, <1>7 DEF IInv, TypeOK
    <2>4. QED
      BY <1>5, <1>7, <2>2, <2>3 DEF IInv
  <1>8. QED
    BY <1>3, <1>4, <1>6, <1>7

\* A remembered non-curve is none, or was misjudged.
LEMMA SkipKeepsIInv ==
  ASSUME IInv, NEW i, NEW e, Skip(i, e) PROVE IInv'
  <1>1. /\ Current(i, e) /\ e \in nonCurves /\ pos' = i + 1
        /\ UNCHANGED <<tip, log, tokens, count, price, graduated, trades, cursor, pc, known, nonCurves,
                       from, to, misjudged, faults>>
    BY DEF Skip, chainVars, rowVars, memVars, chunkVars
  <1>2. ~ Due(i)'
    BY <1>1, AtCurrent DEF IInv, MemoryInv, Due
  <1>3. QED
    BY <1>1, <1>2, GoByKeepsIInv DEF IInv, TypeOK, MemoryInv

\* try_adopt: a new row, without trades.
LEMMA AdoptKeepsIInv ==
  ASSUME IInv, NEW i, NEW e, Adopt(i, e) PROVE IInv'
  <1>1. /\ e \in Curves /\ tokens' = tokens \cup {e} /\ known' = known \cup {e}
        /\ UNCHANGED <<tip, log, count, price, graduated, trades, cursor, pc, nonCurves,
                       from, to, pos, misjudged, faults>>
    BY DEF Adopt, AnswersAsCurve, InsertToken, chainVars, chunkVars
  <1>2. TypeOK'
    BY <1>1 DEF IInv, TypeOK
  <1>3. LogInv' /\ MemoryInv'
    BY <1>1 DEF IInv, LogInv, MemoryInv
  <1>4. RowInv' /\ OrderInv' /\ ScannedIsStored'
    BY <1>1, RowsKept, ScanKept DEF IInv
  <1>5. ChunkInv'
    BY <1>1 DEF IInv, ChunkInv, GetI64, Past1, Past2, Due
  <1>6. QED
    BY <1>2, <1>3, <1>4, <1>5 DEF IInv

\* cache_non_curve keeps the cache within its cap: at the cap one entry goes.
LEMMA CacheBounded ==
  ASSUME IInv, NEW e, e \notin nonCurves, CacheNonCurve(e)
  PROVE  /\ nonCurves' \subseteq nonCurves \cup {e} /\ IsFiniteSet(nonCurves')
         /\ Cardinality(nonCurves') <= NonCurvesMax
  <1>1. /\ IsFiniteSet(nonCurves) /\ Cardinality(nonCurves) <= NonCurvesMax
        /\ Cardinality(nonCurves) \in Nat /\ NonCurvesMax \in Nat
    BY FS_CardinalityType, CoinblastAssumption DEF IInv, MemoryInv, TypeOK
  <1>2. CASE Cardinality(nonCurves) < NonCurvesMax /\ nonCurves' = nonCurves \cup {e}
    <2>1. IsFiniteSet(nonCurves') /\ Cardinality(nonCurves') = Cardinality(nonCurves) + 1
      BY <1>1, <1>2, FS_AddElement
    <2>2. QED
      BY <1>1, <1>2, <2>1
  <1>3. ASSUME NEW victim \in nonCurves, nonCurves' = (nonCurves \ {victim}) \cup {e}
        PROVE  /\ nonCurves' \subseteq nonCurves \cup {e} /\ IsFiniteSet(nonCurves')
               /\ Cardinality(nonCurves') <= NonCurvesMax
    <2>1. /\ IsFiniteSet(nonCurves \ {victim})
          /\ Cardinality(nonCurves \ {victim}) = Cardinality(nonCurves) - 1
      BY <1>1, FS_RemoveElement
    <2>2. /\ IsFiniteSet(nonCurves')
          /\ Cardinality(nonCurves') = Cardinality(nonCurves \ {victim}) + 1
      BY <1>3, <2>1, FS_AddElement
    <2>3. QED
      BY <1>1, <1>3, <2>1, <2>2
  <1>4. QED
    BY <1>2, <1>3 DEF CacheNonCurve

\* try_adopt says no, of an impostor or, after a failed call, of a curve.
LEMMA RejectKeepsIInv ==
  ASSUME IInv, NEW i, NEW e, Reject(i, e) \/ ProbeFails(i, e) PROVE IInv'
  <1>1. /\ Current(i, e) /\ e \notin nonCurves /\ CacheNonCurve(e) /\ pos' = i + 1
        /\ UNCHANGED <<tip, log, count, price, graduated, trades, cursor, pc, known, from, to>>
        /\ faults' \in {faults, faults + 1}
        /\ \/ e \notin Curves /\ UNCHANGED <<tokens, misjudged>>
           \/ e \in Curves /\ misjudged' = misjudged \cup {e} /\ tokens' \in {tokens, tokens \cup {e}}
    BY DEF Reject, ProbeFails, Unvetted, AnswersAsCurve, InsertToken, Fault, chainVars, rowVars,
           chunkVars
  <1>2. faults' \in 0..MaxFaults
    BY CoinblastAssumption DEF Reject, ProbeFails, Fault, IInv, TypeOK
  <1>3. /\ nonCurves' \subseteq nonCurves \cup {e} /\ IsFiniteSet(nonCurves')
        /\ Cardinality(nonCurves') <= NonCurvesMax
    BY <1>1, CacheBounded
  <1>4. e \in Emitters /\ e = log[i].curve
    BY <1>1, AtCurrent
  <1>5. ~ Due(i)'
    BY <1>1, <1>4 DEF Due
  <1>6. /\ nonCurves' \subseteq Emitters /\ nonCurves' \cap Curves \subseteq misjudged'
        /\ misjudged \subseteq misjudged' /\ misjudged' \subseteq Curves
    BY <1>1, <1>3, <1>4 DEF IInv, TypeOK, MemoryInv
  <1>7. tokens \subseteq tokens' /\ tokens' \subseteq Curves
    BY <1>1 DEF IInv, TypeOK
  <1>8. QED
    BY <1>1, <1>2, <1>3, <1>5, <1>6, <1>7, GoByKeepsIInv

\* Every step keeps the invariant.
LEMMA NextIInv == IInv /\ [Next]_vars => IInv'
  <1> SUFFICES ASSUME IInv, [Next]_vars PROVE IInv'
    OBVIOUS
  <1>1. CASE UNCHANGED vars
    <2>1. UNCHANGED <<tip, log, tokens, count, price, graduated, trades, cursor, pc, known, nonCurves,
                      from, to, pos, misjudged, faults>>
      BY <1>1 DEF vars, chainVars, rowVars, memVars, chunkVars
    <2>2. RowInv' /\ OrderInv' /\ ScannedIsStored'
      BY <2>1, RowsKept, ScanKept DEF IInv
    <2>3. ChunkInv'
      BY <2>1 DEF IInv, ChunkInv, GetI64, Past1, Past2, Due
    <2>4. QED
      BY <2>1, <2>2, <2>3 DEF IInv, TypeOK, LogInv, MemoryInv
  <1>2. CASE NewBlock
    BY <1>2, NewBlockKeepsIInv
  <1>3. CASE \E k \in Kinds, e \in Emitters : Emit(k, e)
    BY <1>3, EmitKeepsIInv
  <1>4. CASE Hydrate \/ WorkerDies \/ Restart \/ ChunkFails
    BY <1>4, OutsideStepsKeepIInv
  <1>5. CASE ReadCursor \/ ReadTip
    BY <1>5, ReadsKeepIInv
  <1>6. CASE WriteCursor
    BY <1>6, WriteCursorKeepsIInv
  <1>7. CASE ApplyCurveCreated \/ EndPass1 \/ EndPass2
    BY <1>7, CreatedKeepsIInv, EndPassKeepsIInv
  <1>8. CASE \E i \in DOMAIN log, e \in Emitters :
               Apply(i, e) \/ Skip(i, e) \/ Adopt(i, e) \/ Reject(i, e)
    BY <1>8, ApplyKeepsIInv, SkipKeepsIInv, AdoptKeepsIInv, RejectKeepsIInv
  <1>9. CASE \E i \in DOMAIN log, e \in Emitters : ProbeFails(i, e)
    BY <1>9, RejectKeepsIInv
  <1>10. QED
    BY <1>1, <1>2, <1>3, <1>4, <1>5, <1>6, <1>7, <1>8, <1>9 DEF Next, Worker, Chunk

-----------------------------------------------------------------------------

\* The worker's state keeps its types; the cache of non-curves keeps its cap.
THEOREM WorkerTypeCorrect == Spec => []TypeOK
  <1>1. IInv => TypeOK
    BY DEF IInv
  <1>2. QED
    BY <1>1, InitIInv, NextIInv, PTL DEF Spec

\* However often chunks are cut short and run again, a curve's trade count and
\* graduation flag are those of its stored logs.
THEOREM AggregatesAreExact == Spec => []AggregatesMatchTrades
  <1>1. IInv => AggregatesMatchTrades
    BY DEF IInv, RowInv, AggregatesMatchTrades, TypeOK, Emitters
  <1>2. QED
    BY <1>1, InitIInv, NextIInv, PTL DEF Spec

\* The last price of a curve never misjudged is that of its newest stored trade.
THEOREM LastTradeWins == Spec => []PriceIsNewest
  <1>1. IInv => PriceIsNewest
    BY DEF IInv, RowInv, PriceIsNewest, TypeOK, Emitters
  <1>2. QED
    BY <1>1, InitIInv, NextIInv, PTL DEF Spec

\* The worker's cursor passes over no log of a curve never misjudged.
THEOREM NothingPassedOver == Spec => []ScannedIsStored
  <1>1. IInv => ScannedIsStored
    BY DEF IInv
  <1>2. QED
    BY <1>1, InitIInv, NextIInv, PTL DEF Spec
=============================================================================
