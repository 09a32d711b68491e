------------------------------ MODULE Coinblast ------------------------------
(***************************************************************************)
(* The CoinBlast worker (crates/coinblast): a chunked scan of the chain's  *)
(* logs with a cursor of its own, writing cb_tokens and cb_trades.  Each   *)
(* handler is a transaction of its own; a chunk is many of them, so it can *)
(* fail or be killed half way and is then run again.                       *)
(*                                                                         *)
(* A log is [block, kind, curve]; its place in `log' stands for the unique *)
(* key (tx_hash, log_index).  Buy and Sell are handled alike and are one   *)
(* kind, "trade".  Different curves have different tokens, so the second   *)
(* unique index of cb_tokens is never hit.  The logs of finalized blocks   *)
(* do not change.                                                          *)
(***************************************************************************)
EXTENDS Integers, Sequences, FiniteSets, FiniteSetsExt

CONSTANTS
  FactoryCurves,  \* curves the factory creates
  OrphanCurves,   \* curves deployed directly, before or beside the factory
  Impostors,      \* contracts with a colliding topic and not the view functions
  DeployBlock,    \* COINBLAST_DEPLOY_BLOCK
  ChunkSize,      \* WorkerConfig::chunk_size
  SafeLag,        \* WorkerConfig::safe_lag
  NonCurvesMax,   \* KNOWN_NON_CURVES_MAX
  MaxHeight,      \* bound: last block
  MaxLogs,        \* bound: number of logs
  MaxFaults       \* bound: errors and kills in one behaviour

ASSUME CoinblastAssumption ==
  /\ DeployBlock \in Nat \ {0} /\ ChunkSize \in Nat \ {0} /\ SafeLag \in Nat
  /\ NonCurvesMax \in Nat \ {0}
  /\ MaxHeight \in Nat /\ MaxLogs \in Nat /\ MaxFaults \in Nat
  /\ "factory" \notin FactoryCurves \cup OrphanCurves \cup Impostors

VARIABLES
  tip,        \* highest finalized block
  log,        \* the chain's logs, in order; those above tip are not visible yet
  tokens,     \* cb_tokens: curves with a row
  count,      \* cb_tokens.trade_count
  price,      \* cb_tokens.last_price_srx, as the trade it came from (0: none)
  graduated,  \* cb_tokens.is_graduated
  trades,     \* cb_trades: logs with a row
  cursor,     \* _meta.last_synced_coinblast_height, -1 when there is no row
  pc,         \* where the worker is
  known,      \* known_curves
  nonCurves,  \* known_non_curves
  from, to,   \* the chunk
  pos,        \* next log of the pass under way
  misjudged,  \* history: curves once taken for non-curves
  faults      \* number of faults so far

chainVars == <<tip, log>>
rowVars   == <<tokens, count, price, graduated, trades>>
memVars   == <<known, nonCurves>>
chunkVars == <<from, to>>
vars == <<chainVars, rowVars, cursor, pc, memVars, chunkVars, pos, misjudged, faults>>

Factory  == "factory"
Curves   == FactoryCurves \cup OrphanCurves
Emitters == Curves \cup Impostors
Kinds    == {"created", "trade", "graduated"}
Logs     == [block : 0..MaxHeight + 1, kind : Kinds, curve : Emitters]
Larger(a, b)  == IF a >= b THEN a ELSE b
Smaller(a, b) == IF a <= b THEN a ELSE b

TypeOK ==
  /\ tip \in 0..MaxHeight /\ log \in Seq(Logs)
  /\ tokens \subseteq Curves /\ graduated \subseteq Curves
  /\ count \in [Emitters -> Nat] /\ price \in [Emitters -> 0..MaxLogs]
  /\ trades \subseteq DOMAIN log
  /\ cursor \in -1..MaxHeight
  /\ pc \in {"boot", "loop", "tip", "pass1", "pass2", "write", "dead"}
  /\ known \subseteq Curves \cup {Factory}
  /\ nonCurves \subseteq Emitters /\ Cardinality(nonCurves) <= NonCurvesMax
  /\ from \in Nat /\ to \in 0..MaxHeight /\ pos \in 0..MaxLogs + 1
  /\ misjudged \subseteq Curves
  /\ faults \in 0..MaxFaults

Init ==
  /\ tip = 0 /\ log = <<>>
  /\ tokens = {} /\ graduated = {} /\ trades = {}
  /\ count = [e \in Emitters |-> 0] /\ price = [e \in Emitters |-> 0]
  /\ cursor = -1
  /\ pc = "boot" /\ known = {} /\ nonCurves = {}
  /\ from = 0 /\ to = 0 /\ pos = 0 /\ misjudged = {}
  /\ faults = 0

Fault == faults < MaxFaults /\ faults' = faults + 1

-----------------------------------------------------------------------------
(***************************************************************************)
(* The statements on cb_tokens, cb_trades and _meta.                       *)
(***************************************************************************)

\* The cursor row, or the default when there is none; an upsert of it, which,
\* unlike the block cursor's, overwrites.
GetI64(default) == IF cursor = -1 THEN default ELSE cursor
SetI64(h)       == cursor' = h

\* INSERT INTO cb_tokens, ON CONFLICT DO NOTHING: the aggregates of a new row
\* are zero, those of an old one stay.
InsertToken(e) == tokens' = tokens \cup {e}

KnownCurveAddresses == tokens

\* UPDATE cb_tokens ... WHERE curve_address = e: no row, no effect.
BumpTradeAggregate(i, e) ==
  /\ count' = [count EXCEPT ![e] = IF e \in tokens THEN @ + 1 ELSE @]
  /\ price' = [price EXCEPT ![e] = IF e \in tokens THEN i ELSE @]

MarkGraduated(e) == graduated' = graduated \cup ({e} \cap tokens)

\* INSERT INTO cb_trades, ON CONFLICT DO NOTHING, and whether it was inserted.
InsertTrade(i, inserted) ==
  /\ inserted = (i \notin trades)
  /\ trades' = trades \cup {i}

-----------------------------------------------------------------------------
(***************************************************************************)
(* The chain (external).                                                   *)
(***************************************************************************)

\* A contract emits a log into the next block.  A curve of the factory exists
\* once its CurveCreated log does.
Emit(k, e) ==
  /\ Len(log) < MaxLogs /\ tip < MaxHeight
  /\ LET created == \E i \in DOMAIN log : log[i].kind = "created" /\ log[i].curve = e
     IN  IF k = "created" THEN e \in FactoryCurves /\ ~created
                          ELSE e \in FactoryCurves => created
  /\ log' = Append(log, [block |-> tip + 1, kind |-> k, curve |-> e])
  /\ UNCHANGED <<tip, rowVars, cursor, pc, memVars, chunkVars, pos, misjudged, faults>>

NewBlock ==
  /\ tip < MaxHeight
  /\ tip' = tip + 1
  /\ UNCHANGED <<log, rowVars, cursor, pc, memVars, chunkVars, pos, misjudged, faults>>

-----------------------------------------------------------------------------
(***************************************************************************)
(* run_coinblast_worker, outside run_chunk.                                *)
(***************************************************************************)

\* hydrate_known_curves.
Hydrate ==
  /\ pc = "boot"
  /\ known' = KnownCurveAddresses
  /\ pc' = "loop"
  /\ UNCHANGED <<chainVars, rowVars, cursor, nonCurves, chunkVars, pos, misjudged, faults>>

\* read_cursor: the stored value, not below the deploy block.
ReadCursor ==
  /\ pc = "loop"
  /\ from' = Larger(GetI64(DeployBlock - 1), DeployBlock - 1) + 1
  /\ pc' = "tip"
  /\ UNCHANGED <<chainVars, rowVars, cursor, memVars, to, pos, misjudged, faults>>

\* Mutant: a target one block above the cursor counts as caught up.
ReadTip_OffByOne ==
  /\ pc = "tip"
  /\ \/ /\ from >= tip - SafeLag
        /\ pc' = "loop"
        /\ UNCHANGED <<to, pos>>
     \/ /\ from < tip - SafeLag
        /\ to' = Smaller(from - 1 + ChunkSize, tip - SafeLag)
        /\ pos' = 1
        /\ pc' = "pass1"
  /\ UNCHANGED <<chainVars, rowVars, cursor, memVars, from, misjudged, faults>>

\* The tip fixes the chunk, or the worker is caught up and sleeps.
ReadTip ==
  /\ pc = "tip"
  /\ \/ /\ from - 1 >= tip - SafeLag
        /\ pc' = "loop"
        /\ UNCHANGED <<to, pos>>
     \/ /\ from - 1 < tip - SafeLag
        /\ to' = Smaller(from - 1 + ChunkSize, tip - SafeLag)
        /\ pos' = 1
        /\ pc' = "pass1"
  /\ UNCHANGED <<chainVars, rowVars, cursor, memVars, from, misjudged, faults>>

\* write_cursor, a plain upsert.
WriteCursor ==
  /\ pc = "write"
  /\ SetI64(to)
  /\ pc' = "loop"
  /\ UNCHANGED <<chainVars, rowVars, memVars, chunkVars, pos, misjudged, faults>>

\* hydrate, read_cursor, block_number or write_cursor fail: `?' ends the task;
\* main looks at its result only when the process shuts down.
WorkerDies ==
  /\ pc \in {"boot", "loop", "tip", "write"}
  /\ Fault
  /\ pc' = "dead"
  /\ UNCHANGED <<chainVars, rowVars, cursor, memVars, chunkVars, pos, misjudged>>

\* The process is killed, or cancelled and stopped, and started again.
Restart ==
  /\ Fault
  /\ pc' = "boot"
  /\ known' = {} /\ nonCurves' = {}
  /\ from' = 0 /\ to' = 0 /\ pos' = 0
  /\ UNCHANGED <<chainVars, rowVars, cursor, misjudged>>

-----------------------------------------------------------------------------
(***************************************************************************)
(* run_chunk.                                                              *)
(***************************************************************************)

\* The chunk's logs with a topic of this pass.  Finalized logs do not change,
\* so the answer of logs_in_range need not be kept.
LogsInRange(kinds) ==
  {i \in DOMAIN log : log[i].block \in from..to /\ log[i].kind \in kinds}

\* Those the pass has yet to handle.
Todo(kinds) == {i \in LogsInRange(kinds) : i >= pos}

Pass2Kinds == {"trade", "graduated"}

\* apply_curve_created, ON CONFLICT DO NOTHING.  The address remembered is the
\* one of the log's emitter, which is the factory.
ApplyCurveCreated ==
  /\ pc = "pass1" /\ Todo({"created"}) # {}
  /\ LET i == Min(Todo({"created"}))
     IN  /\ InsertToken(log[i].curve)
         /\ pos' = i + 1
  /\ known' = known \cup {Factory}
  /\ UNCHANGED <<chainVars, count, price, graduated, trades, cursor, pc, nonCurves,
                 chunkVars, misjudged, faults>>

EndPass1 ==
  /\ pc = "pass1" /\ Todo({"created"}) = {}
  /\ pos' = 1
  /\ pc' = "pass2"
  /\ UNCHANGED <<chainVars, rowVars, cursor, memVars, chunkVars, misjudged, faults>>

\* The log pass 2 is at, from emitter e.
Current(i, e) ==
  /\ pc = "pass2" /\ Todo(Pass2Kinds) # {}
  /\ i = Min(Todo(Pass2Kinds))
  /\ e = log[i].curve

\* Mutant: the aggregates are bumped although the insert met a conflict.
ApplyTrade_BumpsAlways(i, e) ==
  /\ trades' = trades \cup {i}
  /\ BumpTradeAggregate(i, e)
  /\ UNCHANGED graduated

\* Mutant: a conflict does not bump, but still writes the price.
ApplyTrade_PricesAlways(i, e) ==
  /\ trades' = trades \cup {i}
  /\ count' = [count EXCEPT ![e] = IF e \in tokens /\ i \notin trades THEN @ + 1 ELSE @]
  /\ price' = [price EXCEPT ![e] = IF e \in tokens THEN i ELSE @]
  /\ UNCHANGED graduated

\* write_trade: one transaction, the aggregates only when the row was inserted.
ApplyTrade(i, e) ==
  /\ \/ InsertTrade(i, TRUE) /\ BumpTradeAggregate(i, e)
     \/ InsertTrade(i, FALSE) /\ UNCHANGED <<count, price>>
  /\ UNCHANGED graduated

\* apply_graduated: the same for the flag.
ApplyGraduated(i, e) ==
  /\ \/ InsertTrade(i, TRUE) /\ MarkGraduated(e)
     \/ InsertTrade(i, FALSE) /\ UNCHANGED graduated
  /\ UNCHANGED <<count, price>>

\* A log of a known curve: its handler's transaction.
Apply(i, e) ==
  /\ Current(i, e) /\ e \in known
  /\ \/ log[i].kind = "trade" /\ ApplyTrade(i, e)
     \/ log[i].kind = "graduated" /\ ApplyGraduated(i, e)
  /\ pos' = i + 1
  /\ UNCHANGED <<chainVars, tokens, cursor, pc, memVars, chunkVars, misjudged, faults>>

\* A log of a remembered non-curve.
Skip(i, e) ==
  /\ Current(i, e) /\ e \notin known /\ e \in nonCurves
  /\ pos' = i + 1
  /\ UNCHANGED <<chainVars, rowVars, cursor, pc, memVars, chunkVars, misjudged, faults>>

Unvetted(i, e) == Current(i, e) /\ e \notin known /\ e \notin nonCurves

\* The three view functions answer; name and symbol do not decide.
AnswersAsCurve(e) == e \in Curves

\* try_adopt: the view functions answer, the row is inserted unless there is
\* one; the log is then handled as one of a known curve.
Adopt(i, e) ==
  /\ Unvetted(i, e)
  /\ AnswersAsCurve(e)
  /\ InsertToken(e)
  /\ known' = known \cup {e}
  /\ UNCHANGED <<chainVars, count, price, graduated, trades, cursor, pc, nonCurves,
                 chunkVars, pos, misjudged, faults>>

\* cache_non_curve: at the cap any entry makes room.
CacheNonCurve(e) ==
  \/ /\ Cardinality(nonCurves) < NonCurvesMax
     /\ nonCurves' = nonCurves \cup {e}
  \/ /\ Cardinality(nonCurves) >= NonCurvesMax
     /\ \E victim \in nonCurves : nonCurves' = (nonCurves \ {victim}) \cup {e}

\* A call reverts, as those of an impostor do: not a curve.
Reject(i, e) ==
  /\ Unvetted(i, e)
  /\ ~AnswersAsCurve(e)
  /\ CacheNonCurve(e)
  /\ pos' = i + 1
  /\ UNCHANGED <<chainVars, rowVars, cursor, pc, known, chunkVars, misjudged, faults>>

\* A call fails for another reason, or the insert of the adopted row does, or takes
\* effect and its answer is lost: the code draws the same conclusion.
ProbeFails(i, e) ==
  /\ Unvetted(i, e)
  /\ AnswersAsCurve(e)
  /\ Fault
  /\ UNCHANGED tokens \/ InsertToken(e)
  /\ CacheNonCurve(e)
  /\ misjudged' = misjudged \cup {e}
  /\ pos' = i + 1
  /\ UNCHANGED <<chainVars, count, price, graduated, trades, cursor, pc, known, chunkVars>>

EndPass2 ==
  /\ pc = "pass2" /\ Todo(Pass2Kinds) = {}
  /\ pc' = "write"
  /\ UNCHANGED <<chainVars, rowVars, cursor, memVars, chunkVars, pos, misjudged, faults>>

\* Mutant: the error is logged and the cursor advances all the same.
ChunkFails_Swallowed ==
  /\ pc \in {"pass1", "pass2"}
  /\ Fault
  /\ pc' = "write"
  /\ UNCHANGED <<chainVars, rowVars, cursor, memVars, chunkVars, pos, misjudged>>

\* logs_in_range or a handler fails, or the answer to a handler's commit is
\* lost: the chunk is tried again after a sleep, with what was committed and
\* remembered so far.
ChunkFails ==
  /\ pc \in {"pass1", "pass2"}
  /\ Fault
  /\ pc' = "loop"
  /\ UNCHANGED <<chainVars, rowVars, cursor, memVars, chunkVars, pos, misjudged>>

Chunk ==
  \/ ApplyCurveCreated \/ EndPass1 \/ EndPass2
  \/ \E i \in DOMAIN log, e \in Emitters :
       Apply(i, e) \/ Skip(i, e) \/ Adopt(i, e) \/ Reject(i, e)

Worker == Hydrate \/ ReadCursor \/ ReadTip \/ Chunk \/ WriteCursor

Next ==
  \/ NewBlock \/ \E k \in Kinds, e \in Emitters : Emit(k, e)
  \/ Worker
  \/ ChunkFails \/ WorkerDies \/ Restart
  \/ \E i \in DOMAIN log, e \in Emitters : ProbeFails(i, e)

Spec == Init /\ [][Next]_vars

\* The sleeps end and an await that does not fail completes.
FairSpec == Spec /\ WF_vars(Worker)

-----------------------------------------------------------------------------

Stored(e, k) == {i \in trades : log[i].curve = e /\ log[i].kind = k}

\* The aggregates are those of the stored trades, and every stored trade has
\* its curve's row, however often chunks are cut short and run again (lib.rs,
\* "Idempotency").
AggregatesMatchTrades ==
  /\ \A i \in trades : log[i].curve \in tokens
  /\ \A e \in tokens : /\ count[e] = Cardinality(Stored(e, "trade"))
                       /\ e \in graduated <=> Stored(e, "graduated") # {}

\* The last price of a curve that was never misjudged is the one of its newest
\* stored trade, also in the middle of a chunk that is run again
\* (bump_trade_aggregate: "last-trade-wins").
PriceIsNewest ==
  \A e \in tokens \ misjudged : price[e] = Max(Stored(e, "trade") \cup {0})

Handled(i) ==
  IF log[i].kind = "created" THEN log[i].curve \in tokens ELSE i \in trades

\* The cursor covers only blocks all of whose curve logs are stored, except for
\* curves that were misjudged: no failing or killed chunk is passed over.
ScannedIsStored ==
  \A i \in DOMAIN log :
    log[i].block \in DeployBlock..cursor /\ log[i].curve \in Curves \ misjudged
      => Handled(i)

Arrived(i) == i \in trades \/ log[i].curve \in misjudged

\* Every visible trade of a curve is stored in the end, unless the curve was
\* misjudged or the worker ended with an error (the retry of a failed chunk in
\* run_coinblast_worker).
TradesArrive ==
  \A i \in 1..MaxLogs :
    (/\ i \in DOMAIN log
     /\ log[i].block \in DeployBlock..(tip - SafeLag)
     /\ log[i].curve \in Curves /\ log[i].kind # "created")
    ~> ((i \in DOMAIN log /\ Arrived(i)) \/ pc = "dead")
=============================================================================
