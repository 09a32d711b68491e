--------------------------- MODULE BlockRowsProofs ---------------------------
(***************************************************************************)
(* The rows of a block, for any number of heights, writers, lagging        *)
(* answers, rollbacks of the chain and rewinds.                            *)
(***************************************************************************)
EXTENDS BlockRows, TLAPS

\* The three tables that a foreign key ties together: the rows of a height carry
\* it, a stored header has the transaction of its own body, and the histories
\* speak of stored heights.
TablesInv ==
  /\ RowsExact
  /\ \A h \in Heights :
       /\ logs[h] # None => logs[h][1] = h
       /\ blocks[h] # None /\ h \notin reverted => TxAt(h, blocks[h]) \in txs
       /\ h \in blind \cup overlaid => blocks[h] # None

\* The fourth, which no foreign key ties to them: a row is a decoded log, a stored
\* log has its row, and what has no log was left by a rewind or overlaid.
TransfersInv ==
  /\ \A k \in Keys : /\ transfers[k] \in {None, DecodeTransfer(raw)}
                     /\ transfers[k] # None => logs[k[1]] = k \/ k \in left \/ k[1] \in overlaid
  /\ \A h \in Heights : logs[h] # None => transfers[logs[h]] = DecodeTransfer(raw)

\* The part is what one of the reader's next queries will find.
Coming(part) ==
  \/ part = "tx" /\ rpc = "txs" /\ Tx \in txs
  \/ part = "logs" /\ rpc \in {"logs", "glogs"} /\ logs[rh] = Tx
  \/ part = "block" /\ rpc \in {"logs", "block"} /\ blocks[rh] # None

\* A request owes nothing before its first query has found a row; from then on,
\* unless a rewind ran, each part it owes has been read or will be.
ReaderInv ==
  /\ rpc \in {"idle", "tx", "gtx"} => reply = {} /\ whole = {}
  /\ rpc = "block" /\ "tx" \notin reply => reply = {} /\ whole = {}
  /\ rpc = "logs" => "tx" \in reply
  /\ ~disturbed => \A part \in whole : part \in reply \/ Coming(part)
  /\ ~torn

IInv == TypeOK /\ TablesInv /\ TransfersInv /\ ReaderInv

-----------------------------------------------------------------------------

\* decode_transfer recognises exactly the two events, on every log.
LEMMA DecodeIsReference ==
  ASSUME NEW l \in RawLogs
  PROVE  /\ DecodeTransfer(l) \in Standards \cup {None}
         /\ \A s \in Standards : DecodeTransfer(l) = s <=> Reference(l)[s]
  <1>1. l.topics \in 0..4 /\ l.data \in {"empty", "word", "other"}
    BY DEF RawLogs
  <1>2. \A s \in Standards :
          Reference(l)[s] <=> IF s = "erc20" THEN l.topics = 3 /\ l.data = "word"
                                             ELSE l.topics = 4 /\ l.data = "empty"
    BY DEF Reference
  <1>3. DecodeTransfer(l) =
          IF l.topics = 3 /\ l.data = "word" THEN "erc20"
          ELSE IF l.topics = 4 /\ l.data = "empty" THEN "erc721" ELSE None
    BY <1>1 DEF DecodeTransfer
  <1>4. QED
    BY <1>2, <1>3, RowsAssumption DEF Standards

\* The hash of a transaction as a key: it carries its height.
LEMMA TxAtIsKey ==
  ASSUME NEW h \in Heights, NEW b \in Branches
  PROVE  TxAt(h, b) \in Keys /\ TxAt(h, b)[1] = h /\ TxAt(h, b) # None
  <1>1. 0 \in Branches
    BY RowsAssumption DEF Branches
  <1>2. TxAt(h, b) \in Keys /\ TxAt(h, b)[1] = h
    BY <1>1 DEF TxAt, Keys
  <1>3. QED
    BY <1>2, RowsAssumption

\* A key carries a height.
LEMMA KeyHeight == ASSUME NEW k \in Keys PROVE k[1] \in Heights
  BY DEF Keys

\* Empty tables and nobody at work.
LEMMA InitIInv == Init => IInv
  <1> SUFFICES ASSUME Init PROVE IInv
    OBVIOUS
  <1> USE RowsAssumption DEF Init
  <1>1. disturbed \in BOOLEAN /\ torn \in BOOLEAN /\ ~torn
    BY Zenon
  <1>2. 0 \in Heights /\ 0 \in Branches
    BY DEF Heights, Branches
  <1>3. TypeOK
    BY <1>1, <1>2 DEF TypeOK, Standards
  <1>4. TablesInv /\ TransfersInv
    BY KeyHeight DEF TablesInv, RowsExact, TransfersInv
  <1>5. ReaderInv
    BY <1>1 DEF ReaderInv
  <1>6. QED
    BY <1>3, <1>4, <1>5 DEF IInv

\* The chain is rolled back: what is stored does not change.
LEMMA ChainRollsBackKeepsIInv ==
  ASSUME IInv, NEW d \in Heights, ChainRollsBack(d)
  PROVE  IInv'
  <1> USE RowsAssumption DEF IInv
  <1>1. UNCHANGED <<contentVars, tables, writerVars, readerVars, histories, rewinds>>
    BY DEF ChainRollsBack
  <1>2. fork + 1 \in Branches /\ fork' = fork + 1
    BY DEF ChainRollsBack, TypeOK, Branches
  <1>3. chain' \in [Heights -> Branches]
    <2>1. \A h \in Heights : chain[h] \in Branches
      BY DEF TypeOK
    <2>2. chain' = [h \in Heights |-> IF h >= d THEN fork + 1 ELSE chain[h]]
      BY DEF ChainRollsBack
    <2>3. QED
      BY <1>2, <2>1, <2>2, Zenon
  <1>4. TypeOK'
    BY <1>1, <1>2, <1>3
       DEF TypeOK, contentVars, tables, writerVars, readerVars, histories
  <1>5. TablesInv' /\ TransfersInv'
    BY <1>1 DEF TablesInv, RowsExact, BodyTxs, TransfersInv, contentVars, tables, histories
  <1>6. ReaderInv'
    BY <1>1 DEF ReaderInv, Coming, Tx, tables, readerVars
  <1>7. QED
    BY <1>4, <1>5, <1>6

\* What a writer does before its transaction touches nothing that is shared.
LEMMA FetchKeepsIInv ==
  ASSUME IInv, NEW w \in Writers, StartWalk(w) \/ FetchBody(w) \/ FetchLogs(w) \/ Abort(w)
  PROVE  IInv'
  <1> USE RowsAssumption DEF IInv
  <1>1. UNCHANGED <<chainVars, tables, readerVars, histories, rewinds>>
    BY DEF StartWalk, FetchBody, FetchLogs, Abort
  <1>2. /\ pc' \in [Writers -> {"idle", "fetch", "body", "ready"}]
        /\ at' \in [Writers -> Heights] /\ br' \in [Writers -> Branches]
        /\ got' \in [Writers -> SUBSET Keys] /\ lagging' \in 0..MaxLagging
    <2>0. 0 \in Heights /\ 0 \in Branches
      BY DEF Heights, Branches
    <2>1. CASE StartWalk(w)
      BY <2>1 DEF StartWalk, TypeOK, Heights
    <2>2. CASE FetchBody(w)
      BY <2>2 DEF FetchBody, TypeOK
    <2>3. CASE FetchLogs(w)
      <3>1. at[w] \in Heights /\ chain[at[w]] \in Branches
        BY DEF TypeOK
      <3>2. {TxAt(at[w], chain[at[w]])} \in SUBSET Keys
        BY <3>1, TxAtIsKey
      <3>3. \E a \in SUBSET Keys : got' = [got EXCEPT ![w] = a]
        BY <2>3, <3>2 DEF FetchLogs
      <3>4. lagging' \in 0..MaxLagging
        BY <2>3 DEF FetchLogs, TypeOK
      <3>5. QED
        BY <2>3, <3>3, <3>4 DEF FetchLogs, TypeOK
    <2>4. CASE Abort(w)
      BY <2>0, <2>4 DEF Abort, TypeOK
    <2>5. QED
      BY <2>1, <2>2, <2>3, <2>4
  <1>3. TypeOK'
    BY <1>1, <1>2 DEF TypeOK, chainVars, contentVars, tables, readerVars, histories
  <1>4. TablesInv' /\ TransfersInv'
    BY <1>1 DEF TablesInv, RowsExact, BodyTxs, TransfersInv, chainVars, contentVars, tables,
                histories
  <1>5. ReaderInv'
    BY <1>1 DEF ReaderInv, Coming, Tx, tables, readerVars
  <1>6. QED
    BY <1>3, <1>4, <1>5

\* What one bundle does to the rows of each height and of each key.
LEMMA BundleRows ==
  ASSUME IInv, NEW h \in Heights, NEW b \in Branches, NEW answer \in SUBSET Keys,
         InsertRows(h, b, answer), Stored(h, b, answer), UNCHANGED contentVars
  PROVE  /\ blocks' \in [Heights -> Branches \cup {None}]
         /\ txs' \subseteq Keys /\ logs' \in [Heights -> Keys \cup {None}]
         /\ transfers' \in [Keys -> Standards \cup {None}]
         /\ \A g \in Heights :
              /\ blocks'[g] = IF g = h /\ blocks[g] = None THEN b ELSE blocks[g]
              /\ logs'[g] = IF /\ g = h /\ logs[g] = None
                               /\ h \notin reverted /\ TxAt(h, b) \in answer
                            THEN TxAt(h, b) ELSE logs[g]
         /\ \A k \in Keys : k \in txs' <=> k \in txs \/ (h \notin reverted /\ k = TxAt(h, b))
         /\ \A k \in Keys :
              transfers'[k] = IF /\ k = TxAt(h, b) /\ h \notin reverted /\ k \in answer
                                 /\ transfers[k] = None
                              THEN DecodeTransfer(raw) ELSE transfers[k]
  <1> USE DEF IInv, InsertRows
  <1>1. TxAt(h, b) \in Keys /\ TxAt(h, b) # None
    BY TxAtIsKey
  <1>2. \A k : k \in BundleLogs(h, b, answer) <=>
               k = TxAt(h, b) /\ h \notin reverted /\ k \in answer
    BY DEF BundleLogs, BodyTxs
  <1>3. /\ blocks' \in [Heights -> Branches \cup {None}]
        /\ \A g \in Heights : blocks'[g] = IF g = h /\ blocks[g] = None THEN b ELSE blocks[g]
    BY DEF InsertBlock, TypeOK
  <1>4. /\ txs' \subseteq Keys
        /\ \A k \in Keys : k \in txs' <=> k \in txs \/ (h \notin reverted /\ k = TxAt(h, b))
    BY <1>1 DEF InsertTransactions, BodyTxs, TypeOK
  <1>5. BundleLogs(h, b, answer) # {} <=> h \notin reverted /\ TxAt(h, b) \in answer
    BY <1>2
  <1>6. /\ logs' \in [Heights -> Keys \cup {None}]
        /\ \A g \in Heights :
             logs'[g] = IF /\ g = h /\ logs[g] = None
                           /\ h \notin reverted /\ TxAt(h, b) \in answer
                        THEN TxAt(h, b) ELSE logs[g]
    <2>1. logs \in [Heights -> Keys \cup {None}]
      BY DEF TypeOK
    <2>2. logs' = [logs EXCEPT ![h] =
                     IF logs[h] = None /\ BundleLogs(h, b, answer) # {} THEN TxAt(h, b) ELSE logs[h]]
      BY DEF InsertLogs
    <2>3. QED
      BY <1>1, <1>5, <2>1, <2>2
  <1>7. /\ transfers' \in [Keys -> Standards \cup {None}]
        /\ \A k \in Keys :
             transfers'[k] = IF /\ k = TxAt(h, b) /\ h \notin reverted /\ k \in answer
                                /\ transfers[k] = None
                             THEN DecodeTransfer(raw) ELSE transfers[k]
    <2>1. /\ DecodeTransfer(raw) \in Standards \cup {None}
          /\ \A k \in Keys : transfers[k] \in Standards \cup {None}
      BY DecodeIsReference DEF TypeOK
    <2>2. transfers' = [k \in Keys |->
            IF k \in BundleLogs(h, b, answer) /\ transfers[k] = None
            THEN DecodeTransfer(raw) ELSE transfers[k]]
      BY DEF InsertTransfers
    <2>3. transfers' \in [Keys -> Standards \cup {None}]
      BY <2>1, <2>2, Zenon
    <2>4. QED
      BY <1>2, <2>2, <2>3
  <1>8. QED
    BY <1>3, <1>4, <1>6, <1>7

\* The tables after a bundle: a new block, a block that is there, or one that has
\* the header of another branch.
LEMMA BundleKeepsTables ==
  ASSUME IInv, NEW h \in Heights, NEW b \in Branches, NEW answer \in SUBSET Keys,
         InsertRows(h, b, answer), Stored(h, b, answer), UNCHANGED contentVars
  PROVE  TablesInv' /\ TransfersInv'
  <1> USE RowsAssumption
  <1> DEFINE t == TxAt(h, b)
  <1>1. t \in Keys /\ t[1] = h /\ t # None /\ b # None
    BY TxAtIsKey
  <1>2. /\ \A g \in Heights :
             /\ blocks'[g] = IF g = h /\ blocks[g] = None THEN b ELSE blocks[g]
             /\ logs'[g] = IF g = h /\ logs[g] = None /\ h \notin reverted /\ t \in answer
                           THEN t ELSE logs[g]
        /\ \A k \in Keys : k \in txs' <=> k \in txs \/ (h \notin reverted /\ k = t)
        /\ \A k \in Keys :
             transfers'[k] = IF k = t /\ h \notin reverted /\ k \in answer /\ transfers[k] = None
                             THEN DecodeTransfer(raw) ELSE transfers[k]
        /\ txs' \subseteq Keys
    BY BundleRows
  <1>3. /\ blind' = IF t \in answer THEN blind \ {h}
                    ELSE IF blocks[h] = None THEN blind \cup {h} ELSE blind
        /\ overlaid' = IF blocks[h] \in {None, b} THEN overlaid ELSE overlaid \cup {h}
        /\ left' = left
    BY DEF Stored
  <1>4. raw' = raw /\ reverted' = reverted /\ DecodeTransfer(raw)' = DecodeTransfer(raw)
    BY DEF contentVars, DecodeTransfer
  <1>5. /\ \A g \in Heights : blocks[g] \in Branches \cup {None} /\ logs[g] \in Keys \cup {None}
        /\ txs \subseteq Keys
    BY DEF IInv, TypeOK
  <1>6. /\ \A g \in Heights :
             /\ blocks[g] = None => logs[g] = None /\ \A k \in txs : k[1] # g
             /\ blocks[g] # None /\ g \notin overlaid =>
                  /\ \A k \in Keys : k[1] = g =>
                       (k \in txs <=> g \notin reverted /\ k = TxAt(g, blocks[g]))
                  /\ logs[g] = IF g \in reverted \cup blind THEN None ELSE TxAt(g, blocks[g])
             /\ logs[g] \in txs \cup {None}
             /\ logs[g] # None => logs[g][1] = g
             /\ blocks[g] # None /\ g \notin reverted => TxAt(g, blocks[g]) \in txs
             /\ g \in blind \cup overlaid => blocks[g] # None
    BY DEF IInv, TablesInv, RowsExact, BodyTxs
  <1>7. \A g \in Heights :
          /\ blocks'[g] = None => logs'[g] = None /\ \A k \in txs' : k[1] # g
          /\ blocks'[g] # None /\ g \notin overlaid' =>
               /\ \A k \in Keys : k[1] = g =>
                    (k \in txs' <=> g \notin reverted /\ k = TxAt(g, blocks'[g]))
               /\ logs'[g] = IF g \in reverted \cup blind' THEN None ELSE TxAt(g, blocks'[g])
          /\ logs'[g] \in txs' \cup {None}
          /\ logs'[g] # None => logs'[g][1] = g
          /\ blocks'[g] # None /\ g \notin reverted => TxAt(g, blocks'[g]) \in txs'
          /\ g \in blind' \cup overlaid' => blocks'[g] # None
    <2> SUFFICES ASSUME NEW g \in Heights
        PROVE /\ blocks'[g] = None => logs'[g] = None /\ \A k \in txs' : k[1] # g
              /\ blocks'[g] # None /\ g \notin overlaid' =>
                   /\ \A k \in Keys : k[1] = g =>
                        (k \in txs' <=> g \notin reverted /\ k = TxAt(g, blocks'[g]))
                   /\ logs'[g] = IF g \in reverted \cup blind' THEN None ELSE TxAt(g, blocks'[g])
              /\ logs'[g] \in txs' \cup {None}
              /\ logs'[g] # None => logs'[g][1] = g
              /\ blocks'[g] # None /\ g \notin reverted => TxAt(g, blocks'[g]) \in txs'
              /\ g \in blind' \cup overlaid' => blocks'[g] # None
      OBVIOUS
    <2>0. blocks[g] # None => TxAt(g, blocks[g]) \in Keys /\ TxAt(g, blocks[g])[1] = g
                              /\ TxAt(g, blocks[g]) # None
      BY <1>5, TxAtIsKey
    <2>1. CASE g # h
      <3>1. /\ blocks'[g] = blocks[g] /\ logs'[g] = logs[g]
            /\ g \in blind' <=> g \in blind
            /\ g \in overlaid' <=> g \in overlaid
            /\ \A k \in Keys : k[1] = g => (k \in txs' <=> k \in txs)
            /\ txs \subseteq txs' 
        BY <1>1, <1>2, <1>3, <1>5, <2>1
      <3> HIDE DEF t
      <3>2. QED
        BY <1>2, <1>5, <1>6, <2>0, <3>1
    <2>2. CASE g = h /\ blocks[g] = None
      <3>1. /\ blocks'[g] = b /\ logs[g] = None /\ TxAt(g, blocks'[g]) = t
            /\ g \notin overlaid' /\ (g \in blind' <=> t \notin answer)
            /\ \A k \in Keys : k[1] = g => k \notin txs
        BY <1>2, <1>3, <1>6, <2>2
      <3> HIDE DEF t
      <3>2. QED
        BY <1>1, <1>2, <1>5, <2>2, <3>1
    <2>3. CASE g = h /\ blocks[g] = b
      <3>1. /\ blocks'[g] = b /\ TxAt(g, blocks'[g]) = t /\ TxAt(g, blocks[g]) = t
            /\ (g \in overlaid' <=> g \in overlaid)
            /\ (g \in blind' <=> g \in blind /\ t \notin answer)
        BY <1>1, <1>2, <1>3, <2>3
      <3> HIDE DEF t
      <3>2. QED
        BY <1>1, <1>2, <1>5, <1>6, <2>3, <3>1
    <2>4. CASE g = h /\ blocks[g] \notin {None, b}
      <3>1. /\ blocks'[g] = blocks[g] /\ g \in overlaid'
        BY <1>2, <1>3, <2>4
      <3> HIDE DEF t
      <3>2. QED
        BY <1>1, <1>2, <1>5, <1>6, <2>0, <2>4, <3>1
    <2>5. QED
      BY <2>1, <2>2, <2>3, <2>4
  <1>8. TablesInv'
    BY <1>4, <1>7 DEF TablesInv, RowsExact, BodyTxs
  <1> HIDE DEF t
  <1>9. ASSUME NEW k \in Keys
        PROVE  /\ transfers'[k] \in {None, DecodeTransfer(raw)}
               /\ transfers'[k] # None => logs'[k[1]] = k \/ k \in left \/ k[1] \in overlaid'
    <2>1. k[1] \in Heights
      BY KeyHeight
    <2>2. /\ transfers[k] \in {None, DecodeTransfer(raw)}
          /\ transfers[k] # None => logs[k[1]] = k \/ k \in left \/ k[1] \in overlaid
      BY DEF IInv, TransfersInv
    <2>3. overlaid \subseteq overlaid'
      BY <1>3
    <2>4. logs[k[1]] = k => logs'[k[1]] = k
      BY <1>2, <2>1, RowsAssumption
    <2>5. CASE transfers'[k] = transfers[k]
      BY <2>2, <2>3, <2>4, <2>5
    <2>6. CASE k = t /\ h \notin reverted /\ t \in answer
      <3>1. k[1] = h
        BY <1>1, <2>6
      <3>2. logs[h] = None => logs'[h] = t
        BY <1>2, <2>6
      <3>3. CASE h \in overlaid'
        BY <1>2, <2>2, <2>6, <3>1, <3>3
      <3>4. CASE logs[h] # None /\ h \notin overlaid'
        <4>1. blocks[h] = b
          BY <1>3, <1>6, <3>4
        <4>2. logs[h] = t
          BY <1>3, <1>6, <2>3, <3>4, <4>1 DEF t
        <4>3. QED
          BY <1>2, <2>2, <2>4, <2>6, <3>1, <4>2
      <3>5. QED
        BY <1>2, <2>2, <2>6, <3>1, <3>2, <3>3, <3>4
    <2>7. QED
      BY <1>2, <2>5, <2>6
  <1>10. ASSUME NEW g \in Heights, logs'[g] # None
         PROVE  transfers'[logs'[g]] = DecodeTransfer(raw)
    <2>1. \A k \in Keys : transfers[k] \in {None, DecodeTransfer(raw)}
      BY DEF IInv, TransfersInv
    <2>2. logs[g] # None => logs[g] \in Keys /\ transfers[logs[g]] = DecodeTransfer(raw)
      BY <1>5 DEF IInv, TransfersInv
    <2>3. CASE logs'[g] = logs[g]
      BY <1>2, <1>10, <2>2, <2>3
    <2>4. CASE logs'[g] = t /\ h \notin reverted /\ t \in answer
      BY <1>1, <1>2, <2>1, <2>4
    <2>5. QED
      BY <1>2, <2>3, <2>4
  <1>11. TransfersInv'
    BY <1>3, <1>4, <1>9, <1>10 DEF TransfersInv
  <1>12. QED
    BY <1>8, <1>11

\* write_block: the rows and the cursor, and the walk goes on.  No table loses a
\* row, so that a reader finds what it owes.
LEMMA WriteBlockKeepsIInv ==
  ASSUME IInv, NEW w \in Writers, WriteBlock(w)
  PROVE  IInv'
  <1> USE RowsAssumption DEF IInv
  <1>1. /\ at[w] \in Heights /\ br[w] \in Branches /\ got[w] \in SUBSET Keys
        /\ InsertRows(at[w], br[w], got[w]) /\ Stored(at[w], br[w], got[w])
        /\ UNCHANGED <<chainVars, lagging, readerVars, rewinds>>
        /\ UNCHANGED contentVars
    BY DEF WriteBlock, TypeOK, chainVars
  <1>2. /\ cursor' \in -1..MaxHeight
        /\ pc' \in [Writers -> {"idle", "fetch", "body", "ready"}]
        /\ at' \in [Writers -> Heights] /\ br' \in [Writers -> Branches]
        /\ got' \in [Writers -> SUBSET Keys]
    <2>1. /\ cursor' = IF at[w] > cursor THEN at[w] ELSE cursor
          /\ WalkOn(w) /\ 0 \in Heights /\ 0 \in Branches
      BY DEF WriteBlock, Heights, Branches
    <2>2. cursor' \in -1..MaxHeight
      BY <1>1, <2>1 DEF TypeOK, Heights
    <2>3. \E h \in Heights, p \in {"idle", "fetch"} :
            pc' = [pc EXCEPT ![w] = p] /\ at' = [at EXCEPT ![w] = h]
      <3>1. at[w] < MaxHeight => at[w] + 1 \in Heights
        BY <1>1 DEF Heights
      <3>2. QED
        BY <2>1, <3>1 DEF WalkOn
    <2>4. QED
      BY <2>1, <2>2, <2>3 DEF WalkOn, TypeOK
  <1>3. /\ blocks' \in [Heights -> Branches \cup {None}]
        /\ txs' \subseteq Keys /\ logs' \in [Heights -> Keys \cup {None}]
        /\ transfers' \in [Keys -> Standards \cup {None}]
    BY <1>1, BundleRows
  <1>4. blind' \subseteq Heights /\ overlaid' \subseteq Heights /\ left' \subseteq Keys
    BY <1>1 DEF Stored, TypeOK
  <1>5. TypeOK'
    BY <1>1, <1>2, <1>3, <1>4 DEF TypeOK, chainVars, contentVars, readerVars
  <1>6. TablesInv' /\ TransfersInv'
    BY <1>1, BundleKeepsTables
  <1>7. ReaderInv'
    <2>1. /\ \A g \in Heights : /\ blocks[g] # None => blocks'[g] # None
                                /\ logs[g] # None => logs'[g] = logs[g]
          /\ txs \subseteq txs'
      <3>1. txs \subseteq txs'
        BY <1>1 DEF InsertRows, InsertTransactions
      <3>2. \A g \in Heights :
              /\ blocks[g] # None => blocks'[g] = blocks[g]
              /\ logs[g] # None => logs'[g] = logs[g]
        BY <1>1, BundleRows
      <3>3. QED
        BY <3>1, <3>2
    <2>2. Tx' = Tx /\ Tx # None /\ rh \in Heights
      <3>1. rh' = rh /\ rb' = rb /\ rh \in Heights /\ rb \in Branches
        BY <1>1 DEF readerVars, TypeOK
      <3>2. QED
        BY <3>1, TxAtIsKey DEF Tx
    <2>3. \A part : Coming(part) => Coming(part)'
      BY <1>1, <2>1, <2>2 DEF Coming, readerVars
    <2>4. QED
      BY <1>1, <2>3 DEF ReaderInv, readerVars
  <1>8. QED
    BY <1>5, <1>6, <1>7

\* rewind_to: the cascade keeps the three tables together; the transfers of the
\* removed heights stay.  A request under way is disturbed by it.
LEMMA RewindToKeepsIInv ==
  ASSUME IInv, NEW h \in Heights, RewindTo(h)
  PROVE  IInv'
  <1> USE RowsAssumption DEF IInv
  <1>1. /\ \A g \in Heights : /\ blocks'[g] = IF g >= h THEN None ELSE blocks[g]
                              /\ logs'[g] = IF g >= h THEN None ELSE logs[g]
        /\ txs' = {k \in txs : k[1] < h}
        /\ blind' = {g \in blind : g < h} /\ overlaid' = {g \in overlaid : g < h}
        /\ left' = left \cup {k \in Keys : k[1] >= h /\ transfers[k] # None}
        /\ rewinds' \in 0..MaxRewinds
        /\ UNCHANGED <<chainVars, transfers, cursor, writerVars, rpc, rh, rb, reply, whole, torn>>
    BY DEF RewindTo, TypeOK
  <1>2. disturbed' \in BOOLEAN /\ (disturbed' <=> rpc # "idle")
    BY Zenon DEF RewindTo
  <1>3. /\ blocks' \in [Heights -> Branches \cup {None}]
        /\ logs' \in [Heights -> Keys \cup {None}]
    <2>1. \A g \in Heights : blocks[g] \in Branches \cup {None} /\ logs[g] \in Keys \cup {None}
      BY DEF TypeOK
    <2>2. /\ blocks' = [g \in Heights |-> IF g >= h THEN None ELSE blocks[g]]
          /\ logs' = [g \in Heights |-> IF g >= h THEN None ELSE logs[g]]
      BY DEF RewindTo
    <2>3. QED
      BY <2>1, <2>2, Zenon
  <1>4. TypeOK'
    BY <1>1, <1>2, <1>3 DEF TypeOK, chainVars, contentVars, writerVars
  <1>5. \A g \in Heights : g \in Int /\ (g >= h <=> ~(g < h))
    BY DEF Heights
  <1>6. raw' = raw /\ reverted' = reverted /\ transfers' = transfers
        /\ DecodeTransfer(raw)' = DecodeTransfer(raw)
    BY <1>1 DEF chainVars, contentVars, DecodeTransfer
  <1>7. TablesInv'
    <2> SUFFICES ASSUME NEW g \in Heights
        PROVE (/\ blocks[g] = None => logs[g] = None /\ \A k \in txs : k[1] # g
               /\ blocks[g] # None /\ g \notin overlaid =>
                    /\ \A k \in Keys : k[1] = g => (k \in txs <=> k \in BodyTxs(g, blocks[g]))
                    /\ logs[g] = IF g \in reverted \cup blind THEN None ELSE TxAt(g, blocks[g])
               /\ logs[g] \in txs \cup {None}
               /\ logs[g] # None => logs[g][1] = g
               /\ blocks[g] # None /\ g \notin reverted => TxAt(g, blocks[g]) \in txs
               /\ g \in blind \cup overlaid => blocks[g] # None)'
      BY <1>6 DEF TablesInv, RowsExact
    <2>1. /\ blocks[g] = None => logs[g] = None /\ \A k \in txs : k[1] # g
          /\ blocks[g] # None /\ g \notin overlaid =>
               /\ \A k \in Keys : k[1] = g => (k \in txs <=> k \in BodyTxs(g, blocks[g]))
               /\ logs[g] = IF g \in reverted \cup blind THEN None ELSE TxAt(g, blocks[g])
          /\ logs[g] \in txs \cup {None}
          /\ logs[g] # None => logs[g][1] = g
          /\ blocks[g] # None /\ g \notin reverted => TxAt(g, blocks[g]) \in txs
          /\ g \in blind \cup overlaid => blocks[g] # None
      BY DEF TablesInv, RowsExact
    <2>2. blocks[g] # None => TxAt(g, blocks[g])[1] = g
      BY TxAtIsKey DEF TypeOK
    <2>3. CASE g >= h
      BY <1>1, <1>5, <2>3
    <2>4. CASE g < h
      <3>1. /\ blocks'[g] = blocks[g] /\ logs'[g] = logs[g]
            /\ \A k : k[1] = g => (k \in txs' <=> k \in txs)
            /\ (g \in blind' <=> g \in blind) /\ (g \in overlaid' <=> g \in overlaid)
            /\ BodyTxs(g, blocks[g])' = BodyTxs(g, blocks[g])
        BY <1>1, <1>5, <1>6, <2>4 DEF BodyTxs
      <3>2. QED
        BY <1>6, <2>1, <2>2, <3>1
    <2>5. QED
      BY <1>5, <2>3, <2>4
  <1>8. TransfersInv'
    <2>1. ASSUME NEW k \in Keys, transfers[k] # None
          PROVE  logs'[k[1]] = k \/ k \in left' \/ k[1] \in overlaid'
      <3>1. k[1] \in Heights
        BY KeyHeight
      <3>2. logs[k[1]] = k \/ k \in left \/ k[1] \in overlaid
        BY <2>1 DEF TransfersInv
      <3>3. QED
        BY <1>1, <1>5, <2>1, <3>1, <3>2
    <2>2. QED
      BY <1>1, <1>6, <2>1 DEF TransfersInv
  <1>9. ReaderInv'
    BY <1>1, <1>2 DEF ReaderInv
  <1>10. QED
    BY <1>4, <1>7, <1>8, <1>9

-----------------------------------------------------------------------------

\* A step of the reader leaves the tables and the writers alone.
LEMMA ReaderLeavesTables ==
  ASSUME IInv, UNCHANGED <<chainVars, tables, writerVars, histories, rewinds>>,
         rpc' \in {"idle", "tx", "logs", "block", "txs", "gtx", "glogs"},
         rh' \in Heights, rb' \in Branches,
         reply' \subseteq {"tx", "logs", "block"}, whole' \subseteq {"tx", "logs", "block"},
         disturbed' \in BOOLEAN, torn' \in BOOLEAN
  PROVE  TypeOK' /\ TablesInv' /\ TransfersInv'
  <1>1. TypeOK'
    BY DEF IInv, TypeOK, chainVars, contentVars, tables, writerVars, histories
  <1>2. TablesInv' /\ TransfersInv'
    BY DEF IInv, TablesInv, RowsExact, BodyTxs, TransfersInv, chainVars, contentVars, tables,
           histories
  <1>3. QED
    BY <1>1, <1>2

\* A request arrives.
LEMMA AskKeepsIInv ==
  ASSUME IInv, NEW h \in Heights, NEW b \in Branches, NEW first \in {"tx", "gtx", "block"},
         Ask(h, b, first)
  PROVE  IInv'
  <1>1. TypeOK' /\ TablesInv' /\ TransfersInv'
    BY ReaderLeavesTables DEF Ask, IInv, TypeOK
  <1>2. ReaderInv'
    BY DEF Ask, IInv, ReaderInv
  <1>3. QED
    BY <1>1, <1>2 DEF IInv

\* A query in the middle of a request: what it adds to the parts owed, the reader
\* has found or will find.
LEMMA ReadKeepsIInv ==
  ASSUME IInv,
         NEW next \in {"logs", "glogs", "block", "txs"},
         NEW found \in SUBSET {"tx", "logs", "block"},
         NEW must \in SUBSET {"tx", "logs", "block"},
         Read(next, found, must), rb' \in Branches,
         next = "logs" => "tx" \in found,
         next = "block" => "tx" \in reply,
         ~disturbed => \A part \in whole \cup must : part \in reply \cup found \/ Coming(part)'
  PROVE  IInv'
  <1>1. TypeOK' /\ TablesInv' /\ TransfersInv'
    BY ReaderLeavesTables DEF Read, IInv, TypeOK
  <1>2. reply' = reply \cup found /\ whole' = whole \cup must /\ rpc' = next
        /\ UNCHANGED <<disturbed, torn>>
    BY DEF Read
  <1>3. ReaderInv'
    BY <1>2 DEF IInv, ReaderInv
  <1>4. QED
    BY <1>1, <1>3 DEF IInv

\* The last query of a request: when it finds what was still to come, the reply is
\* whole.
LEMMA ReplyKeepsIInv ==
  ASSUME IInv, NEW found, ReadAndReply(found),
         ~disturbed => whole \subseteq reply \cup found
  PROVE  IInv'
  <1>1. torn' \in BOOLEAN /\ ~torn' /\ disturbed' \in BOOLEAN
    <2>1. torn' \in BOOLEAN /\ disturbed' \in BOOLEAN
      BY Zenon DEF ReadAndReply
    <2>2. ~torn
      BY DEF IInv, ReaderInv
    <2>3. ~torn'
      BY <2>2, Zenon DEF ReadAndReply
    <2>4. QED
      BY <2>1, <2>3
  <1>2. TypeOK' /\ TablesInv' /\ TransfersInv'
    <2>1. 0 \in Heights /\ 0 \in Branches
      BY RowsAssumption DEF Heights, Branches
    <2>2. QED
      BY <1>1, <2>1, ReaderLeavesTables DEF ReadAndReply
  <1>3. ReaderInv'
    BY <1>1 DEF ReadAndReply, ReaderInv
  <1>4. QED
    BY <1>2, <1>3 DEF IInv

\* A stored transaction has its block, and its log unless the histories excuse it.
LEMMA StoredTx ==
  ASSUME IInv, Tx \in txs
  PROVE  blocks[rh] # None /\ ("logs" \in LogsDue => logs[rh] = Tx)
  <1>1. Tx \in Keys /\ Tx[1] = rh /\ rh \in Heights
    BY TxAtIsKey DEF IInv, TypeOK, Tx
  <1>2. blocks[rh] # None
    BY <1>1 DEF IInv, TablesInv, RowsExact
  <1>3. ASSUME rh \notin blind \cup overlaid
        PROVE  logs[rh] = Tx
    <2>1. Tx \in BodyTxs(rh, blocks[rh])
      BY <1>1, <1>2, <1>3 DEF IInv, TablesInv, RowsExact
    <2>2. rh \notin reverted /\ Tx = TxAt(rh, blocks[rh])
      BY <2>1 DEF BodyTxs
    <2>3. QED
      BY <1>1, <1>2, <1>3, <2>2 DEF IInv, TablesInv, RowsExact
  <1>4. QED
    BY <1>2, <1>3 DEF LogsDue

\* /tx/:hash.
LEMMA ReadTxKeepsIInv ==
  ASSUME IInv, ReadTx \/ ReadLogs \/ ReadTimestamp
  PROVE  IInv'
  <1> USE DEF IInv
  <1>0. rb \in Branches
    BY DEF TypeOK
  <1>1. CASE ReadTx
    <2>1. reply = {} /\ whole = {}
      BY <1>1 DEF ReadTx, ReaderInv
    <2>2. CASE Tx \in txs /\ Read("logs", {"tx"}, {"block"} \cup LogsDue) /\ UNCHANGED rb
      <3>1. LogsDue \subseteq {"logs"} /\ {"block"} \cup LogsDue \in SUBSET {"tx", "logs", "block"}
        BY DEF LogsDue
      <3>2. /\ rpc' = "logs" /\ UNCHANGED <<rh, txs, logs, blocks>> /\ Tx' = Tx
        BY <2>2 DEF Read, tables, Tx
      <3>3. blocks[rh] # None /\ ("logs" \in LogsDue => logs[rh] = Tx)
        BY <2>2, StoredTx
      <3>4. \A part \in {"block"} \cup LogsDue : Coming(part)'
        BY <3>1, <3>2, <3>3 DEF Coming
      <3>5. QED
        BY <1>0, <2>1, <2>2, <3>1, <3>4, ReadKeepsIInv
    <2>3. CASE ReadAndReply({})
      BY <2>1, <2>3, ReplyKeepsIInv
    <2>4. QED
      BY <1>1, <2>2, <2>3 DEF ReadTx
  <1>2. CASE ReadLogs
    <2>1. /\ rpc = "logs" /\ "tx" \in reply /\ Read("block", LogsFound, {}) /\ rb' = rb
          /\ rpc' = "block" /\ UNCHANGED <<rh, txs, logs, blocks>>
      BY <1>2 DEF ReadLogs, ReaderInv, Read, tables
    <2>2. LogsFound \in SUBSET {"tx", "logs", "block"} /\ (logs[rh] = Tx => "logs" \in LogsFound)
      BY DEF LogsFound
    <2>3. ~disturbed => \A part \in whole : part \in reply \cup LogsFound \/ Coming(part)'
      BY <2>1, <2>2 DEF ReaderInv, Coming
    <2>4. QED
      BY <1>0, <2>1, <2>2, <2>3, ReadKeepsIInv
  <1>3. CASE ReadTimestamp
    <2>1. rpc = "block" /\ ReadAndReply(IF blocks[rh] # None THEN {"block"} ELSE {})
      BY <1>3 DEF ReadTimestamp
    <2>2. ~disturbed => whole \subseteq reply \cup (IF blocks[rh] # None THEN {"block"} ELSE {})
      BY <2>1 DEF ReaderInv, Coming
    <2>3. QED
      BY <2>1, <2>2, ReplyKeepsIInv
  <1>4. QED
    BY <1>1, <1>2, <1>3

\* GraphQL's transaction.
LEMMA GqlTransactionKeepsIInv == ASSUME IInv, GqlTransaction PROVE IInv'
  <1> USE DEF IInv
  <1>0. rb \in Branches
    BY DEF TypeOK
  <1>1. CASE rpc = "gtx" /\ Tx \in txs /\ Read("glogs", {"tx"}, LogsDue) /\ UNCHANGED rb
    <2>1. reply = {} /\ whole = {}
      BY <1>1 DEF ReaderInv
    <2>2. LogsDue \subseteq {"logs"} /\ LogsDue \in SUBSET {"tx", "logs", "block"}
      BY DEF LogsDue
    <2>3. rpc' = "glogs" /\ UNCHANGED <<rh, txs, logs, blocks>> /\ Tx' = Tx
      BY <1>1 DEF Read, tables, Tx
    <2>4. "logs" \in LogsDue => logs[rh] = Tx
      BY <1>1, StoredTx
    <2>5. \A part \in LogsDue : Coming(part)'
      BY <2>2, <2>3, <2>4 DEF Coming
    <2>6. QED
      BY <1>0, <1>1, <2>1, <2>2, <2>5, ReadKeepsIInv
  <1>2. CASE rpc = "gtx" /\ Tx \notin txs /\ ReadAndReply({})
    BY <1>2, ReplyKeepsIInv DEF ReaderInv
  <1>3. CASE rpc = "glogs" /\ ReadAndReply(LogsFound)
    <2>1. ~disturbed => whole \subseteq reply \cup LogsFound
      BY <1>3 DEF ReaderInv, Coming, LogsFound
    <2>2. QED
      BY <1>3, <2>1, ReplyKeepsIInv
  <1>4. QED
    BY <1>1, <1>2, <1>3 DEF GqlTransaction

\* /blocks/:height: a header has the transaction of its own body, even where that
\* of another branch was written onto it.
LEMMA ReadBlockKeepsIInv ==
  ASSUME IInv, ReadBlock \/ ReadTxs
  PROVE  IInv'
  <1> USE DEF IInv
  <1>1. CASE ReadBlock
    <2> DEFINE must == IF rh \in reverted THEN {} ELSE {"tx"}
    <2>1. rpc = "block" /\ reply = {} /\ whole = {}
      BY <1>1 DEF ReadBlock, ReaderInv
    <2>2. CASE blocks[rh] # None /\ rb' = blocks[rh] /\ Read("txs", {"block"}, must)
      <3>1. rpc' = "txs" /\ UNCHANGED <<rh, txs, logs, blocks>>
        BY <2>2 DEF Read, tables
      <3>2. rh \in Heights /\ rb' \in Branches /\ Tx' = TxAt(rh, blocks[rh])
        BY <2>2, <3>1 DEF TypeOK, Tx
      <3>3. \A part \in must : Coming(part)'
        BY <2>2, <3>1, <3>2 DEF Coming, TablesInv
      <3>4. must \in SUBSET {"tx", "logs", "block"}
        OBVIOUS
      <3> HIDE DEF must
      <3>5. QED
        BY <2>1, <2>2, <3>2, <3>3, <3>4, ReadKeepsIInv
    <2>3. CASE ReadAndReply({})
      BY <2>1, <2>3, ReplyKeepsIInv
    <2>4. QED
      BY <1>1, <2>2, <2>3 DEF ReadBlock
  <1>2. CASE ReadTxs
    <2>1. rpc = "txs" /\ ReadAndReply(IF Tx \in txs THEN {"tx"} ELSE {})
      BY <1>2 DEF ReadTxs
    <2>2. ~disturbed => whole \subseteq reply \cup (IF Tx \in txs THEN {"tx"} ELSE {})
      BY <2>1 DEF ReaderInv, Coming
    <2>3. QED
      BY <2>1, <2>2, ReplyKeepsIInv
  <1>3. QED
    BY <1>1, <1>2

-----------------------------------------------------------------------------

\* Every step keeps the invariant.
LEMMA NextIInv == IInv /\ [Next]_vars => IInv'
  <1> SUFFICES ASSUME IInv, [Next]_vars PROVE IInv'
    OBVIOUS
  <1>1. CASE UNCHANGED vars
    <2>1. TypeOK' /\ TablesInv' /\ TransfersInv'
      BY <1>1, ReaderLeavesTables DEF vars, readerVars, IInv, TypeOK
    <2>2. ReaderInv'
      BY <1>1 DEF vars, readerVars, tables, IInv, ReaderInv, Coming, Tx
    <2>3. QED
      BY <2>1, <2>2 DEF IInv
  <1>2. CASE Next
    <2>1. 0 \in Branches
      BY RowsAssumption DEF Branches
    <2>2. QED
      BY <1>2, <2>1, ChainRollsBackKeepsIInv, FetchKeepsIInv, WriteBlockKeepsIInv,
         RewindToKeepsIInv, AskKeepsIInv, ReadTxKeepsIInv, GqlTransactionKeepsIInv,
         ReadBlockKeepsIInv DEF Next
  <1>3. QED
    BY <1>1, <1>2

\* The invariant of the tables, the writers and the reader.
LEMMA SpecIInv == Spec => []IInv
  BY InitIInv, NextIInv, PTL DEF Spec

\* Type correctness, for every value of the constants.
THEOREM RowsTypeCorrect == Spec => []TypeOK
  <1>1. IInv => TypeOK
    BY DEF IInv
  <1>2. QED
    BY <1>1, SpecIInv, PTL

\* A stored block has exactly the rows of its own body and of the writes that came
\* with logs, whatever rollbacks and stale walks do; only where another branch was
\* written onto it may it have more.
THEOREM RowsAreExact == Spec => []RowsExact
  <1>1. IInv => RowsExact
    BY DEF IInv, TablesInv
  <1>2. QED
    BY <1>1, SpecIInv, PTL

\* Every stored log has its transfer, under the standard of its event, and a
\* transfer without its log was left by a rewind or overlaid: also where a rewind
\* has removed a height and its new block is stored beside the old transfers.
THEOREM TransfersAreExact == Spec => []TransfersExact
  <1>1. ASSUME IInv PROVE TransfersExact
    <2>1. /\ DecodeTransfer(raw) \in Standards \cup {None}
          /\ \A s \in Standards : DecodeTransfer(raw) = s <=> Reference(raw)[s]
      BY <1>1, DecodeIsReference DEF IInv, TypeOK
    <2>2. None \notin Standards
      BY RowsAssumption DEF Standards
    <2>3. QED
      BY <1>1, <2>1, <2>2 DEF IInv, TransfersInv, TransfersExact
  <1>2. QED
    BY <1>1, SpecIInv, PTL

\* No detail reply is torn by writers, however its queries interleave with them.
THEOREM DetailIsWhole == Spec => []DetailWhole
  <1>1. IInv => DetailWhole
    BY DEF IInv, ReaderInv, DetailWhole
  <1>2. QED
    BY <1>1, SpecIInv, PTL
=============================================================================
