---------------------------- MODULE ProcessProofs ----------------------------
(***************************************************************************)
(* The analytics flusher and the shutdown of the process, for any number   *)
(* of rows and failed INSERTs.  What is shown of the flusher holds under   *)
(* any producers (Spec) and under the real ones (ProcessSpec); only the    *)
(* process can start with a flusher that panicked.                         *)
(***************************************************************************)
EXTENDS Process, FiniteSetTheorems, SequenceTheorems, TLAPS

\* Every row that is somewhere, in the order in which the table gets them.
AllRows == delivered \o batch \o buf \o queue

\* No producer's rows are out of order, nor is one there twice.
InOrder(s) ==
  \A i, j \in 1..Len(s) : i < j /\ s[i][1] = s[j][1] => s[i][2] < s[j][2]

\* TypeOK, and the one more place where the process can have the flusher.
FlusherTypeInv ==
  /\ next \in [Producers -> 1..(MaxRows + 1)]
  /\ queue \in Seq(Rows) /\ buf \in Seq(Rows) /\ batch \in Seq(Rows)
  /\ fpc \in {"select", "flush", "final", "exited", "panicked"}
  /\ cancelled \in BOOLEAN
  /\ accepted \subseteq Rows
  /\ delivered \in Seq(Rows)
  /\ errors \in 0..MaxErrors

\* A producer's accepted rows are older than its next one, so a push is always
\* a new row; until an INSERT fails, AllRows is what was accepted, in order.
FlusherInv ==
  /\ FlusherTypeInv
  /\ fpc = "select" => batch = <<>>
  /\ errors > 0 => ~ReceiverAlive
  /\ IsFiniteSet(accepted) /\ \A r \in accepted : r[2] < next[r[1]]
  /\ errors = 0 => /\ ToSet(AllRows) = accepted
                   /\ Len(AllRows) = Cardinality(accepted)
                   /\ InOrder(AllRows)
  /\ InOrder(delivered)

\* The tasks: where each can be, and that only main's failure stops one between
\* its commit and its push.
Unpushed(p) == IF tpc[p] = "committed" THEN 1 ELSE 0

TaskInv ==
  /\ tpc \in [Tasks -> {"loop", "walk", "committed", "ended", "panicked"}]
  /\ commits \in Nat /\ lost \in Nat
  /\ mpc # "failed" =>
       commits - lost = (next["backfill"] - 1) + (next["tail"] - 1) + Unpushed("backfill") + Unpushed("tail")

\* main awaits the handles in their order, after the signal.
JoinInv ==
  /\ mpc \in {"run", "join", "exited", "failed"} /\ awaiting \in 1..6
  /\ mpc = "run" <=> ~cancelled
  /\ mpc = "run" => awaiting = 1
  /\ mpc \in {"join", "exited"} =>
       \A i \in 1..6 : i < awaiting \/ mpc = "exited" => Status(JoinOrder[i]) \in {"ended", "exited"}

\* Rows pushed before the signal: the final drain, which comes after it, takes
\* all of them.
EarlyInv ==
  /\ early \subseteq accepted
  /\ mpc = "run" => early = {}
  /\ fpc = "final" \/ (fpc = "exited" /\ errors = 0) => cancelled
  /\ fpc = "final" => early \subseteq ToSet(delivered) \cup ToSet(batch)
  /\ fpc = "exited" /\ errors = 0 /\ mpc # "failed" => early \subseteq ToSet(delivered)

IInv == FlusherInv /\ TaskInv /\ JoinInv /\ EarlyInv

-----------------------------------------------------------------------------
(***************************************************************************)
(* Sequences of rows.                                                      *)
(***************************************************************************)

\* A row is a producer and a number.
LEMMA RowParts ==
  ASSUME NEW r \in Rows
  PROVE  r[1] \in Producers /\ r[2] \in 1..MaxRows
  BY DEF Rows

\* What concatenation does to sequences of rows.
LEMMA RowSeqs ==
  /\ <<>> \in Seq(Rows)
  /\ \A s, t \in Seq(Rows) : s \o t \in Seq(Rows)
  /\ \A s, t, u \in Seq(Rows) : (s \o t) \o u = s \o (t \o u)
  /\ \A s \in Seq(Rows) : s \o <<>> = s /\ <<>> \o s = s
  OBVIOUS

\* A row at the end of a sequence of rows.
LEMMA AppendRow ==
  ASSUME NEW s \in Seq(Rows), NEW r \in Rows
  PROVE  /\ <<r>> \in Seq(Rows) /\ Append(s, r) \in Seq(Rows)
         /\ Append(s, r) = s \o <<r>> /\ ToSet(<<r>>) = {r}
         /\ Len(Append(s, r)) = Len(s) + 1
         /\ \A i \in 1..Len(s) : Append(s, r)[i] = s[i]
         /\ Append(s, r)[Len(s) + 1] = r
  <1>1. ToSet(<<r>>) = {r}
    <2>1. DOMAIN <<r>> = {1} /\ <<r>>[1] = r
      OBVIOUS
    <2>2. QED
      BY <2>1 DEF ToSet
  <1>2. QED
    BY <1>1

\* The elements of two sequences, one after the other.
LEMMA ToSetConcat ==
  ASSUME NEW s \in Seq(Rows), NEW t \in Seq(Rows)
  PROVE  ToSet(s \o t) = ToSet(s) \cup ToSet(t)
  <1>1. /\ DOMAIN s = 1..Len(s) /\ DOMAIN t = 1..Len(t)
        /\ Len(s) \in Nat /\ Len(t) \in Nat
    BY LenProperties
  <1>2. /\ s \o t \in Seq(Rows) /\ Len(s \o t) = Len(s) + Len(t)
        /\ \A i \in 1..(Len(s) + Len(t)) :
             (s \o t)[i] = IF i <= Len(s) THEN s[i] ELSE t[i - Len(s)]
    BY ConcatProperties
  <1>3. DOMAIN (s \o t) = 1..(Len(s) + Len(t))
    BY <1>2, LenProperties
  <1>4. ASSUME NEW j \in 1..Len(t) PROVE t[j] \in ToSet(s \o t)
    <2>1. Len(s) + j \in 1..(Len(s) + Len(t)) /\ (s \o t)[Len(s) + j] = t[j]
      BY <1>1, <1>2
    <2>2. QED
      BY <1>3, <2>1 DEF ToSet
  <1>5. ASSUME NEW i \in 1..Len(s) PROVE s[i] \in ToSet(s \o t)
    <2>1. i \in 1..(Len(s) + Len(t)) /\ (s \o t)[i] = s[i]
      BY <1>1, <1>2
    <2>2. QED
      BY <1>3, <2>1 DEF ToSet
  <1>6. ASSUME NEW i \in 1..(Len(s) + Len(t)) PROVE (s \o t)[i] \in ToSet(s) \cup ToSet(t)
    <2>1. CASE i <= Len(s)
      BY <1>1, <1>2, <2>1 DEF ToSet
    <2>2. CASE ~(i <= Len(s))
      <3>1. i - Len(s) \in 1..Len(t) /\ (s \o t)[i] = t[i - Len(s)]
        BY <1>1, <1>2, <2>2
      <3>2. QED
        BY <1>1, <3>1 DEF ToSet
    <2>3. QED
      BY <2>1, <2>2
  <1>7. QED
    BY <1>1, <1>3, <1>4, <1>5, <1>6 DEF ToSet

\* The recv branch moves a row from one sequence to the one before it.
LEMMA MoveOne ==
  ASSUME NEW u \in Seq(Rows), NEW b \in Seq(Rows), NEW q \in Seq(Rows), q # <<>>
  PROVE  (u \o Append(b, Head(q))) \o Tail(q) = (u \o b) \o q
  <1>1. /\ Head(q) \in Rows /\ Tail(q) \in Seq(Rows)
        /\ Append(b, Head(q)) = b \o <<Head(q)>>
        /\ q = <<Head(q)>> \o Tail(q)
        /\ <<Head(q)>> \in Seq(Rows)
    OBVIOUS
  <1> DEFINE r == <<Head(q)>>
             v == Tail(q)
  <1>2. r \in Seq(Rows) /\ v \in Seq(Rows) /\ Append(b, Head(q)) = b \o r /\ q = r \o v
    BY <1>1
  <1> HIDE DEF r, v
  <1>3. u \o (b \o r) = (u \o b) \o r /\ u \o b \in Seq(Rows)
    BY <1>2
  <1>4. ((u \o b) \o r) \o v = (u \o b) \o (r \o v)
    BY <1>2, <1>3
  <1>5. QED
    BY <1>2, <1>3, <1>4 DEF v

\* A beginning of an ordered sequence is ordered.
LEMMA PrefixInOrder ==
  ASSUME NEW s \in Seq(Rows), NEW t \in Seq(Rows), InOrder(s \o t)
  PROVE  InOrder(s)
  <1> SUFFICES ASSUME NEW i \in 1..Len(s), NEW j \in 1..Len(s), i < j, s[i][1] = s[j][1]
               PROVE  s[i][2] < s[j][2]
    BY DEF InOrder
  <1>1. /\ i \in 1..Len(s \o t) /\ j \in 1..Len(s \o t)
        /\ (s \o t)[i] = s[i] /\ (s \o t)[j] = s[j]
    BY ConcatProperties, LenProperties
  <1>2. QED
    BY <1>1 DEF InOrder

\* The table, the batch, the buffer and the channel, one after the other: what is
\* written, or about to be, is the beginning of it.
LEMMA FourParts ==
  ASSUME NEW d \in Seq(Rows), NEW b \in Seq(Rows), NEW f \in Seq(Rows), NEW q \in Seq(Rows)
  PROVE  /\ d \o b \in Seq(Rows) /\ d \o b \o f \in Seq(Rows) /\ d \o b \o f \o q \in Seq(Rows)
         /\ ToSet(d \o b \o f \o q) = ToSet(d) \cup ToSet(b) \cup ToSet(f) \cup ToSet(q)
         /\ InOrder(d \o b \o f \o q) => InOrder(d \o b) /\ InOrder(d)
  <1>1. d \o b \in Seq(Rows) /\ d \o b \o f \in Seq(Rows) /\ d \o b \o f \o q \in Seq(Rows)
    OBVIOUS
  <1>2. /\ ToSet(d \o b \o f \o q) = ToSet(d \o b \o f) \cup ToSet(q)
        /\ ToSet(d \o b \o f) = ToSet(d \o b) \cup ToSet(f)
        /\ ToSet(d \o b) = ToSet(d) \cup ToSet(b)
    BY <1>1, ToSetConcat, Zenon
  <1>3. /\ InOrder(d \o b \o f \o q) => InOrder(d \o b \o f)
        /\ InOrder(d \o b \o f) => InOrder(d \o b)
        /\ InOrder(d \o b) => InOrder(d)
    BY <1>1, PrefixInOrder, Zenon
  <1>4. QED
    BY <1>1, <1>2, <1>3

\* Where the rows are, and that the steps of the flusher move none.
LEMMA FlusherMoves ==
  ASSUME FlusherInv, Recv \/ Tick \/ FinalDrain \/ InsertEnds
  PROVE  AllRows' = AllRows
  <1> USE DEF FlusherInv, FlusherTypeInv, AllRows
  <1>1. CASE Recv
    <2>1. delivered \o batch \in Seq(Rows)
      BY RowSeqs
    <2>2. QED
      BY <1>1, <2>1, MoveOne DEF Recv
  <1>2. CASE Tick \/ FinalDrain
    <2>1. /\ batch = <<>> /\ delivered' = delivered
          /\ batch' = buf \o queue /\ buf' = <<>> /\ queue' = <<>>
      BY <1>2 DEF Tick, FinalDrain, StartFlush
    <2>2. /\ delivered \o (buf \o queue) = (delivered \o buf) \o queue
          /\ delivered \o (buf \o queue) \in Seq(Rows) /\ delivered \o <<>> = delivered
      BY RowSeqs
    <2>3. ((delivered \o (buf \o queue)) \o <<>>) \o <<>> = delivered \o (buf \o queue)
      BY <2>2, RowSeqs
    <2>4. QED
      BY <2>1, <2>2, <2>3
  <1>3. CASE InsertEnds
    <2>1. (delivered \o batch) \o <<>> = delivered \o batch
      BY RowSeqs
    <2>2. QED
      BY <1>3, <2>1 DEF InsertEnds
  <1>4. QED
    BY <1>1, <1>2, <1>3

-----------------------------------------------------------------------------
(***************************************************************************)
(* The flusher and its channel.                                            *)
(***************************************************************************)

\* Nothing has been pushed.
LEMMA EmptyFlusherInv ==
  ASSUME next = [p \in Producers |-> 1], queue = <<>>, buf = <<>>, batch = <<>>,
         fpc \in {"select", "panicked"}, cancelled = FALSE,
         accepted = {}, delivered = <<>>, errors = 0
  PROVE  FlusherInv
  <1>0. cancelled \in BOOLEAN
    BY Zenon
  <1>1. FlusherTypeInv
    BY <1>0, FlusherAssumption DEF FlusherTypeInv
  <1>2. AllRows = <<>>
    BY DEF AllRows
  <1>3. IsFiniteSet(accepted) /\ Cardinality(accepted) = 0
    BY FS_EmptySet
  <1>4. ToSet(AllRows) = accepted /\ Len(AllRows) = Cardinality(accepted)
    BY <1>2, <1>3 DEF ToSet
  <1>5. InOrder(AllRows) /\ InOrder(delivered)
    BY <1>2 DEF InOrder
  <1>6. QED
    BY <1>1, <1>3, <1>4, <1>5 DEF FlusherInv

\* A push while the receiver is there appends a row that is new; afterwards it
\* is refused.
LEMMA PushKeepsFlusherInv ==
  ASSUME FlusherInv, NEW p \in Producers, Push(p)
  PROVE  FlusherInv'
  <1> USE FlusherAssumption DEF FlusherInv
  <1> DEFINE r == <<p, next[p]>>
  <1>1. /\ r[1] = p /\ r[2] = next[p]
        /\ r \in Rows /\ r \notin accepted
        /\ next' \in [Producers -> 1..(MaxRows + 1)]
        /\ next'[p] = next[p] + 1
        /\ \A o \in Producers : next'[o] >= next[o]
    <2>1. next[p] \in 1..MaxRows /\ r[1] = p /\ r[2] = next[p]
      BY DEF Push, FlusherTypeInv
    <2>2. r \in Rows
      BY <2>1 DEF Rows
    <2>3. r \notin accepted
      BY <2>1
    <2>4. /\ next' \in [Producers -> 1..(MaxRows + 1)]
          /\ next'[p] = next[p] + 1
          /\ \A o \in Producers : next'[o] >= next[o]
      BY <2>1 DEF Push, FlusherTypeInv
    <2>5. QED
      BY <2>1, <2>2, <2>3, <2>4
  <1>2. UNCHANGED <<buf, batch, fpc, cancelled, delivered, errors>>
    BY DEF Push
  <1>a. \/ ReceiverAlive /\ queue' = Append(queue, r) /\ accepted' = accepted \cup {r}
        \/ ~ReceiverAlive /\ UNCHANGED <<queue, accepted>>
    BY DEF Push
  <1> HIDE DEF r
  <1>3. CASE ReceiverAlive /\ queue' = Append(queue, r) /\ accepted' = accepted \cup {r}
    <2>1. FlusherTypeInv'
      BY <1>1, <1>2, <1>3, AppendRow DEF FlusherTypeInv
    <2>2. /\ IsFiniteSet(accepted') /\ Cardinality(accepted') = Cardinality(accepted) + 1
          /\ Cardinality(accepted) \in Nat
      BY <1>1, <1>3, FS_AddElement, FS_CardinalityType
    <2>3. \A x \in accepted' : x[2] < next'[x[1]]
      <3> SUFFICES ASSUME NEW x \in accepted' PROVE x[2] < next'[x[1]]
        OBVIOUS
      <3>1. x \in Rows
        BY <2>1 DEF FlusherTypeInv
      <3>2. QED
        BY <1>1, <1>3, <3>1, RowParts DEF FlusherTypeInv
    <2>4. AllRows' = Append(AllRows, r) /\ AllRows \in Seq(Rows)
      <3>1. /\ delivered \o batch \o buf \in Seq(Rows) /\ queue \in Seq(Rows)
            /\ <<r>> \in Seq(Rows) /\ Append(queue, r) = queue \o <<r>>
            /\ Append(AllRows, r) = AllRows \o <<r>>
        <4>1. delivered \o batch \o buf \in Seq(Rows) /\ AllRows \in Seq(Rows) /\ queue \in Seq(Rows)
          BY FourParts DEF FlusherTypeInv, AllRows
        <4>2. QED
          BY <1>1, <4>1, AppendRow
      <3>2. (delivered \o batch \o buf) \o (queue \o <<r>>) = AllRows \o <<r>>
        BY <3>1, RowSeqs DEF AllRows
      <3>3. AllRows \in Seq(Rows)
        BY FourParts DEF FlusherTypeInv, AllRows
      <3>4. QED
        BY <1>2, <1>3, <3>1, <3>2, <3>3 DEF AllRows
    <2>5. errors = 0
      BY <1>3 DEF FlusherTypeInv
    <2>6. ToSet(AllRows') = accepted'
      <3>1. <<r>> \in Seq(Rows) /\ Append(AllRows, r) = AllRows \o <<r>> /\ ToSet(<<r>>) = {r}
        BY <1>1, <2>4, AppendRow
      <3>2. QED
        BY <1>3, <2>4, <2>5, <3>1, ToSetConcat
    <2>7. Len(AllRows') = Cardinality(accepted')
      BY <1>1, <2>2, <2>4, <2>5, AppendRow
    <2>8. InOrder(AllRows')
      <3> SUFFICES ASSUME NEW i \in 1..Len(AllRows'), NEW j \in 1..Len(AllRows'), i < j,
                          AllRows'[i][1] = AllRows'[j][1]
                   PROVE  AllRows'[i][2] < AllRows'[j][2]
        BY DEF InOrder
      <3>1. /\ i \in 1..Len(AllRows) /\ AllRows'[i] = AllRows[i]
            /\ j \in 1..Len(AllRows) => AllRows'[j] = AllRows[j]
            /\ j \notin 1..Len(AllRows) => AllRows'[j] = r
        <4>1. Len(AllRows) \in Nat /\ Len(AllRows') = Len(AllRows) + 1
          BY <1>1, <2>4, AppendRow, LenProperties
        <4>2. \A k \in 1..(Len(AllRows) + 1) :
                AllRows'[k] = IF k \in 1..Len(AllRows) THEN AllRows[k] ELSE r
          BY <1>1, <2>4, <4>1, AppendRow
        <4>3. QED
          BY <4>1, <4>2
      <3>2. AllRows[i] \in accepted
        BY <2>4, <2>5, <3>1, LenProperties DEF ToSet
      <3>3. QED
        BY <1>1, <2>5, <3>1, <3>2 DEF InOrder
    <2>9. QED
      BY <1>2, <2>1, <2>2, <2>3, <2>5, <2>6, <2>7, <2>8 DEF ReceiverAlive
  <1>4. CASE ~ReceiverAlive /\ UNCHANGED <<queue, accepted>>
    <2>1. FlusherTypeInv'
      BY <1>1, <1>2, <1>4 DEF FlusherTypeInv
    <2>2. \A x \in accepted' : x[2] < next'[x[1]]
      BY <1>1, <1>4, RowParts DEF FlusherTypeInv
    <2>3. AllRows' = AllRows
      BY <1>2, <1>4 DEF AllRows
    <2>4. QED
      BY <1>2, <1>4, <2>1, <2>2, <2>3 DEF ReceiverAlive
  <1>5. QED
    BY <1>a, <1>3, <1>4

\* The select of the flusher and the end of an INSERT.
LEMMA FlushKeepsFlusherInv ==
  ASSUME FlusherInv, Recv \/ Tick \/ FinalDrain \/ InsertEnds
  PROVE  FlusherInv'
  <1> USE DEF FlusherInv
  <1>1. AllRows' = AllRows
    BY FlusherMoves
  <1>2. UNCHANGED <<next, cancelled, accepted, errors>> /\ ReceiverAlive
    BY DEF Recv, Tick, FinalDrain, InsertEnds, ReceiverAlive
  <1>3. FlusherTypeInv'
    <2>1. CASE Recv
      <3>1. Head(queue) \in Rows /\ Tail(queue) \in Seq(Rows)
        BY <2>1, HeadTailProperties DEF FlusherTypeInv, Recv
      <3>2. QED
        BY <1>2, <2>1, <3>1, AppendRow DEF FlusherTypeInv, Recv
    <2>2. CASE Tick \/ FinalDrain \/ InsertEnds
      <3>1. buf \o queue \in Seq(Rows) /\ delivered \o batch \in Seq(Rows) /\ <<>> \in Seq(Rows)
        BY DEF FlusherTypeInv
      <3>2. QED
        BY <1>2, <2>2, <3>1 DEF FlusherTypeInv, Tick, FinalDrain, InsertEnds, StartFlush
    <2>3. QED
      BY <2>1, <2>2
  <1>4. fpc' = "select" => batch' = <<>>
    BY DEF Recv, Tick, FinalDrain, InsertEnds, StartFlush
  <1>5. errors = 0
    BY <1>2 DEF FlusherTypeInv
  <1>6. InOrder(delivered')
    <2>1. InOrder(AllRows')
      BY <1>1, <1>5
    <2>2. /\ delivered' \in Seq(Rows) /\ batch' \in Seq(Rows)
          /\ buf' \in Seq(Rows) /\ queue' \in Seq(Rows)
      BY <1>3 DEF FlusherTypeInv
    <2>3. InOrder(delivered' \o batch' \o buf' \o queue')
      BY <2>1, Zenon DEF AllRows
    <2>4. QED
      BY <2>2, <2>3, FourParts, Zenon
  <1>7. QED
    BY <1>1, <1>2, <1>3, <1>4, <1>5, <1>6 DEF FlusherTypeInv

\* A failed INSERT ends the flusher; the table has a beginning of what there was.
LEMMA FailKeepsFlusherInv ==
  ASSUME FlusherInv, InsertFails
  PROVE  FlusherInv'
  <1> USE DEF FlusherInv, InsertFails
  <1>1. ReceiverAlive /\ errors = 0
    BY DEF ReceiverAlive, FlusherTypeInv
  <1>2. delivered' \in Seq(Rows) /\ errors' \in 0..MaxErrors /\ errors' > 0
    <2>1. delivered \in Seq(Rows) /\ delivered \o batch \in Seq(Rows)
      BY DEF FlusherTypeInv
    <2>2. delivered' \in Seq(Rows)
      BY <2>1
    <2>3. errors' \in 0..MaxErrors /\ errors' > 0
      BY <1>1, FlusherAssumption DEF FlusherTypeInv
    <2>4. QED
      BY <2>2, <2>3
  <1>3. FlusherTypeInv'
    BY <1>2 DEF FlusherTypeInv
  <1>4. InOrder(delivered')
    <2>1. InOrder(delivered \o batch \o buf \o queue)
      BY <1>1 DEF AllRows
    <2>2. /\ delivered \in Seq(Rows) /\ batch \in Seq(Rows)
          /\ buf \in Seq(Rows) /\ queue \in Seq(Rows)
      BY DEF FlusherTypeInv
    <2>3. InOrder(delivered \o batch) /\ InOrder(delivered)
      BY <2>1, <2>2, FourParts, Zenon
    <2>4. QED
      BY <2>3
  <1>5. QED
    BY <1>2, <1>3, <1>4 DEF ReceiverAlive

\* The cancellation, a flusher that is dropped, and a step that does not concern it.
LEMMA OtherKeepsFlusherInv ==
  ASSUME FlusherInv,
         UNCHANGED <<next, queue, buf, batch, accepted, delivered, errors>>,
         \/ fpc' = fpc /\ cancelled' \in BOOLEAN
         \/ fpc' = "exited" /\ cancelled' = cancelled
  PROVE  FlusherInv'
  <1>1. FlusherTypeInv'
    BY DEF FlusherInv, FlusherTypeInv
  <1>2. AllRows' = AllRows
    BY DEF AllRows
  <1>3. QED
    BY <1>1, <1>2 DEF FlusherInv, ReceiverAlive

-----------------------------------------------------------------------------
(***************************************************************************)
(* The flusher with any producers.                                         *)
(***************************************************************************)

\* The invariant under any producers, where nothing panics.
LEMMA SpecFlusherInv == Spec => [](FlusherInv /\ fpc # "panicked")
  <1>1. Init => FlusherInv /\ fpc # "panicked"
    BY EmptyFlusherInv DEF Init
  <1>2. FlusherInv /\ fpc # "panicked" /\ [Next]_vars => (FlusherInv /\ fpc # "panicked")'
    <2> SUFFICES ASSUME FlusherInv, fpc # "panicked", [Next]_vars
                 PROVE  FlusherInv' /\ fpc' # "panicked"
      OBVIOUS
    <2>1. fpc' # "panicked"
      BY DEF Next, vars, Push, Cancel, Recv, Tick, FinalDrain, StartFlush, InsertEnds, InsertFails
    <2>2. CASE Cancel
      <3>1. cancelled' \in BOOLEAN
        BY <2>2, Zenon DEF Cancel
      <3>2. QED
        BY <2>1, <2>2, <3>1, OtherKeepsFlusherInv DEF Cancel
    <2>3. CASE UNCHANGED vars
      BY <2>1, <2>3, OtherKeepsFlusherInv DEF vars, FlusherInv, FlusherTypeInv
    <2>4. QED
      BY <2>1, <2>2, <2>3, PushKeepsFlusherInv, FlushKeepsFlusherInv, FailKeepsFlusherInv DEF Next
  <1>3. QED
    BY <1>1, <1>2, PTL DEF Spec

\* Type correctness of the flusher, for any producers, rows and errors.
THEOREM FlusherTypeCorrect == Spec => []TypeOK
  <1>1. FlusherInv /\ fpc # "panicked" => TypeOK
    BY DEF FlusherInv, FlusherTypeInv, TypeOK
  <1>2. QED
    BY <1>1, SpecFlusherInv, PTL

\* Until an INSERT fails, no accepted row is lost or repeated, for any producers.
THEOREM NoRowLost == Spec => []EveryRowOnce
  <1>1. FlusherInv => EveryRowOnce
    BY DEF FlusherInv, EveryRowOnce, AllRows
  <1>2. QED
    BY <1>1, SpecFlusherInv, PTL

\* The table has each producer's rows in the order of its commits, whatever INSERT
\* fails.
THEOREM OrderIsKept == Spec => []ProducerOrderKept
  <1>1. FlusherInv => ProducerOrderKept
    BY DEF FlusherInv, InOrder, ProducerOrderKept
  <1>2. QED
    BY <1>1, SpecFlusherInv, PTL

-----------------------------------------------------------------------------
(***************************************************************************)
(* The process.                                                            *)
(***************************************************************************)

\* The handles: the tasks', and the flusher's last.
LEMMA JoinOrderIs ==
  /\ Len(JoinOrder) = 6 /\ JoinOrder[6] = "analytics"
  /\ \A i \in 1..5 : JoinOrder[i] \in Tasks
  /\ \A t \in Tasks : \E i \in 1..5 : JoinOrder[i] = t
  /\ "analytics" \notin Tasks
  <1>1. /\ JoinOrder[1] = "stats" /\ JoinOrder[2] = "detector" /\ JoinOrder[3] = "backfill"
        /\ JoinOrder[4] = "coinblast" /\ JoinOrder[5] = "tail" /\ JoinOrder[6] = "analytics"
        /\ Len(JoinOrder) = 6
    BY DEF JoinOrder
  <1>2. \A i \in 1..5 : i = 1 \/ i = 2 \/ i = 3 \/ i = 4 \/ i = 5
    OBVIOUS
  <1>3. 1 \in 1..5 /\ 2 \in 1..5 /\ 3 \in 1..5 /\ 4 \in 1..5 /\ 5 \in 1..5
    OBVIOUS
  <1>4. QED
    BY <1>1, <1>2, <1>3 DEF Tasks

\* A task that has ended stays so, and what main has joined stays joined.
LEMMA JoinedStays ==
  ASSUME JoinInv, UNCHANGED <<mpc, awaiting, cancelled>>,
         \A t \in Tasks : tpc[t] \in {"ended", "exited"} => tpc'[t] = tpc[t],
         fpc \in {"ended", "exited"} => fpc' = fpc
  PROVE  JoinInv'
  <1>1. \A i \in 1..6 : JoinOrder[i] \in Tasks \/ JoinOrder[i] = "analytics"
    BY JoinOrderIs
  <1>2. \A i \in 1..6 : Status(JoinOrder[i]) \in {"ended", "exited"}
                         => Status(JoinOrder[i])' \in {"ended", "exited"}
    BY <1>1, JoinOrderIs DEF Status
  <1>3. QED
    BY <1>2 DEF JoinInv

\* The process boots, perhaps with a task that panicked at once.
LEMMA ProcessInitIInv == ProcessInit => IInv
  <1> SUFFICES ASSUME ProcessInit PROVE IInv
    OBVIOUS
  <1>1. /\ fpc \in {"select", "panicked"}
        /\ tpc \in [Tasks -> {"loop", "panicked"}]
    <2>1. PICK zero \in {{}} \cup {{t} : t \in Ticking} :
            /\ tpc = [t \in Tasks |-> IF t \in zero THEN "panicked" ELSE "loop"]
            /\ fpc = IF "analytics" \in zero THEN "panicked" ELSE "select"
      BY DEF ProcessInit
    <2>2. QED
      BY <2>1
  <1>2. /\ next = [p \in Producers |-> 1]
        /\ queue = <<>> /\ buf = <<>> /\ batch = <<>>
        /\ cancelled = FALSE /\ ~cancelled
        /\ accepted = {} /\ delivered = <<>> /\ errors = 0
        /\ mpc = "run" /\ awaiting = 1 /\ early = {} /\ commits = 0 /\ lost = 0
    BY DEF ProcessInit
  <1>3. FlusherInv
    BY <1>1, <1>2, EmptyFlusherInv
  <1>4. TaskInv
    BY <1>1, <1>2, ProcessAssumption DEF TaskInv, Tasks, Unpushed
  <1>5. JoinInv /\ EarlyInv
    BY <1>1, <1>2 DEF JoinInv, EarlyInv
  <1>6. QED
    BY <1>3, <1>4, <1>5 DEF IInv

\* The steps of a task that touch neither the channel nor main.
LEMMA TaskKeepsIInv ==
  ASSUME IInv, UNCHANGED <<vars, main>>,
         tpc' \in [Tasks -> {"loop", "walk", "committed", "ended", "panicked"}],
         \A t \in Tasks : tpc[t] = "ended" => tpc'[t] = "ended",
         commits' \in Nat, lost' \in Nat,
         commits' - lost' - Unpushed("backfill")' - Unpushed("tail")'
           = commits - lost - Unpushed("backfill") - Unpushed("tail")
  PROVE  IInv'
  <1> USE DEF IInv
  <1>1. /\ UNCHANGED <<next, queue, buf, batch, fpc, cancelled, accepted, delivered, errors>>
        /\ UNCHANGED <<mpc, awaiting, early>>
    BY DEF vars, main
  <1>2. FlusherInv'
    BY <1>1, OtherKeepsFlusherInv DEF FlusherInv, FlusherTypeInv
  <1>3. TaskInv'
    <2>1. /\ next["backfill"] \in Int /\ next["tail"] \in Int /\ commits \in Int /\ lost \in Int
      BY ProcessAssumption DEF FlusherInv, FlusherTypeInv, TaskInv
    <2>2. /\ Unpushed("backfill") \in Int /\ Unpushed("tail") \in Int
          /\ Unpushed("backfill")' \in Int /\ Unpushed("tail")' \in Int
      BY DEF Unpushed
    <2>3. QED
      BY <1>1, <2>1, <2>2 DEF TaskInv
  <1>4. JoinInv'
    BY <1>1, JoinedStays DEF TaskInv
  <1>5. EarlyInv'
    BY <1>1 DEF EarlyInv
  <1>6. QED
    BY <1>2, <1>3, <1>4, <1>5

\* Walk, Fetch, the two commits and Leave of the backfill and the tail.
LEMMA WalkKeepsIInv ==
  ASSUME IInv, NEW p \in Producers, Walk(p) \/ Commit(p) \/ CommitUnknown(p) \/ Leave(p) \/ Fetch
  PROVE  IInv'
  <1> USE ProcessAssumption DEF Goto, written
  <1>1. /\ tpc \in [Tasks -> {"loop", "walk", "committed", "ended", "panicked"}]
        /\ commits \in Nat /\ lost \in Nat /\ p \in Tasks
    BY DEF IInv, TaskInv, Tasks
  <1>2. CASE Walk(p)
    BY <1>1, <1>2, TaskKeepsIInv DEF Walk, Unpushed, Tasks
  <1>3. CASE Commit(p)
    BY <1>1, <1>3, TaskKeepsIInv DEF Commit, Unpushed, Tasks
  <1>4. CASE Leave(p)
    BY <1>1, <1>4, TaskKeepsIInv DEF Leave, Unpushed, Tasks
  <1>5. CASE Fetch
    BY <1>1, <1>5, TaskKeepsIInv DEF Fetch, Unpushed
  <1>6. CASE CommitUnknown(p)
    BY <1>1, <1>6, TaskKeepsIInv DEF CommitUnknown, Unpushed, Tasks
  <1>7. QED
    BY <1>2, <1>3, <1>4, <1>5, <1>6

\* A task sees the cancellation or fails, and the stats loop.
LEMMA EndsKeepsIInv ==
  ASSUME IInv, NEW t \in Tasks, Ends(t) \/ WorkerFails(t) \/ Refresh \/ Refreshed
  PROVE  IInv'
  <1> USE DEF Goto, written
  <1>1. /\ tpc \in [Tasks -> {"loop", "walk", "committed", "ended", "panicked"}]
        /\ commits \in Nat /\ lost \in Nat
    BY DEF IInv, TaskInv
  <1>2. CASE Ends(t) \/ WorkerFails(t)
    BY <1>1, <1>2, TaskKeepsIInv DEF Ends, WorkerFails, Unpushed, Tasks
  <1>3. CASE Refresh
    BY <1>1, <1>3, TaskKeepsIInv DEF Refresh, Unpushed, Tasks
  <1>4. CASE Refreshed
    BY <1>1, <1>4, TaskKeepsIInv DEF Refreshed, Unpushed, Tasks
  <1>5. QED
    BY <1>2, <1>3, <1>4

\* The push after a commit: the block is accounted for, the row counts as late.
LEMMA PushRowKeepsIInv ==
  ASSUME IInv, NEW p \in Producers, PushRow(p)
  PROVE  IInv'
  <1> USE ProcessAssumption DEF IInv
  <1>1. /\ UNCHANGED <<mpc, awaiting, early, commits, lost>>
        /\ UNCHANGED <<batch, fpc, cancelled, delivered, errors>>
        /\ accepted \subseteq accepted'
        /\ next' = [next EXCEPT ![p] = @ + 1]
        /\ tpc[p] = "committed" /\ tpc' = [tpc EXCEPT ![p] = "walk"]
        /\ p \in Tasks
    BY DEF PushRow, Push, Goto, main, written, Tasks
  <1>2. FlusherInv'
    BY PushKeepsFlusherInv DEF PushRow
  <1>3. TaskInv'
    <2>1. next["backfill"] \in Int /\ next["tail"] \in Int /\ "backfill" \in Tasks /\ "tail" \in Tasks
      BY DEF FlusherInv, FlusherTypeInv, Tasks
    <2>2. commits \in Int /\ lost \in Int
      BY DEF TaskInv
    <2>3. /\ p = "backfill" \/ p = "tail"
          /\ tpc' \in [Tasks -> {"loop", "walk", "committed", "ended", "panicked"}]
          /\ tpc'[p] = "walk" /\ \A t \in Tasks : t # p => tpc'[t] = tpc[t]
          /\ next'[p] = next[p] + 1 /\ \A q \in Producers : q # p => next'[q] = next[q]
      BY <1>1 DEF TaskInv, FlusherInv, FlusherTypeInv
    <2>4. mpc # "failed" => commits - lost
            = (next["backfill"] - 1) + (next["tail"] - 1) + Unpushed("backfill") + Unpushed("tail")
      BY DEF TaskInv
    <2>5. mpc # "failed" => commits - lost
            = (next'["backfill"] - 1) + (next'["tail"] - 1) + Unpushed("backfill")' + Unpushed("tail")'
      BY <1>1, <2>1, <2>2, <2>3, <2>4 DEF Unpushed
    <2>6. QED
      BY <1>1, <2>3, <2>5 DEF TaskInv
  <1>4. JoinInv'
    BY <1>1, JoinedStays DEF TaskInv
  <1>5. EarlyInv'
    BY <1>1 DEF EarlyInv
  <1>6. QED
    BY <1>1, <1>2, <1>3, <1>4, <1>5

\* The flusher's steps: the final drain takes every row there is, and the INSERT
\* after it brings them to the table.
LEMMA FlushKeepsIInv ==
  ASSUME IInv, Flush
  PROVE  IInv'
  <1> USE DEF IInv
  <1>1. /\ UNCHANGED <<mpc, awaiting, early, tpc, commits, lost>>
        /\ UNCHANGED <<next, cancelled, accepted>>
        /\ Recv \/ Tick \/ FinalDrain \/ InsertEnds \/ InsertFails
    BY DEF Flush, main, written, Recv, Tick, FinalDrain, InsertEnds, InsertFails
  <1>2. FlusherInv'
    BY <1>1, FlushKeepsFlusherInv, FailKeepsFlusherInv
  <1>3. TaskInv'
    BY <1>1 DEF TaskInv, Unpushed
  <1>4. JoinInv'
    <2>1. fpc \notin {"ended", "exited"}
      BY <1>1 DEF Recv, Tick, FinalDrain, InsertEnds, InsertFails
    <2>2. QED
      BY <1>1, <2>1, JoinedStays
  <1>5. EarlyInv'
    <2>0. /\ early \subseteq accepted' /\ (mpc' = "run" => early' = {})
      BY <1>1 DEF EarlyInv
    <2>1. CASE Recv \/ Tick
      BY <1>1, <2>0, <2>1 DEF EarlyInv, Recv, Tick, StartFlush
    <2>2. CASE FinalDrain
      <3>1. /\ batch = <<>> /\ errors = 0 /\ batch' = buf \o queue
            /\ delivered' = delivered /\ fpc' = "final" /\ cancelled
        BY <2>2 DEF FlusherInv, FlusherTypeInv, ReceiverAlive, FinalDrain, StartFlush
      <3>2. /\ delivered \in Seq(Rows) /\ batch \in Seq(Rows)
            /\ buf \in Seq(Rows) /\ queue \in Seq(Rows)
        BY DEF FlusherInv, FlusherTypeInv
      <3>3. /\ ToSet(AllRows) = ToSet(delivered) \cup ToSet(batch) \cup ToSet(buf) \cup ToSet(queue)
            /\ ToSet(buf \o queue) = ToSet(buf) \cup ToSet(queue)
        <4>1. ToSet(AllRows) = ToSet(delivered) \cup ToSet(batch) \cup ToSet(buf) \cup ToSet(queue)
          BY FourParts DEF FlusherInv, FlusherTypeInv, AllRows
        <4>2. ToSet(buf \o queue) = ToSet(buf) \cup ToSet(queue)
          BY ToSetConcat DEF FlusherInv, FlusherTypeInv
        <4>3. QED
          BY <4>1, <4>2
      <3>4. ToSet(batch) = {}
        BY <3>1 DEF ToSet
      <3>5. accepted = ToSet(delivered) \cup ToSet(buf \o queue)
        BY <3>1, <3>3, <3>4 DEF FlusherInv
      <3>6. early' \subseteq ToSet(delivered)' \cup ToSet(batch)'
        BY <1>1, <2>0, <3>1, <3>5
      <3>7. QED
        BY <1>1, <2>0, <3>1, <3>6 DEF EarlyInv
    <2>3. CASE InsertEnds
      <3>1. /\ delivered' = delivered \o batch
            /\ fpc' = IF fpc = "flush" THEN "select" ELSE "exited"
            /\ fpc \in {"flush", "final"}
        BY <2>3 DEF InsertEnds
      <3>2. ToSet(delivered \o batch) = ToSet(delivered) \cup ToSet(batch)
        BY ToSetConcat DEF FlusherInv, FlusherTypeInv
      <3>3. ToSet(delivered)' = ToSet(delivered) \cup ToSet(batch)
        BY <3>1, <3>2
      <3>4. QED
        BY <1>1, <2>0, <3>1, <3>3 DEF EarlyInv
    <2>4. CASE InsertFails
      <3>1. fpc' = "exited" /\ errors' > 0
        BY <2>4 DEF InsertFails, FlusherInv, FlusherTypeInv
      <3>2. QED
        BY <1>1, <2>0, <3>1 DEF EarlyInv
    <2>5. QED
      BY <1>1, <2>1, <2>2, <2>3, <2>4
  <1>6. QED
    BY <1>1, <1>2, <1>3, <1>4, <1>5

\* The signal: the flusher has not begun its final drain, and has not ended
\* unless an INSERT failed.
LEMMA SignalKeepsIInv == ASSUME IInv, Signal PROVE IInv'
  <1> USE DEF IInv
  <1>1. /\ UNCHANGED <<awaiting, tpc, commits, lost>>
        /\ UNCHANGED <<next, queue, buf, batch, fpc, accepted, delivered, errors>>
        /\ mpc = "run" /\ mpc' = "join" /\ early' = accepted
        /\ ~cancelled /\ cancelled'
    BY DEF Signal, Cancel, written
  <1>2. cancelled' \in BOOLEAN
    BY Zenon DEF Signal, Cancel
  <1>3. FlusherInv'
    BY <1>1, <1>2, OtherKeepsFlusherInv
  <1>4. TaskInv'
    BY <1>1 DEF TaskInv, Unpushed
  <1>5. awaiting = 1
    BY <1>1 DEF JoinInv
  <1>6. JoinInv' /\ EarlyInv'
    BY <1>1, <1>5 DEF JoinInv, EarlyInv
  <1>7. QED
    BY <1>1, <1>3, <1>4, <1>6

\* main goes on to the next handle, or has awaited all.
LEMMA JoinKeepsIInv == ASSUME IInv, Join PROVE IInv'
  <1> USE DEF IInv
  <1>1. /\ UNCHANGED <<tpc, commits, lost, early>>
        /\ UNCHANGED <<next, queue, buf, batch, fpc, cancelled, accepted, delivered, errors>>
        /\ mpc = "join"
        /\ Status(JoinOrder[awaiting]) \in {"ended", "exited"}
        /\ \/ awaiting < 6 /\ awaiting' = awaiting + 1 /\ mpc' = mpc
           \/ awaiting = 6 /\ mpc' = "exited" /\ awaiting' = awaiting
    BY JoinOrderIs DEF Join, vars, written
  <1>2. FlusherInv'
    BY <1>1, OtherKeepsFlusherInv DEF FlusherInv, FlusherTypeInv
  <1>3. TaskInv'
    BY <1>1 DEF TaskInv, Unpushed
  <1>4. JoinInv'
    <2>1. \A i \in 1..6 : Status(JoinOrder[i])' = Status(JoinOrder[i])
      BY <1>1 DEF Status
    <2>2. QED
      BY <1>1, <2>1 DEF JoinInv
  <1>5. EarlyInv'
    BY <1>1 DEF EarlyInv
  <1>6. QED
    BY <1>1, <1>2, <1>3, <1>4, <1>5

\* main fails and drops every task where it stands.
LEMMA JoinFailsKeepsIInv == ASSUME IInv, JoinFails PROVE IInv'
  <1> USE DEF IInv, JoinFails
  <1>1. FlusherInv'
    BY OtherKeepsFlusherInv
  <1>2. TaskInv'
    BY DEF TaskInv, written
  <1>3. JoinInv' /\ EarlyInv'
    BY DEF JoinInv, EarlyInv
  <1>4. QED
    BY <1>1, <1>2, <1>3

\* Every step of the process keeps the invariant.
LEMMA ProcessNextIInv == IInv /\ [ProcessNext]_processVars => IInv'
  <1> SUFFICES ASSUME IInv, [ProcessNext]_processVars PROVE IInv'
    OBVIOUS
  <1>1. CASE UNCHANGED processVars
    BY <1>1, TaskKeepsIInv DEF processVars, written, IInv, TaskInv, Unpushed
  <1>2. CASE ProcessNext
    <2>1. "backfill" \in Producers /\ "stats" \in Tasks
      BY ProcessAssumption DEF Tasks
    <2>2. QED
      BY <1>2, <2>1, WalkKeepsIInv, EndsKeepsIInv, PushRowKeepsIInv, FlushKeepsIInv, SignalKeepsIInv,
         JoinKeepsIInv, JoinFailsKeepsIInv DEF ProcessNext, Produce
  <1>3. QED
    BY <1>1, <1>2

\* The invariant of the process.
LEMMA ProcessIInv == ProcessSpec => []IInv
  BY ProcessInitIInv, ProcessNextIInv, PTL DEF ProcessSpec

\* The flusher keeps its promises in the real process too, where its producers
\* stop in the middle and it may never have started.
THEOREM ProcessLosesNoRow == ProcessSpec => [](EveryRowOnce /\ ProducerOrderKept)
  <1>1. IInv => EveryRowOnce /\ ProducerOrderKept
    BY DEF IInv, FlusherInv, EveryRowOnce, AllRows, InOrder, ProducerOrderKept
  <1>2. QED
    BY <1>1, ProcessIInv, PTL

\* When main returns Ok, no commit that was answered is without its push and, unless an INSERT
\* failed, no early row is missing in the table.
THEOREM ExitIsClean == ProcessSpec => []CleanExit
  <1>1. IInv => CleanExit
    <2> SUFFICES ASSUME IInv, mpc = "exited"
                 PROVE  /\ \A t \in Tasks : tpc[t] = "ended"
                        /\ commits - lost = next["backfill"] - 1 + next["tail"] - 1
                        /\ errors = 0 => early \subseteq ToSet(delivered)
      BY DEF CleanExit
    <2> USE DEF IInv
    <2>1. \A t \in Tasks : tpc[t] = "ended"
      <3> SUFFICES ASSUME NEW t \in Tasks PROVE tpc[t] = "ended"
        OBVIOUS
      <3>1. PICK i \in 1..5 : JoinOrder[i] = t
        BY JoinOrderIs
      <3>2. Status(t) \in {"ended", "exited"} /\ Status(t) = tpc[t]
        BY <3>1, JoinOrderIs DEF JoinInv, Status
      <3>3. QED
        BY <3>2 DEF TaskInv
    <2>2. fpc = "exited"
      <3>1. Status("analytics") \in {"ended", "exited"}
        BY JoinOrderIs DEF JoinInv
      <3>2. QED
        BY <3>1 DEF Status, FlusherInv, FlusherTypeInv
    <2>3. commits - lost = next["backfill"] - 1 + next["tail"] - 1
      <3>1. Unpushed("backfill") = 0 /\ Unpushed("tail") = 0
        BY <2>1 DEF Unpushed, Tasks
      <3>2. next["backfill"] \in Int /\ next["tail"] \in Int
        BY ProcessAssumption DEF FlusherInv, FlusherTypeInv
      <3>3. QED
        BY <3>1, <3>2 DEF TaskInv
    <2>4. QED
      BY <2>1, <2>2, <2>3 DEF EarlyInv
  <1>2. QED
    BY <1>1, ProcessIInv, PTL
=============================================================================
