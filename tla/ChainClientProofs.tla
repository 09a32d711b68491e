-------------------------- MODULE ChainClientProofs --------------------------
(***************************************************************************)
(* The round-robin and the retry loop of the chain clients, for any set of *)
(* callers, any number of endpoints and any number of attempts.            *)
(***************************************************************************)
EXTENDS ChainClient, TLAPS

\* How many requests a client at cursor x sends before endpoint e has its turn.
Ahead(e, x) == IF e >= x THEN e - x ELSE e - x + N

\* Requests that the call under way, or the last one, has sent.
Sent(c) == IF pc[c] = "send" THEN attempt[c] - 1 ELSE attempt[c]

\* What overtaking allows: each time round, N - 1 requests miss an endpoint.
Budget(c) == (overtakes[c] + 1) * (N - 1)

\* The last endpoint tells how often the cursor went round.
PicksInv ==
  \A k \in Clients : \A e \in Endpoints :
    picks[k][e] = IF e < cursor[k] THEN picks[k][N - 1] + 1 ELSE picks[k][N - 1]

\* The retry loop.
CallInv ==
  \A c \in Callers :
    /\ pc[c] = "sleep" => attempt[c] < MaxAttempts
    /\ pc[c] # "idle" => outcome[c] = "none"
    /\ outcome[c] = "exhausted" => attempt[c] = MaxAttempts
    /\ \A e \in steady[c] : health[e] = "up"

\* Whether e is an endpoint that c must meet: it was up from the first request
\* on, the call has sent one and did not end with an answer.
Owed(c, e) ==
  /\ e \in steady[c]
  /\ Sent(c) > 0
  /\ pc[c] = "idle" => outcome[c] = "exhausted"

\* Either c's request is at e, or c has met other endpoints so far: then its
\* requests, together with those still to come before e's turn, fit the budget
\* (after a call has ended the turns do not count any more).
MeetInv ==
  \A c \in Callers : \A e \in Endpoints :
    Owed(c, e) =>
      \/ pc[c] = "wait" /\ at[c] = e
      \/ pc[c] # "idle" /\ Sent(c) + Ahead(e, cursor[client[c]]) <= Budget(c)
      \/ pc[c] = "idle" /\ Sent(c) <= Budget(c)

IInv == TypeOK /\ PicksInv /\ CallInv /\ MeetInv

-----------------------------------------------------------------------------
(***************************************************************************)
(* The arithmetic of the round-robin.                                      *)
(***************************************************************************)

\* fetch_add modulo N: the next endpoint, and the first one after the last.
LEMMA NextEndpoint ==
  ASSUME NEW x \in Endpoints
  PROVE  /\ (x + 1) % N \in Endpoints
         /\ (x + 1) % N = IF x = N - 1 THEN 0 ELSE x + 1
  BY ClientAssumption, SMT DEF Endpoints

\* A request brings every other endpoint one turn nearer, and sends the one it
\* goes to to the end of the line.
LEMMA TurnsPass ==
  ASSUME NEW e \in Endpoints, NEW x \in Endpoints
  PROVE  /\ Ahead(e, x) \in 0..(N - 1)
         /\ e # x => Ahead(e, (x + 1) % N) = Ahead(e, x) - 1
         /\ e = x => Ahead(e, (x + 1) % N) = N - 1
  BY NextEndpoint, ClientAssumption DEF Ahead, Endpoints

\* What one more overtaking adds to the budget.
LEMMA BudgetGrows ==
  ASSUME NEW o \in Nat
  PROVE  /\ (o + 1) * (N - 1) \in Nat
         /\ (o + 1) * (N - 1) >= N - 1
         /\ (o + 1 + 1) * (N - 1) = (o + 1) * (N - 1) + (N - 1)
  <1> DEFINE m == N - 1
  <1>1. m \in Nat
    BY ClientAssumption
  <1> HIDE DEF m
  <1>2. /\ (o + 1) * m \in Nat
        /\ (o + 1) * m = o * m + m /\ o * m \in Nat
        /\ (o + 1 + 1) * m = (o + 1) * m + m
    BY <1>1, SMT
  <1>3. QED
    BY <1>1, <1>2 DEF m

-----------------------------------------------------------------------------

\* No call has been made.
LEMMA InitIInv == Init => IInv
  <1> SUFFICES ASSUME Init PROVE IInv
    OBVIOUS
  <1> USE ClientAssumption DEF Init
  <1>1. TypeOK
    BY DEF TypeOK, Endpoints, Clients
  <1>2. PicksInv
    BY DEF PicksInv, Endpoints
  <1>3. CallInv /\ MeetInv
    BY DEF CallInv, MeetInv, Owed
  <1>4. QED
    BY <1>1, <1>2, <1>3 DEF IInv

\* An endpoint that changes is no longer steady for anybody.
LEMMA FlipKeepsIInv == ASSUME IInv, Flip PROVE IInv'
  <1> USE DEF IInv, Flip
  <1>1. TypeOK'
    BY ClientAssumption DEF TypeOK, callVars
  <1>2. PicksInv'
    BY DEF PicksInv
  <1>3. \A c \in Callers : steady'[c] = {e \in steady[c] : health'[e] = "up"}
    BY DEF TypeOK
  <1>4. CallInv'
    BY <1>3 DEF CallInv, callVars
  <1>5. MeetInv'
    BY <1>3 DEF MeetInv, Owed, Sent, Budget, callVars
  <1>6. QED
    BY <1>1, <1>2, <1>4, <1>5

\* A call begins: nothing of it has been sent.
LEMMA StartKeepsIInv ==
  ASSUME IInv, NEW c \in Callers, NEW k \in Clients, Start(c, k)
  PROVE  IInv'
  <1> USE ClientAssumption DEF IInv, Start
  <1>1. TypeOK'
    BY DEF TypeOK
  <1>2. PicksInv'
    BY DEF PicksInv
  <1>3. CallInv'
    BY DEF CallInv, TypeOK
  <1>4. MeetInv'
    <2> SUFFICES ASSUME NEW d \in Callers, NEW e \in Endpoints, Owed(d, e)'
                 PROVE  (\/ pc[d] = "wait" /\ at[d] = e
                         \/ pc[d] # "idle" /\ Sent(d) + Ahead(e, cursor[client[d]]) <= Budget(d)
                         \/ pc[d] = "idle" /\ Sent(d) <= Budget(d))'
      BY DEF MeetInv
    <2>1. d # c
      BY DEF Owed, Sent, TypeOK
    <2>2. /\ pc'[d] = pc[d] /\ client'[d] = client[d] /\ attempt'[d] = attempt[d]
          /\ outcome'[d] = outcome[d] /\ overtakes'[d] = overtakes[d]
      BY <2>1 DEF TypeOK
    <2>3. QED
      BY <2>2 DEF MeetInv, Owed, Sent, Budget
  <1>5. QED
    BY <1>1, <1>2, <1>3, <1>4

\* The end of a sleep, and an answer: an endpoint that is up ends the call, so a
\* call that goes on, or gives up, was at another one.
LEMMA RetryKeepsIInv ==
  ASSUME IInv, NEW c \in Callers, Answer(c) \/ Wake(c)
  PROVE  IInv'
  <1> USE ClientAssumption DEF IInv
  <1>1. CASE Wake(c)
    <2> USE <1>1 DEF Wake
    <2>1. TypeOK'
      BY DEF TypeOK, CallInv
    <2>2. PicksInv' /\ CallInv'
      BY DEF PicksInv, CallInv, TypeOK
    <2>3. \A d \in Callers : /\ Sent(d)' = Sent(d)
                             /\ pc[d] = "idle" <=> pc'[d] = "idle"
                             /\ pc[d] = "wait" <=> pc'[d] = "wait"
      BY DEF Sent, TypeOK
    <2>4. MeetInv'
      BY <2>3 DEF MeetInv, Owed, Budget
    <2>5. QED
      BY <2>1, <2>2, <2>4
  <1>2. CASE Answer(c)
    <2> USE <1>2 DEF Answer
    <2>1. /\ UNCHANGED <<health, cursor, client, at, attempt, calls, flips, picks, overtakes, steady>>
          /\ pc[c] = "wait"
          /\ \/ pc' = [pc EXCEPT ![c] = "idle"] /\ outcome' = [outcome EXCEPT ![c] = "ok"]
             \/ pc' = [pc EXCEPT ![c] = "idle"] /\ outcome' = [outcome EXCEPT ![c] = "permanent"]
             \/ /\ pc' = [pc EXCEPT ![c] = "idle"] /\ outcome' = [outcome EXCEPT ![c] = "exhausted"]
                /\ attempt[c] = MaxAttempts /\ health[at[c]] # "up"
             \/ /\ pc' = [pc EXCEPT ![c] = "sleep"] /\ outcome' = outcome
                /\ attempt[c] < MaxAttempts /\ health[at[c]] # "up"
      BY DEF End, Answers, RestAnswers, RpcAnswers, IsOk, IsTransient, TypeOK, Healths
    <2> HIDE DEF Answer
    <2>2. TypeOK'
      BY <2>1 DEF TypeOK
    <2>3. PicksInv' /\ CallInv'
      BY <2>1 DEF PicksInv, CallInv, TypeOK
    <2>4. MeetInv'
      <3> SUFFICES ASSUME NEW d \in Callers, NEW e \in Endpoints, Owed(d, e)'
                   PROVE  (\/ pc[d] = "wait" /\ at[d] = e
                           \/ pc[d] # "idle" /\ Sent(d) + Ahead(e, cursor[client[d]]) <= Budget(d)
                           \/ pc[d] = "idle" /\ Sent(d) <= Budget(d))'
        BY DEF MeetInv
      <3>1. CASE d # c
        BY <2>1, <3>1 DEF MeetInv, Owed, Sent, Budget, TypeOK
      <3>2. CASE d = c
        <4>1. /\ health[at[c]] # "up" /\ e \in steady[c]
              /\ Sent(c)' = Sent(c) /\ Sent(c) > 0 /\ Sent(c) \in Int
              /\ Budget(c)' = Budget(c)
          BY <2>1, <3>2 DEF Owed, Sent, Budget, TypeOK
        <4>2. at[c] # e
          BY <4>1 DEF CallInv
        <4>3. Sent(c) + Ahead(e, cursor[client[c]]) <= Budget(c)
          BY <2>1, <4>1, <4>2 DEF MeetInv, Owed
        <4>4. Ahead(e, cursor[client[c]]) \in Nat /\ Budget(c) \in Int
          BY TurnsPass, BudgetGrows DEF TypeOK, Budget
        <4>5. QED
          BY <2>1, <3>2, <4>1, <4>3, <4>4 DEF TypeOK
      <3>3. QED
        BY <3>1, <3>2
    <2>5. QED
      BY <2>2, <2>3, <2>4
  <1>3. QED
    BY <1>1, <1>2

\* A request takes the endpoint whose turn it is.
LEMMA SendKeepsIInv ==
  ASSUME IInv, NEW c \in Callers, Send(c)
  PROVE  IInv'
  <1> USE ClientAssumption DEF IInv
  <1> DEFINE k == client[c]
             x == cursor[k]
  <1>1. /\ k \in Clients /\ x \in Endpoints
        /\ (x + 1) % N \in Endpoints
        /\ (x + 1) % N = IF x = N - 1 THEN 0 ELSE x + 1
    BY NextEndpoint DEF TypeOK
  <1>2. /\ pc[c] = "send" /\ pc' = [pc EXCEPT ![c] = "wait"]
        /\ at' = [at EXCEPT ![c] = x]
        /\ cursor' = [cursor EXCEPT ![k] = (x + 1) % N]
        /\ UNCHANGED <<health, client, attempt, outcome, calls, flips>>
    BY DEF Send
  <1>3. /\ picks' = [picks EXCEPT ![k] = [picks[k] EXCEPT ![x] = @ + 1]]
        /\ overtakes' = [d \in Callers |->
             IF d # c /\ client[d] = k /\ pc[d] # "idle"
             THEN overtakes[d] + 1 ELSE overtakes[d]]
        /\ steady' = IF attempt[c] = 1 THEN [steady EXCEPT ![c] = Up] ELSE steady
    BY DEF Send, Observe, TypeOK
  <1>4. TypeOK'
    <2>1. picks' \in [Clients -> [Endpoints -> Nat]]
      BY <1>1, <1>3 DEF TypeOK
    <2>2. overtakes' \in [Callers -> Nat] /\ steady' \in [Callers -> SUBSET Endpoints]
      BY <1>3 DEF TypeOK, Up
    <2>3. QED
      BY <1>1, <1>2, <2>1, <2>2 DEF TypeOK
  <1>5. PicksInv'
    <2> SUFFICES ASSUME NEW j \in Clients, NEW e \in Endpoints
                 PROVE  (picks[j][e] = IF e < cursor[j] THEN picks[j][N - 1] + 1
                                                        ELSE picks[j][N - 1])'
      BY DEF PicksInv
    <2>1. N - 1 \in Endpoints
      BY DEF Endpoints
    <2>2. picks[j][e] = IF e < cursor[j] THEN picks[j][N - 1] + 1 ELSE picks[j][N - 1]
      BY DEF PicksInv
    <2>3. CASE j # k
      BY <1>1, <1>2, <1>3, <2>2, <2>3 DEF TypeOK
    <2>4. CASE j = k
      <3>1. /\ cursor'[k] = IF x = N - 1 THEN 0 ELSE x + 1
            /\ \A f \in Endpoints : picks'[k][f] = IF f = x THEN picks[k][f] + 1 ELSE picks[k][f]
            /\ picks[k][N - 1] \in Nat
        BY <1>1, <1>2, <1>3, <2>1 DEF TypeOK
      <3>2. x \in 0..(N - 1) /\ e \in 0..(N - 1)
        BY <1>1 DEF Endpoints
      <3>3. QED
        BY <2>1, <2>2, <2>4, <3>1, <3>2
    <2>5. QED
      BY <2>3, <2>4
  <1>6. CallInv'
    BY <1>2, <1>3 DEF CallInv, TypeOK, Up
  <1>7. MeetInv'
    <2> SUFFICES ASSUME NEW d \in Callers, NEW e \in Endpoints, Owed(d, e)'
                 PROVE  (\/ pc[d] = "wait" /\ at[d] = e
                         \/ pc[d] # "idle" /\ Sent(d) + Ahead(e, cursor[client[d]]) <= Budget(d)
                         \/ pc[d] = "idle" /\ Sent(d) <= Budget(d))'
      BY DEF MeetInv
    <2>1. /\ Ahead(e, x) \in 0..(N - 1)
          /\ e # x => Ahead(e, (x + 1) % N) = Ahead(e, x) - 1
          /\ e = x => Ahead(e, (x + 1) % N) = N - 1
      BY <1>1, TurnsPass
    <2>2. overtakes[d] \in Nat /\ attempt[d] \in Nat \ {0} /\ Sent(d) \in Nat
      BY DEF TypeOK, Sent
    <2>3. /\ Budget(d) \in Nat /\ Budget(d) >= N - 1
          /\ overtakes'[d] = overtakes[d] => Budget(d)' = Budget(d)
          /\ overtakes'[d] = overtakes[d] + 1 => Budget(d)' = Budget(d) + (N - 1)
      BY <2>2, BudgetGrows DEF Budget
    <2>4. CASE d = c
      <3>1. /\ pc'[c] = "wait" /\ at'[c] = x /\ cursor'[client'[c]] = (x + 1) % N
            /\ Sent(c)' = Sent(c) + 1 /\ overtakes'[c] = overtakes[c]
        BY <1>1, <1>2, <1>3 DEF Sent, TypeOK
      <3>2. CASE e = x
        BY <2>4, <3>1, <3>2
      <3>3. CASE e # x
        <4>1. CASE attempt[c] = 1
          <5>1. Sent(c) = 0
            BY <1>2, <4>1 DEF Sent
          <5>2. QED
            BY <2>1, <2>3, <2>4, <3>1, <3>3, <5>1
        <4>2. CASE attempt[c] # 1
          <5>1. Owed(c, e)
            BY <1>2, <1>3, <2>2, <2>4, <4>2 DEF Owed, Sent
          <5>2. Sent(c) + Ahead(e, x) <= Budget(c)
            BY <1>2, <5>1 DEF MeetInv
          <5>3. QED
            BY <2>1, <2>2, <2>3, <2>4, <3>1, <3>3, <5>2
        <4>3. QED
          BY <4>1, <4>2
      <3>4. QED
        BY <3>2, <3>3
    <2>5. CASE d # c
      <3>1. /\ pc'[d] = pc[d] /\ at'[d] = at[d] /\ client'[d] = client[d]
            /\ Sent(d)' = Sent(d) /\ steady'[d] = steady[d] /\ outcome'[d] = outcome[d]
        BY <1>2, <1>3, <2>5 DEF Sent, TypeOK
      <3>2. Owed(d, e)
        BY <3>1 DEF Owed
      <3>3. CASE client[d] = k /\ pc[d] # "idle"
        <4>1. /\ overtakes'[d] = overtakes[d] + 1
              /\ cursor'[client'[d]] = (x + 1) % N
          BY <1>1, <1>2, <1>3, <2>5, <3>1, <3>3 DEF TypeOK
        <4>2. CASE pc[d] = "wait" /\ at[d] = e
          BY <3>1, <4>2
        <4>3. CASE Sent(d) + Ahead(e, x) <= Budget(d)
          BY <2>1, <2>2, <2>3, <3>1, <3>3, <4>1, <4>3
        <4>4. QED
          BY <3>2, <3>3, <4>2, <4>3 DEF MeetInv
      <3>4. CASE ~(client[d] = k /\ pc[d] # "idle")
        <4>1. /\ overtakes'[d] = overtakes[d]
              /\ pc[d] # "idle" => cursor'[client'[d]] = cursor[client[d]]
          BY <1>1, <1>2, <1>3, <2>5, <3>1, <3>4 DEF TypeOK
        <4>2. QED
          BY <2>3, <3>1, <3>2, <4>1 DEF MeetInv
      <3>5. QED
        BY <3>3, <3>4
    <2>6. QED
      BY <2>4, <2>5
  <1>8. QED
    BY <1>4, <1>5, <1>6, <1>7

\* Every step keeps the invariant.
LEMMA NextIInv == IInv /\ [Next]_vars => IInv'
  <1> SUFFICES ASSUME IInv, [Next]_vars PROVE IInv'
    OBVIOUS
  <1>1. CASE UNCHANGED vars
    BY <1>1 DEF vars, callVars, IInv, TypeOK, PicksInv, CallInv, MeetInv, Owed, Sent, Budget
  <1>2. CASE Next
    BY <1>2, FlipKeepsIInv, StartKeepsIInv, RetryKeepsIInv, SendKeepsIInv DEF Next
  <1>3. QED
    BY <1>1, <1>2

\* The invariant of the clients.
LEMMA SpecIInv == Spec => []IInv
  BY InitIInv, NextIInv, PTL DEF Spec

\* Type correctness, for every value of the constants.
THEOREM ClientTypeCorrect == Spec => []TypeOK
  <1>1. IInv => TypeOK
    BY DEF IInv
  <1>2. QED
    BY <1>1, SpecIInv, PTL

\* Round-robin is exact: no endpoint is ever two requests ahead of another.
THEOREM LoadIsBalanced == Spec => []Balanced
  <1>1. IInv => Balanced
    <2> SUFFICES ASSUME IInv, NEW k \in Clients, NEW e \in Endpoints, NEW f \in Endpoints
                 PROVE  picks[k][e] <= picks[k][f] + 1
      BY DEF Balanced
    <2>1. N - 1 \in Endpoints
      BY ClientAssumption DEF Endpoints
    <2>2. picks[k][N - 1] \in Nat /\ cursor[k] \in Int
      BY <2>1, ClientAssumption DEF IInv, TypeOK, Endpoints
    <2>3. QED
      BY <2>2 DEF IInv, PicksInv
  <1>2. QED
    BY <1>1, SpecIInv, PTL

\* A call gives up while an endpoint was up only if others overtook it, once per
\* N - 1 of its attempts.
THEOREM OnlyOvertakenCallsFail == Spec => []FailoverUnlessOvertaken
  <1>1. IInv => FailoverUnlessOvertaken
    <2> SUFFICES ASSUME IInv, NEW c \in Callers, outcome[c] = "exhausted",
                        NEW e \in steady[c]
                 PROVE  MaxAttempts <= (overtakes[c] + 1) * (N - 1)
      BY DEF FailoverUnlessOvertaken
    <2> USE ClientAssumption DEF IInv
    <2>1. pc[c] = "idle" /\ Sent(c) = MaxAttempts /\ e \in Endpoints
      BY DEF CallInv, Sent, TypeOK
    <2>2. Owed(c, e)
      BY <2>1 DEF Owed
    <2>3. QED
      BY <2>1, <2>2 DEF MeetInv, Budget
  <1>2. QED
    BY <1>1, SpecIInv, PTL

\* A caller that nobody overtakes does not give up while an endpoint is up, if it
\* may try each endpoint once.
AloneFailsOver ==
  \A c \in Callers : outcome[c] = "exhausted" /\ overtakes[c] = 0 => steady[c] = {}

\* The round-robin is a failover for a caller that is alone, with as many attempts
\* as endpoints.
THEOREM AloneSucceeds ==
  ASSUME MaxAttempts >= N
  PROVE  Spec => []AloneFailsOver
  <1>1. FailoverUnlessOvertaken => AloneFailsOver
    BY ClientAssumption DEF FailoverUnlessOvertaken, AloneFailsOver
  <1>2. QED
    BY <1>1, OnlyOvertakenCallsFail, PTL
=============================================================================
