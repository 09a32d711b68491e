----------------------------- MODULE ChainClient -----------------------------
(***************************************************************************)
(* The chain clients (crates/chain): RestClient and ChainProvider spread   *)
(* requests round-robin over their endpoints, and retry_with_backoff wraps *)
(* each call of the sync loops.  The backfill keeps several fetches under  *)
(* way and the tail, the CoinBlast worker and the detector call beside it, *)
(* so that calls share the cursor of a client and interleave on it.        *)
(*                                                                         *)
(* A call refused before it picks an endpoint (InvalidArgument) changes    *)
(* nothing and is left out.  The cursor is kept modulo the number of       *)
(* endpoints: the AtomicUsize does not wrap in practice.                   *)
(***************************************************************************)
EXTENDS Integers

CONSTANTS
  Callers,      \* tasks that call the chain
  N,            \* endpoints of each client
  MaxAttempts,  \* BackoffConfig::max_attempts
  MaxCalls,     \* bound: calls made
  MaxFlips      \* bound: changes of an endpoint's health

ASSUME ClientAssumption ==
  /\ N \in Nat \ {0} /\ MaxAttempts \in Nat \ {0}
  /\ MaxCalls \in Nat /\ MaxFlips \in Nat

Clients == {"rest", "rpc"}
Endpoints == 0..(N - 1)

\* An endpoint serves, refuses or fails requests, answers with what does not
\* decode or breaks off, or accepts requests and says nothing.
Healths == {"up", "down", "garbled", "hung"}

VARIABLES
  health,    \* of each endpoint (external)
  cursor,    \* of each client: the endpoint its next request goes to
  pc,        \* of each caller: idle, send, wait, sleep
  client,    \* the client of its call
  at,        \* the endpoint of its last request
  attempt,   \* of retry_with_backoff
  outcome,   \* how its last call ended
  calls,     \* number of calls made
  flips,     \* number of changes of health
  picks,     \* history: requests each client sent to each endpoint
  overtakes, \* history: requests of other callers since a call's first one
  steady     \* history: endpoints that were up ever since a call's first one

callVars == <<pc, client, attempt, outcome, calls>>
vars == <<health, cursor, callVars, at, flips, picks, overtakes, steady>>

TypeOK ==
  /\ health \in [Endpoints -> Healths]
  /\ cursor \in [Clients -> Endpoints]
  /\ pc \in [Callers -> {"idle", "send", "wait", "sleep"}]
  /\ client \in [Callers -> Clients]
  /\ at \in [Callers -> Endpoints]
  /\ attempt \in [Callers -> 1..MaxAttempts]
  /\ outcome \in [Callers -> {"none", "ok", "permanent", "exhausted"}]
  /\ calls \in 0..MaxCalls /\ flips \in 0..MaxFlips
  /\ picks \in [Clients -> [Endpoints -> Nat]]
  /\ overtakes \in [Callers -> Nat]
  /\ steady \in [Callers -> SUBSET Endpoints]

Init ==
  /\ health \in [Endpoints -> Healths]
  /\ cursor = [k \in Clients |-> 0]
  /\ pc = [c \in Callers |-> "idle"]
  /\ client = [c \in Callers |-> "rest"]
  /\ at = [c \in Callers |-> 0]
  /\ attempt = [c \in Callers |-> 1]
  /\ outcome = [c \in Callers |-> "none"]
  /\ calls = 0 /\ flips = 0
  /\ picks = [k \in Clients |-> [e \in Endpoints |-> 0]]
  /\ overtakes = [c \in Callers |-> 0]
  /\ steady = [c \in Callers |-> {}]

Up == {e \in Endpoints : health[e] = "up"}

-----------------------------------------------------------------------------
(***************************************************************************)
(* Answers and errors.                                                     *)
(***************************************************************************)

\* Mutant: the client has no timeout.
RestAnswers_NoTimeout(h) ==
  CASE h = "up"      -> {"Value", "None"}
    [] h = "down"    -> {"RestConnect", "Rpc"}
    [] h = "garbled" -> {"RestBody", "Decode"}
    [] h = "hung"    -> {}

\* What RestClient makes of what an endpoint does.  A 404 is an answer, None;
\* every other status but success is an Rpc error; broken bodies and wrong JSON
\* stay what they are.  A request ends after 10 seconds.
RestAnswers(h) ==
  CASE h = "up"      -> {"Value", "None"}
    [] h = "down"    -> {"RestConnect", "Rpc"}
    [] h = "garbled" -> {"RestBody", "Decode"}
    [] h = "hung"    -> {"RestTimeout"}

\* ChainProvider turns every failure into Rpc and sets no timeout.
RpcAnswers(h) ==
  CASE h = "up"                  -> {"Value"}
    [] h \in {"down", "garbled"} -> {"Rpc"}
    [] h = "hung"                -> {}

Answers(k, h) == IF k = "rest" THEN RestAnswers(h) ELSE RpcAnswers(h)

IsOk(a) == a \in {"Value", "None"}

\* ChainError::is_transient.
IsTransient(a) == a \in {"Rpc", "RestConnect", "RestTimeout"}

-----------------------------------------------------------------------------
(***************************************************************************)
(* A call.                                                                 *)
(***************************************************************************)

\* An endpoint changes (external).
Flip ==
  /\ flips < MaxFlips
  /\ flips' = flips + 1
  /\ \E e \in Endpoints : \E h \in Healths \ {health[e]} : health' = [health EXCEPT ![e] = h]
  /\ steady' = [c \in Callers |-> {e \in steady[c] : health'[e] = "up"}]
  /\ UNCHANGED <<cursor, callVars, at, picks, overtakes>>

\* retry_with_backoff begins with attempt 1.
Start(c, k) ==
  /\ pc[c] = "idle" /\ calls < MaxCalls
  /\ calls' = calls + 1
  /\ pc' = [pc EXCEPT ![c] = "send"]
  /\ client' = [client EXCEPT ![c] = k]
  /\ attempt' = [attempt EXCEPT ![c] = 1]
  /\ outcome' = [outcome EXCEPT ![c] = "none"]
  /\ overtakes' = [overtakes EXCEPT ![c] = 0]
  /\ UNCHANGED <<health, cursor, at, flips, picks, steady>>

\* The bookkeeping of a request of c to endpoint e.
Observe(c, e) ==
  /\ picks' = [picks EXCEPT ![client[c]][e] = @ + 1]
  /\ overtakes' = [d \in Callers |->
       IF d # c /\ client[d] = client[c] /\ pc[d] # "idle"
       THEN overtakes[d] + 1 ELSE overtakes[d]]
  /\ steady' = IF attempt[c] = 1 THEN [steady EXCEPT ![c] = Up] ELSE steady

\* Mutant: a retry goes to the endpoint that failed.
Send_Sticky(c) ==
  /\ pc[c] = "send"
  /\ LET e == IF attempt[c] = 1 THEN cursor[client[c]] ELSE at[c]
     IN  /\ at' = [at EXCEPT ![c] = e]
         /\ Observe(c, e)
  /\ cursor' = IF attempt[c] = 1
               THEN [cursor EXCEPT ![client[c]] = (@ + 1) % N] ELSE cursor
  /\ pc' = [pc EXCEPT ![c] = "wait"]
  /\ UNCHANGED <<health, client, attempt, outcome, calls, flips>>

\* next_base, next: fetch_add on the shared cursor, and the request is under way.
Send(c) ==
  /\ pc[c] = "send"
  /\ at' = [at EXCEPT ![c] = cursor[client[c]]]
  /\ Observe(c, cursor[client[c]])
  /\ cursor' = [cursor EXCEPT ![client[c]] = (@ + 1) % N]
  /\ pc' = [pc EXCEPT ![c] = "wait"]
  /\ UNCHANGED <<health, client, attempt, outcome, calls, flips>>

End(c, how) ==
  /\ pc' = [pc EXCEPT ![c] = "idle"]
  /\ outcome' = [outcome EXCEPT ![c] = how]

\* Mutant: the last attempt is not made.
Answer_OneShort(c) ==
  /\ pc[c] = "wait"
  /\ \E a \in Answers(client[c], health[at[c]]) :
       \/ IsOk(a) /\ End(c, "ok")
       \/ ~IsOk(a) /\ ~IsTransient(a) /\ End(c, "permanent")
       \/ IsTransient(a) /\ attempt[c] + 1 >= MaxAttempts /\ End(c, "exhausted")
       \/ /\ IsTransient(a) /\ attempt[c] + 1 < MaxAttempts
          /\ pc' = [pc EXCEPT ![c] = "sleep"]
          /\ UNCHANGED outcome
  /\ UNCHANGED <<health, cursor, client, at, attempt, calls, flips, picks, overtakes, steady>>

\* One turn of the retry loop: an answer is returned, a permanent error too, a
\* transient one after the last attempt; else the caller sleeps.
Answer(c) ==
  /\ pc[c] = "wait"
  /\ \E a \in Answers(client[c], health[at[c]]) :
       \/ IsOk(a) /\ End(c, "ok")
       \/ ~IsOk(a) /\ ~IsTransient(a) /\ End(c, "permanent")
       \/ IsTransient(a) /\ attempt[c] = MaxAttempts /\ End(c, "exhausted")
       \/ /\ IsTransient(a) /\ attempt[c] < MaxAttempts
          /\ pc' = [pc EXCEPT ![c] = "sleep"]
          /\ UNCHANGED outcome
  /\ UNCHANGED <<health, cursor, client, at, attempt, calls, flips, picks, overtakes, steady>>

\* The sleep ends, whatever its length, and the next attempt begins.
Wake(c) ==
  /\ pc[c] = "sleep"
  /\ attempt' = [attempt EXCEPT ![c] = @ + 1]
  /\ pc' = [pc EXCEPT ![c] = "send"]
  /\ UNCHANGED <<health, cursor, client, at, outcome, calls, flips, picks, overtakes, steady>>

-----------------------------------------------------------------------------

Next ==
  \/ Flip
  \/ \E c \in Callers :
       Send(c) \/ Answer(c) \/ Wake(c) \/ \E k \in Clients : Start(c, k)

Spec == Init /\ [][Next]_vars

\* Requests are sent, sleeps end, and a request that an endpoint answers, or
\* that times out, ends.
FairSpec ==
  /\ Spec
  /\ \A c \in Callers : WF_vars(Send(c)) /\ WF_vars(Answer(c)) /\ WF_vars(Wake(c))

-----------------------------------------------------------------------------

\* However calls and retries interleave on the atomic cursor, no endpoint of a
\* client ever gets two requests more than another ("spreads JSON-RPC load
\* round-robin", next and next_base).
Balanced ==
  \A k \in Clients : \A e, f \in Endpoints : picks[k][e] <= picks[k][f] + 1

\* A call that gives up although one endpoint was up all the time was overtaken:
\* between two of its requests another caller took the good endpoint, once per
\* N - 1 attempts at least.  A caller that is alone never gives up while
\* MaxAttempts >= N; the round-robin is a failover only for it.
FailoverUnlessOvertaken ==
  \A c \in Callers :
    outcome[c] = "exhausted" /\ steady[c] # {} =>
      MaxAttempts <= (overtakes[c] + 1) * (N - 1)

\* A REST call ends, whatever the endpoints do: the attempts are bounded and so
\* is each request.  Of a provider call this holds only while no endpoint hangs.
RestCallsEnd ==
  \A c \in Callers : (pc[c] # "idle" /\ client[c] = "rest") ~> (pc[c] = "idle")
=============================================================================
