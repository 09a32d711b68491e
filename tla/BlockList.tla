------------------------------ MODULE BlockList ------------------------------
(***************************************************************************)
(* Paging through the block list (crates/api/src/routes/blocks.rs, GraphQL *)
(* `blocks', crates/db/src/blocks.rs list_before): clients walk from the   *)
(* newest block down while the indexer appends and pages are cached under  *)
(* their limit and upper bound.                                            *)
(*                                                                         *)
(* The indexer is the abstract one of IndexedChain, which BlockSync is     *)
(* shown to implement; Redis is one entry per key that may be lost at any  *)
(* time (CacheAside has its client).  A client that follows next_cursor    *)
(* sees, in the end, a contiguous stretch of the index.                    *)
(***************************************************************************)
EXTENDS Integers, FiniteSets, Sequences

CONSTANTS
  Clients,
  MaxHeight, SafeLag, Damaged,  \* of IndexedChain
  DefaultLimit, MaxLimit,       \* DEFAULT_LIMIT and MAX_LIMIT
  RawLimits,                    \* the ?limit= values clients send
  MaxWalks,                     \* bound: walks begun
  Tip,                          \* no ?before=: the newest page
  None                          \* no next cursor, no cached page

ASSUME ListAssumption ==
  /\ MaxHeight \in Nat /\ SafeLag \in Nat /\ Damaged \subseteq Nat
  /\ DefaultLimit \in 1..MaxLimit /\ MaxLimit \in Nat
  /\ RawLimits \subseteq Int /\ MaxWalks \in Nat
  /\ Tip \notin Int /\ None \notin Int \cup {Tip}

VARIABLES
  tip, indexed, cursor,  \* the indexer
  cache,    \* the page under each key, or None
  pc,       \* of each client: idle, ask (sends a request), store, reply
  limit,    \* its limit, clamped
  before,   \* the ?before= of the request it sends
  page,     \* the response it is given: rows, next cursor, and `ahead'
  seen,     \* the heights its walk has listed so far, in order
  tainted,  \* history: the walk went on with a page that was cached too early
  walks     \* number of walks begun

chainVars == <<tip, indexed, cursor>>
clientVars == <<pc, limit, before, page, seen, tainted>>
vars == <<chainVars, cache, clientVars, walks>>

Indexer == INSTANCE IndexedChain

Heights == 0..MaxHeight
Bounds == Heights \cup {Tip}
NoPage == [rows |-> <<>>, next |-> None, ahead |-> FALSE]

\* clamp_limit: not positive (or missing, or no number) is the default.  GraphQL
\* clamps to 1..MaxLimit, which gives no limit that some ?limit= does not give.
ClampLimit(n) == IF n <= 0 THEN DefaultLimit ELSE IF n < MaxLimit THEN n ELSE MaxLimit

Keys == {ClampLimit(n) : n \in RawLimits} \X Bounds

Init ==
  /\ Indexer!AbsInit
  /\ cache = [k \in Keys |-> None]
  /\ pc = [c \in Clients |-> "idle"]
  /\ limit = [c \in Clients |-> DefaultLimit]
  /\ before = [c \in Clients |-> Tip]
  /\ page = [c \in Clients |-> NoPage]
  /\ seen = [c \in Clients |-> <<>>]
  /\ tainted = [c \in Clients |-> FALSE]
  /\ walks = 0

-----------------------------------------------------------------------------
(***************************************************************************)
(* The page of a request.                                                  *)
(***************************************************************************)

\* list_before: WHERE height <= b ORDER BY height DESC LIMIT n.
ListBefore(b, n) ==
  LET range == {h \in indexed : b = Tip \/ h <= b}
      rank(h) == Cardinality({k \in range : k >= h})
  IN  [i \in 1..(IF Cardinality(range) < n THEN Cardinality(range) ELSE n) |->
         CHOOSE h \in range : rank(h) = i]

\* Mutant: the cursor is the lowest height listed, although it is inclusive.
NextCursor_Inclusive(rows) ==
  IF rows = <<>> THEN None
  ELSE IF rows[Len(rows)] > 0 THEN rows[Len(rows)] ELSE None

\* The lowest height listed minus one, unless it is block 0.
NextCursor(rows) ==
  IF rows = <<>> THEN None
  ELSE IF rows[Len(rows)] > 0 THEN rows[Len(rows)] - 1 ELSE None

\* Mutant: an empty page has its own bound as the next cursor.
Response_RepeatsEmpty(b, n) ==
  LET rows == ListBefore(b, n)
  IN  [rows |-> rows, next |-> IF rows = <<>> THEN b ELSE NextCursor(rows),
       ahead |-> b # Tip /\ b > cursor]

\* The rows and the cursor to go on with; `ahead' is bookkeeping: the bound was
\* above the index.
Response(b, n) ==
  LET rows == ListBefore(b, n)
  IN  [rows |-> rows, next |-> NextCursor(rows), ahead |-> b # Tip /\ b > cursor]

-----------------------------------------------------------------------------
(***************************************************************************)
(* A request: get_or_load with list's loader.                              *)
(***************************************************************************)

Key(c) == <<limit[c], before[c]>>

\* A new walk, from the newest block or from any height.
Begin(c, n, b) ==
  /\ pc[c] = "idle" /\ walks < MaxWalks
  /\ walks' = walks + 1
  /\ pc' = [pc EXCEPT ![c] = "ask"]
  /\ limit' = [limit EXCEPT ![c] = ClampLimit(n)]
  /\ before' = [before EXCEPT ![c] = b]
  /\ seen' = [seen EXCEPT ![c] = <<>>]
  /\ tainted' = [tainted EXCEPT ![c] = FALSE]
  /\ UNCHANGED <<chainVars, cache, page>>

\* The key is in Redis.
Hit(c) ==
  /\ pc[c] = "ask" /\ cache[Key(c)] # None
  /\ page' = [page EXCEPT ![c] = cache[Key(c)]]
  /\ pc' = [pc EXCEPT ![c] = "reply"]
  /\ UNCHANGED <<chainVars, cache, limit, before, seen, tainted, walks>>

\* It is not, or Redis fails: the loader's query.
Load(c) ==
  /\ pc[c] = "ask"
  /\ page' = [page EXCEPT ![c] = Response(before[c], limit[c])]
  /\ pc' = [pc EXCEPT ![c] = "store"]
  /\ UNCHANGED <<chainVars, cache, limit, before, seen, tainted, walks>>

\* GraphQL's blocks: the same query without the cache.  Its answer has no cursor;
\* the client goes on below the lowest height, as list_before asks it to.
GqlBlocks(c) ==
  /\ pc[c] = "ask"
  /\ page' = [page EXCEPT ![c] = Response(before[c], limit[c])]
  /\ pc' = [pc EXCEPT ![c] = "reply"]
  /\ UNCHANGED <<chainVars, cache, limit, before, seen, tainted, walks>>

\* set_json, which may fail; the index may have grown since the query.
Store(c) ==
  /\ pc[c] = "store"
  /\ cache' \in {cache, [cache EXCEPT ![Key(c)] = page[c]]}
  /\ pc' = [pc EXCEPT ![c] = "reply"]
  /\ UNCHANGED <<chainVars, limit, before, page, seen, tainted, walks>>

\* The client lists the rows and follows the cursor, or is at the end.
Reply(c) ==
  /\ pc[c] = "reply"
  /\ seen' = [seen EXCEPT ![c] = @ \o page[c].rows]
  /\ tainted' = [tainted EXCEPT ![c] = @ \/ (seen[c] # <<>> /\ page[c].ahead)]
  /\ \/ /\ page[c].next # None
        /\ before' = [before EXCEPT ![c] = page[c].next]
        /\ pc' = [pc EXCEPT ![c] = "ask"]
     \/ /\ page[c].next = None
        /\ before' = [before EXCEPT ![c] = Tip]
        /\ pc' = [pc EXCEPT ![c] = "idle"]
  /\ page' = [page EXCEPT ![c] = NoPage]
  /\ UNCHANGED <<chainVars, cache, limit, walks>>

\* The TTL of the chain tier ends.
Expire(k) ==
  /\ cache[k] # None
  /\ cache' = [cache EXCEPT ![k] = None]
  /\ UNCHANGED <<chainVars, clientVars, walks>>

Index == Indexer!AbsNext /\ UNCHANGED <<cache, clientVars, walks>>

Serve(c) == Hit(c) \/ Load(c) \/ GqlBlocks(c) \/ Store(c) \/ Reply(c)

Next ==
  \/ Index
  \/ \E c \in Clients : Serve(c) \/ \E n \in RawLimits, b \in Bounds : Begin(c, n, b)
  \/ \E k \in Keys : Expire(k)

Spec == Init /\ [][Next]_vars

\* A request is answered and a client that has a next cursor goes on.
FairSpec == Spec /\ \A c \in Clients : WF_vars(Serve(c))

-----------------------------------------------------------------------------

TypeOK ==
  /\ tip \in Heights /\ indexed \subseteq Heights /\ cursor \in -1..MaxHeight
  /\ cache \in [Keys -> {None} \cup [rows : Seq(Heights), next : Heights \cup {None}, ahead : BOOLEAN]]
  /\ pc \in [Clients -> {"idle", "ask", "store", "reply"}]
  /\ limit \in [Clients -> 1..MaxLimit] /\ before \in [Clients -> Bounds]
  /\ page \in [Clients -> [rows : Seq(Heights), next : Heights \cup {None}, ahead : BOOLEAN]]
  /\ seen \in [Clients -> Seq(Heights)] /\ tainted \in [Clients -> BOOLEAN]
  /\ walks \in 0..MaxWalks

\* The heights still to come in c's walk start below this one.
Floor(c) == IF pc[c] = "idle" THEN -1 ELSE before[c]

\* A walk lists every indexed block between its newest and its cursor, newest
\* first, none twice and none left out, although blocks are indexed, heights
\* are missing and each page may come from a cache filled at another time.  The
\* one exception is a page cached for a bound above the index of its time: it
\* stays short until its TTL ends, and a walk that meets it skips blocks.
WalkExact ==
  \A c \in Clients :
    seen[c] # <<>> /\ ~tainted[c] =>
      LET stretch == {h \in indexed : Floor(c) < h /\ h <= seen[c][1]}
      IN  /\ \A i, j \in 1..Len(seen[c]) : i < j => seen[c][i] > seen[c][j]
          /\ {seen[c][i] : i \in 1..Len(seen[c])} = stretch

\* Every walk comes to its end, however the index grows meanwhile.
WalkEnds == \A c \in Clients : (pc[c] = "ask") ~> (pc[c] = "idle")
=============================================================================
