----------------------------- MODULE IndexedChain -----------------------------
(***************************************************************************)
(* What the synchronisation core promises its readers: the database is an  *)
(* append-only prefix of the chain that stays SafeLag blocks behind the    *)
(* tip.  One step may append several heights; heights whose block the      *)
(* chain lost are passed over.                                             *)
(***************************************************************************)
EXTENDS Integers

CONSTANTS MaxHeight, SafeLag, Damaged

VARIABLES tip, indexed, cursor

absVars == <<tip, indexed, cursor>>

AbsInit == tip = 0 /\ indexed = {} /\ cursor = -1

Grow ==
  /\ tip < MaxHeight
  /\ tip' = tip + 1
  /\ UNCHANGED <<indexed, cursor>>

Append ==
  /\ cursor' \in (cursor + 1)..(tip - SafeLag)
  /\ indexed' = indexed \cup (((cursor + 1)..cursor') \ Damaged)
  /\ UNCHANGED tip

AbsNext == Grow \/ Append

AbsSpec == AbsInit /\ [][AbsNext]_absVars
=============================================================================
