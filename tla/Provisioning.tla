---------------------------- MODULE Provisioning ----------------------------
(***************************************************************************)
(* What the indexer promises its clients (spec.md sections 1, 3 and 4.3),  *)
(* without threads, caches, ticks or requests.                             *)
(*                                                                         *)
(* There is one current day.  An index pass may run on the database of    *)
(* any stream for any day up to tomorrow; a pass on a database of today    *)
(* registers it in the store's catalog, and it may or may not leave the    *)
(* full index set behind (failures are logged, not retried).  Readiness is *)
(* signalled once, after every database of today is registered.  After     *)
(* that the day moves on one at a time, and each new day's databases are   *)
(* registered as it begins.                                                *)
(***************************************************************************)
EXTENDS Naturals

CONSTANT Streams

VARIABLES
    day,      \* the current day
    ready,    \* readiness has been signalled
    indexed,  \* databases <<stream, day>> with their full index set
    catalog   \* databases registered in the store's catalog

vars == <<day, ready, indexed, catalog>>

TypeOK ==
    /\ day \in Nat
    /\ ready \in BOOLEAN
    /\ indexed \subseteq Streams \X Nat
    /\ catalog \subseteq Streams \X Nat

\* The databases of day d.
DatabasesOf(d) == {<<s, d>> : s \in Streams}

Init ==
    /\ day = 0
    /\ ready = FALSE
    /\ indexed = {}
    /\ catalog = {}

\* An index pass over database db of a day no later than tomorrow.
Provision(db) ==
    /\ db[2] <= day + 1
    /\ catalog' = IF db[2] = day THEN catalog \cup {db} ELSE catalog
    /\ indexed' \in {indexed, indexed \cup {db}}
    /\ UNCHANGED <<day, ready>>

\* Readiness, once every database of today is registered.
Ready ==
    /\ ~ready
    /\ DatabasesOf(day) \subseteq catalog
    /\ ready' = TRUE
    /\ UNCHANGED <<day, indexed, catalog>>

\* Midnight, seen by a ready indexer: the new day's databases are registered.
Rollover ==
    /\ ready
    /\ day' = day + 1
    /\ catalog' = catalog \cup DatabasesOf(day + 1)
    /\ UNCHANGED <<ready, indexed>>

Next ==
    \/ \E s \in Streams, d \in 0..(day + 1) : Provision(<<s, d>>)
    \/ Ready
    \/ Rollover

Spec == Init /\ [][Next]_vars

-----------------------------------------------------------------------------
\* The promise: once ready, every database of the current day is in the
\* catalog, and no index pass ever ran ahead of tomorrow.
ReadyCatalogued ==
    /\ ready => DatabasesOf(day) \subseteq catalog
    /\ \A db \in indexed \cup catalog : db[2] <= day + 1

=============================================================================
