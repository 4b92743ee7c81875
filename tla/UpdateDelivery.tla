--------------------------- MODULE UpdateDelivery ---------------------------
(***************************************************************************)
(* What the stats updater pool promises (spec.md sections 2, 4.2 and 6),   *)
(* without workers, retries in progress, caches or ticks.                  *)
(*                                                                         *)
(* An update task is consumed exactly once.  Each entry of a consumed task *)
(* settles once: its upsert is applied, or it is dropped with a logged    *)
(* error and never retried.  It settles after some number k of lock        *)
(* conflicts, at most the retry budget: an applied entry met fewer than    *)
(* the budget, an entry that met the full budget is dropped, and without   *)
(* other store errors only the full budget drops an entry.                 *)
(***************************************************************************)
EXTENDS Naturals

CONSTANTS
    Tasks,         \* Tasks[t]: the update tasks, each with a set of keys
    Retries,       \* the retry budget for lock conflicts
    StoreMayFail   \* whether the store may fail with a non-retryable error

TaskIds == DOMAIN Tasks
Keys == UNION {Tasks[t].keys : t \in TaskIds}

\* The entries <<t, k>> of all tasks.
Entries == {e \in TaskIds \X Keys : e[2] \in Tasks[e[1]].keys}

VARIABLES
    consumed,   \* the tasks a worker has taken from the queue
    outcome,    \* outcome[e]: "none", "applied" or "dropped"
    conflicts   \* conflicts[e]: the lock conflicts e met before it settled

vars == <<consumed, outcome, conflicts>>

Init ==
    /\ consumed = {}
    /\ outcome = [e \in Entries |-> "none"]
    /\ conflicts = [e \in Entries |-> 0]

\* A task is taken from the queue, once.
Consume(t) ==
    /\ t \in TaskIds \ consumed
    /\ consumed' = consumed \cup {t}
    /\ UNCHANGED <<outcome, conflicts>>

\* The outcome o a settlement after k lock conflicts may have.
Allowed(k, o) ==
    /\ o = "applied" => k < Retries
    /\ k = Retries => o = "dropped"
    /\ (o = "dropped" /\ ~StoreMayFail) => k = Retries

\* An entry of a consumed task settles, once, after k lock conflicts.
Settle(e, k, o) ==
    /\ e[1] \in consumed
    /\ outcome[e] = "none"
    /\ Allowed(k, o)
    /\ outcome' = [outcome EXCEPT ![e] = o]
    /\ conflicts' = [conflicts EXCEPT ![e] = k]
    /\ UNCHANGED consumed

Next ==
    \/ \E t \in TaskIds : Consume(t)
    \/ \E e \in Entries, k \in 0..Retries, o \in {"applied", "dropped"} :
          Settle(e, k, o)

Spec == Init /\ [][Next]_vars

=============================================================================
