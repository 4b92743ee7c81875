---------------------------- MODULE StatsUpdater ----------------------------
(***************************************************************************)
(* The stats updater pool (src/src/importer-statsupdater.c).               *)
(*                                                                         *)
(* N workers pull update tasks from one PULL socket.  A task names a kind  *)
(* (totals, minutes or quants), a database and a map from namespace keys   *)
(* to increments.  A worker applies the entries one by one as upserts; an  *)
(* upsert that fails with a lock conflict is retried while the retry       *)
(* budget lasts, any other failure (or an exhausted budget) is logged and  *)
(* the entry dropped.  Ticks reset the task counter and, staggered by      *)
(* worker id, flush the worker's cache of collection handles.              *)
(*                                                                         *)
(* The store is abstracted to the fate of each entry (applied, or dropped  *)
(* after a logged error): the increments are additive and play no part in *)
(* control.  A "$TERM" command stops a worker between two tasks.          *)
(***************************************************************************)
EXTENDS Naturals, FiniteSets

CONSTANTS
    NumUpdaters,      \* the number of updater threads (ids 0..NumUpdaters-1)
    Tasks,            \* Tasks[t]: the update tasks the controller pushes
    Retries,          \* TOKU_TX_RETRIES
    RefreshInterval,  \* COLLECTION_REFRESH_INTERVAL (ticks)
    StoreMayFail,     \* whether an upsert may fail with another error
    None              \* no task, or no entry in progress

Workers == 0..(NumUpdaters - 1)
TaskIds == DOMAIN Tasks
Kinds == {"t", "m", "q"}

ASSUME UpdatersAssumption == NumUpdaters \in Nat \ {0}
ASSUME RetriesAssumption == Retries \in Nat \ {0}
ASSUME IntervalAssumption == RefreshInterval \in Nat \ {0}
ASSUME FailAssumption == StoreMayFail \in BOOLEAN
ASSUME TasksAssumption ==
    /\ IsFiniteSet(TaskIds)
    /\ None \notin TaskIds
    /\ \A t \in TaskIds : Tasks[t].kind \in Kinds
    /\ \A t \in TaskIds : IsFiniteSet(Tasks[t].keys) /\ None \notin Tasks[t].keys

Keys == UNION {Tasks[t].keys : t \in TaskIds}
Dbs == {Tasks[t].db : t \in TaskIds}

\* The entries <<t, k>> of all tasks.
Entries == {e \in TaskIds \X Keys : e[2] \in Tasks[e[1]].keys}

\* The results of mongoc_collection_update.
Outcomes == IF StoreMayFail THEN {"ok", "lock", "other"} ELSE {"ok", "lock"}

VARIABLES
    queue,        \* tasks pushed and not yet pulled
    task,         \* task[w]: the task worker w is processing, or None
    left,         \* left[w]: the keys of the task not yet applied
    cur,          \* cur[w]: the key being upserted, or None
    tries,        \* tries[w]: the retry budget left for cur[w]
    collections,  \* collections[w]: databases with cached collection handles
    ticks,        \* ticks[w] (modulo RefreshInterval)
    count,        \* count[w]: updates_count, tasks since the last tick
    stopped,      \* stopped[w]: worker w has received "$TERM"
    outcome,      \* outcome[e]: "none", "applied" or "dropped" (logged)
    lockFails     \* lockFails[e]: lock conflicts entry e met

vars == <<queue, task, left, cur, tries, collections, ticks, count, stopped,
          outcome, lockFails>>

TypeOK ==
    /\ queue \subseteq TaskIds
    /\ task \in [Workers -> TaskIds \cup {None}]
    /\ left \in [Workers -> SUBSET Keys]
    /\ cur \in [Workers -> Keys \cup {None}]
    /\ tries \in [Workers -> 0..Retries]
    /\ collections \in [Workers -> SUBSET Dbs]
    /\ ticks \in [Workers -> 0..(RefreshInterval - 1)]
    /\ count \in [Workers -> 0..Cardinality(TaskIds)]
    /\ stopped \in [Workers -> BOOLEAN]
    /\ outcome \in [Entries -> {"none", "applied", "dropped"}]
    /\ lockFails \in [Entries -> 0..Retries]

-----------------------------------------------------------------------------
\* Variant: the stagger is off by one.
IsRefreshTickOffByOne(w, t) == t % RefreshInterval = RefreshInterval - w

\* The hourly refresh of collection handles, staggered by the worker id.
IsRefreshTick(w, t) == t % RefreshInterval = RefreshInterval - w - 1

Init ==
    /\ queue = TaskIds
    /\ task = [w \in Workers |-> None]
    /\ left = [w \in Workers |-> {}]
    /\ cur = [w \in Workers |-> None]
    /\ tries = [w \in Workers |-> 0]
    /\ collections = [w \in Workers |-> {}]
    /\ ticks = [w \in Workers |-> 0]
    /\ count = [w \in Workers |-> 0]
    /\ stopped = [w \in Workers |-> FALSE]
    /\ outcome = [e \in Entries |-> "none"]
    /\ lockFails = [e \in Entries |-> 0]

(* A task message is read from the PULL socket: the counter goes up, the   *)
(* collection handles of its database are looked up or created            *)
(* (stats_updater_get_collections), and update_collection starts on its    *)
(* map.                                                                    *)
PullTask(w) ==
    /\ ~stopped[w]
    /\ task[w] = None
    /\ \E t \in queue :
          /\ queue' = queue \ {t}
          /\ task' = [task EXCEPT ![w] = t]
          /\ left' = [left EXCEPT ![w] = Tasks[t].keys]
          /\ collections' = [collections EXCEPT ![w] = @ \cup {Tasks[t].db}]
    /\ count' = [count EXCEPT ![w] = @ + 1]
    /\ UNCHANGED <<cur, tries, ticks, stopped, outcome, lockFails>>

\* Variant: the budget is one more than TOKU_TX_RETRIES.
StartEntryExtraTry(w) ==
    /\ task[w] # None
    /\ cur[w] = None
    /\ \E k \in left[w] :
          /\ cur' = [cur EXCEPT ![w] = k]
          /\ left' = [left EXCEPT ![w] = @ \ {k}]
    /\ tries' = [tries EXCEPT ![w] = Retries + 1]
    /\ UNCHANGED <<queue, task, collections, ticks, count, stopped,
                   outcome, lockFails>>

(* update_collection calls the kind's callback on the next entry of the    *)
(* map (zhash order): its retry budget starts at TOKU_TX_RETRIES.          *)
StartEntry(w) ==
    /\ task[w] # None
    /\ cur[w] = None
    /\ \E k \in left[w] :
          /\ cur' = [cur EXCEPT ![w] = k]
          /\ left' = [left EXCEPT ![w] = @ \ {k}]
    /\ tries' = [tries EXCEPT ![w] = Retries]
    /\ UNCHANGED <<queue, task, collections, ticks, count, stopped,
                   outcome, lockFails>>

\* Variant: a lock conflict is retried with no budget.
RetryUnbounded(n) == TRUE

\* Variant: the budget is tested before it is decremented (tries-- > 0).
Retry2(n) == n > 0

\* if ((error.code == TOKU_TX_LOCK_FAILED) && (--tries > 0)) goto retry.
Retry(n) == n - 1 > 0

(* One mongoc_collection_update of the current entry's upsert.  Success    *)
(* applies the increments; a lock conflict goes back to "retry:" while the    *)
(* budget lasts; otherwise the failure is logged and the entry dropped.    *)
Upsert(w) ==
    /\ cur[w] # None
    /\ LET e == <<task[w], cur[w]>>
       IN  \E r \in Outcomes :
             CASE r = "ok" ->
                    /\ outcome' = [outcome EXCEPT ![e] = "applied"]
                    /\ cur' = [cur EXCEPT ![w] = None]
                    /\ UNCHANGED <<tries, lockFails>>
               [] r = "lock" /\ Retry(tries[w]) ->
                    /\ tries' = [tries EXCEPT ![w] = @ - 1]
                    /\ lockFails' = [lockFails EXCEPT ![e] = @ + 1]
                    /\ UNCHANGED <<cur, outcome>>
               [] OTHER ->
                    /\ outcome' = [outcome EXCEPT ![e] = "dropped"]
                    /\ lockFails' = IF r = "lock"
                                      THEN [lockFails EXCEPT ![e] = @ + 1]
                                      ELSE lockFails
                    /\ cur' = [cur EXCEPT ![w] = None]
                    /\ UNCHANGED tries
    /\ UNCHANGED <<queue, task, left, collections, ticks, count, stopped>>

\* Variant: the task is left before its map is exhausted.
FinishTaskEarly(w) ==
    /\ task[w] # None
    /\ cur[w] = None
    /\ task' = [task EXCEPT ![w] = None]
    /\ left' = [left EXCEPT ![w] = {}]
    /\ UNCHANGED <<queue, cur, tries, collections, ticks, count,
                   stopped, outcome, lockFails>>

(* The map is exhausted: zhash_destroy(&updates), the duration is logged.  *)
FinishTask(w) ==
    /\ task[w] # None
    /\ cur[w] = None
    /\ left[w] = {}
    /\ task' = [task EXCEPT ![w] = None]
    /\ UNCHANGED <<queue, left, cur, tries, collections, ticks, count,
                   stopped, outcome, lockFails>>

(* The "tick" command, between two tasks: the counter is reset and, on the *)
(* worker's refresh tick, its collection handles are destroyed.            *)
Tick(w) ==
    /\ ~stopped[w]
    /\ task[w] = None
    /\ LET t == (ticks[w] + 1) % RefreshInterval
       IN  /\ ticks' = [ticks EXCEPT ![w] = t]
           /\ collections' = IF IsRefreshTick(w, t)
                               THEN [collections EXCEPT ![w] = {}]
                               ELSE collections
    /\ count' = [count EXCEPT ![w] = 0]
    /\ UNCHANGED <<queue, task, left, cur, tries, stopped, outcome, lockFails>>

(* "$TERM" on the controller socket: the loop is left between two tasks;  *)
(* tasks still queued are never read.                                      *)
Terminate(w) ==
    /\ ~stopped[w]
    /\ task[w] = None
    /\ stopped' = [stopped EXCEPT ![w] = TRUE]
    /\ UNCHANGED <<queue, task, left, cur, tries, collections, ticks, count,
                   outcome, lockFails>>

Next ==
    \E w \in Workers :
        \/ PullTask(w)
        \/ StartEntry(w)
        \/ Upsert(w)
        \/ FinishTask(w)
        \/ Tick(w)
        \/ Terminate(w)

(* Each worker thread runs its poll loop: a readable message is read, a    *)
(* task in hand is carried through, and the controller's timer sends a     *)
(* tick every second until "$TERM".  The store may keep answering with     *)
(* lock conflicts, and the controller may terminate at any time: no        *)
(* fairness is assumed of the store's answers or of Terminate.             *)
Fairness ==
    \A w \in Workers :
        /\ WF_vars(PullTask(w))
        /\ WF_vars(StartEntry(w))
        /\ WF_vars(Upsert(w))
        /\ WF_vars(FinishTask(w))
        /\ WF_vars(Tick(w))

Spec == Init /\ [][Next]_vars

FairSpec == Spec /\ Fairness

-----------------------------------------------------------------------------
(* Properties.                                                             *)

\* The spec's retry budget: an entry that met fewer lock conflicts than the
\* budget was never dropped for them, and one that met a full budget of
\* them was dropped, never applied; no entry meets more.
RetryBudget ==
    \A e \in Entries :
        /\ outcome[e] = "applied" => lockFails[e] < Retries
        /\ lockFails[e] = Retries => outcome[e] = "dropped"
        /\ (outcome[e] = "dropped" /\ ~StoreMayFail) => lockFails[e] = Retries

\* Every task a worker has read is carried to its end even under sustained
\* lock conflicts and a "$TERM": each of its entries ends applied or
\* dropped (update_collection's loop and the bounded retry).
TasksComplete ==
    \A e \in Entries : (e[1] \notin queue) ~> (outcome[e] # "none")

\* The hourly refresh of collection handles keeps happening: every running
\* worker's cache is emptied again and again (the staggered refresh tick).
HandlesRefreshed ==
    \A w \in Workers : []<>(stopped[w] \/ collections[w] = {})

-----------------------------------------------------------------------------
(* Refinement.  Workers, retries in progress, caches and ticks are hidden: *)
(* a task is consumed once it has left the PULL socket, and an entry's     *)
(* conflicts become visible when it settles.                               *)
Abs == INSTANCE UpdateDelivery
           WITH consumed <- TaskIds \ queue,
                conflicts <- [e \in Entries |->
                                IF outcome[e] = "none" THEN 0 ELSE lockFails[e]]

\* The pool implements the delivery promise of UpdateDelivery: each task is
\* read from the PULL socket once, and each of its entries settles once,
\* applied after fewer lock conflicts than TOKU_TX_RETRIES or dropped with
\* a logged error, never retried (update_collection and the callbacks'
\* retry loop).
Delivered == Abs!Spec

=============================================================================
