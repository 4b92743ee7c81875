------------------------- MODULE StatsUpdaterProofs -------------------------
(***************************************************************************)
(* Proof of the retry budget of the stats updater pool, for every number   *)
(* of workers, every set of tasks and every budget.                        *)
(*                                                                         *)
(* RetryBudget is not inductive: an upsert step must know that the entry   *)
(* it works on is untouched by any other worker and has so far met exactly *)
(* Retries - tries lock conflicts.  BudgetInv adds that the entries still  *)
(* queued or still to be visited are fresh, that a task is held by one     *)
(* worker only and is no longer queued, and that the entry in progress     *)
(* accounts for the budget spent on it.                                    *)
(***************************************************************************)
EXTENDS StatsUpdater, FiniteSetTheorems, TLAPS

\* The part of the type invariant the budget argument needs.
BudgetTypeOK ==
    /\ queue \subseteq TaskIds
    /\ task \in [Workers -> TaskIds \cup {None}]
    /\ left \in [Workers -> SUBSET Keys]
    /\ cur \in [Workers -> Keys \cup {None}]
    /\ tries \in [Workers -> Nat]
    /\ outcome \in [Entries -> {"none", "applied", "dropped"}]
    /\ lockFails \in [Entries -> Nat]

\* An entry no upsert has touched.
Fresh(e) == outcome[e] = "none" /\ lockFails[e] = 0

\* An entry whose task is still queued, or still to be visited by a worker.
Waiting(e) ==
    \/ e[1] \in queue
    \/ \E w \in Workers : task[w] = e[1] /\ e[2] \in left[w]

FreshInv == \A e \in Entries : Waiting(e) => Fresh(e)

BusyInv ==
    \A w \in Workers : task[w] # None =>
        /\ task[w] \notin queue
        /\ left[w] \subseteq Tasks[task[w]].keys
        /\ cur[w] # None => cur[w] \in Tasks[task[w]].keys \ left[w]

ExclusiveInv ==
    \A w, v \in Workers : w # v /\ task[w] # None => task[w] # task[v]

CurrentInv ==
    \A w \in Workers : cur[w] # None =>
        /\ task[w] # None
        /\ tries[w] \in 1..Retries
        /\ outcome[<<task[w], cur[w]>>] = "none"
        /\ lockFails[<<task[w], cur[w]>>] + tries[w] = Retries

BudgetInv ==
    /\ BudgetTypeOK /\ RetryBudget /\ FreshInv /\ BusyInv /\ ExclusiveInv
    /\ CurrentInv

-----------------------------------------------------------------------------
LEMMA InitBudget == Init => BudgetInv
<1> SUFFICES ASSUME Init PROVE BudgetInv
  OBVIOUS
<1>1. BudgetTypeOK
  BY DEF Init, BudgetTypeOK
<1>2. RetryBudget
  BY RetriesAssumption DEF Init, RetryBudget
<1>3. FreshInv
  BY DEF Init, FreshInv, Fresh
<1>4. BusyInv /\ ExclusiveInv /\ CurrentInv
  BY DEF Init, BusyInv, ExclusiveInv, CurrentInv
<1>. QED BY <1>1, <1>2, <1>3, <1>4 DEF BudgetInv

\* The entry a worker is upserting is an entry of its task.
LEMMA CurrentEntry ==
    ASSUME BudgetTypeOK, BusyInv, CurrentInv, NEW w \in Workers, cur[w] # None
    PROVE  <<task[w], cur[w]>> \in Entries
BY DEF BudgetTypeOK, BusyInv, CurrentInv, Entries, Keys

\* No other worker, and no entry still waiting, shares the entry a worker
\* is upserting.
LEMMA EntryExclusive ==
    ASSUME BudgetTypeOK, BusyInv, ExclusiveInv, CurrentInv,
           NEW w \in Workers, cur[w] # None
    PROVE  /\ \A f \in Entries : Waiting(f) => f # <<task[w], cur[w]>>
           /\ \A v \in Workers : v # w /\ cur[v] # None =>
                 <<task[v], cur[v]>> # <<task[w], cur[w]>>
<1>1. task[w] # None /\ task[w] \notin queue /\ cur[w] \notin left[w]
  BY DEF CurrentInv, BusyInv
<1>2. \A v \in Workers : v # w => task[v] # task[w]
  BY <1>1 DEF ExclusiveInv
<1>3. ASSUME NEW f \in Entries, Waiting(f) PROVE f # <<task[w], cur[w]>>
  BY <1>1, <1>2, <1>3 DEF Waiting, Entries
<1>. QED BY <1>2, <1>3

LEMMA NextBudget == BudgetInv /\ [Next]_vars => BudgetInv'
<1> SUFFICES ASSUME BudgetInv, [Next]_vars PROVE BudgetInv'
  OBVIOUS
<1> USE DEF BudgetInv
<1>1. ASSUME NEW w \in Workers, PullTask(w) PROVE BudgetInv'
  <2>1. PICK t \in queue :
          /\ queue' = queue \ {t}
          /\ task' = [task EXCEPT ![w] = t]
          /\ left' = [left EXCEPT ![w] = Tasks[t].keys]
    BY <1>1 DEF PullTask
  <2>2. task[w] = None /\ cur[w] = None
    BY <1>1 DEF PullTask, CurrentInv, BudgetTypeOK
  <2>3. UNCHANGED <<cur, tries, outcome, lockFails>>
    BY <1>1 DEF PullTask
  <2>4. BudgetTypeOK'
    BY <2>1, <2>3 DEF BudgetTypeOK, Keys
  <2>5. RetryBudget'
    BY <2>3 DEF RetryBudget
  <2>6. FreshInv'
    BY <2>1, <2>3 DEF FreshInv, Fresh, Waiting, BudgetTypeOK
  <2>7. BusyInv'
    BY <2>1, <2>2, <2>3 DEF BusyInv, BudgetTypeOK
  <2>8. ExclusiveInv'
    BY <2>1, <2>2 DEF ExclusiveInv, BusyInv, BudgetTypeOK
  <2>9. CurrentInv'
    BY <2>1, <2>2, <2>3 DEF CurrentInv, BudgetTypeOK
  <2>. QED BY <2>4, <2>5, <2>6, <2>7, <2>8, <2>9
<1>2. ASSUME NEW w \in Workers, StartEntry(w) PROVE BudgetInv'
  <2>1. PICK k \in left[w] :
          /\ cur' = [cur EXCEPT ![w] = k]
          /\ left' = [left EXCEPT ![w] = @ \ {k}]
    BY <1>2 DEF StartEntry
  <2>2. task[w] # None /\ cur[w] = None
    BY <1>2 DEF StartEntry
  <2>3. /\ tries' = [tries EXCEPT ![w] = Retries]
        /\ UNCHANGED <<queue, task, outcome, lockFails>>
    BY <1>2 DEF StartEntry
  <2>4. <<task[w], k>> \in Entries /\ Fresh(<<task[w], k>>)
    BY <2>2 DEF FreshInv, Waiting, BusyInv, BudgetTypeOK, Entries, Keys
  <2>5. BudgetTypeOK'
    BY <2>1, <2>3, RetriesAssumption DEF BudgetTypeOK
  <2>6. RetryBudget'
    BY <2>3 DEF RetryBudget
  <2>7. FreshInv'
    <3>1. ASSUME NEW e \in Entries, Waiting(e)' PROVE Waiting(e)
      <4>1. CASE e[1] \in queue'
        BY <2>3, <4>1 DEF Waiting
      <4>2. CASE \E v \in Workers : task'[v] = e[1] /\ e[2] \in left'[v]
        <5>1. PICK v \in Workers : task'[v] = e[1] /\ e[2] \in left'[v]
          BY <4>2
        <5>2. e[2] \in left[v]
          BY <2>1, <5>1 DEF BudgetTypeOK
        <5>. QED BY <2>3, <5>1, <5>2 DEF Waiting
      <4>. QED BY <3>1, <4>1, <4>2 DEF Waiting
    <3>. QED BY <2>3, <3>1 DEF FreshInv, Fresh
  <2>8. BusyInv'
    BY <2>1, <2>2, <2>3 DEF BusyInv, BudgetTypeOK
  <2>9. ExclusiveInv'
    BY <2>3 DEF ExclusiveInv
  <2>10. CurrentInv'
    BY <2>1, <2>2, <2>3, <2>4, RetriesAssumption
       DEF CurrentInv, Fresh, BudgetTypeOK
  <2>. QED BY <2>5, <2>6, <2>7, <2>8, <2>9, <2>10
<1>3. ASSUME NEW w \in Workers, Upsert(w) PROVE BudgetInv'
  <2> DEFINE e == <<task[w], cur[w]>>
  <2>1. cur[w] # None
    BY <1>3 DEF Upsert
  <2>2. /\ e \in Entries
        /\ tries[w] \in 1..Retries
        /\ outcome[e] = "none"
        /\ lockFails[e] + tries[w] = Retries
    BY <2>1, CurrentEntry DEF CurrentInv
  <2>3. /\ \A f \in Entries : Waiting(f) => f # e
        /\ \A v \in Workers : v # w /\ cur[v] # None => <<task[v], cur[v]>> # e
    BY <2>1, EntryExclusive
  <2>4. UNCHANGED <<queue, task, left>>
    BY <1>3 DEF Upsert
  <2>6. PICK r \in Outcomes :
          CASE r = "ok" ->
                 /\ outcome' = [outcome EXCEPT ![e] = "applied"]
                 /\ cur' = [cur EXCEPT ![w] = None]
                 /\ UNCHANGED <<tries, lockFails>>
            [] r = "lock" /\ Retry(tries[w]) ->
                 /\ tries' = [tries EXCEPT ![w] = @ - 1]
                 /\ lockFails' = [lockFails EXCEPT ![e] = @ + 1]
                 /\ UNCHANGED <<cur, outcome>>
            [] OTHER ->
                 /\ outcome' = [outcome EXCEPT ![e] = "dropped"]
                 /\ lockFails' = IF r = "lock"
                                   THEN [lockFails EXCEPT ![e] = @ + 1]
                                   ELSE lockFails
                 /\ cur' = [cur EXCEPT ![w] = None]
                 /\ UNCHANGED tries
    BY <1>3 DEF Upsert
  <2>7. \A f \in Entries : Waiting(f)' = Waiting(f)
    BY <2>4 DEF Waiting
  <2>8. CASE r = "ok"
    <3>1. /\ outcome' = [outcome EXCEPT ![e] = "applied"]
          /\ cur' = [cur EXCEPT ![w] = None]
          /\ UNCHANGED <<tries, lockFails>>
      BY <2>6, <2>8
    <3>2. BudgetTypeOK'
      BY <2>2, <2>4, <3>1 DEF BudgetTypeOK
    <3>3. RetryBudget'
      BY <2>2, <3>1 DEF RetryBudget, BudgetTypeOK
    <3>4. FreshInv'
      BY <2>3, <2>7, <3>1 DEF FreshInv, Fresh, BudgetTypeOK
    <3>5. BusyInv' /\ ExclusiveInv'
      BY <2>4, <3>1 DEF BusyInv, ExclusiveInv, BudgetTypeOK
    <3>6. CurrentInv'
      BY <2>3, <2>4, <3>1 DEF CurrentInv, BudgetTypeOK
    <3>. QED BY <3>2, <3>3, <3>4, <3>5, <3>6
  <2>9. CASE r = "lock" /\ Retry(tries[w])
    <3>1. /\ tries' = [tries EXCEPT ![w] = @ - 1]
          /\ lockFails' = [lockFails EXCEPT ![e] = @ + 1]
          /\ UNCHANGED <<cur, outcome>>
      BY <2>6, <2>9
    <3>8. Retry(tries[w])
      BY <2>9
    <3>0. tries[w] - 1 \in 1..Retries
      BY <2>2, <3>8, RetriesAssumption DEF Retry
    <3>2. BudgetTypeOK'
      BY <2>2, <2>4, <3>0, <3>1 DEF BudgetTypeOK
    <3>3. RetryBudget'
      BY <2>2, <3>0, <3>1 DEF RetryBudget, BudgetTypeOK
    <3>4. FreshInv'
      BY <2>3, <2>7, <3>1 DEF FreshInv, Fresh, BudgetTypeOK
    <3>5. BusyInv' /\ ExclusiveInv'
      BY <2>4, <3>1 DEF BusyInv, ExclusiveInv, BudgetTypeOK
    <3>6. CurrentInv'
      <4>1. ASSUME NEW v \in Workers, cur'[v] # None, v = w
            PROVE  /\ task'[v] # None
                   /\ tries'[v] \in 1..Retries
                   /\ outcome'[<<task'[v], cur'[v]>>] = "none"
                   /\ lockFails'[<<task'[v], cur'[v]>>] + tries'[v] = Retries
        BY <2>1, <2>2, <2>4, <3>0, <3>1, <4>1, RetriesAssumption
           DEF CurrentInv, BudgetTypeOK
      <4>2. ASSUME NEW v \in Workers, cur'[v] # None, v # w
            PROVE  /\ task'[v] # None
                   /\ tries'[v] \in 1..Retries
                   /\ outcome'[<<task'[v], cur'[v]>>] = "none"
                   /\ lockFails'[<<task'[v], cur'[v]>>] + tries'[v] = Retries
        <5>1. <<task[v], cur[v]>> # e /\ cur[v] # None
          BY <2>3, <3>1, <4>2
        <5>. QED BY <2>4, <3>1, <4>2, <5>1 DEF CurrentInv, BudgetTypeOK
      <4>. QED BY <4>1, <4>2 DEF CurrentInv
    <3>. QED BY <3>2, <3>3, <3>4, <3>5, <3>6
  <2>10. CASE ~(r = "ok") /\ ~(r = "lock" /\ Retry(tries[w]))
    <3>1. /\ outcome' = [outcome EXCEPT ![e] = "dropped"]
          /\ lockFails' = IF r = "lock"
                            THEN [lockFails EXCEPT ![e] = @ + 1]
                            ELSE lockFails
          /\ cur' = [cur EXCEPT ![w] = None]
          /\ UNCHANGED tries
      BY <2>6, <2>10
    <3>0. r = "lock" => tries[w] = 1
      BY <2>2, <2>10 DEF Retry
    <3>7. r # "lock" => r = "other" /\ StoreMayFail
      BY <2>10, FailAssumption DEF Outcomes
    <3>2. BudgetTypeOK'
      BY <2>2, <2>4, <3>1 DEF BudgetTypeOK
    <3>3. RetryBudget'
      BY <2>2, <3>0, <3>1, <3>7 DEF RetryBudget, BudgetTypeOK
    <3>4. FreshInv'
      BY <2>3, <2>7, <3>1 DEF FreshInv, Fresh, BudgetTypeOK
    <3>5. BusyInv' /\ ExclusiveInv'
      BY <2>4, <3>1 DEF BusyInv, ExclusiveInv, BudgetTypeOK
    <3>6. CurrentInv'
      BY <2>3, <2>4, <3>1 DEF CurrentInv, BudgetTypeOK
    <3>. QED BY <3>2, <3>3, <3>4, <3>5, <3>6
  <2>. QED BY <2>8, <2>9, <2>10
<1>4. ASSUME NEW w \in Workers, FinishTask(w) PROVE BudgetInv'
  <2>1. task' = [task EXCEPT ![w] = None] /\ cur[w] = None /\ left[w] = {}
    BY <1>4 DEF FinishTask
  <2>2. UNCHANGED <<queue, left, cur, tries, outcome, lockFails>>
    BY <1>4 DEF FinishTask
  <2>. QED BY <2>1, <2>2
          DEF BudgetTypeOK, RetryBudget, FreshInv, Waiting, Fresh, BusyInv,
              ExclusiveInv, CurrentInv
<1>5. ASSUME NEW w \in Workers, Tick(w) \/ Terminate(w) PROVE BudgetInv'
  <2>1. UNCHANGED <<queue, task, left, cur, tries, outcome, lockFails>>
    BY <1>5 DEF Tick, Terminate
  <2>. QED BY <2>1
          DEF BudgetTypeOK, RetryBudget, FreshInv, Waiting, Fresh, BusyInv,
              ExclusiveInv, CurrentInv
<1>6. CASE UNCHANGED vars
  BY <1>6 DEF vars, BudgetTypeOK, RetryBudget, FreshInv, Waiting, Fresh,
              BusyInv, ExclusiveInv, CurrentInv
<1>. QED BY <1>1, <1>2, <1>3, <1>4, <1>5, <1>6 DEF Next

\* The retry budget of the upsert loop (--tries > 0 after a lock conflict)
\* holds for every entry in every state: an applied entry met fewer lock
\* conflicts than the budget, one that met the full budget was dropped, and
\* without other store errors only the full budget drops an entry.
THEOREM RetryBudgetHolds == Spec => []RetryBudget
<1>1. BudgetInv => RetryBudget
  BY DEF BudgetInv
<1>. QED BY InitBudget, NextBudget, <1>1, PTL DEF Spec

-----------------------------------------------------------------------------
(* Type correctness.  Beyond the budget argument, TypeOK bounds the task  *)
(* counter and the lock conflicts of an entry.  The counter is not bounded *)
(* by the shape of the model: it counts the tasks a worker pulled since    *)
(* its last tick, and it stays below the number of tasks only because each *)
(* task is pulled once (CountInv).  An entry's conflicts stay within the   *)
(* budget because only the entry in progress meets any, and CurrentInv    *)
(* accounts for them.                                                      *)

\* No worker has counted more tasks than have left the queue.
CountInv == \A w \in Workers : count[w] <= Cardinality(TaskIds \ queue)

TypeInv == BudgetInv /\ TypeOK /\ CountInv

\* Pulling a task from the queue adds one to the tasks that have left it.
LEMMA PulledCount ==
    ASSUME NEW Q \in SUBSET TaskIds, NEW t \in Q
    PROVE  /\ Cardinality(TaskIds \ Q) \in Nat
           /\ Cardinality(TaskIds) \in Nat
           /\ Cardinality(TaskIds \ (Q \ {t})) = Cardinality(TaskIds \ Q) + 1
           /\ Cardinality(TaskIds \ (Q \ {t})) <= Cardinality(TaskIds)
<1>1. IsFiniteSet(TaskIds \ Q) /\ Cardinality(TaskIds \ Q) \in Nat
  BY TasksAssumption, FS_Subset, FS_CardinalityType
<1>2. TaskIds \ (Q \ {t}) = (TaskIds \ Q) \cup {t} /\ t \notin TaskIds \ Q
  OBVIOUS
<1>3. Cardinality(TaskIds \ (Q \ {t})) = Cardinality(TaskIds \ Q) + 1
  BY <1>1, <1>2, FS_AddElement
<1>4. Cardinality(TaskIds \ (Q \ {t})) <= Cardinality(TaskIds)
  BY TasksAssumption, FS_Subset
<1>5. Cardinality(TaskIds) \in Nat
  BY TasksAssumption, FS_CardinalityType
<1>. QED BY <1>1, <1>3, <1>4, <1>5

LEMMA InitType == Init => TypeInv
<1> SUFFICES ASSUME Init PROVE TypeInv
  OBVIOUS
<1>1. Cardinality(TaskIds) \in Nat /\ Cardinality(TaskIds \ TaskIds) \in Nat
  BY TasksAssumption, FS_Subset, FS_CardinalityType
<1>2. TypeOK
  BY <1>1, IntervalAssumption, RetriesAssumption DEF Init, TypeOK
<1>3. CountInv
  BY <1>1 DEF Init, CountInv
<1>. QED BY <1>2, <1>3, InitBudget DEF TypeInv

\* The conjuncts of TypeOK that the budget invariant does not already give.
TypeRest ==
    /\ tries \in [Workers -> 0..Retries]
    /\ collections \in [Workers -> SUBSET Dbs]
    /\ ticks \in [Workers -> 0..(RefreshInterval - 1)]
    /\ count \in [Workers -> 0..Cardinality(TaskIds)]
    /\ stopped \in [Workers -> BOOLEAN]
    /\ lockFails \in [Entries -> 0..Retries]

LEMMA TypeSplit == TypeOK <=> BudgetTypeOK /\ TypeRest
BY DEF TypeOK, BudgetTypeOK, TypeRest

LEMMA NextType == TypeInv /\ [Next]_vars => TypeInv'
<1> SUFFICES ASSUME TypeInv, [Next]_vars PROVE TypeInv'
  OBVIOUS
<1>0. BudgetInv /\ TypeRest /\ CountInv /\ BudgetInv'
  BY NextBudget, TypeSplit DEF TypeInv
<1>1. SUFFICES TypeRest' /\ CountInv'
  BY <1>0 DEF TypeInv, BudgetInv, TypeOK, BudgetTypeOK, TypeRest
<1>2. ASSUME NEW w \in Workers, PullTask(w) PROVE TypeRest' /\ CountInv'
  <2>1. PICK t \in queue :
          /\ queue' = queue \ {t}
          /\ collections' = [collections EXCEPT ![w] = @ \cup {Tasks[t].db}]
    BY <1>2 DEF PullTask
  <2>2. /\ count' = [count EXCEPT ![w] = @ + 1]
        /\ UNCHANGED <<tries, ticks, stopped, lockFails>>
    BY <1>2 DEF PullTask
  <2>3. /\ Cardinality(TaskIds \ queue) \in Nat
        /\ Cardinality(TaskIds) \in Nat
        /\ Cardinality(TaskIds \ queue') = Cardinality(TaskIds \ queue) + 1
        /\ Cardinality(TaskIds \ queue') <= Cardinality(TaskIds)
    BY <1>0, <2>1, PulledCount DEF BudgetInv, BudgetTypeOK
  <2>4. Tasks[t].db \in Dbs
    BY <1>0 DEF BudgetInv, BudgetTypeOK, Dbs
  <2>5. CountInv'
    BY <1>0, <2>2, <2>3 DEF CountInv, TypeRest
  <2>6. count' \in [Workers -> 0..Cardinality(TaskIds)]
    <3>0. CountInv /\ TypeRest
      BY <1>0
    <3>1. count[w] <= Cardinality(TaskIds \ queue)
      BY <3>0 DEF CountInv
    <3>3. count[w] \in Nat
      BY <3>0 DEF TypeRest
    <3>2. count[w] + 1 \in 0..Cardinality(TaskIds)
      BY <2>3, <3>1, <3>3
    <3>. QED BY <1>0, <2>2, <3>2 DEF TypeRest
  <2>. QED BY <1>0, <2>1, <2>2, <2>4, <2>5, <2>6 DEF TypeRest
<1>3. ASSUME NEW w \in Workers, StartEntry(w) PROVE TypeRest' /\ CountInv'
  BY <1>0, <1>3, RetriesAssumption DEF StartEntry, TypeRest, CountInv
<1>4. ASSUME NEW w \in Workers, Upsert(w) PROVE TypeRest' /\ CountInv'
  <2> DEFINE e == <<task[w], cur[w]>>
  <2>1. cur[w] # None
    BY <1>4 DEF Upsert
  <2>2. e \in Entries /\ tries[w] \in 1..Retries /\ lockFails[e] + tries[w] = Retries
    BY <1>0, <2>1, CurrentEntry DEF BudgetInv, CurrentInv
  <2>3. UNCHANGED <<queue, collections, ticks, count, stopped>>
    BY <1>4 DEF Upsert
  <2>4. CountInv' /\ collections' \in [Workers -> SUBSET Dbs]
        /\ ticks' \in [Workers -> 0..(RefreshInterval - 1)]
        /\ count' \in [Workers -> 0..Cardinality(TaskIds)]
        /\ stopped' \in [Workers -> BOOLEAN]
    BY <1>0, <2>3 DEF TypeRest, CountInv
  <2>5. PICK r \in Outcomes :
          CASE r = "ok" ->
                 /\ cur' = [cur EXCEPT ![w] = None]
                 /\ UNCHANGED <<tries, lockFails>>
            [] r = "lock" /\ Retry(tries[w]) ->
                 /\ tries' = [tries EXCEPT ![w] = @ - 1]
                 /\ lockFails' = [lockFails EXCEPT ![e] = @ + 1]
            [] OTHER ->
                 /\ lockFails' = IF r = "lock"
                                   THEN [lockFails EXCEPT ![e] = @ + 1]
                                   ELSE lockFails
                 /\ UNCHANGED tries
    BY <1>4 DEF Upsert
  <2>6. lockFails[e] + 1 \in 0..Retries
    BY <1>0, <2>2 DEF TypeRest
  <2>7. CASE r = "ok"
    BY <1>0, <2>4, <2>5, <2>7 DEF TypeRest
  <2>8. CASE r = "lock" /\ Retry(tries[w])
    <3>1. tries[w] - 1 \in 0..Retries
      BY <2>2, RetriesAssumption
    <3>. QED BY <1>0, <2>4, <2>5, <2>6, <2>8, <3>1 DEF TypeRest
  <2>9. CASE ~(r = "ok") /\ ~(r = "lock" /\ Retry(tries[w]))
    BY <1>0, <2>4, <2>5, <2>6, <2>9 DEF TypeRest
  <2>. QED BY <2>7, <2>8, <2>9
<1>5. ASSUME NEW w \in Workers, FinishTask(w) \/ Terminate(w)
      PROVE TypeRest' /\ CountInv'
  BY <1>0, <1>5 DEF FinishTask, Terminate, TypeRest, CountInv
<1>6. ASSUME NEW w \in Workers, Tick(w) PROVE TypeRest' /\ CountInv'
  <2>1. (ticks[w] + 1) % RefreshInterval \in 0..(RefreshInterval - 1)
    BY <1>0, IntervalAssumption DEF TypeRest
  <2>2. Cardinality(TaskIds \ queue) \in Nat /\ Cardinality(TaskIds) \in Nat
    BY <1>0, TasksAssumption, FS_Subset, FS_CardinalityType
       DEF BudgetInv, BudgetTypeOK
  <2>3. /\ ticks' = [ticks EXCEPT ![w] = (ticks[w] + 1) % RefreshInterval]
        /\ collections' \in {[collections EXCEPT ![w] = {}], collections}
        /\ count' = [count EXCEPT ![w] = 0]
        /\ UNCHANGED <<queue, tries, stopped, lockFails>>
    BY <1>6 DEF Tick
  <2>4. collections' \in [Workers -> SUBSET Dbs]
    BY <1>0, <2>3 DEF TypeRest
  <2>5. CountInv'
    <3>1. ASSUME NEW v \in Workers PROVE count'[v] <= Cardinality(TaskIds \ queue)
      <4>1. CASE v = w
        BY <1>0, <2>2, <2>3, <4>1 DEF TypeRest
      <4>2. CASE v # w
        BY <1>0, <2>3, <4>2 DEF CountInv, TypeRest
      <4>. QED BY <4>1, <4>2
    <3>. QED BY <2>3, <3>1 DEF CountInv
  <2>6. ticks' \in [Workers -> 0..(RefreshInterval - 1)]
    BY <1>0, <2>1, <2>3 DEF TypeRest
  <2>7. count' \in [Workers -> 0..Cardinality(TaskIds)]
    BY <1>0, <2>2, <2>3 DEF TypeRest
  <2>. QED BY <1>0, <2>3, <2>4, <2>5, <2>6, <2>7 DEF TypeRest
<1>7. CASE UNCHANGED vars
  BY <1>0, <1>7 DEF vars, TypeRest, CountInv
<1>. QED BY <1>2, <1>3, <1>4, <1>5, <1>6, <1>7 DEF Next

\* Type correctness of the updater pool: the retry budget, the task counter
\* (updates_count, reset by each tick), the tick phase and the lock
\* conflicts of every entry stay within their bounds.
THEOREM TypeCorrect == Spec => []TypeOK
<1>1. TypeInv => TypeOK
  BY DEF TypeInv
<1>. QED BY InitType, NextType, <1>1, PTL DEF Spec

-----------------------------------------------------------------------------------------------------------------------------------------------------
(* Refinement.  The pool implements UpdateDelivery under the mapping of    *)
(* StatsUpdater's Abs: a pull is a Consume, an upsert that ends an entry   *)
(* is a Settle with the entry's lock conflicts, and every other step,      *)
(* a retried lock conflict included, leaves the abstract state alone.      *)
(* The settling step needs BudgetInv: the entry is unsettled, its task has *)
(* left the queue, and its conflicts are Retries - tries.                  *)

\* The abstract conflicts of each entry, as the mapping defines them.
ConflictsBar == [e \in Entries |-> IF outcome[e] = "none" THEN 0 ELSE lockFails[e]]

LEMMA AbsEntries == Abs!Entries = Entries
BY DEF Abs!Entries, Abs!Keys, Abs!TaskIds, Entries, Keys, TaskIds

\* An upsert that settles entry e with outcome o is an abstract Settle, as
\* long as o is allowed after the conflicts it now records.
LEMMA SettleRefines ==
    ASSUME BudgetTypeOK, NEW e \in Entries, outcome[e] = "none",
           e[1] \in TaskIds \ queue, NEW o \in {"applied", "dropped"},
           outcome' = [outcome EXCEPT ![e] = o],
           lockFails' \in [Entries -> Nat],
           \A f \in Entries \ {e} : lockFails'[f] = lockFails[f],
           lockFails'[e] \in 0..Retries, Abs!Allowed(lockFails'[e], o),
           UNCHANGED queue
    PROVE  Abs!Next
<1> DEFINE k == lockFails'[e]
<1>1. ConflictsBar' = [ConflictsBar EXCEPT ![e] = k]
  BY DEF ConflictsBar, BudgetTypeOK
<1>2. Abs!Settle(e, k, o)
  BY <1>1 DEF Abs!Settle, ConflictsBar
<1>. QED BY <1>2, AbsEntries DEF Abs!Next

LEMMA StepDelivers == BudgetInv /\ [Next]_vars => [Abs!Next]_Abs!vars
<1> SUFFICES ASSUME BudgetInv, [Next]_vars PROVE [Abs!Next]_Abs!vars
  OBVIOUS
<1> USE DEF BudgetInv
<1>1. ASSUME NEW w \in Workers, PullTask(w) PROVE Abs!Next
  <2>1. PICK t \in queue : queue' = queue \ {t}
    BY <1>1 DEF PullTask
  <2>2. UNCHANGED <<outcome, lockFails>>
    BY <1>1 DEF PullTask
  <2>3. t \in TaskIds /\ t \notin TaskIds \ queue
    BY DEF BudgetTypeOK
  <2>4. TaskIds \ queue' = (TaskIds \ queue) \cup {t}
    BY <2>1, <2>3
  <2>5. Abs!Consume(t)
    BY <2>2, <2>3, <2>4 DEF Abs!Consume, Abs!TaskIds, TaskIds
  <2>. QED BY <2>3, <2>5 DEF Abs!Next, Abs!TaskIds, TaskIds
<1>2. ASSUME NEW w \in Workers, Upsert(w) PROVE [Abs!Next]_Abs!vars
  <2> DEFINE e == <<task[w], cur[w]>>
  <2>1. cur[w] # None
    BY <1>2 DEF Upsert
  <2>2. /\ e \in Entries
        /\ tries[w] \in 1..Retries
        /\ outcome[e] = "none"
        /\ lockFails[e] + tries[w] = Retries
    BY <2>1, CurrentEntry DEF CurrentInv
  <2>3. e[1] \in TaskIds \ queue
    BY <2>1, <2>2 DEF CurrentInv, BusyInv, BudgetTypeOK, Entries
  <2>4. UNCHANGED queue
    BY <1>2 DEF Upsert
  <2>5. PICK r \in Outcomes :
          CASE r = "ok" ->
                 /\ outcome' = [outcome EXCEPT ![e] = "applied"]
                 /\ UNCHANGED lockFails
            [] r = "lock" /\ Retry(tries[w]) ->
                 /\ lockFails' = [lockFails EXCEPT ![e] = @ + 1]
                 /\ UNCHANGED outcome
            [] OTHER ->
                 /\ outcome' = [outcome EXCEPT ![e] = "dropped"]
                 /\ lockFails' = IF r = "lock"
                                   THEN [lockFails EXCEPT ![e] = @ + 1]
                                   ELSE lockFails
    BY <1>2 DEF Upsert
  <2>6. CASE r = "ok"
    <3>1. lockFails[e] \in 0..Retries /\ Abs!Allowed(lockFails[e], "applied")
      BY <2>2, RetriesAssumption DEF Abs!Allowed, BudgetTypeOK
    <3>2. /\ outcome' = [outcome EXCEPT ![e] = "applied"]
          /\ lockFails' = lockFails
      BY <2>5, <2>6
    <3>3. /\ lockFails' \in [Entries -> Nat]
          /\ \A f \in Entries \ {e} : lockFails'[f] = lockFails[f]
      BY <3>2 DEF BudgetTypeOK
    <3>. QED BY <2>2, <2>3, <2>4, <3>1, <3>2, <3>3, SettleRefines
            DEF BudgetTypeOK
  <2>7. CASE r = "lock" /\ Retry(tries[w])
    <3>1. UNCHANGED <<outcome, queue>>
      BY <2>4, <2>5, <2>7
    <3>2. ConflictsBar' = ConflictsBar
      BY <2>2, <2>5, <2>7, <3>1 DEF ConflictsBar, BudgetTypeOK
    <3>. QED BY <3>1, <3>2 DEF Abs!vars, ConflictsBar
  <2>8. CASE ~(r = "ok") /\ ~(r = "lock" /\ Retry(tries[w]))
    <3>1. outcome' = [outcome EXCEPT ![e] = "dropped"]
      BY <2>5, <2>8
    <3>2. CASE r = "lock"
      <4>1. lockFails' = [lockFails EXCEPT ![e] = @ + 1]
        BY <2>5, <2>8, <3>2
      <4>2. tries[w] = 1
        BY <2>2, <2>8, <3>2 DEF Retry
      <4>3. lockFails'[e] = Retries
        BY <2>2, <4>1, <4>2 DEF BudgetTypeOK
      <4>4. lockFails'[e] \in 0..Retries /\ Abs!Allowed(lockFails'[e], "dropped")
        BY <4>3, RetriesAssumption DEF Abs!Allowed
      <4>5. /\ lockFails' \in [Entries -> Nat]
            /\ \A f \in Entries \ {e} : lockFails'[f] = lockFails[f]
        BY <2>2, <4>1 DEF BudgetTypeOK
      <4>. QED BY <2>2, <2>3, <2>4, <3>1, <4>4, <4>5, SettleRefines
              DEF BudgetTypeOK
    <3>3. CASE r # "lock"
      <4>1. lockFails' = lockFails /\ StoreMayFail
        BY <2>5, <2>8, <3>3, FailAssumption DEF Outcomes
      <4>2. lockFails[e] \in 0..Retries /\ Abs!Allowed(lockFails[e], "dropped")
        BY <2>2, <4>1, RetriesAssumption DEF Abs!Allowed, BudgetTypeOK
      <4>3. /\ lockFails' \in [Entries -> Nat]
            /\ \A f \in Entries \ {e} : lockFails'[f] = lockFails[f]
        BY <4>1 DEF BudgetTypeOK
      <4>. QED BY <2>2, <2>3, <2>4, <3>1, <4>1, <4>2, <4>3, SettleRefines
              DEF BudgetTypeOK
    <3>. QED BY <3>2, <3>3
  <2>. QED BY <2>6, <2>7, <2>8
<1>3. ASSUME NEW w \in Workers,
             StartEntry(w) \/ FinishTask(w) \/ Tick(w) \/ Terminate(w)
      PROVE  UNCHANGED Abs!vars
  BY <1>3 DEF StartEntry, FinishTask, Tick, Terminate, Abs!vars
<1>4. CASE UNCHANGED vars
  BY <1>4 DEF vars, Abs!vars
<1>. QED BY <1>1, <1>2, <1>3, <1>4 DEF Next

\* The pool implements UpdateDelivery: every task is consumed from the PULL
\* socket once, and every entry settles once, applied or dropped as the
\* retry budget of the upsert loop allows, and is never retried after.
THEOREM PoolImplementsDelivery == Spec => Delivered
<1>1. Init => Abs!Init
  BY AbsEntries DEF Init, Abs!Init
<1>. QED BY <1>1, StepDelivers, InitBudget, NextBudget, PTL
        DEF Spec, Delivered, Abs!Spec

=============================================================================
