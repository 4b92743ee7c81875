------------------------------ MODULE Indexer ------------------------------
(***************************************************************************)
(* The index and database lifecycle manager of the importer               *)
(* (src/src/importer-indexer.c).                                           *)
(*                                                                         *)
(* A primary indexer thread creates, synchronously at startup, every       *)
(* database of "today" with its indexes, signals readiness, and spawns a   *)
(* detached background thread that does the same for "tomorrow".  On each *)
(* control tick it refreshes the date, and on a date change registers      *)
(* today's databases and spawns the next background thread.  Parsers send  *)
(* index requests for databases they see for the first time; the primary  *)
(* serves them through its known-database cache, which is flushed on an    *)
(* hourly schedule.  The store is abstracted to the set of databases whose *)
(* index pass completed, the database catalog, and the storage size the    *)
(* indexer last sampled into each stream's shared stream info.             *)
(*                                                                         *)
(* A database "logjam-<app>-<env>-<date>" is the pair <<stream, day>>.     *)
(* Days are numbered from the day the indexer starts (day 0).              *)
(***************************************************************************)
EXTENDS Integers, FiniteSets

CONSTANTS
    Streams,            \* the active streams of the stream registry
    Parsers,            \* the parser threads that push index requests
    MaxDay,             \* the last day the wall clock reaches
    RefreshInterval,    \* COLLECTION_REFRESH_INTERVAL (ticks)
    InfoInterval,       \* DATABASE_INFO_REFRESH_INTERVAL (ticks)
    StoreMayFail        \* whether store commands may fail

ASSUME StreamsAssumption == IsFiniteSet(Streams) /\ Streams # {}
ASSUME MaxDayAssumption == MaxDay \in Nat
ASSUME IntervalAssumption ==
    /\ RefreshInterval \in Nat \ {0}
    /\ InfoInterval \in Nat \ {0}
ASSUME FailAssumption == StoreMayFail \in BOOLEAN

\* The primary indexer's id (indexer(): size_t id = 0).
IndexerId == 0

\* The day numbers a database name can carry: up to the day after the last.
Days == 0..(MaxDay + 1)

DB == Streams \X Days

\* The tick counter is only read modulo the two intervals, so it is kept
\* modulo their product.
TickPeriod == RefreshInterval * InfoInterval

\* The storage size field of a stream info that was never sampled.
NoSample == -1

VARIABLES
    now,        \* the wall-clock day
    today,      \* iso_date_today, as last refreshed by config_update_date_info
    pc,         \* the primary: "startup", "running" or "stopped"
    todo,       \* streams left in the primary's synchronous startup pass
    ready,      \* the readiness signal has been sent to the controller
    known,      \* state->databases: the primary's known-database cache
    ticks,      \* the primary's tick counter (modulo TickPeriod)
    bgTodo,     \* bgTodo[d]: streams left for the background thread of day d
    pending,    \* the indexer's PULL socket: requests <<p, s, d>> not yet read
    requested,  \* <<p, s, d>>: parser p has requested the database <<s, d>>
    indexed,    \* store: databases whose full index set was created
    catalog,    \* store: databases registered by ensure_known_database
    storage     \* storage[s]: day of the database last sampled for stream s

vars == <<now, today, pc, todo, ready, known, ticks, bgTodo, pending,
          requested, indexed, catalog, storage>>

TypeOK ==
    /\ now \in 0..MaxDay
    /\ today \in 0..MaxDay
    /\ pc \in {"startup", "running", "stopped"}
    /\ todo \subseteq Streams
    /\ ready \in BOOLEAN
    /\ known \subseteq DB
    /\ ticks \in 0..(TickPeriod - 1)
    /\ bgTodo \in [Days -> SUBSET Streams]
    /\ pending \subseteq requested
    /\ requested \subseteq Parsers \X Streams \X Days
    /\ indexed \subseteq DB
    /\ catalog \subseteq DB
    /\ storage \in [Streams -> Days \cup {NoSample}]

-----------------------------------------------------------------------------
(* Helpers for one database.                                               *)

\* The outcomes of a store command: it may fail only when StoreMayFail.
Outcomes == IF StoreMayFail THEN BOOLEAN ELSE {TRUE}

\* Variant: the date is left out of the formatted name.
DbNameWithoutDate(s, d) == s

\* sprintf(db_name, "logjam-%s-%s-%s", info->app, info->env, iso_date).
DbName(s, d) == <<s, d>>

\* Variant: every database is made known, whatever its date.
CreateIndexesAlwaysKnown(s, d) ==
    /\ catalog' = catalog \cup {DbName(s, d)}
    /\ \E ok \in Outcomes :
          indexed' = IF ok THEN indexed \cup {DbName(s, d)} ELSE indexed

\* indexer_create_indexes(db_name): a database of today (strstr on the
\* name) is first made known to the catalog; then every create_index is
\* issued.  A failing create_index is only logged, so the pass may leave
\* the index set incomplete.
CreateIndexes(s, d) ==
    /\ catalog' = IF d = today THEN catalog \cup {DbName(s, d)} ELSE catalog
    /\ \E ok \in Outcomes :
          indexed' = IF ok THEN indexed \cup {DbName(s, d)} ELSE indexed

\* Variant: the loop over the streams is skipped.
EnsureDatabasesAreKnownSkipped(d) == catalog' = catalog

\* ensure_databases_are_known(iso_date): every active stream's database of
\* the date is registered with the store's catalog.
EnsureDatabasesAreKnown(d) ==
    catalog' = catalog \cup {DbName(s, d) : s \in Streams}

\* spawn_bg_indexer_for_date(iso_date): a detached thread is started with
\* the full list of active streams for the date.
SpawnBgIndexerForDate(d) == bgTodo' = [bgTodo EXCEPT ![d] = Streams]

\* indexer_check_disk_usage(db_name, info): on success the size of the
\* database is stored into the stream's shared info; on failure it is
\* logged and the field is left alone.
CheckDiskUsage(s, d) ==
    \E ok \in Outcomes :
        storage' = IF ok THEN [storage EXCEPT ![s] = d] ELSE storage

\* indexer_refresh_storage_sizes: sample today's database of every stream.
RefreshStorageSizes ==
    \E ok \in [Streams -> Outcomes] :
        storage' = [s \in Streams |-> IF ok[s] THEN today' ELSE storage[s]]

\* The hourly flush of the known cache, staggered by the worker id.
IsFlushTick(t) == t % RefreshInterval = RefreshInterval - IndexerId - 1

-----------------------------------------------------------------------------
Init ==
    /\ now = 0
    /\ today = 0
    /\ pc = "startup"
    /\ todo = Streams
    /\ ready = FALSE
    /\ known = {}
    /\ ticks = 0
    /\ bgTodo = [d \in Days |-> {}]
    /\ pending = {}
    /\ requested = {}
    /\ indexed = {}
    /\ catalog = {}
    /\ storage = [s \in Streams |-> NoSample]

(* The primary's synchronous pass over the streams for today:              *)
(* one iteration of indexer_create_all_indexes(state, today, 0).           *)
StartupStep ==
    /\ pc = "startup"
    /\ \E s \in todo :
          /\ CreateIndexes(s, today)
          /\ CheckDiskUsage(s, today)
          /\ todo' = todo \ {s}
    /\ UNCHANGED <<now, today, pc, ready, known, ticks, bgTodo, pending,
                   requested>>

(* After the pass: zsock_signal(pipe, 0) and                               *)
(* spawn_bg_indexer_for_date(iso_date_tomorrow).                           *)
\* Variant: the background thread is started for today instead of tomorrow.
FinishStartupSpawnToday ==
    /\ pc = "startup"
    /\ todo = {}
    /\ pc' = "running"
    /\ ready' = TRUE
    /\ SpawnBgIndexerForDate(today)
    /\ UNCHANGED <<now, today, todo, known, ticks, pending, requested, indexed,
                   catalog, storage>>

FinishStartup ==
    /\ pc = "startup"
    /\ todo = {}
    /\ pc' = "running"
    /\ ready' = TRUE
    /\ SpawnBgIndexerForDate(today + 1)
    /\ UNCHANGED <<now, today, todo, known, ticks, pending, requested, indexed,
                   catalog, storage>>

(* The "tick" command: date refresh, on a date change                      *)
(* ensure_databases_are_known(today) and a background thread for          *)
(* tomorrow; the storage sample every InfoInterval ticks; the flush of the *)
(* known cache every RefreshInterval ticks.                                *)
Tick ==
    /\ pc = "running"
    /\ LET changed == now # today
           t == (ticks + 1) % TickPeriod
       IN  /\ today' = now
           /\ IF changed
                 THEN /\ EnsureDatabasesAreKnown(now)
                      /\ SpawnBgIndexerForDate(now + 1)
                 ELSE UNCHANGED <<catalog, bgTodo>>
           /\ ticks' = t
           /\ IF t % InfoInterval = 0 THEN RefreshStorageSizes
                                      ELSE UNCHANGED storage
           /\ known' = IF IsFlushTick(t) THEN {} ELSE known
    /\ UNCHANGED <<now, pc, todo, ready, pending, requested, indexed>>

(* The "$TERM" command: the poll loop ends.                                *)
Terminate ==
    /\ pc = "running"
    /\ pc' = "stopped"
    /\ UNCHANGED <<now, today, todo, ready, known, ticks, bgTodo, pending,
                   requested, indexed, catalog, storage>>

(* handle_indexer_request: a database missing from the known cache is      *)
(* inserted and its indexes created; a known one is skipped.  The PULL     *)
(* socket fair-queues the parsers' pipes; any pending request may be the   *)
(* next one read.                                                          *)
HandleRequest ==
    /\ pc = "running"
    /\ \E r \in pending :
          /\ LET db == DbName(r[2], r[3])
             IN  IF db \in known
                   THEN UNCHANGED <<known, indexed, catalog>>
                   ELSE /\ known' = known \cup {db}
                        /\ CreateIndexes(r[2], r[3])
          /\ pending' = pending \ {r}
    /\ UNCHANGED <<now, today, pc, todo, ready, ticks, bgTodo, requested,
                   storage>>

(* One iteration of create_indexes_for_date in the background thread of    *)
(* day d: indexer_create_all_indexes(state, date, INDEXER_DELAY).  The     *)
(* thread exits when its list of streams is done.                          *)
\* Variant: the thread waits for its date before it starts indexing.
BgStepWaitsForDate(d) ==
    /\ bgTodo[d] # {}
    /\ d <= now
    /\ \E s \in bgTodo[d] :
          /\ CreateIndexes(s, d)
          /\ CheckDiskUsage(s, d)
          /\ bgTodo' = [bgTodo EXCEPT ![d] = @ \ {s}]
    /\ UNCHANGED <<now, today, pc, todo, ready, known, ticks, pending,
                   requested>>

BgStep(d) ==
    /\ bgTodo[d] # {}
    /\ \E s \in bgTodo[d] :
          /\ CreateIndexes(s, d)
          /\ CheckDiskUsage(s, d)
          /\ bgTodo' = [bgTodo EXCEPT ![d] = @ \ {s}]
    /\ UNCHANGED <<now, today, pc, todo, ready, known, ticks, pending,
                   requested>>

(* Environment: midnight.  The controller ticks every second, so the       *)
(* primary sees every day: the clock only moves on after it has.           *)
AdvanceDay ==
    /\ now < MaxDay
    /\ now = today
    /\ now' = now + 1
    /\ UNCHANGED <<today, pc, todo, ready, known, ticks, bgTodo, pending,
                   requested, indexed, catalog, storage>>

(* Environment: parser p sees the first message of day d for stream s and  *)
(* pushes an index request for its database.                               *)
ParserRequest(p, s) ==
    /\ <<p, s, now>> \notin requested
    /\ requested' = requested \cup {<<p, s, now>>}
    /\ pending' = pending \cup {<<p, s, now>>}
    /\ UNCHANGED <<now, today, pc, todo, ready, known, ticks, bgTodo,
                   indexed, catalog, storage>>

Next ==
    \/ StartupStep
    \/ FinishStartup
    \/ Tick
    \/ Terminate
    \/ HandleRequest
    \/ \E d \in Days : BgStep(d)
    \/ AdvanceDay
    \/ \E p \in Parsers, s \in Streams : ParserRequest(p, s)

(* The primary's loop and the background threads run as long as they have  *)
(* work: they are weakly fair.  Ticks arrive every second.                 *)
Fairness ==
    /\ WF_vars(StartupStep)
    /\ WF_vars(FinishStartup)
    /\ WF_vars(HandleRequest)
    /\ \A d \in Days : WF_vars(BgStep(d))

Spec == Init /\ [][Next]_vars

FairSpec == Spec /\ Fairness

-----------------------------------------------------------------------------
(* Properties.                                                             *)

\* The last day the indexer is responsible for having provisioned: today
\* during the startup pass, tomorrow once the pass is over.
Horizon == IF pc = "startup" THEN today ELSE today + 1

\* No day is forgotten (startup pass, background pre-provisioning and date
\* rollover together): every database of every stream, from the start day
\* up to the horizon, has its indexes, or is still on the list of the
\* startup pass or of the background thread of its day.
DayCovered ==
    \A s \in Streams, d \in Days :
        d <= Horizon =>
            \/ <<s, d>> \in indexed
            \/ s \in bgTodo[d]
            \/ pc = "startup" /\ d = today /\ s \in todo

\* Once the startup pass is over, every database of the day the indexer
\* believes is today is registered in the store's catalog, across date
\* changes (ensure_databases_are_known) and background passes.
TodayCatalogued ==
    pc # "startup" => \A s \in Streams : <<s, today>> \in catalog

\* During the startup pass, the streams already done have today's database
\* in the catalog.  With TypeOK, this strengthens TodayCatalogued into an
\* inductive invariant.
StartupCatalogued ==
    pc = "startup" => \A s \in Streams \ todo : <<s, today>> \in catalog

CataloguedInv == TypeOK /\ TodayCatalogued /\ StartupCatalogued

\* Every database up to the horizon eventually has its indexes (the
\* background threads run to the end of their lists).
EventuallyIndexed ==
    \A s \in Streams, d \in Days :
        (pc # "startup" /\ d <= today + 1) ~> <<s, d>> \in indexed

\* The spec: write traffic for a day never hits a database whose indexes
\* are not yet created.  A parser requests a database when it sees the
\* first message of its day, and forwards that message's increments right
\* after: once the importer is ready, every requested database must
\* already have its indexes.
NoWriteBeforeIndexed ==
    ready => \A r \in requested : <<r[2], r[3]>> \in indexed

\* The storage size in a stream's info is the size of today's (or an
\* earlier) database, never of a database for a day still to come.
SampleNeverAhead == \A s \in Streams : storage[s] <= today

-----------------------------------------------------------------------------
(* Refinement.  The indexer's threads, caches, ticks and requests are      *)
(* hidden; the day the primary believes is today is the abstract day.      *)
Abs == INSTANCE Provisioning WITH day <- today

\* The indexer implements the provisioning promise of Provisioning: every
\* index pass (startup, background or on request) is on a database of at
\* most tomorrow and registers exactly the databases of today, readiness
\* follows the cataloguing of today, and a date change seen by the tick
\* handler moves the day by one and registers the new day's databases.
Provisioned == Abs!Spec

=============================================================================
