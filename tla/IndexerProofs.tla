--------------------------- MODULE IndexerProofs ---------------------------
(***************************************************************************)
(* Proofs about the indexer, for every value of the constants: the type    *)
(* invariant, and that once the startup pass is over every stream's        *)
(* database of today is in the store's catalog.                            *)
(***************************************************************************)
EXTENDS Indexer, TLAPS

\* The tick period is a positive natural.
LEMMA TickPeriodPositive == TickPeriod \in Nat \ {0}
BY IntervalAssumption DEF TickPeriod

\* A database name built from a stream and a day is a database.
LEMMA DbNameType ==
    ASSUME NEW s \in Streams, NEW d \in Days
    PROVE  DbName(s, d) \in DB
BY DEF DbName, DB

\* An index pass never removes a database from the catalog or from the
\* set of indexed databases, and only adds its own database.
LEMMA CreateIndexesGrows ==
    ASSUME NEW s \in Streams, NEW d \in Days, CreateIndexes(s, d),
           catalog \subseteq DB, indexed \subseteq DB
    PROVE  /\ catalog \subseteq catalog'
           /\ catalog' \subseteq DB
           /\ indexed' \subseteq DB
           /\ d = today => <<s, d>> \in catalog'
BY DbNameType DEF CreateIndexes, DbName

\* A disk-usage check records a day of Days or leaves the field alone.
LEMMA CheckDiskUsageType ==
    ASSUME NEW s \in Streams, NEW d \in Days, CheckDiskUsage(s, d),
           storage \in [Streams -> Days \cup {NoSample}]
    PROVE  storage' \in [Streams -> Days \cup {NoSample}]
BY DEF CheckDiskUsage

-----------------------------------------------------------------------------
(* Type correctness.                                                       *)

LEMMA InitTypeOK == Init => TypeOK
<1> SUFFICES ASSUME Init PROVE TypeOK
  OBVIOUS
<1>1. ticks \in 0..(TickPeriod - 1)
  BY TickPeriodPositive DEF Init
<1>2. storage \in [Streams -> Days \cup {NoSample}]
  BY DEF Init
<1>3. bgTodo \in [Days -> SUBSET Streams]
  BY DEF Init
<1>4. now \in 0..MaxDay /\ today \in 0..MaxDay
  BY MaxDayAssumption DEF Init
<1>5. ready \in BOOLEAN
  BY DEF Init
<1>6. /\ pc \in {"startup", "running", "stopped"}
      /\ todo \subseteq Streams
      /\ known \subseteq DB
      /\ pending \subseteq requested
      /\ requested \subseteq Parsers \X Streams \X Days
      /\ indexed \subseteq DB
      /\ catalog \subseteq DB
  BY DEF Init
<1>. QED BY <1>1, <1>2, <1>3, <1>4, <1>5, <1>6 DEF TypeOK

LEMMA NextTypeOK == TypeOK /\ [Next]_vars => TypeOK'
<1> SUFFICES ASSUME TypeOK, [Next]_vars PROVE TypeOK'
  OBVIOUS
<1> USE MaxDayAssumption DEF TypeOK, DB, Days, NoSample
<1>1. CASE StartupStep
  <2>1. PICK s \in todo : /\ CreateIndexes(s, today)
                          /\ CheckDiskUsage(s, today)
                          /\ todo' = todo \ {s}
    BY <1>1 DEF StartupStep
  <2>2. today \in Days
    BY MaxDayAssumption DEF Days
  <2>. QED BY <1>1, <2>1, <2>2, CreateIndexesGrows, CheckDiskUsageType
          DEF StartupStep
<1>2. CASE FinishStartup
  <2>1. today + 1 \in Days
    BY MaxDayAssumption DEF Days
  <2>. QED BY <1>2, <2>1 DEF FinishStartup, SpawnBgIndexerForDate
<1>3. CASE Tick
  <2> DEFINE t == (ticks + 1) % TickPeriod
  <2>1. t \in 0..(TickPeriod - 1)
    BY TickPeriodPositive
  <2>2. now + 1 \in Days
    BY MaxDayAssumption DEF Days
  <2>3. catalog' \subseteq DB /\ bgTodo' \in [Days -> SUBSET Streams]
    <3>1. CASE now # today
      <4>1. EnsureDatabasesAreKnown(now) /\ SpawnBgIndexerForDate(now + 1)
        BY <1>3, <3>1 DEF Tick
      <4>2. {DbName(s, now) : s \in Streams} \subseteq DB
        BY DbNameType
      <4>. QED BY <4>1, <4>2 DEF EnsureDatabasesAreKnown, SpawnBgIndexerForDate
    <3>2. CASE now = today
      BY <1>3, <3>2 DEF Tick
    <3>. QED BY <3>1, <3>2
  <2>4. storage' \in [Streams -> Days \cup {NoSample}]
    <3>1. today' \in Days
      BY <1>3, MaxDayAssumption DEF Tick, Days
    <3>. QED BY <1>3, <3>1 DEF Tick, RefreshStorageSizes
  <2>5. ticks' = t /\ today' = now
    BY <1>3 DEF Tick
  <2>6. known' \subseteq DB
    BY <1>3 DEF Tick
  <2>. QED BY <1>3, <2>1, <2>3, <2>4, <2>5, <2>6 DEF Tick
<1>4. CASE Terminate
  BY <1>4 DEF Terminate
<1>5. CASE HandleRequest
  <2>1. PICK r \in pending :
          /\ IF DbName(r[2], r[3]) \in known
               THEN UNCHANGED <<known, indexed, catalog>>
               ELSE /\ known' = known \cup {DbName(r[2], r[3])}
                    /\ CreateIndexes(r[2], r[3])
          /\ pending' = pending \ {r}
    BY <1>5 DEF HandleRequest
  <2>2. r[2] \in Streams /\ r[3] \in Days
    OBVIOUS
  <2>3. DbName(r[2], r[3]) \in DB
    BY <2>2, DbNameType
  <2>4. known' \subseteq DB /\ indexed' \subseteq DB /\ catalog' \subseteq DB
    <3>1. CASE DbName(r[2], r[3]) \in known
      BY <2>1, <3>1
    <3>2. CASE DbName(r[2], r[3]) \notin known
      BY <2>1, <2>2, <2>3, <3>2, CreateIndexesGrows
    <3>. QED BY <3>1, <3>2
  <2>. QED BY <1>5, <2>1, <2>4 DEF HandleRequest
<1>6. CASE \E d \in Days : BgStep(d)
  <2>1. PICK d \in Days : BgStep(d)
    BY <1>6
  <2>2. PICK s \in bgTodo[d] : /\ CreateIndexes(s, d)
                               /\ CheckDiskUsage(s, d)
                               /\ bgTodo' = [bgTodo EXCEPT ![d] = @ \ {s}]
    BY <2>1 DEF BgStep
  <2>. QED BY <2>1, <2>2, CreateIndexesGrows, CheckDiskUsageType DEF BgStep
<1>7. CASE AdvanceDay
  BY <1>7 DEF AdvanceDay
<1>8. CASE \E p \in Parsers, s \in Streams : ParserRequest(p, s)
  BY <1>8 DEF ParserRequest
<1>9. CASE UNCHANGED vars
  BY <1>9 DEF vars
<1>. QED BY <1>1, <1>2, <1>3, <1>4, <1>5, <1>6, <1>7, <1>8, <1>9 DEF Next

\* The type invariant holds in every state of every behaviour.
THEOREM TypeCorrect == Spec => []TypeOK
BY InitTypeOK, NextTypeOK, PTL DEF Spec

-----------------------------------------------------------------------------
(* Today's databases are in the catalog.  TodayCatalogued alone is not     *)
(* inductive: FinishStartup relies on the startup pass having registered   *)
(* every stream, which StartupCatalogued records stream by stream.         *)

LEMMA InitCatalogued == Init => CataloguedInv
BY InitTypeOK DEF Init, CataloguedInv, TodayCatalogued, StartupCatalogued

LEMMA NextCatalogued == CataloguedInv /\ [Next]_vars => CataloguedInv'
<1> SUFFICES ASSUME CataloguedInv, [Next]_vars
             PROVE  TodayCatalogued' /\ StartupCatalogued'
  BY NextTypeOK DEF CataloguedInv
<1> USE DEF CataloguedInv, TypeOK
<1>1. CASE StartupStep
  <2>1. PICK s \in todo : /\ CreateIndexes(s, today)
                          /\ todo' = todo \ {s}
    BY <1>1 DEF StartupStep
  <2>2. today \in Days
    BY MaxDayAssumption DEF Days
  <2>3. catalog \subseteq catalog' /\ <<s, today>> \in catalog'
    BY <2>1, <2>2, CreateIndexesGrows
  <2>. QED BY <1>1, <2>1, <2>3
          DEF StartupStep, TodayCatalogued, StartupCatalogued
<1>2. CASE FinishStartup
  BY <1>2 DEF FinishStartup, TodayCatalogued, StartupCatalogued
<1>3. CASE Tick
  <2>1. today' = now /\ pc' = pc /\ pc = "running"
    BY <1>3 DEF Tick
  <2>2. CASE now # today
    <3>1. EnsureDatabasesAreKnown(now)
      BY <1>3, <2>2 DEF Tick
    <3>. QED BY <2>1, <3>1
            DEF EnsureDatabasesAreKnown, DbName, TodayCatalogued,
                StartupCatalogued
  <2>3. CASE now = today
    <3>1. catalog' = catalog
      BY <1>3, <2>3 DEF Tick
    <3>. QED BY <2>1, <2>3, <3>1 DEF TodayCatalogued, StartupCatalogued
  <2>. QED BY <2>2, <2>3
<1>4. CASE Terminate
  BY <1>4 DEF Terminate, TodayCatalogued, StartupCatalogued
<1>5. CASE HandleRequest
  <2>1. PICK r \in pending :
          IF DbName(r[2], r[3]) \in known
            THEN UNCHANGED <<known, indexed, catalog>>
            ELSE CreateIndexes(r[2], r[3])
    BY <1>5 DEF HandleRequest
  <2>2. r[2] \in Streams /\ r[3] \in Days
    OBVIOUS
  <2>3. catalog \subseteq catalog'
    BY <2>1, <2>2, CreateIndexesGrows
  <2>4. UNCHANGED <<pc, today, todo>>
    BY <1>5 DEF HandleRequest
  <2>. QED BY <2>3, <2>4 DEF TodayCatalogued, StartupCatalogued
<1>6. CASE \E d \in Days : BgStep(d)
  <2>1. PICK d \in Days : BgStep(d)
    BY <1>6
  <2>2. PICK s \in bgTodo[d] : CreateIndexes(s, d)
    BY <2>1 DEF BgStep
  <2>3. catalog \subseteq catalog'
    BY <2>1, <2>2, CreateIndexesGrows
  <2>4. UNCHANGED <<pc, today, todo>>
    BY <2>1 DEF BgStep
  <2>. QED BY <2>3, <2>4 DEF TodayCatalogued, StartupCatalogued
<1>7. CASE AdvanceDay
  BY <1>7 DEF AdvanceDay, TodayCatalogued, StartupCatalogued
<1>8. CASE \E p \in Parsers, s \in Streams : ParserRequest(p, s)
  BY <1>8 DEF ParserRequest, TodayCatalogued, StartupCatalogued
<1>9. CASE UNCHANGED vars
  BY <1>9 DEF vars, TodayCatalogued, StartupCatalogued
<1>. QED BY <1>1, <1>2, <1>3, <1>4, <1>5, <1>6, <1>7, <1>8, <1>9 DEF Next

\* Once the startup pass is over, every active stream's database of the
\* day the indexer believes is today is registered in the store's catalog
\* (startup pass, ensure_databases_are_known on a date change).
THEOREM TodayCataloguedHolds == Spec => []TodayCatalogued
<1>1. CataloguedInv => TodayCatalogued
  BY DEF CataloguedInv
<1>. QED BY InitCatalogued, NextCatalogued, <1>1, PTL DEF Spec

=============================================================================
