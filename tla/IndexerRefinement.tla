------------------------- MODULE IndexerRefinement -------------------------
(***************************************************************************)
(* Proof that the indexer implements the provisioning promise of           *)
(* Provisioning under the refinement mapping of Indexer (day <- today),    *)
(* for every value of the constants: Spec => Abs!Spec.                     *)
(*                                                                         *)
(* A step of the indexer is a step of the abstract spec only in states     *)
(* the indexer can reach: a request or a background pass must be for a     *)
(* day no later than tomorrow, the clock must be at most one day ahead of  *)
(* the primary's date, and readiness must coincide with the end of the     *)
(* startup pass.  RefinementInv collects these facts and the catalog       *)
(* invariant of IndexerProofs.                                             *)
(***************************************************************************)
EXTENDS IndexerProofs

\* The wall clock is never more than one day ahead of the primary's date
\* (ticks arrive every second, AdvanceDay waits for the tick handler).
ClockInv == today <= now /\ now <= today + 1

\* Parsers only request databases of days the clock has reached.
RequestsInv == \A r \in requested : r[3] <= now

\* A background pass is only ever running for a day up to tomorrow.
BgInv == \A d \in Days : bgTodo[d] # {} => d <= today + 1

\* Readiness is signalled exactly when the startup pass has ended.
ReadyInv == ready = (pc # "startup")

RefinementInv == CataloguedInv /\ ClockInv /\ RequestsInv /\ BgInv /\ ReadyInv

-----------------------------------------------------------------------------
(* The invariant.                                                          *)

LEMMA InitRefinementInv == Init => RefinementInv
<1> SUFFICES ASSUME Init PROVE RefinementInv
  OBVIOUS
<1>1. CataloguedInv
  BY InitCatalogued
<1>2. ClockInv /\ RequestsInv
  BY DEF Init, ClockInv, RequestsInv
<1>3. BgInv
  BY DEF Init, BgInv
<1>4. ReadyInv
  BY DEF Init, ReadyInv
<1>. QED BY <1>1, <1>2, <1>3, <1>4 DEF RefinementInv

LEMMA NextRefinementInv == RefinementInv /\ [Next]_vars => RefinementInv'
<1> SUFFICES ASSUME RefinementInv, [Next]_vars
             PROVE  ClockInv' /\ RequestsInv' /\ BgInv' /\ ReadyInv'
  BY NextCatalogued DEF RefinementInv
<1> USE MaxDayAssumption DEF RefinementInv, CataloguedInv, TypeOK, Days
<1>1. CASE StartupStep
  BY <1>1 DEF StartupStep, ClockInv, RequestsInv, BgInv, ReadyInv
<1>2. CASE FinishStartup
  <2>1. bgTodo' = [bgTodo EXCEPT ![today + 1] = Streams]
    BY <1>2 DEF FinishStartup, SpawnBgIndexerForDate
  <2>2. BgInv'
    BY <1>2, <2>1 DEF FinishStartup, BgInv
  <2>3. ReadyInv'
    BY <1>2 DEF FinishStartup, ReadyInv
  <2>. QED BY <1>2, <2>2, <2>3 DEF FinishStartup, ClockInv, RequestsInv
<1>3. CASE Tick
  <2>1. today' = now /\ UNCHANGED <<now, pc, ready, requested>>
    BY <1>3 DEF Tick
  <2>2. BgInv'
    <3>1. CASE now # today
      <4>1. SpawnBgIndexerForDate(now + 1)
        BY <1>3, <3>1 DEF Tick
      <4>. QED BY <2>1, <4>1 DEF SpawnBgIndexerForDate, BgInv, ClockInv
    <3>2. CASE now = today
      BY <1>3, <2>1, <3>2 DEF Tick, BgInv
    <3>. QED BY <3>1, <3>2
  <2>. QED BY <2>1, <2>2 DEF ClockInv, RequestsInv, ReadyInv
<1>4. CASE Terminate
  BY <1>4 DEF Terminate, ClockInv, RequestsInv, BgInv, ReadyInv
<1>5. CASE HandleRequest
  BY <1>5 DEF HandleRequest, ClockInv, RequestsInv, BgInv, ReadyInv
<1>6. CASE \E d \in Days : BgStep(d)
  <2>1. PICK d \in Days : BgStep(d)
    BY <1>6
  <2>2. PICK s \in bgTodo[d] : bgTodo' = [bgTodo EXCEPT ![d] = @ \ {s}]
    BY <2>1 DEF BgStep
  <2>3. BgInv'
    BY <2>1, <2>2 DEF BgStep, BgInv
  <2>. QED BY <2>1, <2>3 DEF BgStep, ClockInv, RequestsInv, ReadyInv
<1>7. CASE AdvanceDay
  BY <1>7 DEF AdvanceDay, ClockInv, RequestsInv, BgInv, ReadyInv
<1>8. CASE \E p \in Parsers, s \in Streams : ParserRequest(p, s)
  BY <1>8 DEF ParserRequest, ClockInv, RequestsInv, BgInv, ReadyInv
<1>9. CASE UNCHANGED vars
  BY <1>9 DEF vars, ClockInv, RequestsInv, BgInv, ReadyInv
<1>. QED BY <1>1, <1>2, <1>3, <1>4, <1>5, <1>6, <1>7, <1>8, <1>9 DEF Next

\* RefinementInv holds in every state of every behaviour of the indexer.
THEOREM RefinementInvariant == Spec => []RefinementInv
BY InitRefinementInv, NextRefinementInv, PTL DEF Spec

-----------------------------------------------------------------------------
(* The refinement.                                                         *)

\* An index pass on a database of at most tomorrow that leaves the
\* primary's date and readiness alone is an abstract Provision step.
LEMMA PassProvisions ==
    ASSUME NEW s \in Streams, NEW d \in Days, today \in Nat, d <= today + 1,
           CreateIndexes(s, d), UNCHANGED <<today, ready>>
    PROVE  Abs!Next
<1>1. Abs!Provision(<<s, d>>)
  BY DEF CreateIndexes, DbName, Abs!Provision
<1>2. d \in 0..(today + 1)
  BY DEF Days
<1>. QED BY <1>1, <1>2 DEF Abs!Next

LEMMA StepRefines == RefinementInv /\ [Next]_vars => [Abs!Next]_Abs!vars
<1> SUFFICES ASSUME RefinementInv, [Next]_vars
             PROVE  [Abs!Next]_Abs!vars
  OBVIOUS
<1> USE DEF RefinementInv, CataloguedInv, TypeOK
<1>0. today \in Nat /\ today \in Days
  BY MaxDayAssumption DEF Days
<1>1. CASE StartupStep
  <2>1. PICK s \in todo : CreateIndexes(s, today)
    BY <1>1 DEF StartupStep
  <2>2. UNCHANGED <<today, ready>>
    BY <1>1 DEF StartupStep
  <2>. QED BY <1>0, <2>1, <2>2, PassProvisions
<1>2. CASE FinishStartup
  <2>1. ~ready /\ todo = {}
    BY <1>2 DEF FinishStartup, ReadyInv
  <2>2. Abs!DatabasesOf(today) \subseteq catalog
    BY <1>2, <2>1 DEF FinishStartup, StartupCatalogued, Abs!DatabasesOf
  <2>3. Abs!Ready
    BY <1>2, <2>1, <2>2 DEF FinishStartup, Abs!Ready
  <2>. QED BY <2>3 DEF Abs!Next
<1>3. CASE Tick
  <2>1. today' = now /\ pc = "running" /\ UNCHANGED <<ready, indexed>>
    BY <1>3 DEF Tick
  <2>2. CASE now # today
    <3>0. now = today + 1
      BY <2>2, <1>0, MaxDayAssumption DEF ClockInv
    <3>5. ready
      BY <2>1 DEF ReadyInv
    <3>1. now = today + 1 /\ ready
      BY <3>0, <3>5
    <3>2. EnsureDatabasesAreKnown(now)
      BY <1>3, <2>2 DEF Tick
    <3>3. catalog' = catalog \cup Abs!DatabasesOf(today + 1)
      BY <3>1, <3>2 DEF EnsureDatabasesAreKnown, DbName, Abs!DatabasesOf
    <3>4. Abs!Rollover
      BY <2>1, <3>1, <3>3 DEF Abs!Rollover
    <3>. QED BY <3>4 DEF Abs!Next
  <2>3. CASE now = today
    BY <1>3, <2>1, <2>3 DEF Tick, Abs!vars
  <2>. QED BY <2>2, <2>3
<1>4. CASE Terminate
  BY <1>4 DEF Terminate, Abs!vars
<1>5. CASE HandleRequest
  <2>1. PICK r \in pending :
          IF DbName(r[2], r[3]) \in known
            THEN UNCHANGED <<known, indexed, catalog>>
            ELSE CreateIndexes(r[2], r[3])
    BY <1>5 DEF HandleRequest
  <2>2. UNCHANGED <<today, ready>>
    BY <1>5 DEF HandleRequest
  <2>3. r[2] \in Streams /\ r[3] \in Days /\ r[3] <= today + 1
    BY <1>0 DEF RequestsInv, ClockInv, Days
  <2>4. CASE DbName(r[2], r[3]) \in known
    BY <2>1, <2>2, <2>4 DEF Abs!vars
  <2>5. CASE DbName(r[2], r[3]) \notin known
    BY <1>0, <2>1, <2>2, <2>3, <2>5, PassProvisions
  <2>. QED BY <2>4, <2>5
<1>6. CASE \E d \in Days : BgStep(d)
  <2>1. PICK d \in Days : BgStep(d)
    BY <1>6
  <2>2. PICK s \in bgTodo[d] : CreateIndexes(s, d)
    BY <2>1 DEF BgStep
  <2>3. d <= today + 1
    BY <2>2 DEF BgInv
  <2>4. UNCHANGED <<today, ready>>
    BY <2>1 DEF BgStep
  <2>. QED BY <1>0, <2>2, <2>3, <2>4, PassProvisions
<1>7. CASE AdvanceDay
  BY <1>7 DEF AdvanceDay, Abs!vars
<1>8. CASE \E p \in Parsers, s \in Streams : ParserRequest(p, s)
  BY <1>8 DEF ParserRequest, Abs!vars
<1>9. CASE UNCHANGED vars
  BY <1>9 DEF vars, Abs!vars
<1>. QED BY <1>1, <1>2, <1>3, <1>4, <1>5, <1>6, <1>7, <1>8, <1>9 DEF Next

\* The indexer implements Provisioning: its initial state is the abstract
\* initial state, and each of its handlers (startup pass, readiness signal,
\* tick, request, background pass) is an abstract step or leaves the
\* abstract state alone.
THEOREM IndexerImplementsProvisioning == Spec => Provisioned
<1>1. Init => Abs!Init
  BY DEF Init, Abs!Init
<1>. QED BY <1>1, StepRefines, RefinementInvariant, PTL
        DEF Spec, Provisioned, Abs!Spec

-----------------------------------------------------------------------------
(* Coverage.  With a store whose commands succeed, no database of a day up *)
(* to the horizon is ever forgotten.  DayCovered is inductive together     *)
(* with RefinementInv and the fact that the primary's date does not move   *)
(* during the startup pass (ticks are only handled in the poll loop).      *)

\* The startup pass runs on the day the indexer started.
StartupToday == pc = "startup" => today = 0

CoverInv == DayCovered /\ StartupToday

\* With a store whose commands succeed, an index pass leaves its database
\* with its full index set.
LEMMA PassIndexes ==
    ASSUME ~StoreMayFail, NEW s, NEW d, CreateIndexes(s, d)
    PROVE  indexed' = indexed \cup {<<s, d>>}
BY DEF CreateIndexes, Outcomes, DbName

LEMMA InitCover == Init => CoverInv
BY MaxDayAssumption DEF Init, CoverInv, DayCovered, Horizon, StartupToday, Days

LEMMA NextCover ==
    ASSUME ~StoreMayFail, RefinementInv, CoverInv, [Next]_vars
    PROVE  CoverInv'
<1> USE DEF RefinementInv, CataloguedInv, TypeOK
<1>1. CASE StartupStep
  <2>1. PICK x \in todo : CreateIndexes(x, today) /\ todo' = todo \ {x}
    BY <1>1 DEF StartupStep
  <2>2. indexed' = indexed \cup {<<x, today>>}
    BY <2>1, PassIndexes
  <2>3. UNCHANGED <<today, pc, bgTodo>>
    BY <1>1 DEF StartupStep
  <2>. QED BY <2>1, <2>2, <2>3 DEF CoverInv, DayCovered, Horizon, StartupToday
<1>2. CASE FinishStartup
  <2>1. bgTodo' = [bgTodo EXCEPT ![today + 1] = Streams]
    BY <1>2 DEF FinishStartup, SpawnBgIndexerForDate
  <2>2. todo = {} /\ pc = "startup" /\ pc' = "running"
        /\ UNCHANGED <<today, indexed>>
    BY <1>2 DEF FinishStartup
  <2>3. today + 1 \in Days
    BY <2>2, MaxDayAssumption DEF CoverInv, StartupToday, Days
  <2>4. DayCovered'
    <3> SUFFICES ASSUME NEW x \in Streams, NEW d \in Days, d <= today + 1
                 PROVE  <<x, d>> \in indexed' \/ x \in bgTodo'[d]
      BY <2>2 DEF DayCovered, Horizon
    <3>1. CASE d = today + 1
      BY <2>1, <2>3, <3>1
    <3>2. CASE d # today + 1
      <4>1. d <= today
        BY <3>2, MaxDayAssumption DEF Days
      <4>2. <<x, d>> \in indexed \/ x \in bgTodo[d]
        BY <2>2, <4>1 DEF CoverInv, DayCovered, Horizon
      <4>. QED BY <2>1, <2>2, <3>2, <4>2
    <3>. QED BY <3>1, <3>2
  <2>. QED BY <2>2, <2>4 DEF CoverInv, StartupToday
<1>3. CASE Tick
  <2>1. pc = "running" /\ UNCHANGED <<pc, indexed>> /\ today' = now
    BY <1>3 DEF Tick
  <2>2. CASE now # today
    <3>1. now = today + 1
      BY <2>2, MaxDayAssumption DEF ClockInv, Days
    <3>2. bgTodo' = [bgTodo EXCEPT ![now + 1] = Streams]
      BY <1>3, <2>2 DEF Tick, SpawnBgIndexerForDate
    <3>3. now + 1 \in Days
      BY MaxDayAssumption DEF Days
    <3>4. DayCovered'
      <4> SUFFICES ASSUME NEW x \in Streams, NEW d \in Days, d <= now + 1
                   PROVE  <<x, d>> \in indexed' \/ x \in bgTodo'[d]
        BY <2>1 DEF DayCovered, Horizon
      <4>1. CASE d = now + 1
        BY <3>2, <3>3, <4>1
      <4>2. CASE d # now + 1
        <5>1. d <= today + 1
          BY <3>1, <4>2, MaxDayAssumption DEF Days
        <5>2. <<x, d>> \in indexed \/ x \in bgTodo[d]
          BY <2>1, <5>1 DEF CoverInv, DayCovered, Horizon
        <5>. QED BY <2>1, <3>2, <4>2, <5>2
      <4>. QED BY <4>1, <4>2
    <3>. QED BY <2>1, <3>4 DEF CoverInv, StartupToday
  <2>3. CASE now = today
    <3>1. UNCHANGED bgTodo
      BY <1>3, <2>3 DEF Tick
    <3>. QED BY <2>1, <2>3, <3>1 DEF CoverInv, DayCovered, Horizon,
                StartupToday
  <2>. QED BY <2>2, <2>3
<1>4. CASE Terminate
  BY <1>4 DEF Terminate, CoverInv, DayCovered, Horizon, StartupToday
<1>5. CASE HandleRequest
  <2>1. indexed \subseteq indexed'
    BY <1>5 DEF HandleRequest, CreateIndexes
  <2>2. UNCHANGED <<today, pc, todo, bgTodo>>
    BY <1>5 DEF HandleRequest
  <2>. QED BY <2>1, <2>2 DEF CoverInv, DayCovered, Horizon, StartupToday
<1>6. CASE \E d \in Days : BgStep(d)
  <2>1. PICK d \in Days : BgStep(d)
    BY <1>6
  <2>2. PICK x \in bgTodo[d] : CreateIndexes(x, d)
                               /\ bgTodo' = [bgTodo EXCEPT ![d] = @ \ {x}]
    BY <2>1 DEF BgStep
  <2>3. indexed' = indexed \cup {<<x, d>>}
    BY <2>2, PassIndexes
  <2>4. UNCHANGED <<today, pc, todo>>
    BY <2>1 DEF BgStep
  <2>. QED BY <2>2, <2>3, <2>4 DEF CoverInv, DayCovered, Horizon, StartupToday
<1>7. CASE AdvanceDay
  BY <1>7 DEF AdvanceDay, CoverInv, DayCovered, Horizon, StartupToday
<1>8. CASE \E p \in Parsers, x \in Streams : ParserRequest(p, x)
  BY <1>8 DEF ParserRequest, CoverInv, DayCovered, Horizon, StartupToday
<1>9. CASE UNCHANGED vars
  BY <1>9 DEF vars, CoverInv, DayCovered, Horizon, StartupToday
<1>. QED BY <1>1, <1>2, <1>3, <1>4, <1>5, <1>6, <1>7, <1>8, <1>9 DEF Next

\* With store commands that succeed, the startup pass, the background
\* passes for tomorrow and the date rollover of the tick handler together
\* leave no database of any stream forgotten up to the horizon: it has its
\* indexes or is still on a pass's list.
THEOREM DayCoveredHolds == ~StoreMayFail => (Spec => []DayCovered)
<1> SUFFICES ASSUME ~StoreMayFail PROVE Spec => []DayCovered
  OBVIOUS
<1>1. RefinementInv /\ CoverInv /\ [Next]_vars => CoverInv'
  BY NextCover
<1>2. CoverInv => DayCovered
  BY DEF CoverInv
<1>. QED BY <1>1, <1>2, InitCover, RefinementInvariant, PTL DEF Spec

=============================================================================
