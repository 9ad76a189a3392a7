--------------------- MODULE PlaybookAggregation_proofs ---------------------
(***************************************************************************)
(* PlaybookAggregation for every set of playbooks and scheduler threads    *)
(* and every trigger and cluster size: the rows of aggregation keep their  *)
(* shape, clusters and items agree, no retirement is missed, and no agent  *)
(* playbook is orphaned.                                                   *)
(***************************************************************************)
EXTENDS PlaybookAggregation, FiniteSetTheorems, TLAPS

USE AggregationAssumption

-----------------------------------------------------------------------------
(* Shapes.                                                                 *)

Row == [state: {"none", "active", "rebuilding"}, agent: AgentIds \cup {NoAgent},
        count: Nat, over: BOOLEAN]
Invalidation == [entity: Playbooks, source: SUBSET Playbooks, revises: BOOLEAN]

\* The types but for the bound on member counts, which the plans must justify.
Shapes ==
  /\ playbook \in [Playbooks -> {"absent", "current", "retired"}]
  /\ item \in [Playbooks -> Item]
  /\ cluster \in [Ids -> Row]
  /\ stale \subseteq Invalidation
  /\ agents \subseteq AgentIds /\ displaced \subseteq AgentIds
  /\ pending \in BOOLEAN
  /\ claimed \in Aggregators \cup {NoAggregator}
  /\ unit \in [Aggregators -> Unit]

\* A step of the writers of playbooks: what leaves is named by an invalidation.
PlaybooksMove ==
  /\ playbook' \in [Playbooks -> {"absent", "current", "retired"}]
  /\ stale' \subseteq Invalidation /\ stale \subseteq stale'
  /\ unit' \in {unit, Outdated}
  /\ pending' \in BOOLEAN
  /\ UNCHANGED <<item, cluster, agents, displaced, claimed>>
  /\ \A p \in Playbooks :
       playbook[p] = "current" /\ playbook'[p] # "current" => p \in Named(stale')

\* A step of the claim alone: it plans nothing and hands no plan to anyone.
ClaimMoves ==
  /\ UNCHANGED rows
  /\ pending' \in BOOLEAN /\ claimed' \in Aggregators \cup {NoAggregator}
  /\ unit' \in [Aggregators -> Unit]
  /\ \A a \in Aggregators :
       /\ unit'[a].tasks \subseteq unit[a].tasks
       /\ claimed' = a /\ unit'[a].phase = "planned" =>
            claimed = a /\ unit[a].phase = "planned"

\* The playbooks of a batch are named by all it is part of.
LEMMA NamedGrows ==
  ASSUME NEW X, NEW Y, X \subseteq Y
  PROVE  Named(X) \subseteq Named(Y)
BY DEF Named

\* The entity and the sources of an invalidation are named by its batch.
LEMMA NamedByRow ==
  ASSUME NEW X, NEW r \in X
  PROVE  r.entity \in Named(X) /\ r.source \subseteq Named(X)
BY DEF Named

\* Marking the claims that are out as outdated changes nothing else of a unit.
LEMMA OutdatedUnits ==
  ASSUME unit \in [Aggregators -> Unit]
  PROVE  /\ Outdated \in [Aggregators -> Unit]
         /\ \A a \in Aggregators : /\ Outdated[a].tasks = unit[a].tasks
                                   /\ Outdated[a].phase = unit[a].phase
BY DEF Outdated, Unit

\* Adding, retiring, restoring, editing, revising and merging playbooks.
LEMMA WriterMoves ==
  ASSUME Shapes, NEW p \in Playbooks, NEW q \in Playbooks,
         \/ AddPlaybook(p) \/ RetirePlaybook(p) \/ RestorePlaybook(p) \/ EditPlaybook(p)
         \/ RevisePlaybook(p, q) \/ MergePlaybook(p, q)
  PROVE  PlaybooksMove
<1>1. CASE AddPlaybook(p)
  BY <1>1 DEF AddPlaybook, Shapes, PlaybooksMove
<1>2. ASSUME NEW row \in Invalidation, Invalidate(row)
      PROVE  /\ stale' \subseteq Invalidation /\ stale \subseteq stale'
             /\ pending' \in BOOLEAN
             /\ UNCHANGED <<item, cluster, agents, displaced, claimed>>
             /\ row.entity \in Named(stale') /\ row.source \subseteq Named(stale')
  <2>1. stale' = stale \cup {row} /\ row \in stale'
    BY <1>2 DEF Invalidate
  <2>. QED
    BY <1>2, <2>1, NamedByRow DEF Invalidate, Shapes
<1>. DEFINE alone == [entity |-> p, source |-> {}, revises |-> FALSE]
<1>3. alone \in Invalidation /\ alone.entity = p
  BY DEF Invalidation
<1>4. CASE RetirePlaybook(p)
  BY <1>4, <1>2, <1>3 DEF RetirePlaybook, Withdrawn, Shapes, PlaybooksMove
<1>5. CASE RestorePlaybook(p)
  BY <1>5, <1>2, <1>3 DEF RestorePlaybook, Shapes, PlaybooksMove
<1>6. CASE EditPlaybook(p)
  BY <1>6, <1>2, <1>3 DEF EditPlaybook, Shapes, PlaybooksMove
<1>7. CASE RevisePlaybook(p, q)
  <2>. DEFINE row == [entity |-> q, source |-> {p}, revises |-> TRUE]
  <2>1. row \in Invalidation /\ p \in row.source
    BY DEF Invalidation
  <2>. QED
    BY <1>7, <1>2, <2>1 DEF RevisePlaybook, Withdrawn, Shapes, PlaybooksMove
<1>8. CASE MergePlaybook(p, q)
  <2>. DEFINE row == [entity |-> q, source |-> {p}, revises |-> FALSE]
  <2>1. row \in Invalidation /\ p \in row.source
    BY DEF Invalidation
  <2>. QED
    BY <1>8, <1>2, <2>1 DEF MergePlaybook, Withdrawn, Shapes, PlaybooksMove
<1>. QED
  BY <1>1, <1>4, <1>5, <1>6, <1>7, <1>8

\* Claiming, losing the lease, counting the backlog, finishing and crashing.
LEMMA ClaimSteps ==
  ASSUME Shapes,
         \/ LoseClaim \/ Repair \/ UNCHANGED aggVars
         \/ \E a \in Aggregators :
              ClaimDue(a) \/ CountBacklog(a) \/ FinishUnit(a) \/ FailUnit(a) \/ CrashUnit(a)
  PROVE  ClaimMoves
<1>1. CASE LoseClaim \/ Repair \/ UNCHANGED aggVars
  BY <1>1 DEF LoseClaim, Repair, aggVars, rows, Shapes, ClaimMoves
<1>2. NoUnit \in Unit /\ NoUnit.tasks = {} /\ NoUnit.phase = "idle"
  BY DEF NoUnit, Unit
<1>3. ASSUME NEW a \in Aggregators, ClaimDue(a)
      PROVE  ClaimMoves
  <2>. DEFINE new == [NoUnit EXCEPT !.phase = "claimed", !.current = TRUE]
  <2>1. new \in Unit /\ new.tasks = {} /\ new.phase = "claimed"
    BY DEF NoUnit, Unit
  <2>2. unit' = [unit EXCEPT ![a] = new] /\ claimed' = a /\ UNCHANGED <<rows, pending>>
    BY <1>3 DEF ClaimDue
  <2>. HIDE DEF new
  <2>. QED
    BY <2>1, <2>2 DEF Shapes, ClaimMoves
<1>4. ASSUME NEW a \in Aggregators, CountBacklog(a)
      PROVE  ClaimMoves
  <2>1. PICK b \in BOOLEAN : unit' = [unit EXCEPT ![a].phase = "counted", ![a].backlog = b]
    BY <1>4 DEF CountBacklog, Backlog
  <2>2. unit' \in [Aggregators -> Unit]
    BY <2>1, ZenonT(40) DEF Shapes, Unit
  <2>. QED
    BY <1>4, <2>1, <2>2 DEF CountBacklog, Shapes, Unit, ClaimMoves
<1>5. ASSUME NEW a \in Aggregators, NEW more \in BOOLEAN, Finish(a, more)
      PROVE  ClaimMoves
  <2>1. unit' \in {[unit EXCEPT ![a] = NoUnit], [Outdated EXCEPT ![a] = NoUnit]}
    BY <1>5 DEF Finish
  <2>2. claimed' \in {claimed, NoAggregator} /\ pending' \in BOOLEAN /\ UNCHANGED rows
    BY <1>5 DEF Finish, Shapes
  <2>. QED
    BY <1>2, <2>1, <2>2, OutdatedUnits DEF Shapes, ClaimMoves
<1>6. ASSUME NEW a \in Aggregators, FinishUnit(a) \/ FailUnit(a)
      PROVE  ClaimMoves
  <2>1. unit[a].backlog \in BOOLEAN
    BY DEF Shapes, Unit
  <2>. QED
    BY <1>6, <1>5, <2>1 DEF FinishUnit, FailUnit
<1>7. ASSUME NEW a \in Aggregators, CrashUnit(a)
      PROVE  ClaimMoves
  BY <1>7, <1>2 DEF CrashUnit, Shapes, ClaimMoves
<1>. QED
  BY <1>1, <1>3, <1>4, <1>6, <1>7
\* A new agent playbook has a number no cluster, no plan and no other has.
LEMMA UnusedIsFresh ==
  ASSUME NEW g \in Unused
  PROVE  /\ g \in AgentIds /\ g \notin agents
         /\ \A c \in Ids : cluster[c].agent # g
         /\ \A a \in Aggregators : \A t \in unit[a].tasks : t.agent # g
BY DEF Unused

\* The entities a step changes together with one task of the thread that did it.
LEMMA DoneUnits ==
  ASSUME Shapes, NEW a \in Aggregators, NEW t, Done(a, t)
  PROVE  /\ unit' \in [Aggregators -> Unit]
         /\ \A b \in Aggregators :
              /\ unit'[b].tasks = IF b = a THEN unit[b].tasks \ {t} ELSE unit[b].tasks
              /\ unit'[b].phase = unit[b].phase
         /\ UNCHANGED <<playbook, stale, pending, claimed>>
BY DEF Done, Shapes, Unit

\* What a thread has planned is a task.
LEMMA TasksAreTasks ==
  ASSUME Shapes, NEW a \in Aggregators, NEW t \in unit[a].tasks
  PROVE  /\ t \in Task /\ t.id \in Ids /\ t.members \in Ids
         /\ t.agent \in AgentIds \cup {NoAgent}
<1>1. t \in Task
  BY DEF Shapes, Unit
<1>. QED
  BY <1>1 DEF Task

\* A step of thread a on to another phase, with its other fields as they are.
LEMMA StepUnits ==
  ASSUME Shapes, NEW a \in Aggregators,
         NEW phase \in {"applied", "staged", "swept"}, Step(a, phase)
  PROVE  /\ unit' \in [Aggregators -> Unit]
         /\ \A b \in Aggregators :
              /\ unit'[b].tasks = unit[b].tasks
              /\ unit'[b].phase = IF b = a THEN phase ELSE unit[b].phase
         /\ UNCHANGED <<playbook, agents, displaced, pending, claimed>>
BY DEF Step, Shapes, Unit

\* Sets of playbooks are finite, and nonempty ones have members to count.
LEMMA PlaybookSetsAreFinite ==
  ASSUME NEW S \in SUBSET Playbooks
  PROVE  /\ IsFiniteSet(S) /\ Cardinality(S) \in Nat
         /\ Cardinality(S) <= Cardinality(Playbooks)
         /\ S = {} => Cardinality(S) = 0
BY FS_Subset, FS_CardinalityType, FS_EmptySet

\* What a thread may plan: the matched playbooks by cluster, the clusters to
\* rebuild and the new ones.
LEMMA PlannedTasks ==
  ASSUME Shapes, NEW matched \in SUBSET Matchable, NEW ready \in SUBSET Rebuildable,
         NEW nearest \in [matched -> Stored \ Broken],
         NEW fresh \in Clusterings(Matchable \ matched)
  PROVE  Refreshes(nearest) \cup Rebuilds(ready) \cup Creations(fresh) \subseteq Task
<1>1. Matchable \subseteq Playbooks
  BY DEF Matchable, Residuals
<1>2. \A c \in Ids : cluster[c].agent \in AgentIds \cup {NoAgent}
  BY DEF Shapes, Row
<1>3. Refreshes(nearest) \subseteq Task
  <2>. SUFFICES ASSUME NEW c \in {nearest[p] : p \in DOMAIN nearest}
                PROVE  [kind |-> "refresh", id |-> c, agent |-> cluster[c].agent,
                        members |-> {p \in DOMAIN nearest : nearest[p] = c}] \in Task
    BY DEF Refreshes
  <2>1. c \in Ids
    BY DEF Stored
  <2>2. {p \in DOMAIN nearest : nearest[p] = c} \in Ids
    BY <1>1 DEF Ids
  <2>. QED
    BY <1>2, <2>1, <2>2 DEF Task
<1>4. Rebuilds(ready) \subseteq Task
  <2>. SUFFICES ASSUME NEW c \in ready
                PROVE  [kind |-> "rebuild", id |-> c, agent |-> cluster[c].agent,
                        members |-> Sample(c)] \in Task
    BY DEF Rebuilds
  <2>1. c \in Ids /\ Sample(c) # {}
    BY DEF Rebuildable, Broken
  <2>2. Sample(c) \in Ids
    BY <2>1 DEF Sample, ItemsOf, Ids
  <2>. QED
    BY <1>2, <2>1, <2>2 DEF Task
<1>5. Creations(fresh) \subseteq Task
  <2>. SUFFICES ASSUME NEW m \in fresh
                PROVE  [kind |-> "new", id |-> m, agent |-> NoAgent, members |-> m] \in Task
    BY DEF Creations
  <2>1. m \subseteq Playbooks /\ Cardinality(m) >= MinClusterSize
    BY <1>1 DEF Clusterings
  <2>2. m # {}
    BY <2>1, PlaybookSetsAreFinite
  <2>3. m \in Ids
    BY <2>1, <2>2 DEF Ids
  <2>. QED
    BY <2>3 DEF Task
<1>. QED
  BY <1>3, <1>4, <1>5

\* After a plan the thread has tasks and the other threads what they had.
LEMMA PlanUnits ==
  ASSUME Shapes, NEW a \in Aggregators, Plan(a)
  PROVE  /\ unit' \in [Aggregators -> Unit]
         /\ \A b \in Aggregators \ {a} : unit'[b] = unit[b]
         /\ unit'[a].phase = "planned"
         /\ \E matched \in SUBSET Matchable, ready \in SUBSET Rebuildable :
            \E nearest \in [matched -> Stored \ Broken],
               fresh \in Clusterings(Matchable \ matched) :
              unit'[a].tasks = Refreshes(nearest) \cup Rebuilds(ready) \cup Creations(fresh)
         /\ UNCHANGED <<rows, pending, claimed>>
<1>1. PICK matched \in SUBSET Matchable, ready \in SUBSET Rebuildable :
        \E nearest \in [matched -> Stored \ Broken], fresh \in Clusterings(Matchable \ matched) :
          unit' = [unit EXCEPT ![a].phase = "planned",
                     ![a].tasks = Refreshes(nearest) \cup Rebuilds(ready) \cup Creations(fresh)]
  BY Zenon DEF Plan
<1>2. PICK nearest \in [matched -> Stored \ Broken], fresh \in Clusterings(Matchable \ matched) :
        unit' = [unit EXCEPT ![a].phase = "planned",
                   ![a].tasks = Refreshes(nearest) \cup Rebuilds(ready) \cup Creations(fresh)]
  BY <1>1, Zenon
<1>. DEFINE T == Refreshes(nearest) \cup Rebuilds(ready) \cup Creations(fresh)
<1>3. T \subseteq Task
  BY PlannedTasks
<1>4. unit' = [unit EXCEPT ![a].phase = "planned", ![a].tasks = T]
  BY <1>2
<1>5. \E m \in SUBSET Matchable, r \in SUBSET Rebuildable :
      \E n \in [m -> Stored \ Broken], f \in Clusterings(Matchable \ m) :
        T = Refreshes(n) \cup Rebuilds(r) \cup Creations(f)
  OBVIOUS
<1>. HIDE DEF T
<1>6. /\ unit' \in [Aggregators -> Unit]
      /\ \A b \in Aggregators \ {a} : unit'[b] = unit[b]
      /\ unit'[a].phase = "planned" /\ unit'[a].tasks = T
  BY <1>3, <1>4, ZenonT(40) DEF Shapes, Unit
<1>7. UNCHANGED <<rows, pending, claimed>>
  BY DEF Plan
<1>. QED
  BY <1>5, <1>6, <1>7, Zenon
-----------------------------------------------------------------------------
(* The steps.                                                              *)

\* An outcome that leaves the clusters alone and puts the members back.
PutBack(a, t) ==
  /\ claimed = a /\ unit[a].phase = "planned"
  /\ \E as \in {Residual, Terminal} : item' = Disposed(t.members, as)
  /\ Done(a, t)
  /\ UNCHANGED <<cluster, agents, displaced>>

\* The outcomes that change a cluster, and those that put members back.
Effect(a, t) == Refresh(a, t) \/ Rebuild(a, t) \/ Discard(a, t) \/ Create(a, t) \/ PutBack(a, t)

\* The kinds of step that the proofs go through one by one.
Move ==
  \/ PlaybooksMove \/ ClaimMoves
  \/ \E g \in AgentIds : EditAgent(g) \/ ApproveAgent(g)
  \/ \E a \in Aggregators :
       \/ \E batch \in SUBSET stale : ApplyInvalidations(a, batch)
       \/ Stage(a) \/ Plan(a) \/ Sweep(a)
       \/ \E t \in unit[a].tasks : Effect(a, t)

\* An outcome is an effect, or it only takes its task from the plan.
LEMMA OutcomeMoves ==
  ASSUME Shapes, NEW a \in Aggregators, NEW t \in unit[a].tasks, Outcome(a, t)
  PROVE  Effect(a, t) \/ ClaimMoves
<1>1. CASE DeferRebuild(a, t)
  BY <1>1, DoneUnits DEF DeferRebuild, ClaimMoves, rows, Shapes
<1>2. ASSUME GiveUp(a, t), claimed = a, unit[a].phase = "planned"
      PROVE  PutBack(a, t)
  BY <1>2, Zenon DEF GiveUp, PutBack
<1>3. CASE RefreshNothing(a, t)
  BY <1>2, <1>3 DEF RefreshNothing, Doing, Validated, ClaimIsLive, Effect
<1>4. CASE RebuildNothing(a, t)
  BY <1>2, <1>4 DEF RebuildNothing, Doing, Validated, ClaimIsLive, Effect
<1>5. CASE CreateNothing(a, t)
  BY <1>5 DEF CreateNothing, Doing, Validated, ClaimIsLive, Effect, PutBack
<1>. QED
  BY <1>1, <1>3, <1>4, <1>5 DEF Outcome, Effect

\* Every step of aggregation is one of these.
LEMMA EveryStepMoves ==
  ASSUME Shapes, [AggregationNext]_aggVars
  PROVE  Move
<1>1. CASE UNCHANGED aggVars
  BY <1>1, ClaimSteps DEF Move
<1>2. CASE LoseClaim \/ Repair
  BY <1>2, ClaimSteps DEF Move
<1>3. CASE Writers
  <2>1. ASSUME NEW p \in Playbooks,
               AddPlaybook(p) \/ RetirePlaybook(p) \/ RestorePlaybook(p) \/ EditPlaybook(p)
        PROVE  PlaybooksMove
    BY <2>1, WriterMoves
  <2>2. ASSUME NEW p \in Playbooks, NEW q \in Playbooks, RevisePlaybook(p, q) \/ MergePlaybook(p, q)
        PROVE  PlaybooksMove
    BY <2>2, WriterMoves
  <2>. QED
    BY <1>3, <2>1, <2>2, Zenon DEF Writers, Move
<1>4. ASSUME NEW a \in Aggregators, UnitOfWork(a)
      PROVE  Move
  <2>1. CASE ClaimDue(a) \/ CountBacklog(a) \/ FinishUnit(a) \/ FailUnit(a) \/ CrashUnit(a)
    <3>1. ClaimMoves
      BY <2>1, ClaimSteps, Zenon
    <3>. QED
      BY <3>1 DEF Move
  <2>2. ASSUME NEW t \in unit[a].tasks, Outcome(a, t)
        PROVE  Move
    BY <2>2, OutcomeMoves, Zenon DEF Move
  <2>. QED
    BY <1>4, <2>1, <2>2, Zenon DEF UnitOfWork, Move
<1>. QED
  BY <1>1, <1>2, <1>3, <1>4, Zenon DEF AggregationNext

-----------------------------------------------------------------------------
(* The shape of the rows.                                                  *)

\* An item put where one with a row was is an item.
LEMMA DisposedItems ==
  ASSUME Shapes, NEW members, NEW as \in Item
  PROVE  Disposed(members, as) \in [Playbooks -> Item]
BY DEF Disposed, Shapes

\* Breaking clusters up for a batch leaves an item for every playbook.
LEMMA ReleasedItems ==
  ASSUME Shapes, NEW batch, NEW hit \in SUBSET Ids
  PROVE  Released(batch, hit) \in [Playbooks -> Item]
<1>. SUFFICES ASSUME NEW p \in Playbooks
              PROVE  Released(batch, hit)[p] \in Item
  BY DEF Released
<1>1. CASE \E c \in hit : p \in Heirs(batch, c)
  <2>1. (CHOOSE c \in hit : p \in Heirs(batch, c)) \in Ids
    BY <1>1
  <2>. QED
    BY <1>1, <2>1 DEF Released, Item, Ids
<1>2. CASE ~\E c \in hit : p \in Heirs(batch, c)
  BY <1>2 DEF Released, Item, NoItem, NoCluster, Shapes
<1>. QED
  BY <1>1, <1>2

\* The clusters a batch breaks up.
Hit(batch) == {item[p].of : p \in Named(batch)} \ {NoCluster}

\* What a batch of invalidations names are playbooks, and what it hits is
\* where their items are.
LEMMA HitClusters ==
  ASSUME Shapes, NEW batch \in SUBSET stale
  PROVE  Named(batch) \subseteq Playbooks /\ Hit(batch) \subseteq Ids
<1>1. Named(batch) \subseteq Playbooks
  BY DEF Named, Shapes, Invalidation
<1>. QED
  BY <1>1 DEF Hit, Shapes, Item, Ids, NoCluster

\* The shapes are kept by every step.
LEMMA ShapesKept ==
  ASSUME Shapes, [AggregationNext]_aggVars
  PROVE  Shapes'
<1>. USE DEF Row
<1>0. Residual \in Item /\ Terminal \in Item
  BY DEF Residual, Terminal, Item, NoCluster
<1>00. NoRow \in Row
  BY DEF NoRow
<1>1. CASE PlaybooksMove
  BY <1>1, OutdatedUnits DEF PlaybooksMove, Shapes
<1>2. CASE ClaimMoves
  BY <1>2 DEF ClaimMoves, rows, Shapes
<1>3. ASSUME NEW g \in AgentIds, EditAgent(g)
      PROVE  Shapes'
  <2>1. item' \in [Playbooks -> Item]
    BY <1>0, <1>3 DEF EditAgent, Retire, Shapes
  <2>2. cluster' \in [Ids -> Row] /\ pending' \in BOOLEAN
    BY <1>00, <1>3 DEF EditAgent, Retire, Shapes
  <2>. QED
    BY <1>3, <2>1, <2>2 DEF EditAgent, Shapes
<1>4. ASSUME NEW g \in AgentIds, ApproveAgent(g)
      PROVE  Shapes'
  BY <1>4 DEF ApproveAgent, Shapes
<1>5. ASSUME NEW a \in Aggregators, NEW batch \in SUBSET stale, ApplyInvalidations(a, batch)
      PROVE  Shapes'
  <2>1. PICK phase \in {"applied", "swept"} : Step(a, phase)
    BY <1>5 DEF ApplyInvalidations, Applied
  <2>2. item' = Released(batch, Hit(batch))
    BY <1>5 DEF ApplyInvalidations, Hit
  <2>3. item' \in [Playbooks -> Item]
    BY <2>2, HitClusters, ReleasedItems
  <2>4. cluster' = [c \in Ids |-> IF c \in Hit(batch)
                     THEN [cluster[c] EXCEPT !.state = "rebuilding", !.count = 0] ELSE cluster[c]]
    BY <1>5 DEF ApplyInvalidations, Hit
  <2>5. cluster' \in [Ids -> Row]
    BY <2>4, ZenonT(40) DEF Shapes
  <2>6. stale' \subseteq stale
    BY <1>5 DEF ApplyInvalidations, Applied
  <2>. QED
    BY <2>1, <2>3, <2>5, <2>6, StepUnits DEF Shapes
<1>6. ASSUME NEW a \in Aggregators, Stage(a)
      PROVE  Shapes'
  <2>1. item' \in [Playbooks -> Item]
    BY <1>0, <1>6 DEF Stage, Shapes
  <2>. QED
    BY <1>6, <2>1, StepUnits DEF Stage, Shapes
<1>7. ASSUME NEW a \in Aggregators, Plan(a)
      PROVE  Shapes'
  BY <1>7, PlanUnits DEF rows, Shapes
<1>8. ASSUME NEW a \in Aggregators, Sweep(a)
      PROVE  Shapes'
  <2>1. cluster' \in [Ids -> Row]
    BY <1>00, <1>8 DEF Sweep, Shapes
  <2>2. unit' \in [Aggregators -> Unit]
    BY <1>8 DEF Sweep, Shapes, Unit
  <2>. QED
    BY <1>8, <2>1, <2>2 DEF Sweep, Supersede, Shapes
<1>9. ASSUME NEW a \in Aggregators, NEW t \in unit[a].tasks, Refresh(a, t)
      PROVE  Shapes'
  <2>0. t.id \in Ids /\ t.members \in SUBSET Playbooks
    BY TasksAreTasks DEF Ids
  <2>1. item' \in [Playbooks -> Item]
    BY <1>9, <2>0 DEF Refresh, Shapes, Item, Ids
  <2>2. PICK g \in Unused \cup {t.agent} :
          /\ cluster' = [cluster EXCEPT ![t.id].count = @ + Cardinality(t.members),
                                        ![t.id].agent = IF g = t.agent THEN @ ELSE g]
          /\ IF g = t.agent THEN UNCHANGED <<agents, displaced>> ELSE Supersede({t.agent}, {g})
    BY <1>9 DEF Refresh
  <2>3. g # t.agent => g \in AgentIds
    BY UnusedIsFresh
  <2>4. Cardinality(t.members) \in Nat
    BY <2>0, PlaybookSetsAreFinite
  <2>5. cluster' \in [Ids -> Row]
    BY <2>0, <2>2, <2>3, <2>4 DEF Shapes
  <2>6. agents' \subseteq AgentIds /\ displaced' \subseteq AgentIds
    BY <2>2, <2>3 DEF Supersede, Shapes
  <2>. QED
    BY <1>9, <2>1, <2>5, <2>6, DoneUnits DEF Refresh, Shapes
<1>10. ASSUME NEW a \in Aggregators, NEW t \in unit[a].tasks, Rebuild(a, t)
       PROVE  Shapes'
  <2>1. item' \in [Playbooks -> Item]
    <3>1. item' = [p \in Playbooks |->
            IF p \in Restored(t) THEN [item[p] EXCEPT !.is = "member"] ELSE item[p]]
      BY <1>10 DEF Rebuild
    <3>2. \A p \in Playbooks :
            item[p] \in Item /\ [item[p] EXCEPT !.is = "member"] \in Item
      BY DEF Shapes, Item
    <3>. QED
      BY <3>1, <3>2
  <2>2. PICK g \in Unused :
          /\ cluster' = [cluster EXCEPT ![t.id] = [state |-> "active", agent |-> g,
                                       count |-> Cardinality(Restored(t)), over |-> FALSE]]
          /\ Supersede({t.agent}, {g})
    BY <1>10 DEF Rebuild
  <2>3. Cardinality(Restored(t)) \in Nat
    BY PlaybookSetsAreFinite DEF Restored, ItemsOf
  <2>4. cluster' \in [Ids -> Row]
    BY <2>2, <2>3, UnusedIsFresh DEF Shapes
  <2>5. agents' \subseteq AgentIds /\ displaced' \subseteq AgentIds
    BY <2>2, UnusedIsFresh DEF Supersede, Shapes
  <2>. QED
    BY <1>10, <2>1, <2>4, <2>5, DoneUnits DEF Rebuild, Shapes
<1>11. ASSUME NEW a \in Aggregators, NEW t \in unit[a].tasks, Discard(a, t)
       PROVE  Shapes'
  <2>1. item' \in [Playbooks -> Item]
    BY <1>0, <1>11, DisposedItems DEF Discard
  <2>2. cluster' \in [Ids -> Row]
    BY <1>00, <1>11 DEF Discard, Shapes
  <2>. QED
    BY <1>11, <2>1, <2>2, DoneUnits DEF Discard, Supersede, Shapes
<1>12. ASSUME NEW a \in Aggregators, NEW t \in unit[a].tasks, Create(a, t)
       PROVE  Shapes'
  <2>0. t.id \in Ids /\ t.members \in SUBSET Playbooks
    BY TasksAreTasks DEF Ids
  <2>1. [is |-> "member", of |-> t.id] \in Item
    BY <2>0 DEF Item, Ids
  <2>2. item' \in [Playbooks -> Item]
    BY <1>12, <2>1, DisposedItems DEF Create
  <2>3. PICK g \in Unused :
          /\ cluster' = [cluster EXCEPT ![t.id] = [state |-> "active", agent |-> g,
                        count |-> Cardinality(t.members), over |-> t.id \in Stored]]
          /\ agents' = agents \cup {g}
    BY <1>12 DEF Create
  <2>4. Cardinality(t.members) \in Nat
    BY <2>0, PlaybookSetsAreFinite
  <2>5. cluster' \in [Ids -> Row]
    <3>1. (t.id \in Stored) \in BOOLEAN
      BY SMT
    <3>. QED
      BY <2>3, <2>4, <3>1, UnusedIsFresh DEF Shapes
  <2>6. agents' \subseteq AgentIds /\ displaced' \subseteq AgentIds
    BY <1>12, <2>3, UnusedIsFresh DEF Create, Shapes
  <2>. QED
    BY <1>12, <2>2, <2>5, <2>6, DoneUnits DEF Create, Shapes
<1>13. ASSUME NEW a \in Aggregators, NEW t \in unit[a].tasks, PutBack(a, t)
       PROVE  Shapes'
  <2>1. item' \in [Playbooks -> Item]
    <3>1. PICK as \in {Residual, Terminal} : item' = Disposed(t.members, as)
      BY <1>13 DEF PutBack
    <3>. QED
      BY <1>0, <3>1, DisposedItems
  <2>. QED
    BY <1>13, <2>1, DoneUnits DEF PutBack, Shapes
<1>. QED
  BY <1>1, <1>2, <1>3, <1>4, <1>5, <1>6, <1>7, <1>8, <1>9, <1>10, <1>11, <1>12, <1>13,
     EveryStepMoves, Zenon DEF Move, Effect
-----------------------------------------------------------------------------
(* Clusters, items and the plan of the holder.                             *)

\* What a task may rely on until its transaction: its members wait outside
\* every cluster but the one it repairs, and none has left unnoticed.
TaskStands(t) ==
  \A p \in t.members :
    /\ item[p].is = "residual"
    /\ playbook[p] = "current" \/ p \in Named(stale)
    /\ IF t.kind = "rebuild" THEN item[p].of \in {t.id, NoCluster} ELSE item[p].of \notin Broken

\* Two tasks of a plan share no member and no cluster under repair.
Apart(s, t) ==
  s # t => /\ s.members \cap t.members = {}
           /\ s.kind = "rebuild" /\ t.kind = "rebuild" => s.id # t.id

HasPlan(a) == claimed = a /\ unit[a].phase = "planned"

PlansStand ==
  \A a \in Aggregators : HasPlan(a) =>
    \A t \in unit[a].tasks : TaskStands(t) /\ \A s \in unit[a].tasks : Apart(s, t)

\* Items name stored clusters, and only members belong to an active one that
\* was not created over another.
ItemsMatch ==
  \A p \in Playbooks :
    /\ item[p].is \in {"none", "terminal"} => item[p].of = NoCluster
    /\ item[p].is = "member" => item[p].of \in Stored \ Broken
    /\ item[p].of \in Stored \cup {NoCluster}
    /\ item[p].of \in Stored \ Broken => item[p].is = "member" \/ cluster[item[p].of].over

\* A step that plans nothing keeps the plans if the tasks that are left stand.
LEMMA PlansShrink ==
  ASSUME PlansStand,
         \A a \in Aggregators : HasPlan(a)' =>
           /\ HasPlan(a) /\ unit'[a].tasks \subseteq unit[a].tasks
           /\ \A t \in unit'[a].tasks : TaskStands(t)'
  PROVE  PlansStand'
BY DEF PlansStand, Apart
\* The tasks planned from one reading of the tables stand, and are apart.
LEMMA FreshPlanStands ==
  ASSUME Shapes, NEW matched \in SUBSET Matchable, NEW ready \in SUBSET Rebuildable,
         NEW nearest \in [matched -> Stored \ Broken],
         NEW fresh \in Clusterings(Matchable \ matched),
         NEW T, T = Refreshes(nearest) \cup Rebuilds(ready) \cup Creations(fresh)
  PROVE  \A t \in T : TaskStands(t) /\ \A s \in T : Apart(s, t)
<1>1. ASSUME NEW t \in Refreshes(nearest)
      PROVE  /\ t.kind = "refresh" /\ t.members \subseteq matched
  BY <1>1 DEF Refreshes
<1>2. ASSUME NEW t \in Rebuilds(ready)
      PROVE  /\ t.kind = "rebuild" /\ t.id \in Broken /\ t.members = Sample(t.id)
             /\ t = [kind |-> "rebuild", id |-> t.id, agent |-> cluster[t.id].agent,
                     members |-> Sample(t.id)]
  BY <1>2 DEF Rebuilds, Rebuildable
<1>3. ASSUME NEW t \in Creations(fresh)
      PROVE  /\ t.kind = "new" /\ t.members \subseteq Matchable \ matched
             /\ t.members \in fresh
             /\ t = [kind |-> "new", id |-> t.members, agent |-> NoAgent, members |-> t.members]
  BY <1>3 DEF Creations, Clusterings
<1>4. \A p \in Matchable : /\ p \in Playbooks /\ item[p].is = "residual"
                           /\ playbook[p] = "current" /\ item[p].of \notin Broken
  BY DEF Matchable, Residuals, Current
<1>5. \A c \in Broken : \A p \in Sample(c) :
        /\ p \in Playbooks /\ item[p].is = "residual" /\ item[p].of = c
        /\ playbook[p] = "current"
  BY DEF Sample, ItemsOf, Residuals, Current
<1>6. ASSUME NEW t \in T
      PROVE  TaskStands(t)
  <2>1. CASE t \in Refreshes(nearest) \cup Creations(fresh)
    BY <2>1, <1>1, <1>3, <1>4 DEF TaskStands
  <2>2. CASE t \in Rebuilds(ready)
    BY <2>2, <1>2, <1>5 DEF TaskStands
  <2>. QED
    BY <2>1, <2>2
<1>7. ASSUME NEW s \in T, NEW t \in T, s # t
      PROVE  s.members \cap t.members = {}
  <2>1. CASE s \in Refreshes(nearest) /\ t \in Refreshes(nearest)
    <3>. DEFINE Of(c) == {p \in matched : nearest[p] = c}
                R(c) == [kind |-> "refresh", id |-> c, agent |-> cluster[c].agent, members |-> Of(c)]
    <3>1. PICK c \in Ids : s = R(c)
      BY <2>1 DEF Refreshes, Stored
    <3>2. PICK d \in Ids : t = R(d)
      BY <2>1 DEF Refreshes, Stored
    <3>3. c # d /\ s.members = Of(c) /\ t.members = Of(d)
      BY <3>1, <3>2, <1>7
    <3>. QED
      BY <3>3
  <2>2. CASE s \in Rebuilds(ready) /\ t \in Rebuilds(ready)
    <3>1. s.id # t.id
      BY <2>2, <1>2, <1>7
    <3>. QED
      BY <2>2, <3>1, <1>2, <1>5
  <2>3. CASE s \in Creations(fresh) /\ t \in Creations(fresh)
    <3>1. s.members # t.members
      BY <2>3, <1>3, <1>7
    <3>2. \A m, n \in fresh : m # n => m \cap n = {}
      BY DEF Clusterings
    <3>. QED
      BY <2>3, <3>1, <3>2, <1>3
  <2>4. CASE s \in Rebuilds(ready) /\ t \notin Rebuilds(ready)
    BY <2>4, <1>1, <1>2, <1>3, <1>4, <1>5
  <2>5. CASE s \notin Rebuilds(ready) /\ t \in Rebuilds(ready)
    BY <2>5, <1>1, <1>2, <1>3, <1>4, <1>5
  <2>6. CASE \/ s \in Refreshes(nearest) /\ t \in Creations(fresh)
             \/ t \in Refreshes(nearest) /\ s \in Creations(fresh)
    BY <2>6, <1>1, <1>3
  <2>. QED
    BY <2>1, <2>2, <2>3, <2>4, <2>5, <2>6
<1>8. ASSUME NEW s \in T, NEW t \in T, s # t, s.kind = "rebuild", t.kind = "rebuild"
      PROVE  s.id # t.id
  <2>1. s \in Rebuilds(ready) /\ t \in Rebuilds(ready)
    BY <1>1, <1>3, <1>8
  <2>. QED
    BY <2>1, <1>2, <1>8
<1>. QED
  BY <1>6, <1>7, <1>8 DEF Apart

\* The holder's next task stands, and the others are apart from it.
LEMMA DoingStands ==
  ASSUME Shapes, PlansStand, NEW a \in Aggregators, NEW t \in unit[a].tasks, HasPlan(a)
  PROVE  /\ t.id \in Ids /\ t.members \in SUBSET Playbooks /\ t.members # {}
         /\ TaskStands(t)
         /\ \A s \in unit[a].tasks : s # t =>
              /\ s.members \in SUBSET Playbooks
              /\ TaskStands(s) /\ s.members \cap t.members = {}
              /\ s.kind = "rebuild" /\ t.kind = "rebuild" => s.id # t.id
<1>1. \A s \in unit[a].tasks : s.id \in Ids /\ s.members \in Ids
  BY TasksAreTasks
<1>. QED
  BY <1>1 DEF PlansStand, Apart, Ids

\* A task done leaves the others of its thread, which holds the lease.
LEMMA DonePlans ==
  ASSUME Shapes, PlansStand, NEW a \in Aggregators, NEW t \in unit[a].tasks, HasPlan(a),
         Done(a, t),
         \A s \in unit[a].tasks : s # t => TaskStands(s)'
  PROVE  PlansStand'
<1>1. /\ \A b \in Aggregators :
           /\ unit'[b].tasks = IF b = a THEN unit[b].tasks \ {t} ELSE unit[b].tasks
           /\ unit'[b].phase = unit[b].phase
      /\ claimed' = claimed
  BY DoneUnits
<1>2. \A b \in Aggregators : HasPlan(b)' =>
        b = a /\ HasPlan(b) /\ unit'[b].tasks = unit[b].tasks \ {t}
  BY <1>1 DEF HasPlan
<1>. QED
  BY <1>2, PlansShrink
\* The cluster of no item has no row.
LEMMA NoClusterIsNoId ==
  /\ NoCluster \notin Ids /\ NoCluster \notin Stored /\ NoCluster \notin Broken
  /\ Broken \subseteq Stored /\ Stored \subseteq Ids
BY DEF NoCluster, Ids, Stored, Broken

\* Writers of playbooks and steps of the claim leave items and plans standing.
LEMMA QuietMovesStand ==
  ASSUME Shapes, ItemsMatch, PlansStand, PlaybooksMove \/ ClaimMoves
  PROVE  ItemsMatch' /\ PlansStand'
<1>1. UNCHANGED <<item, cluster>>
  BY DEF PlaybooksMove, ClaimMoves, rows
<1>2. ItemsMatch'
  BY <1>1 DEF ItemsMatch, Stored, Broken
<1>3. ASSUME NEW a \in Aggregators, HasPlan(a)'
      PROVE  HasPlan(a) /\ unit'[a].tasks \subseteq unit[a].tasks
  <2>1. CASE PlaybooksMove
    BY <1>3, <2>1, OutdatedUnits DEF PlaybooksMove, HasPlan, Shapes
  <2>2. CASE ClaimMoves
    BY <1>3, <2>2 DEF ClaimMoves, HasPlan
  <2>. QED
    BY <2>1, <2>2
<1>4. ASSUME NEW a \in Aggregators, NEW t \in unit[a].tasks, TaskStands(t)
      PROVE  TaskStands(t)'
  <2>1. t.members \subseteq Playbooks
    BY TasksAreTasks DEF Ids
  <2>2. \A p \in t.members :
          playbook[p] = "current" \/ p \in Named(stale) =>
            playbook'[p] = "current" \/ p \in Named(stale')
    BY <2>1, NamedGrows DEF PlaybooksMove, ClaimMoves, rows
  <2>. QED
    BY <1>1, <1>4, <2>2 DEF TaskStands, Broken
<1>5. PlansStand'
  BY <1>3, <1>4, PlansShrink DEF PlansStand
<1>. QED
  BY <1>2, <1>5

\* An edited, rejected or approved agent playbook takes its clusters along.
LEMMA AgentMovesStand ==
  ASSUME Shapes, ItemsMatch, PlansStand, NEW g \in AgentIds, EditAgent(g) \/ ApproveAgent(g)
  PROVE  ItemsMatch' /\ PlansStand'
<1>1. CASE ApproveAgent(g)
  BY <1>1 DEF ApproveAgent, ItemsMatch, PlansStand, TaskStands, Apart, HasPlan, Stored, Broken
<1>2. CASE EditAgent(g)
  <2>. DEFINE lost == {c \in Stored : cluster[c].agent = g}
  <2>1. /\ item' = [p \in Playbooks |-> IF item[p].of \in lost THEN Residual ELSE item[p]]
        /\ cluster' = [c \in Ids |-> IF c \in lost THEN NoRow ELSE cluster[c]]
        /\ UNCHANGED <<playbook, stale, claimed, unit>>
    BY <1>2 DEF EditAgent, Retire
  <2>2. lost \subseteq Stored
    OBVIOUS
  <2>. HIDE DEF lost
  <2>3. Stored' = Stored \ lost /\ Broken' = Broken \ lost
    BY <2>1, <2>2 DEF Stored, Broken, NoRow
  <2>4. ItemsMatch'
    BY <2>1, <2>2, <2>3, NoClusterIsNoId DEF ItemsMatch, Residual
  <2>5. ASSUME NEW t, t.members \subseteq Playbooks, TaskStands(t)
        PROVE  TaskStands(t)'
    BY <2>1, <2>3, <2>5, NoClusterIsNoId DEF TaskStands, Residual
  <2>6. PlansStand'
    <3>1. \A a \in Aggregators : \A t \in unit[a].tasks : t.members \subseteq Playbooks
      BY TasksAreTasks DEF Ids
    <3>. QED
      BY <2>1, <2>5, <3>1, PlansShrink DEF PlansStand, HasPlan
  <2>. QED
    BY <2>4, <2>6
<1>. QED
  BY <1>1, <1>2

\* Where an item is once a batch has been applied.
LEMMA ReleasedPlaces ==
  ASSUME Shapes, NEW batch \in SUBSET stale, NEW p \in Playbooks
  PROVE  LET new == Released(batch, Hit(batch))[p] IN
         \/ new.is = "residual" /\ new.of \in Hit(batch) /\ p \in Current /\ p \in Named(batch)
         \/ new = NoItem /\ p \in Named(batch)
         \/ new = [item[p] EXCEPT !.is = "residual"] /\ item[p].of \in Hit(batch) /\ p \notin Named(batch)
         \/ new = item[p] /\ item[p].of \notin Hit(batch) /\ p \notin Named(batch)
<1>. DEFINE new == Released(batch, Hit(batch))[p]
<1>1. CASE \E c \in Hit(batch) : p \in Heirs(batch, c)
  <2>1. /\ (CHOOSE c \in Hit(batch) : p \in Heirs(batch, c)) \in Hit(batch)
        /\ p \in Current /\ p \in Named(batch)
    BY <1>1, NamedByRow DEF Heirs
  <2>. QED
    BY <1>1, <2>1 DEF Released
<1>2. CASE ~\E c \in Hit(batch) : p \in Heirs(batch, c)
  BY <1>2 DEF Released
<1>. QED
  BY <1>1, <1>2

\* An applied batch breaks up the clusters of what it names, under a lease
\* that has planned nothing.
LEMMA AppliedStands ==
  ASSUME Shapes, ItemsMatch, PlansStand, NEW a \in Aggregators, NEW batch \in SUBSET stale,
         ApplyInvalidations(a, batch)
  PROVE  ItemsMatch' /\ PlansStand'
<1>. DEFINE hit == Hit(batch)
<1>1. /\ item' = Released(batch, hit)
      /\ cluster' = [c \in Ids |-> IF c \in hit
           THEN [cluster[c] EXCEPT !.state = "rebuilding", !.count = 0] ELSE cluster[c]]
  BY DEF ApplyInvalidations, Hit
<1>2. hit \subseteq Stored
  BY HitClusters DEF Hit, ItemsMatch
<1>3. Stored' = Stored /\ Broken' = Broken \cup hit
  BY <1>1, <1>2, ZenonT(40) DEF Stored, Broken, Shapes, Row
<1>4. ItemsMatch'
  <2>. SUFFICES ASSUME NEW p \in Playbooks
                PROVE  /\ item'[p].is \in {"none", "terminal"} => item'[p].of = NoCluster
                       /\ item'[p].is = "member" => item'[p].of \in Stored \ (Broken \cup hit)
                       /\ item'[p].of \in Stored \cup {NoCluster}
                       /\ item'[p].of \in Stored \ (Broken \cup hit) =>
                            item'[p].is = "member" \/ cluster'[item'[p].of].over
    BY <1>3 DEF ItemsMatch
  <2>1. item[p] \in Item
    BY DEF Shapes
  <2>2. CASE item'[p].is = "residual" /\ item'[p].of \in hit
    BY <1>2, <2>2
  <2>3. CASE item'[p] = NoItem
    BY <2>3, NoClusterIsNoId DEF NoItem
  <2>4. CASE item'[p] = [item[p] EXCEPT !.is = "residual"] /\ item[p].of \in hit
    BY <1>2, <2>1, <2>4 DEF Item
  <2>5. CASE item'[p] = item[p] /\ item[p].of \notin hit
    BY <1>1, <2>5, NoClusterIsNoId DEF ItemsMatch
  <2>. QED
    BY <1>1, <2>2, <2>3, <2>4, <2>5, ReleasedPlaces
<1>5. PlansStand'
  <2>1. PICK phase \in {"applied", "swept"} : Step(a, phase)
    BY DEF ApplyInvalidations, Applied
  <2>2. claimed = a
    BY DEF ApplyInvalidations, Applied, ClaimIsLive
  <2>3. \A b \in Aggregators : ~HasPlan(b)'
    BY <2>1, <2>2, StepUnits DEF HasPlan
  <2>. QED
    BY <2>3 DEF PlansStand
<1>. QED
  BY <1>4, <1>5

\* Staging gives a waiting row to playbooks that have none, which no plan names.
LEMMA StagedStands ==
  ASSUME Shapes, ItemsMatch, PlansStand, NEW a \in Aggregators, Stage(a)
  PROVE  ItemsMatch' /\ PlansStand'
<1>1. /\ item' = [p \in Playbooks |-> IF p \in Undisposed THEN Residual ELSE item[p]]
      /\ UNCHANGED <<playbook, cluster, stale, claimed>>
  BY DEF Stage, Step
<1>2. Stored' = Stored /\ Broken' = Broken
  BY <1>1 DEF Stored, Broken
<1>3. ItemsMatch'
  BY <1>1, <1>2, NoClusterIsNoId DEF ItemsMatch, Residual
<1>4. ASSUME NEW t, t.members \subseteq Playbooks, TaskStands(t)
      PROVE  TaskStands(t)'
  BY <1>1, <1>2, <1>4 DEF TaskStands, Undisposed
<1>5. \A b \in Aggregators : HasPlan(b)' => HasPlan(b) /\ unit'[b].tasks = unit[b].tasks
  BY <1>1, StepUnits DEF Stage, HasPlan
<1>6. \A b \in Aggregators : \A t \in unit[b].tasks : t.members \subseteq Playbooks
  BY TasksAreTasks DEF Ids
<1>7. PlansStand'
  BY <1>4, <1>5, <1>6, PlansShrink DEF PlansStand
<1>. QED
  BY <1>3, <1>7

\* A plan stands when it is made.
LEMMA PlannedStands ==
  ASSUME Shapes, ItemsMatch, PlansStand, NEW a \in Aggregators, Plan(a)
  PROVE  ItemsMatch' /\ PlansStand'
<1>1. UNCHANGED <<playbook, item, cluster, stale, claimed>>
  BY DEF Plan, rows
<1>2. ItemsMatch'
  BY <1>1 DEF ItemsMatch, Stored, Broken
<1>3. \A t : TaskStands(t) => TaskStands(t)'
  BY <1>1 DEF TaskStands, Broken
<1>4. PICK matched \in SUBSET Matchable, ready \in SUBSET Rebuildable :
        \E nearest \in [matched -> Stored \ Broken], fresh \in Clusterings(Matchable \ matched) :
          unit'[a].tasks = Refreshes(nearest) \cup Rebuilds(ready) \cup Creations(fresh)
  BY PlanUnits, Zenon
<1>5. PICK nearest \in [matched -> Stored \ Broken], fresh \in Clusterings(Matchable \ matched) :
        unit'[a].tasks = Refreshes(nearest) \cup Rebuilds(ready) \cup Creations(fresh)
  BY <1>4, Zenon
<1>6. \A t \in unit'[a].tasks : TaskStands(t) /\ \A s \in unit'[a].tasks : Apart(s, t)
  BY <1>5, FreshPlanStands
<1>7. \A b \in Aggregators \ {a} : unit'[b] = unit[b]
  BY PlanUnits
<1>8. PlansStand'
  BY <1>1, <1>3, <1>6, <1>7 DEF PlansStand, HasPlan, Apart
<1>. QED
  BY <1>2, <1>8

\* The sweep takes rows that no item names, and ends the unit.
LEMMA SweptStands ==
  ASSUME Shapes, ItemsMatch, PlansStand, NEW a \in Aggregators, Sweep(a)
  PROVE  ItemsMatch' /\ PlansStand'
<1>1. /\ cluster' = [c \in Ids |-> IF c \in Orphans THEN NoRow ELSE cluster[c]]
      /\ UNCHANGED item
  BY DEF Sweep
<1>2. Orphans \subseteq Broken /\ \A p \in Playbooks : item[p].of \notin Orphans
  BY DEF Orphans, ItemsOf
<1>3. Stored' = Stored \ Orphans /\ Broken' = Broken \ Orphans
  BY <1>1, <1>2, NoClusterIsNoId DEF Stored, Broken, NoRow
<1>4. ItemsMatch'
  BY <1>1, <1>2, <1>3, NoClusterIsNoId DEF ItemsMatch
<1>5. \A b \in Aggregators : ~HasPlan(b)'
  BY DEF Sweep, Validated, ClaimIsLive, HasPlan, Shapes, Unit
<1>. QED
  BY <1>4, <1>5 DEF PlansStand
\* Putting waiting members back, or setting them aside, touches no other task.
LEMMA PutBackStands ==
  ASSUME Shapes, ItemsMatch, PlansStand, NEW a \in Aggregators, NEW t \in unit[a].tasks,
         PutBack(a, t)
  PROVE  ItemsMatch' /\ PlansStand'
<1>1. HasPlan(a) /\ Done(a, t) /\ cluster' = cluster
  BY DEF PutBack, HasPlan
<1>2. PICK as \in {Residual, Terminal} : item' = Disposed(t.members, as)
  BY DEF PutBack
<1>3. as.is \in {"residual", "terminal"} /\ as.of = NoCluster
  <2>1. /\ Residual.is = "residual" /\ Residual.of = NoCluster
        /\ Terminal.is = "terminal" /\ Terminal.of = NoCluster
    BY DEF Residual, Terminal
  <2>. QED
    BY <2>1
<1>4. \A p \in Playbooks : item'[p] = as \/ item'[p] = item[p]
  BY <1>2 DEF Disposed
<1>5. Stored' = Stored /\ Broken' = Broken
  BY <1>1 DEF Stored, Broken
<1>6. ItemsMatch'
  BY <1>1, <1>3, <1>4, <1>5, NoClusterIsNoId DEF ItemsMatch
<1>7. ASSUME NEW s \in unit[a].tasks, s # t
      PROVE  TaskStands(s)'
  <2>1. /\ s.members \subseteq Playbooks /\ TaskStands(s) /\ s.members \cap t.members = {}
    BY <1>1, <1>7, DoingStands
  <2>2. \A p \in s.members : item'[p] = item[p]
    BY <1>2, <2>1 DEF Disposed
  <2>3. UNCHANGED <<playbook, stale>>
    BY <1>1 DEF Done
  <2>. QED
    BY <1>5, <2>1, <2>2, <2>3 DEF TaskStands
<1>8. PlansStand'
  BY <1>1, <1>7, DonePlans
<1>. QED
  BY <1>6, <1>8

\* Attached members leave the residue of their own task only.
LEMMA RefreshStands ==
  ASSUME Shapes, ItemsMatch, PlansStand, NEW a \in Aggregators, NEW t \in unit[a].tasks,
         Refresh(a, t)
  PROVE  ItemsMatch' /\ PlansStand'
<1>1. HasPlan(a) /\ Done(a, t) /\ cluster[t.id].state = "active"
  BY DEF Refresh, Doing, Validated, ClaimIsLive, Attachable, HasPlan
<1>2. t.id \in Ids /\ t.members \subseteq Playbooks
  BY TasksAreTasks DEF Ids
<1>3. item' = [p \in Playbooks |->
        IF p \in t.members THEN [is |-> "member", of |-> t.id] ELSE item[p]]
  BY DEF Refresh
<1>4. \A c \in Ids : cluster'[c].state = cluster[c].state /\ cluster'[c].over = cluster[c].over
  <2>1. PICK g : cluster' = [cluster EXCEPT ![t.id].count = @ + Cardinality(t.members),
                                            ![t.id].agent = IF g = t.agent THEN @ ELSE g]
    BY DEF Refresh
  <2>. QED
    BY <1>2, <2>1 DEF Shapes, Row
<1>5. Stored' = Stored /\ Broken' = Broken /\ t.id \in Stored \ Broken
  BY <1>1, <1>2, <1>4 DEF Stored, Broken
<1>6. ItemsMatch'
  BY <1>3, <1>4, <1>5, NoClusterIsNoId DEF ItemsMatch
<1>7. ASSUME NEW s \in unit[a].tasks, s # t
      PROVE  TaskStands(s)'
  <2>1. s.members \subseteq Playbooks /\ TaskStands(s) /\ s.members \cap t.members = {}
    BY <1>1, <1>7, DoingStands
  <2>2. \A p \in s.members : item'[p] = item[p]
    BY <1>3, <2>1
  <2>3. UNCHANGED <<playbook, stale>>
    BY <1>1 DEF Done
  <2>. QED
    BY <1>5, <2>1, <2>2, <2>3 DEF TaskStands
<1>8. PlansStand'
  BY <1>1, <1>7, DonePlans
<1>. QED
  BY <1>6, <1>8

\* No other task of a plan has members in the cluster that one repairs.
LEMMA RepairedApart ==
  ASSUME Shapes, ItemsMatch, PlansStand, NEW a \in Aggregators, NEW t \in unit[a].tasks,
         HasPlan(a), t.kind = "rebuild", Rebuilding(t)
  PROVE  /\ t.id \in Broken
         /\ \A s \in unit[a].tasks : s # t =>
              /\ s.members \subseteq Playbooks /\ TaskStands(s)
              /\ s.members \cap ItemsOf(t.id) = {}
<1>1. t.id \in Broken /\ t.id # NoCluster
  BY DoingStands, NoClusterIsNoId DEF Rebuilding, Broken
<1>. SUFFICES ASSUME NEW s \in unit[a].tasks, s # t
              PROVE  /\ s.members \subseteq Playbooks /\ TaskStands(s)
                     /\ s.members \cap ItemsOf(t.id) = {}
  BY <1>1
<1>2. /\ s.members \subseteq Playbooks /\ TaskStands(s)
      /\ s.kind = "rebuild" => s.id # t.id
  BY DoingStands
<1>3. \A p \in s.members : item[p].of # t.id
  BY <1>1, <1>2 DEF TaskStands
<1>. QED
  BY <1>2, <1>3 DEF ItemsOf

\* A repaired cluster has all of its stored members back.
LEMMA RebuildStands ==
  ASSUME Shapes, ItemsMatch, PlansStand, NEW a \in Aggregators, NEW t \in unit[a].tasks,
         Rebuild(a, t)
  PROVE  ItemsMatch' /\ PlansStand'
<1>1. HasPlan(a) /\ Done(a, t) /\ t.kind = "rebuild" /\ Rebuilding(t)
  BY DEF Rebuild, Doing, Validated, ClaimIsLive, HasPlan
<1>2. t.id \in Broken /\ t.id \in Ids
  BY <1>1, RepairedApart, NoClusterIsNoId
<1>3. item' = [p \in Playbooks |->
        IF p \in Restored(t) THEN [item[p] EXCEPT !.is = "member"] ELSE item[p]]
  BY DEF Rebuild
<1>4. PICK g : cluster' = [cluster EXCEPT ![t.id] = [state |-> "active", agent |-> g,
                                   count |-> Cardinality(Restored(t)), over |-> FALSE]]
  BY DEF Rebuild
<1>5. Stored' = Stored /\ Broken' = Broken \ {t.id}
  BY <1>2, <1>4 DEF Stored, Broken, Shapes
<1>6. ItemsMatch'
  <2>. SUFFICES ASSUME NEW p \in Playbooks
                PROVE  /\ item'[p].is \in {"none", "terminal"} => item'[p].of = NoCluster
                       /\ item'[p].is = "member" => item'[p].of \in Stored \ (Broken \ {t.id})
                       /\ item'[p].of \in Stored \cup {NoCluster}
                       /\ item'[p].of \in Stored \ (Broken \ {t.id}) =>
                            item'[p].is = "member" \/ cluster'[item'[p].of].over
    BY <1>5 DEF ItemsMatch
  <2>1. item[p] \in Item
    BY DEF Shapes
  <2>2. CASE item[p].of = t.id
    <3>1. item'[p].is = "member" /\ item'[p].of = t.id
      BY <1>3, <2>1, <2>2 DEF Restored, ItemsOf, Item
    <3>. QED
      BY <1>2, <3>1, NoClusterIsNoId
  <2>3. CASE item[p].of # t.id
    <3>1. item'[p] = item[p]
      BY <1>3, <2>3 DEF Restored, ItemsOf
    <3>2. item[p].of \in Ids => cluster'[item[p].of] = cluster[item[p].of]
      BY <1>4, <2>3 DEF Shapes
    <3>. QED
      BY <2>3, <3>1, <3>2, NoClusterIsNoId DEF ItemsMatch
  <2>. QED
    BY <2>2, <2>3
<1>7. ASSUME NEW s \in unit[a].tasks, s # t
      PROVE  TaskStands(s)'
  <2>1. s.members \subseteq Playbooks /\ TaskStands(s) /\ s.members \cap Restored(t) = {}
    BY <1>1, <1>7, RepairedApart DEF Restored
  <2>2. \A p \in s.members : item'[p] = item[p]
    BY <1>3, <2>1
  <2>3. UNCHANGED <<playbook, stale>>
    BY <1>1 DEF Done
  <2>. QED
    BY <1>5, <2>1, <2>2, <2>3 DEF TaskStands
<1>8. PlansStand'
  BY <1>1, <1>7, DonePlans
<1>. QED
  BY <1>6, <1>8

\* A discarded cluster leaves no item that names it.
LEMMA DiscardStands ==
  ASSUME Shapes, ItemsMatch, PlansStand, NEW a \in Aggregators, NEW t \in unit[a].tasks,
         Discard(a, t)
  PROVE  ItemsMatch' /\ PlansStand'
<1>1. HasPlan(a) /\ Done(a, t) /\ t.kind = "rebuild" /\ Rebuilding(t)
  BY DEF Discard, Doing, Validated, ClaimIsLive, HasPlan
<1>2. t.id \in Broken /\ t.id \in Ids
  BY <1>1, RepairedApart, NoClusterIsNoId
<1>3. item' = Disposed(ItemsOf(t.id), Terminal) /\ cluster' = [cluster EXCEPT ![t.id] = NoRow]
  BY DEF Discard
<1>4. Stored' = Stored \ {t.id} /\ Broken' = Broken \ {t.id}
  BY <1>2, <1>3 DEF Stored, Broken, Shapes, NoRow
<1>5. \A p \in Playbooks :
        item'[p] = IF item[p].of = t.id THEN Terminal ELSE item[p]
  <2>1. \A p \in Playbooks : item[p].of = t.id => item[p].is # "none"
    BY <1>2, NoClusterIsNoId DEF ItemsMatch
  <2>. QED
    BY <1>3, <2>1 DEF Disposed, ItemsOf
<1>6. \A c \in Ids \ {t.id} : cluster'[c] = cluster[c]
  BY <1>3 DEF Shapes
<1>7. ItemsMatch'
  BY <1>4, <1>5, <1>6, NoClusterIsNoId DEF ItemsMatch, Terminal
<1>8. ASSUME NEW s \in unit[a].tasks, s # t
      PROVE  TaskStands(s)'
  <2>1. s.members \subseteq Playbooks /\ TaskStands(s) /\ s.members \cap ItemsOf(t.id) = {}
    BY <1>1, <1>8, RepairedApart
  <2>2. \A p \in s.members : item'[p] = item[p]
    BY <1>5, <2>1 DEF ItemsOf
  <2>3. UNCHANGED <<playbook, stale>>
    BY <1>1 DEF Done
  <2>. QED
    BY <1>4, <2>1, <2>2, <2>3 DEF TaskStands
<1>9. PlansStand'
  BY <1>1, <1>8, DonePlans
<1>. QED
  BY <1>7, <1>9

\* The members of a task that may be committed all have a row.
LEMMA WaitingMembersHaveRows ==
  ASSUME Shapes, PlansStand, NEW a \in Aggregators, NEW t \in unit[a].tasks, HasPlan(a),
         NEW as
  PROVE  Disposed(t.members, as) =
           [p \in Playbooks |-> IF p \in t.members THEN as ELSE item[p]]
BY DoingStands DEF Disposed, TaskStands

\* A new cluster has its members, and those of a row it was created over.
LEMMA CreateStands ==
  ASSUME Shapes, ItemsMatch, PlansStand, NEW a \in Aggregators, NEW t \in unit[a].tasks,
         Create(a, t)
  PROVE  ItemsMatch' /\ PlansStand'
<1>1. HasPlan(a) /\ Done(a, t)
  BY DEF Create, Doing, Validated, ClaimIsLive, HasPlan
<1>2. t.id \in Ids /\ t.members \subseteq Playbooks
  BY TasksAreTasks DEF Ids
<1>3. item' = [p \in Playbooks |->
        IF p \in t.members THEN [is |-> "member", of |-> t.id] ELSE item[p]]
  BY <1>1, WaitingMembersHaveRows DEF Create
<1>4. PICK g : cluster' = [cluster EXCEPT ![t.id] = [state |-> "active", agent |-> g,
                        count |-> Cardinality(t.members), over |-> t.id \in Stored]]
  BY DEF Create
<1>5. Stored' = Stored \cup {t.id} /\ Broken' = Broken \ {t.id}
  BY <1>2, <1>4 DEF Stored, Broken, Shapes
<1>6. ItemsMatch'
  <2>. SUFFICES ASSUME NEW p \in Playbooks
                PROVE  /\ item'[p].is \in {"none", "terminal"} => item'[p].of = NoCluster
                       /\ item'[p].is = "member" => item'[p].of \in Stored' \ Broken'
                       /\ item'[p].of \in Stored' \cup {NoCluster}
                       /\ item'[p].of \in Stored' \ Broken' =>
                            item'[p].is = "member" \/ cluster'[item'[p].of].over
    BY DEF ItemsMatch
  <2>1. CASE p \in t.members
    BY <1>2, <1>3, <1>5, <2>1, NoClusterIsNoId
  <2>2. CASE p \notin t.members /\ item[p].of = t.id
    <3>1. item'[p] = item[p] /\ t.id \in Stored
      BY <1>2, <1>3, <2>2, NoClusterIsNoId DEF ItemsMatch
    <3>2. cluster'[t.id].over
      BY <1>2, <1>4, <3>1 DEF Shapes
    <3>. QED
      BY <1>5, <2>2, <3>1, <3>2, NoClusterIsNoId DEF ItemsMatch
  <2>3. CASE p \notin t.members /\ item[p].of # t.id
    <3>1. item'[p] = item[p]
      BY <1>3, <2>3
    <3>2. item[p].of \in Ids => cluster'[item[p].of] = cluster[item[p].of]
      BY <1>4, <2>3 DEF Shapes
    <3>. QED
      BY <1>5, <2>3, <3>1, <3>2, NoClusterIsNoId DEF ItemsMatch
  <2>. QED
    BY <2>1, <2>2, <2>3
<1>7. ASSUME NEW s \in unit[a].tasks, s # t
      PROVE  TaskStands(s)'
  <2>1. s.members \subseteq Playbooks /\ TaskStands(s) /\ s.members \cap t.members = {}
    BY <1>1, <1>7, DoingStands
  <2>2. \A p \in s.members : item'[p] = item[p]
    BY <1>3, <2>1
  <2>3. UNCHANGED <<playbook, stale>>
    BY <1>1 DEF Done
  <2>. QED
    BY <1>5, <2>1, <2>2, <2>3 DEF TaskStands
<1>8. PlansStand'
  BY <1>1, <1>7, DonePlans
<1>. QED
  BY <1>6, <1>8

\* Items and clusters agree after every step, and every plan stands.
LEMMA StandingKept ==
  ASSUME Shapes, ItemsMatch, PlansStand, [AggregationNext]_aggVars
  PROVE  ItemsMatch' /\ PlansStand'
<1>1. Move
  BY EveryStepMoves
<1>2. ASSUME NEW a \in Aggregators, NEW t \in unit[a].tasks, Effect(a, t)
      PROVE  ItemsMatch' /\ PlansStand'
  BY <1>2, RefreshStands, RebuildStands, DiscardStands, CreateStands, PutBackStands, Zenon
     DEF Effect
<1>. QED
  BY <1>1, <1>2, QuietMovesStand, AgentMovesStand, AppliedStands, StagedStands, PlannedStands,
     SweptStands, Zenon DEF Move
-----------------------------------------------------------------------------
(* Member counts.                                                          *)

MembersOf(c) == {p \in Playbooks : item[p] = [is |-> "member", of |-> c]}

\* An active cluster counts its members; one created over another counts at
\* most those it has.
CountsMatch ==
  \A c \in Stored \ Broken :
    /\ cluster[c].count <= Cardinality(MembersOf(c))
    /\ cluster[c].over \/ cluster[c].count = Cardinality(MembersOf(c))

\* Every item of an active cluster that was not created over another is a member.
LEMMA ItemsAreMembers ==
  ASSUME Shapes, ItemsMatch, NEW c \in Stored \ Broken, ~cluster[c].over
  PROVE  ItemsOf(c) = MembersOf(c)
BY DEF Shapes, ItemsMatch, Item, ItemsOf, MembersOf

\* A step keeps the count of an active cluster it neither touches nor moves
\* members in or out of.
LEMMA UntouchedCount ==
  ASSUME CountsMatch, NEW c \in Stored \ Broken, cluster'[c] = cluster[c],
         \A p \in Playbooks :
           item'[p] = [is |-> "member", of |-> c] <=> item[p] = [is |-> "member", of |-> c]
  PROVE  /\ cluster'[c].count <= Cardinality(MembersOf(c)')
         /\ cluster'[c].over \/ cluster'[c].count = Cardinality(MembersOf(c)')
<1>1. MembersOf(c)' = MembersOf(c)
  BY DEF MembersOf
<1>. QED
  BY <1>1 DEF CountsMatch

\* Taking on members that were outside adds their number.
LEMMA JoinedCount ==
  ASSUME NEW M \in SUBSET Playbooks, NEW N \in SUBSET Playbooks, M \cap N = {}
  PROVE  Cardinality(M \cup N) = Cardinality(M) + Cardinality(N)
<1>1. /\ IsFiniteSet(M) /\ IsFiniteSet(N) /\ Cardinality(M \cap N) = 0
      /\ Cardinality(M) \in Nat /\ Cardinality(N) \in Nat
  BY PlaybookSetsAreFinite
<1>2. Cardinality(M \cup N) = Cardinality(M) + Cardinality(N) - Cardinality(M \cap N)
  BY <1>1, FS_Union
<1>. QED
  BY <1>1, <1>2

\* The counts of all clusters but those a step touches.
LEMMA OtherCounts ==
  ASSUME Shapes, CountsMatch, NEW touched \in SUBSET Ids,
         \A c \in Stored' \ Broken' : c \notin touched =>
           /\ c \in Stored \ Broken /\ cluster'[c] = cluster[c]
           /\ \A p \in Playbooks :
                item'[p] = [is |-> "member", of |-> c] <=> item[p] = [is |-> "member", of |-> c],
         \A c \in touched : c \in Stored' \ Broken' =>
           /\ cluster'[c].count <= Cardinality(MembersOf(c)')
           /\ cluster'[c].over \/ cluster'[c].count = Cardinality(MembersOf(c)')
  PROVE  CountsMatch'
BY UntouchedCount DEF CountsMatch

\* The counts after a step that touches one cluster.
LEMMA TouchedCount ==
  ASSUME Shapes, CountsMatch, NEW d \in Ids,
         \A c \in Stored' \ Broken' : c # d =>
           /\ c \in Stored \ Broken /\ cluster'[c] = cluster[c]
           /\ \A p \in Playbooks :
                item'[p] = [is |-> "member", of |-> c] <=> item[p] = [is |-> "member", of |-> c],
         d \in Stored' \ Broken' =>
           /\ cluster'[d].count <= Cardinality(MembersOf(d)')
           /\ cluster'[d].over \/ cluster'[d].count = Cardinality(MembersOf(d)')
  PROVE  CountsMatch'
<1>. SUFFICES ASSUME NEW c \in Stored' \ Broken'
              PROVE  /\ cluster'[c].count <= Cardinality(MembersOf(c)')
                     /\ cluster'[c].over \/ cluster'[c].count = Cardinality(MembersOf(c)')
  BY DEF CountsMatch
<1>1. CASE c = d
  BY <1>1
<1>2. CASE c # d
  BY <1>2, UntouchedCount
<1>. QED
  BY <1>1, <1>2

\* Nothing that leaves items and clusters alone changes a count.
LEMMA QuietCounts ==
  ASSUME CountsMatch, UNCHANGED <<item, cluster>>
  PROVE  CountsMatch'
BY DEF CountsMatch, MembersOf, Stored, Broken

\* The steps outside outcomes end clusters, and take no member from another.
LEMMA TableCounts ==
  ASSUME Shapes, ItemsMatch, CountsMatch,
         \/ \E g \in AgentIds : EditAgent(g)
         \/ \E a \in Aggregators :
              \/ \E batch \in SUBSET stale : ApplyInvalidations(a, batch)
              \/ Stage(a) \/ Sweep(a)
  PROVE  CountsMatch'
<1>1. ASSUME NEW g \in AgentIds, EditAgent(g)
      PROVE  CountsMatch'
  <2>. DEFINE lost == {c \in Stored : cluster[c].agent = g}
  <2>1. /\ item' = [p \in Playbooks |-> IF item[p].of \in lost THEN Residual ELSE item[p]]
        /\ cluster' = [c \in Ids |-> IF c \in lost THEN NoRow ELSE cluster[c]]
    BY <1>1 DEF EditAgent, Retire
  <2>2. lost \subseteq Ids
    BY NoClusterIsNoId
  <2>. HIDE DEF lost
  <2>3. Stored' = Stored \ lost /\ Broken' = Broken \ lost
    BY <2>1, <2>2 DEF Stored, Broken, NoRow
  <2>4. ASSUME NEW c \in Ids \ lost, NEW p \in Playbooks
        PROVE  item'[p] = [is |-> "member", of |-> c] <=> item[p] = [is |-> "member", of |-> c]
    BY <2>1, <2>4 DEF Residual
  <2>. QED
    BY <2>1, <2>2, <2>3, <2>4, OtherCounts, NoClusterIsNoId
<1>2. ASSUME NEW a \in Aggregators, NEW batch \in SUBSET stale, ApplyInvalidations(a, batch)
      PROVE  CountsMatch'
  <2>. DEFINE hit == Hit(batch)
  <2>1. /\ item' = Released(batch, hit)
        /\ cluster' = [c \in Ids |-> IF c \in hit
             THEN [cluster[c] EXCEPT !.state = "rebuilding", !.count = 0] ELSE cluster[c]]
    BY <1>2 DEF ApplyInvalidations, Hit
  <2>2. hit \subseteq Ids
    BY HitClusters
  <2>3. \A c \in hit : c \in Broken'
    BY <2>1, <2>2 DEF Broken, Shapes, Row
  <2>4. ASSUME NEW c \in Ids \ hit
        PROVE  cluster'[c] = cluster[c] /\ (c \in Stored' \ Broken' => c \in Stored \ Broken)
    BY <2>1, <2>4 DEF Stored, Broken
  <2>5. ASSUME NEW c \in Ids \ hit, NEW p \in Playbooks
        PROVE  item'[p] = [is |-> "member", of |-> c] <=> item[p] = [is |-> "member", of |-> c]
    <3>1. item[p] \in Item
      BY DEF Shapes
    <3>2. p \in Named(batch) => item[p].of \in hit \cup {NoCluster}
      BY DEF Hit
    <3>3. c # NoCluster
      BY NoClusterIsNoId
    <3>4. CASE item'[p].is = "residual" /\ item'[p].of \in hit /\ p \in Named(batch)
      BY <2>5, <3>2, <3>3, <3>4
    <3>5. CASE item'[p] = NoItem /\ p \in Named(batch)
      BY <2>5, <3>2, <3>3, <3>5 DEF NoItem
    <3>6. CASE item'[p] = [item[p] EXCEPT !.is = "residual"] /\ item[p].of \in hit
      BY <2>5, <3>1, <3>6 DEF Item
    <3>7. CASE item'[p] = item[p]
      BY <3>7
    <3>. QED
      BY <2>1, <3>4, <3>5, <3>6, <3>7, ReleasedPlaces
  <2>. QED
    BY <2>2, <2>3, <2>4, <2>5, OtherCounts, NoClusterIsNoId DEF Stored
<1>3. ASSUME NEW a \in Aggregators, Stage(a)
      PROVE  CountsMatch'
  <2>1. /\ item' = [p \in Playbooks |-> IF p \in Undisposed THEN Residual ELSE item[p]]
        /\ UNCHANGED cluster
    BY <1>3 DEF Stage
  <2>2. \A p \in Playbooks : item'[p] = item[p] \/ (item[p].is # "member" /\ item'[p].is # "member")
    BY <2>1 DEF Undisposed, Residual
  <2>3. ASSUME NEW c \in Ids, NEW p \in Playbooks
        PROVE  item'[p] = [is |-> "member", of |-> c] <=> item[p] = [is |-> "member", of |-> c]
    BY <2>2
  <2>4. \A c \in Stored' \ Broken' : c \in Stored \ Broken
    BY <2>1 DEF Stored, Broken
  <2>. QED
    BY <2>1, <2>3, <2>4, OtherCounts, NoClusterIsNoId
<1>4. ASSUME NEW a \in Aggregators, Sweep(a)
      PROVE  CountsMatch'
  <2>1. /\ cluster' = [c \in Ids |-> IF c \in Orphans THEN NoRow ELSE cluster[c]]
        /\ UNCHANGED item
    BY <1>4 DEF Sweep
  <2>2. ASSUME NEW c \in Stored' \ Broken'
        PROVE  c \in Stored \ Broken /\ cluster'[c] = cluster[c]
    BY <2>1, <2>2 DEF Stored, Broken, NoRow
  <2>. QED
    BY <2>1, <2>2, UntouchedCount DEF CountsMatch
<1>. QED
  BY <1>1, <1>2, <1>3, <1>4
\* Each outcome counts the members it moves.
LEMMA EffectCounts ==
  ASSUME Shapes, ItemsMatch, PlansStand, CountsMatch,
         NEW a \in Aggregators, NEW t \in unit[a].tasks, Effect(a, t)
  PROVE  CountsMatch'
<1>1. HasPlan(a)
  BY DEF Effect, Refresh, Rebuild, Discard, Create, PutBack, Doing, Validated, ClaimIsLive, HasPlan
<1>2. /\ t.id \in Ids /\ t.id # NoCluster /\ t.members \in SUBSET Playbooks
      /\ \A p \in t.members : item[p].is = "residual"
      /\ Cardinality(t.members) \in Nat
  BY <1>1, DoingStands, NoClusterIsNoId, PlaybookSetsAreFinite DEF TaskStands
<1>3. MembersOf(t.id) \in SUBSET Playbooks /\ MembersOf(t.id) \cap t.members = {}
  BY <1>2 DEF MembersOf
<1>4. ASSUME NEW c \in Ids \ {t.id}, NEW p \in t.members, item'[p].of = t.id \/ item'[p].is # "member"
      PROVE  item'[p] = [is |-> "member", of |-> c] <=> item[p] = [is |-> "member", of |-> c]
  BY <1>2, <1>4
<1>5. CASE Refresh(a, t)
  <2>1. item' = [p \in Playbooks |->
          IF p \in t.members THEN [is |-> "member", of |-> t.id] ELSE item[p]]
    BY <1>5 DEF Refresh
  <2>2. PICK g : cluster' = [cluster EXCEPT ![t.id].count = @ + Cardinality(t.members),
                                            ![t.id].agent = IF g = t.agent THEN @ ELSE g]
    BY <1>5 DEF Refresh
  <2>3. /\ cluster'[t.id].count = cluster[t.id].count + Cardinality(t.members)
        /\ cluster'[t.id].over = cluster[t.id].over
        /\ cluster[t.id].count \in Nat
    BY <1>2, <2>2 DEF Shapes, Row
  <2>4. t.id \in Stored \ Broken
    BY <1>2, <1>5 DEF Refresh, Attachable, Stored, Broken
  <2>5. MembersOf(t.id)' = MembersOf(t.id) \cup t.members
    BY <1>2, <2>1 DEF MembersOf
  <2>6. /\ Cardinality(MembersOf(t.id)') = Cardinality(MembersOf(t.id)) + Cardinality(t.members)
        /\ Cardinality(MembersOf(t.id)) \in Nat
    BY <1>2, <1>3, <2>5, JoinedCount, PlaybookSetsAreFinite
  <2>7. /\ cluster'[t.id].count <= Cardinality(MembersOf(t.id)')
        /\ cluster'[t.id].over \/ cluster'[t.id].count = Cardinality(MembersOf(t.id)')
    BY <1>2, <2>3, <2>4, <2>6 DEF CountsMatch
  <2>8. ASSUME NEW c \in Stored' \ Broken', c # t.id
        PROVE  /\ c \in Stored \ Broken /\ cluster'[c] = cluster[c]
               /\ \A p \in Playbooks :
                    item'[p] = [is |-> "member", of |-> c] <=> item[p] = [is |-> "member", of |-> c]
    <3>1. c \in Ids /\ cluster'[c] = cluster[c]
      BY <2>2, <2>8 DEF Stored, Shapes
    <3>2. c \in Stored \ Broken
      BY <2>8, <3>1 DEF Stored, Broken
    <3>. QED
      BY <1>4, <2>1, <2>8, <3>1, <3>2
  <2>. QED
    BY <1>2, <2>7, <2>8, TouchedCount
<1>6. CASE Rebuild(a, t)
  <2>1. item' = [p \in Playbooks |->
          IF p \in Restored(t) THEN [item[p] EXCEPT !.is = "member"] ELSE item[p]]
    BY <1>6 DEF Rebuild
  <2>2. PICK g : cluster' = [cluster EXCEPT ![t.id] = [state |-> "active", agent |-> g,
                                   count |-> Cardinality(Restored(t)), over |-> FALSE]]
    BY <1>6 DEF Rebuild
  <2>3. \A p \in Playbooks : item[p] \in Item
    BY DEF Shapes
  <2>4. \A p \in Playbooks : item'[p] =
          IF item[p].of = t.id THEN [is |-> "member", of |-> t.id] ELSE item[p]
    BY <2>1, <2>3 DEF Restored, ItemsOf, Item
  <2>5. MembersOf(t.id)' = Restored(t)
    BY <2>4 DEF MembersOf, Restored, ItemsOf
  <2>6. cluster'[t.id].count = Cardinality(Restored(t)) /\ Cardinality(Restored(t)) \in Nat
    BY <1>2, <2>2, PlaybookSetsAreFinite DEF Shapes, Restored, ItemsOf
  <2>7. /\ cluster'[t.id].count <= Cardinality(MembersOf(t.id)')
        /\ cluster'[t.id].over \/ cluster'[t.id].count = Cardinality(MembersOf(t.id)')
    BY <2>5, <2>6
  <2>8. ASSUME NEW c \in Stored' \ Broken', c # t.id
        PROVE  /\ c \in Stored \ Broken /\ cluster'[c] = cluster[c]
               /\ \A p \in Playbooks :
                    item'[p] = [is |-> "member", of |-> c] <=> item[p] = [is |-> "member", of |-> c]
    <3>1. c \in Ids /\ cluster'[c] = cluster[c]
      BY <2>2, <2>8 DEF Stored, Shapes
    <3>2. c \in Stored \ Broken
      BY <2>8, <3>1 DEF Stored, Broken
    <3>. QED
      BY <2>4, <2>8, <3>1, <3>2
  <2>. QED
    BY <1>2, <2>7, <2>8, TouchedCount
<1>7. CASE Discard(a, t)
  <2>1. item' = Disposed(ItemsOf(t.id), Terminal) /\ cluster' = [cluster EXCEPT ![t.id] = NoRow]
    BY <1>7 DEF Discard
  <2>2. t.id \notin Stored'
    BY <1>2, <2>1 DEF Stored, Shapes, NoRow
  <2>3. \A p \in Playbooks : item'[p] = item[p] \/ (item[p].of = t.id /\ item'[p].is # "member")
    BY <2>1 DEF Disposed, ItemsOf, Terminal
  <2>4. ASSUME NEW c \in Stored' \ Broken', c # t.id
        PROVE  /\ c \in Stored \ Broken /\ cluster'[c] = cluster[c]
               /\ \A p \in Playbooks :
                    item'[p] = [is |-> "member", of |-> c] <=> item[p] = [is |-> "member", of |-> c]
    <3>1. c \in Ids /\ cluster'[c] = cluster[c]
      BY <2>1, <2>4 DEF Stored, Shapes
    <3>2. c \in Stored \ Broken
      BY <2>4, <3>1 DEF Stored, Broken
    <3>. QED
      BY <2>3, <2>4, <3>1, <3>2
  <2>. QED
    BY <1>2, <2>2, <2>4, TouchedCount
<1>8. CASE Create(a, t)
  <2>1. item' = [p \in Playbooks |->
          IF p \in t.members THEN [is |-> "member", of |-> t.id] ELSE item[p]]
    BY <1>1, <1>8, WaitingMembersHaveRows DEF Create
  <2>2. PICK g : cluster' = [cluster EXCEPT ![t.id] = [state |-> "active", agent |-> g,
                        count |-> Cardinality(t.members), over |-> t.id \in Stored]]
    BY <1>8 DEF Create
  <2>3. MembersOf(t.id)' = MembersOf(t.id) \cup t.members
    BY <1>2, <2>1 DEF MembersOf
  <2>4. /\ Cardinality(MembersOf(t.id)') = Cardinality(MembersOf(t.id)) + Cardinality(t.members)
        /\ Cardinality(MembersOf(t.id)) \in Nat
    BY <1>2, <1>3, <2>3, JoinedCount, PlaybookSetsAreFinite
  <2>5. cluster'[t.id].count = Cardinality(t.members)
    BY <1>2, <2>2 DEF Shapes
  <2>6. t.id \in Stored => cluster'[t.id].over
    BY <1>2, <2>2 DEF Shapes
  <2>7. t.id \notin Stored => MembersOf(t.id) = {}
    BY <1>2 DEF MembersOf, ItemsMatch
  <2>8. /\ cluster'[t.id].count <= Cardinality(MembersOf(t.id)')
        /\ cluster'[t.id].over \/ cluster'[t.id].count = Cardinality(MembersOf(t.id)')
    <3>1. CASE t.id \in Stored
      BY <1>2, <2>4, <2>5, <2>6, <3>1
    <3>2. CASE t.id \notin Stored
      <4>1. MembersOf(t.id)' = t.members
        BY <2>3, <2>7, <3>2
      <4>. QED
        BY <1>2, <2>5, <4>1
    <3>. QED
      BY <3>1, <3>2
  <2>9. ASSUME NEW c \in Stored' \ Broken', c # t.id
        PROVE  /\ c \in Stored \ Broken /\ cluster'[c] = cluster[c]
               /\ \A p \in Playbooks :
                    item'[p] = [is |-> "member", of |-> c] <=> item[p] = [is |-> "member", of |-> c]
    <3>1. c \in Ids /\ cluster'[c] = cluster[c]
      BY <2>2, <2>9 DEF Stored, Shapes
    <3>2. c \in Stored \ Broken
      BY <2>9, <3>1 DEF Stored, Broken
    <3>. QED
      BY <1>4, <2>1, <2>9, <3>1, <3>2
  <2>. QED
    BY <1>2, <2>8, <2>9, TouchedCount
<1>9. CASE PutBack(a, t)
  <2>1. PICK as \in {Residual, Terminal} : item' = Disposed(t.members, as)
    BY <1>9 DEF PutBack
  <2>2. as.is # "member"
    <3>1. Residual.is = "residual" /\ Terminal.is = "terminal"
      BY DEF Residual, Terminal
    <3>. QED
      BY <3>1
  <2>3. cluster' = cluster
    BY <1>9 DEF PutBack
  <2>4. \A p \in Playbooks : item'[p] = item[p] \/ (item[p].is # "member" /\ item'[p].is # "member")
    BY <1>2, <2>1, <2>2 DEF Disposed
  <2>5. ASSUME NEW c \in Stored' \ Broken'
        PROVE  c \in Stored \ Broken
    BY <2>3, <2>5 DEF Stored, Broken
  <2>6. ASSUME NEW c, NEW p \in Playbooks
        PROVE  item'[p] = [is |-> "member", of |-> c] <=> item[p] = [is |-> "member", of |-> c]
    BY <2>4
  <2>. QED
    BY <2>3, <2>5, <2>6, UntouchedCount DEF CountsMatch
<1>. QED
  BY <1>5, <1>6, <1>7, <1>8, <1>9 DEF Effect

\* Member counts are right after every step.
LEMMA CountsKept ==
  ASSUME Shapes, ItemsMatch, PlansStand, CountsMatch, [AggregationNext]_aggVars
  PROVE  CountsMatch'
<1>1. Move
  BY EveryStepMoves
<1>2. CASE PlaybooksMove \/ ClaimMoves
  BY <1>2, QuietCounts DEF PlaybooksMove, ClaimMoves, rows
<1>3. ASSUME NEW g \in AgentIds, ApproveAgent(g)
      PROVE  CountsMatch'
  BY <1>3, QuietCounts DEF ApproveAgent
<1>4. ASSUME NEW a \in Aggregators, Plan(a)
      PROVE  CountsMatch'
  BY <1>4, QuietCounts DEF Plan, rows
<1>. QED
  BY <1>1, <1>2, <1>3, <1>4, TableCounts, EffectCounts, Zenon DEF Move

\* A row that speaks for no active cluster counts no members.
IdleCounts == \A c \in Ids : cluster[c].state # "active" => cluster[c].count = 0

LEMMA IdleKept ==
  ASSUME Shapes, IdleCounts, [AggregationNext]_aggVars
  PROVE  IdleCounts'
<1>. USE DEF IdleCounts
<1>1. Move
  BY EveryStepMoves
<1>2. CASE cluster' = cluster
  BY <1>2
<1>3. ASSUME NEW C \in SUBSET Ids, cluster' = [c \in Ids |-> IF c \in C THEN NoRow ELSE cluster[c]]
      PROVE  IdleCounts'
  BY <1>3 DEF NoRow
<1>4. ASSUME NEW g \in AgentIds, EditAgent(g)
      PROVE  IdleCounts'
  <2>1. {c \in Stored : cluster[c].agent = g} \in SUBSET Ids
    BY NoClusterIsNoId
  <2>. QED
    BY <1>3, <1>4, <2>1 DEF EditAgent, Retire
<1>5. ASSUME NEW a \in Aggregators, Sweep(a)
      PROVE  IdleCounts'
  <2>1. Orphans \in SUBSET Ids
    BY NoClusterIsNoId DEF Orphans
  <2>. QED
    BY <1>3, <1>5, <2>1 DEF Sweep
<1>6. ASSUME NEW a \in Aggregators, NEW batch \in SUBSET stale, ApplyInvalidations(a, batch)
      PROVE  IdleCounts'
  <2>1. cluster' = [c \in Ids |-> IF c \in Hit(batch)
           THEN [cluster[c] EXCEPT !.state = "rebuilding", !.count = 0] ELSE cluster[c]]
    BY <1>6 DEF ApplyInvalidations, Hit
  <2>. SUFFICES ASSUME NEW c \in Ids, cluster'[c].state # "active"
                PROVE  cluster'[c].count = 0
    OBVIOUS
  <2>2. CASE c \in Hit(batch)
    <3>1. cluster[c] \in Row
      BY DEF Shapes
    <3>2. [cluster[c] EXCEPT !.state = "rebuilding", !.count = 0].count = 0
      BY <3>1 DEF Row
    <3>. QED
      BY <2>1, <2>2, <3>2
  <2>3. CASE c \notin Hit(batch)
    BY <2>1, <2>3
  <2>. QED
    BY <2>2, <2>3
<1>7. ASSUME NEW a \in Aggregators, NEW t \in unit[a].tasks, Effect(a, t)
      PROVE  IdleCounts'
  <2>1. t.id \in Ids
    BY TasksAreTasks
  <2>2. \A c \in Ids \ {t.id} : cluster'[c] = cluster[c]
    BY <1>7 DEF Effect, Refresh, Rebuild, Discard, Create, PutBack, Shapes
  <2>3. CASE Refresh(a, t)
    <3>1. cluster[t.id].state = "active" /\ \E g :
            cluster' = [cluster EXCEPT ![t.id].count = @ + Cardinality(t.members),
                                       ![t.id].agent = IF g = t.agent THEN @ ELSE g]
      BY <2>3 DEF Refresh, Attachable
    <3>2. cluster'[t.id].state = "active"
      BY <2>1, <3>1 DEF Shapes, Row
    <3>. QED
      BY <2>2, <3>2
  <2>4. CASE Rebuild(a, t) \/ Create(a, t)
    <3>1. PICK g, n, over : cluster' = [cluster EXCEPT ![t.id] =
            [state |-> "active", agent |-> g, count |-> n, over |-> over]]
      BY <2>4 DEF Rebuild, Create
    <3>2. cluster'[t.id].state = "active"
      BY <2>1, <3>1 DEF Shapes
    <3>. QED
      BY <2>2, <3>2
  <2>5. CASE Discard(a, t)
    <3>1. cluster'[t.id].count = 0
      BY <2>1, <2>5 DEF Discard, Shapes, NoRow
    <3>. QED
      BY <2>2, <3>1
  <2>6. CASE PutBack(a, t)
    BY <1>2, <2>6 DEF PutBack
  <2>. QED
    BY <1>7, <2>3, <2>4, <2>5, <2>6 DEF Effect
<1>8. \/ PlaybooksMove \/ ClaimMoves
      \/ \E g \in AgentIds : ApproveAgent(g)
      \/ \E a \in Aggregators : Stage(a) \/ Plan(a)
      => cluster' = cluster
  BY DEF PlaybooksMove, ClaimMoves, ApproveAgent, Stage, Plan, rows
<1>. QED
  BY <1>1, <1>2, <1>4, <1>5, <1>6, <1>7, <1>8, Zenon DEF Move

\* The inductive invariant of the rows: the holder's plan is what makes the
\* transactions of its unit agree with tables that writers keep changing.
AggregationInv == Shapes /\ ItemsMatch /\ PlansStand /\ CountsMatch /\ IdleCounts

LEMMA InitAggregation == AggregationInit => AggregationInv
<1>. SUFFICES ASSUME AggregationInit
              PROVE  AggregationInv
  OBVIOUS
<1>1. Shapes
  BY DEF AggregationInit, Shapes, Item, NoItem, NoCluster, Row, NoRow, Unit, NoUnit
<1>2. ItemsMatch /\ PlansStand /\ CountsMatch /\ IdleCounts
  BY DEF AggregationInit, ItemsMatch, PlansStand, HasPlan, CountsMatch, IdleCounts, Stored,
         Broken, NoItem, NoRow, NoUnit
<1>. QED
  BY <1>1, <1>2 DEF AggregationInv

LEMMA AggregationKept == AggregationInv /\ [AggregationNext]_aggVars => AggregationInv'
BY ShapesKept, StandingKept, CountsKept, IdleKept DEF AggregationInv

LEMMA AggregationInvariant == AggregationSpec => []AggregationInv
BY InitAggregation, AggregationKept, PTL DEF AggregationSpec

\* The rows of aggregation and the units of work keep their shape: no step,
\* whoever takes it, counts more members than there are playbooks.
THEOREM AggregationTypes == AggregationSpec => []AggregationTypeOK
<1>1. AggregationInv => AggregationTypeOK
  <2>. SUFFICES ASSUME AggregationInv
                PROVE  cluster \in [Ids -> Cluster]
    BY DEF AggregationInv, Shapes, AggregationTypeOK, Invalidation
  <2>. SUFFICES ASSUME NEW c \in Ids
                PROVE  cluster[c] \in Cluster
    BY DEF AggregationInv, Shapes
  <2>1. cluster[c] \in Row
    BY DEF AggregationInv, Shapes
  <2>2. cluster[c].count <= Cardinality(Playbooks)
    <3>1. CASE c \in Stored \ Broken
      <4>1. cluster[c].count <= Cardinality(MembersOf(c))
        BY <3>1 DEF AggregationInv, CountsMatch
      <4>2. /\ Cardinality(MembersOf(c)) \in Nat
            /\ Cardinality(MembersOf(c)) <= Cardinality(Playbooks)
            /\ Cardinality(Playbooks) \in Nat
        BY PlaybookSetsAreFinite DEF MembersOf
      <4>. QED
        BY <2>1, <4>1, <4>2 DEF Row
    <3>2. CASE c \notin Stored \ Broken
      <4>1. cluster[c].state # "active"
        BY <3>2 DEF Stored, Broken
      <4>2. cluster[c].count = 0 /\ Cardinality(Playbooks) \in Nat
        BY <4>1, PlaybookSetsAreFinite DEF AggregationInv, IdleCounts
      <4>. QED
        BY <4>2
    <3>. QED
      BY <3>1, <3>2
  <2>. QED
    BY <2>1, <2>2, PlaybookSetsAreFinite DEF Row, Cluster
<1>. QED
  BY <1>1, AggregationInvariant, PTL
\* The count that attachments build on is the number of items of the cluster,
\* and at most that number where the cluster was created again over its older
\* row; members name an active cluster and residual items a stored one:
\* outcomes, invalidations and edits of agent playbooks keep both sides in step.
THEOREM ClustersAndItemsMatch == AggregationSpec => []ClustersMatchItems
<1>1. AggregationInv => ClustersMatchItems
  <2>. SUFFICES ASSUME AggregationInv
                PROVE  ClustersMatchItems
    OBVIOUS
  <2>1. ASSUME NEW c \in Stored \ Broken, ~cluster[c].over
        PROVE  cluster[c].count = Cardinality(ItemsOf(c))
    BY <2>1, ItemsAreMembers DEF AggregationInv, CountsMatch
  <2>2. ASSUME NEW c \in Stored \ Broken
        PROVE  cluster[c].count <= Cardinality(ItemsOf(c))
    <3>1. cluster[c].count <= Cardinality(MembersOf(c)) /\ cluster[c].count \in Int
      BY <2>2 DEF AggregationInv, CountsMatch, Shapes, Row, Stored, Broken
    <3>2. MembersOf(c) \subseteq ItemsOf(c) /\ IsFiniteSet(ItemsOf(c))
      BY PlaybookSetsAreFinite DEF MembersOf, ItemsOf
    <3>3. /\ Cardinality(MembersOf(c)) \in Nat
          /\ Cardinality(ItemsOf(c)) \in Nat
          /\ Cardinality(MembersOf(c)) <= Cardinality(ItemsOf(c))
      BY <3>2, FS_Subset, FS_CardinalityType
    <3>. QED
      BY <3>1, <3>3
  <2>. QED
    BY <2>1, <2>2 DEF AggregationInv, ItemsMatch, ClustersMatchItems
<1>. QED
  BY <1>1, AggregationInvariant, PTL

-----------------------------------------------------------------------------
(* Retirements.                                                            *)

\* A step that gives no playbook a cluster and drops no invalidation misses
\* no retirement.
LEMMA QuietTracking ==
  ASSUME RetiredMembersAreTracked,
         UNCHANGED playbook, Named(stale) \subseteq Named(stale'),
         \A p \in Playbooks : item'[p].of \in {item[p].of, NoCluster}
  PROVE  RetiredMembersAreTracked'
BY DEF RetiredMembersAreTracked

\* Every retirement is tracked after every step.
LEMMA TrackingKept ==
  ASSUME AggregationInv, RetiredMembersAreTracked, [AggregationNext]_aggVars
  PROVE  RetiredMembersAreTracked'
<1>. USE DEF AggregationInv
<1>1. Move
  BY EveryStepMoves
<1>2. CASE PlaybooksMove
  BY <1>2, NamedGrows DEF PlaybooksMove, RetiredMembersAreTracked
<1>3. CASE ClaimMoves
  BY <1>3, QuietTracking DEF ClaimMoves, rows
<1>4. ASSUME NEW g \in AgentIds, EditAgent(g) \/ ApproveAgent(g)
      PROVE  RetiredMembersAreTracked'
  BY <1>4, QuietTracking DEF EditAgent, Retire, ApproveAgent, Residual
<1>5. ASSUME NEW a \in Aggregators, NEW batch \in SUBSET stale, ApplyInvalidations(a, batch)
      PROVE  RetiredMembersAreTracked'
  <2>1. /\ item' = Released(batch, Hit(batch)) /\ stale' = stale \ batch
        /\ playbook' = playbook
    BY <1>5 DEF ApplyInvalidations, Applied, Step, Hit
  <2>2. Named(stale) = Named(batch) \cup Named(stale')
    BY <2>1 DEF Named
  <2>. SUFFICES ASSUME NEW p \in Playbooks, playbook[p] # "current", item'[p].of # NoCluster
                PROVE  p \in Named(stale')
    BY <2>1 DEF RetiredMembersAreTracked
  <2>3. item[p] \in Item
    BY DEF Shapes
  <2>4. p \notin Current
    BY DEF Current
  <2>5. p \notin Named(batch) /\ item'[p].of = item[p].of
    <3>1. NoItem.of = NoCluster
      BY DEF NoItem
    <3>2. [item[p] EXCEPT !.is = "residual"].of = item[p].of
      BY <2>3 DEF Item
    <3>. QED
      BY <2>1, <2>4, <3>1, <3>2, ReleasedPlaces
  <2>. QED
    BY <2>2, <2>5 DEF RetiredMembersAreTracked
<1>6. ASSUME NEW a \in Aggregators, Stage(a) \/ Plan(a) \/ Sweep(a)
      PROVE  RetiredMembersAreTracked'
  <2>1. CASE Stage(a)
    BY <2>1, QuietTracking DEF Stage, Step, Residual
  <2>2. CASE Plan(a) \/ Sweep(a)
    BY <2>2, QuietTracking DEF Plan, Sweep, rows
  <2>. QED
    BY <1>6, <2>1, <2>2
<1>7. ASSUME NEW a \in Aggregators, NEW t \in unit[a].tasks, Effect(a, t)
      PROVE  RetiredMembersAreTracked'
  <2>1. HasPlan(a) /\ UNCHANGED <<playbook, stale>>
    BY <1>7 DEF Effect, Refresh, Rebuild, Discard, Create, PutBack, Done, Doing, Validated,
                ClaimIsLive, HasPlan
  <2>2. \A p \in t.members : playbook[p] = "current" \/ p \in Named(stale)
    BY <2>1, DoingStands DEF TaskStands
  <2>3. CASE Refresh(a, t) \/ Create(a, t)
    <3>1. item' = [p \in Playbooks |->
            IF p \in t.members THEN [is |-> "member", of |-> t.id] ELSE item[p]]
      <4>1. CASE Refresh(a, t)
        BY <4>1 DEF Refresh
      <4>2. CASE Create(a, t)
        BY <2>1, <4>2, WaitingMembersHaveRows DEF Create
      <4>. QED
        BY <2>3, <4>1, <4>2
    <3>. QED
      BY <2>1, <2>2, <3>1 DEF RetiredMembersAreTracked
  <2>4. CASE Rebuild(a, t)
    <3>1. \A p \in Playbooks : item[p] \in Item
      BY DEF Shapes
    <3>2. \A p \in Playbooks : item'[p].of = item[p].of
      BY <2>4, <3>1 DEF Rebuild, Item
    <3>. QED
      BY <2>1, <3>2, QuietTracking
  <2>5. CASE Discard(a, t) \/ PutBack(a, t)
    <3>1. Residual.of = NoCluster /\ Terminal.of = NoCluster
      BY DEF Residual, Terminal
    <3>2. PICK as \in {Residual, Terminal} : \E members : item' = Disposed(members, as)
      BY <2>5 DEF Discard, PutBack
    <3>3. \A p \in Playbooks : item'[p].of \in {item[p].of, NoCluster}
      BY <3>1, <3>2 DEF Disposed
    <3>. QED
      BY <2>1, <3>3, QuietTracking
  <2>. QED
    BY <1>7, <2>3, <2>4, <2>5 DEF Effect
<1>. QED
  BY <1>1, <1>2, <1>3, <1>4, <1>5, <1>6, <1>7, Zenon DEF Move

\* A playbook that is gone contributes to a cluster only until an invalidation
\* that still names it is applied: writers commit both together, and no
\* transaction of a unit attaches what left after the unit had read it without
\* such a row.
THEOREM NoRetirementMissed == AggregationSpec => []RetiredMembersAreTracked
<1>1. AggregationInit => RetiredMembersAreTracked
  BY DEF AggregationInit, RetiredMembersAreTracked, NoItem
<1>. QED
  BY <1>1, TrackingKept, AggregationInvariant, PTL DEF AggregationSpec

-----------------------------------------------------------------------------
(* Agent playbooks.                                                        *)

\* A step that keeps clusters and unclaimed agent playbooks keeps their tie.
LEMMA QuietAgents ==
  ASSUME AgentsSpeakForClusters, UNCHANGED <<cluster, agents, displaced>>
  PROVE  AgentsSpeakForClusters'
BY DEF AgentsSpeakForClusters, Stored

\* A step that drops clusters drops or keeps their agent playbooks with them.
LEMMA DroppedAgents ==
  ASSUME AgentsSpeakForClusters, NEW C \in SUBSET Ids, NEW G,
         cluster' = [c \in Ids |-> IF c \in C THEN NoRow ELSE cluster[c]],
         \A c \in C : cluster[c].agent \in G,
         agents' = agents \ G, displaced' = displaced \ G
  PROVE  AgentsSpeakForClusters'
<1>1. Stored' = Stored \ C
  BY DEF Stored, NoRow
<1>2. \A c \in Stored' : cluster'[c] = cluster[c]
  BY <1>1, NoClusterIsNoId
<1>3. agents' \subseteq displaced' \cup {cluster'[c].agent : c \in Stored'}
  <2>. SUFFICES ASSUME NEW g \in agents', g \notin displaced'
                PROVE  \E c \in Stored' : cluster'[c].agent = g
    OBVIOUS
  <2>1. g \in agents /\ g \notin G /\ g \notin displaced
    OBVIOUS
  <2>2. PICK c \in Stored : cluster[c].agent = g
    BY <2>1 DEF AgentsSpeakForClusters
  <2>. QED
    BY <1>1, <1>2, <2>1, <2>2
<1>. QED
  BY <1>1, <1>2, <1>3 DEF AgentsSpeakForClusters

\* A cluster that gets a new agent playbook parts with the one it had.
LEMMA ReplacedAgent ==
  ASSUME Shapes, AgentsSpeakForClusters, NEW d \in Ids, NEW g \in Unused, NEW r,
         r.agent = g, r.state # "none",
         cluster' = [cluster EXCEPT ![d] = r],
         g \in agents',
         agents' \subseteq agents \cup {g}, displaced \ {cluster[d].agent} \subseteq displaced',
         cluster[d].agent \in agents' => cluster[d].agent \in displaced'
  PROVE  AgentsSpeakForClusters'
<1>1. /\ cluster'[d] = r /\ \A c \in Ids \ {d} : cluster'[c] = cluster[c]
      /\ Stored' = Stored \cup {d}
  BY DEF Shapes, Stored
<1>2. \A c \in Ids : cluster[c].agent # g
  BY UnusedIsFresh
<1>3. agents' \subseteq displaced' \cup {cluster'[c].agent : c \in Stored'}
  <2>. SUFFICES ASSUME NEW h \in agents', h \notin displaced'
                PROVE  \E c \in Stored' : cluster'[c].agent = h
    OBVIOUS
  <2>1. CASE h = g
    BY <1>1, <2>1
  <2>2. CASE h # g
    <3>1. h \in agents /\ h # cluster[d].agent /\ h \notin displaced
      BY <2>2
    <3>2. PICK c \in Stored : cluster[c].agent = h
      BY <3>1 DEF AgentsSpeakForClusters
    <3>3. c \in Ids \ {d}
      BY <3>1, <3>2, NoClusterIsNoId
    <3>. QED
      BY <1>1, <3>2, <3>3
  <2>. QED
    BY <2>1, <2>2
<1>4. \A c, e \in Stored' : cluster'[c].agent = cluster'[e].agent => c = e
  BY <1>1, <1>2, NoClusterIsNoId DEF AgentsSpeakForClusters
<1>. QED
  BY <1>3, <1>4 DEF AgentsSpeakForClusters

\* Every agent playbook nobody has taken over speaks for its cluster after
\* every step.
LEMMA AgentsKept ==
  ASSUME AggregationInv, AgentsSpeakForClusters, [AggregationNext]_aggVars
  PROVE  AgentsSpeakForClusters'
<1>. USE DEF AggregationInv
<1>1. Move
  BY EveryStepMoves
<1>2. CASE PlaybooksMove \/ ClaimMoves
  BY <1>2, QuietAgents DEF PlaybooksMove, ClaimMoves, rows
<1>3. ASSUME NEW g \in AgentIds, EditAgent(g)
      PROVE  AgentsSpeakForClusters'
  <2>1. {c \in Stored : cluster[c].agent = g} \in SUBSET Ids
    BY NoClusterIsNoId
  <2>. QED
    BY <1>3, <2>1, DroppedAgents DEF EditAgent, Retire
<1>4. ASSUME NEW g \in AgentIds, ApproveAgent(g)
      PROVE  AgentsSpeakForClusters'
  BY <1>4 DEF ApproveAgent, AgentsSpeakForClusters, Stored
<1>5. ASSUME NEW a \in Aggregators, NEW batch \in SUBSET stale, ApplyInvalidations(a, batch)
      PROVE  AgentsSpeakForClusters'
  <2>1. cluster' = [c \in Ids |-> IF c \in Hit(batch)
           THEN [cluster[c] EXCEPT !.state = "rebuilding", !.count = 0] ELSE cluster[c]]
    BY <1>5 DEF ApplyInvalidations, Hit
  <2>2. Hit(batch) \subseteq Stored
    BY HitClusters DEF Hit, ItemsMatch
  <2>3. Stored' = Stored /\ \A c \in Ids : cluster'[c].agent = cluster[c].agent
    BY <2>1, <2>2, ZenonT(40) DEF Stored, Shapes, Row
  <2>4. UNCHANGED <<agents, displaced>>
    BY <1>5 DEF ApplyInvalidations, Applied, Step
  <2>. QED
    BY <2>3, <2>4, NoClusterIsNoId DEF AgentsSpeakForClusters
<1>6. ASSUME NEW a \in Aggregators, Stage(a) \/ Plan(a)
      PROVE  AgentsSpeakForClusters'
  BY <1>6, QuietAgents DEF Stage, Step, Plan, rows
<1>7. ASSUME NEW a \in Aggregators, Sweep(a)
      PROVE  AgentsSpeakForClusters'
  <2>. DEFINE G == {cluster[c].agent : c \in Orphans}
  <2>1. Orphans \in SUBSET Ids /\ \A c \in Orphans : cluster[c].agent \in G
    BY NoClusterIsNoId DEF Orphans
  <2>2. /\ cluster' = [c \in Ids |-> IF c \in Orphans THEN NoRow ELSE cluster[c]]
        /\ agents' = agents \ G /\ displaced' = displaced \ G
    BY <1>7 DEF Sweep, Supersede
  <2>. HIDE DEF G
  <2>. QED
    BY <2>1, <2>2, DroppedAgents
<1>8. ASSUME NEW a \in Aggregators, NEW t \in unit[a].tasks, Effect(a, t)
      PROVE  AgentsSpeakForClusters'
  <2>0. t.id \in Ids /\ \A g \in Unused : g # t.agent
    BY TasksAreTasks, UnusedIsFresh
  <2>1. CASE Refresh(a, t)
    <3>1. PICK g \in Unused \cup {t.agent} :
            /\ g # t.agent => cluster[t.id].agent = t.agent
            /\ cluster' = [cluster EXCEPT ![t.id].count = @ + Cardinality(t.members),
                                          ![t.id].agent = IF g = t.agent THEN @ ELSE g]
            /\ IF g = t.agent THEN UNCHANGED <<agents, displaced>> ELSE Supersede({t.agent}, {g})
      BY <2>1 DEF Refresh
    <3>2. CASE g = t.agent
      <4>1. \A c \in Ids : /\ cluster'[c].state = cluster[c].state
                           /\ cluster'[c].agent = cluster[c].agent
        BY <2>0, <3>1, <3>2 DEF Shapes, Row
      <4>. QED
        <5>1. Stored' = Stored /\ \A c \in Stored : cluster'[c].agent = cluster[c].agent
          BY <4>1 DEF Stored
        <5>2. UNCHANGED <<agents, displaced>>
          BY <3>1, <3>2
        <5>. QED
          BY <5>1, <5>2 DEF AgentsSpeakForClusters
    <3>3. CASE g # t.agent
      <4>. DEFINE r == [cluster[t.id] EXCEPT !.count = @ + Cardinality(t.members), !.agent = g]
      <4>1. cluster' = [cluster EXCEPT ![t.id] = r] /\ g \in Unused
        BY <2>0, <3>1, <3>3 DEF Shapes
      <4>2. r.agent = g /\ r.state = "active"
        BY <2>0, <2>1 DEF Refresh, Attachable, Shapes, Row
      <4>3. /\ agents' = (agents \cup {g}) \ {t.agent} /\ displaced' = displaced \ {t.agent}
            /\ cluster[t.id].agent = t.agent
        BY <3>1, <3>3 DEF Supersede
      <4>. HIDE DEF r
      <4>. QED
        BY <2>0, <3>3, <4>1, <4>2, <4>3, ReplacedAgent
    <3>. QED
      BY <3>2, <3>3
  <2>2. CASE Rebuild(a, t)
    <3>1. PICK g \in Unused :
            /\ cluster' = [cluster EXCEPT ![t.id] = [state |-> "active", agent |-> g,
                                          count |-> Cardinality(Restored(t)), over |-> FALSE]]
            /\ Supersede({t.agent}, {g})
      BY <2>2 DEF Rebuild
    <3>2. /\ agents' = (agents \cup {g}) \ {t.agent} /\ displaced' = displaced \ {t.agent}
          /\ cluster[t.id].agent = t.agent /\ g # t.agent
      BY <2>0, <2>2, <3>1 DEF Supersede, Rebuild, Rebuilding
    <3>. DEFINE r == [state |-> "active", agent |-> g,
                      count |-> Cardinality(Restored(t)), over |-> FALSE]
    <3>3. cluster' = [cluster EXCEPT ![t.id] = r] /\ r.agent = g /\ r.state = "active"
      BY <3>1
    <3>. HIDE DEF r
    <3>. QED
      BY <2>0, <3>2, <3>3, ReplacedAgent
  <2>3. CASE Discard(a, t)
    <3>1. /\ cluster' = [c \in Ids |-> IF c \in {t.id} THEN NoRow ELSE cluster[c]]
          /\ cluster[t.id].agent = t.agent
          /\ agents' = agents \ {t.agent} /\ displaced' = displaced \ {t.agent}
      BY <2>3 DEF Discard, Rebuilding, Supersede, Shapes
    <3>. DEFINE C == {t.id}
                G == {t.agent}
    <3>2. /\ C \in SUBSET Ids /\ \A c \in C : cluster[c].agent \in G
          /\ cluster' = [c \in Ids |-> IF c \in C THEN NoRow ELSE cluster[c]]
          /\ agents' = agents \ G /\ displaced' = displaced \ G
      BY <2>0, <3>1
    <3>. HIDE DEF C, G
    <3>. QED
      BY <3>2, DroppedAgents
  <2>4. CASE Create(a, t)
    <3>1. PICK g \in Unused :
            /\ cluster' = [cluster EXCEPT ![t.id] = [state |-> "active", agent |-> g,
                        count |-> Cardinality(t.members), over |-> t.id \in Stored]]
            /\ agents' = agents \cup {g}
      BY <2>4 DEF Create
    <3>2. displaced' = displaced \cup ({cluster[t.id].agent} \cap agents)
      BY <2>4 DEF Create
    <3>3. cluster[t.id].agent # g
      BY <2>0, UnusedIsFresh
    <3>. DEFINE r == [state |-> "active", agent |-> g,
                      count |-> Cardinality(t.members), over |-> t.id \in Stored]
    <3>4. cluster' = [cluster EXCEPT ![t.id] = r] /\ r.agent = g /\ r.state = "active"
      BY <3>1
    <3>. HIDE DEF r
    <3>5. agents' = agents \cup {g}
      BY <3>1
    <3>. QED
      BY <2>0, <3>2, <3>3, <3>4, <3>5, ReplacedAgent DEF Shapes
  <2>5. CASE PutBack(a, t)
    BY <2>5, QuietAgents DEF PutBack
  <2>. QED
    BY <1>8, <2>1, <2>2, <2>3, <2>4, <2>5 DEF Effect
<1>. QED
  BY <1>1, <1>2, <1>3, <1>4, <1>5, <1>6, <1>7, <1>8, Zenon DEF Move

\* An agent playbook nobody has taken over speaks for one stored cluster,
\* however units are cut off between planning and commit; only an emptied
\* cluster that is created again before the sweep leaves one behind.
THEOREM EveryAgentSpeaks == AggregationSpec => []AgentsSpeakForClusters
<1>1. AggregationInit => AgentsSpeakForClusters
  BY DEF AggregationInit, AgentsSpeakForClusters, Stored, NoRow
<1>. QED
  BY <1>1, AgentsKept, AggregationInvariant, PTL DEF AggregationSpec
=============================================================================
