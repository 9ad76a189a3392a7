------------------------ MODULE PlaybookAggregation ------------------------
(***************************************************************************)
(* Incremental aggregation of the user playbooks of one agent version into *)
(* clusters, each spoken for by one agent playbook.                        *)
(*                                                                         *)
(* A scheduler claims the organization's lease and runs one unit: it       *)
(* applies invalidations, stages new playbooks, plans, waits for the       *)
(* model, and commits each outcome in a transaction of its own, fenced by  *)
(* the claim.  Playbooks are added, revised and retired, and agent         *)
(* playbooks edited, at any time and without the lease.                    *)
(*                                                                         *)
(* A cluster is identified by the playbooks it was first made of.          *)
(* Similarity, batch limits, cooldowns and the model's answers are left    *)
(* open; a scheduler thread has one claim at a time, so the holder's name  *)
(* stands for owner and fence.                                             *)
(***************************************************************************)
EXTENDS Integers, FiniteSets

CONSTANTS
  Playbooks,       \* user playbooks that may come to exist
  Aggregators,     \* scheduler threads, of any process
  AgentIds,        \* bound: agent playbooks in use at one time
  MaxStale,        \* bound: unprocessed invalidations at one time
  TriggerCount,    \* reaggregation_trigger_count, at least 2
  MinClusterSize,  \* min_cluster_size
  NoAggregator,    \* no thread holds the lease, or it has run out
  NoAgent

ASSUME AggregationAssumption ==
  /\ IsFiniteSet(Playbooks) /\ MaxStale \in Nat
  /\ TriggerCount \in Nat /\ TriggerCount >= 2 /\ MinClusterSize \in Nat \ {0}
  /\ NoAggregator \notin Aggregators /\ NoAgent \notin AgentIds

VARIABLES
  playbook,   \* user_playbooks: absent, current or retired
  item,       \* playbook_aggregation_item, by playbook
  cluster,    \* playbook_aggregation_cluster, by id
  stale,      \* unprocessed rows of playbook_aggregation_invalidation
  agents,     \* agent playbooks aggregation saved and may supersede
  displaced,  \* those whose emptied cluster was created again
  pending,    \* playbook_aggregation_state.pending
  claimed,    \* playbook_aggregation_lease: who holds it, if anyone
  unit        \* what each scheduler thread has in hand

rows == <<playbook, item, cluster, stale, agents, displaced>>
aggVars == <<playbook, item, cluster, stale, agents, displaced, pending, claimed, unit>>

-----------------------------------------------------------------------------
Ids == (SUBSET Playbooks) \ {{}}
NoCluster == {}
Item == [is: {"none", "residual", "member", "terminal"}, of: SUBSET Playbooks]
NoItem == [is |-> "none", of |-> NoCluster]
Residual == [is |-> "residual", of |-> NoCluster]
Terminal == [is |-> "terminal", of |-> NoCluster]

\* over: created over a row with the same playbooks, and not rebuilt since.
Cluster == [state: {"none", "active", "rebuilding"}, agent: AgentIds \cup {NoAgent},
            count: 0..Cardinality(Playbooks), over: BOOLEAN]
NoRow == [state |-> "none", agent |-> NoAgent, count |-> 0, over |-> FALSE]

\* kind, the cluster and the agent it was planned for, the members sent to the model.
Task == [kind: {"refresh", "rebuild", "new"}, id: Ids, agent: AgentIds \cup {NoAgent},
         members: Ids]

\* current: the state version is still the one the claim names.
Unit == [phase: {"idle", "claimed", "applied", "staged", "planned", "swept", "counted"},
         current: BOOLEAN, tasks: SUBSET Task, backlog: BOOLEAN]
NoUnit == [phase |-> "idle", current |-> FALSE, tasks |-> {}, backlog |-> FALSE]

\* The shape of the rows of aggregation and of a unit of work.
AggregationTypeOK ==
  /\ playbook \in [Playbooks -> {"absent", "current", "retired"}]
  /\ item \in [Playbooks -> Item]
  /\ cluster \in [Ids -> Cluster]
  /\ stale \subseteq [entity: Playbooks, source: SUBSET Playbooks, revises: BOOLEAN]
  /\ agents \subseteq AgentIds /\ displaced \subseteq AgentIds
  /\ pending \in BOOLEAN
  /\ claimed \in Aggregators \cup {NoAggregator}
  /\ unit \in [Aggregators -> Unit]

AggregationInit ==
  /\ playbook = [p \in Playbooks |-> "absent"]
  /\ item = [p \in Playbooks |-> NoItem]
  /\ cluster = [c \in Ids |-> NoRow]
  /\ stale = {} /\ agents = {} /\ displaced = {}
  /\ pending = FALSE
  /\ claimed = NoAggregator
  /\ unit = [a \in Aggregators |-> NoUnit]

-----------------------------------------------------------------------------
(* Clauses of the queries.                                                 *)

Current == {p \in Playbooks : playbook[p] = "current"}
Undisposed == {p \in Current : item[p].is = "none"}
Residuals == {p \in Playbooks : item[p].is = "residual"}
ItemsOf(c) == {p \in Playbooks : item[p].of = c}
Broken == {c \in Ids : cluster[c].state = "rebuilding"}
Stored == {c \in Ids : cluster[c].state # "none"}

\* PlaybookAggregationBacklog.pending, and the work that repair discovers.
Backlog == Undisposed # {} \/ Residuals # {} \/ stale # {} \/ Broken # {}

\* The trigger on agent_playbooks: clusters of agent g are retired with it.
Retire(g) ==
  LET lost == {c \in Stored : cluster[c].agent = g} IN
  /\ item' = [p \in Playbooks |-> IF item[p].of \in lost THEN Residual ELSE item[p]]
  /\ cluster' = [c \in Ids |-> IF c \in lost THEN NoRow ELSE cluster[c]]
  /\ pending' = (pending \/ lost # {})

\* Every claim that is out names an older state version.
Outdated == [a \in Aggregators |-> [unit[a] EXCEPT !.current = FALSE]]

\* The number of a new agent playbook: no row and no plan mentions it.
Unused == {g \in AgentIds \ agents :
  /\ \A c \in Ids : cluster[c].agent # g
  /\ \A a \in Aggregators : \A t \in unit[a].tasks : t.agent # g}

-----------------------------------------------------------------------------
(* Writers without the lease.                                              *)

\* Extraction publishes a playbook and schedules the version.
AddPlaybook(p) ==
  /\ playbook[p] = "absent"
  /\ playbook' = [playbook EXCEPT ![p] = "current"]
  /\ pending' = TRUE
  /\ UNCHANGED <<item, cluster, stale, agents, displaced, claimed, unit>>

\* A row and its invalidation commit together.
Invalidate(row) ==
  /\ Cardinality(stale) < MaxStale
  /\ stale' = stale \cup {row}
  /\ pending' = TRUE
  /\ UNCHANGED <<item, cluster, agents, displaced, claimed>>

\* A current playbook leaves: while an explicit operation on the version is
\* unfinished, its state version advances as well.
Withdrawn == unit' \in {unit, Outdated}

\* Slip: only what a cluster holds is invalidated.
RetireMemberOnly(p) ==
  /\ playbook[p] = "current"
  /\ playbook' = [playbook EXCEPT ![p] = "retired"]
  /\ IF item[p].of # NoCluster
     THEN Invalidate([entity |-> p, source |-> {}, revises |-> FALSE])
     ELSE UNCHANGED <<item, cluster, stale, agents, displaced, pending, claimed>>
  /\ Withdrawn

\* Archive, supersede, purge, hard delete.
RetirePlaybook(p) ==
  /\ playbook[p] = "current"
  /\ playbook' = [playbook EXCEPT ![p] = "retired"]
  /\ Invalidate([entity |-> p, source |-> {}, revises |-> FALSE])
  /\ Withdrawn

\* A downgrade brings archived playbooks back.
RestorePlaybook(p) ==
  /\ playbook[p] = "retired"
  /\ playbook' = [playbook EXCEPT ![p] = "current"]
  /\ Invalidate([entity |-> p, source |-> {}, revises |-> FALSE])
  /\ UNCHANGED unit

\* update_user_playbook: a user edits the text, tagging sets the tags.
EditPlaybook(p) ==
  /\ playbook[p] = "current"
  /\ Invalidate([entity |-> p, source |-> {}, revises |-> FALSE])
  /\ UNCHANGED <<playbook, unit>>

\* Playbook q is published as the revision of p.
RevisePlaybook(p, q) ==
  /\ playbook[p] = "current" /\ playbook[q] = "absent"
  /\ playbook' = [playbook EXCEPT ![p] = "retired", ![q] = "current"]
  /\ Invalidate([entity |-> q, source |-> {p}, revises |-> TRUE])
  /\ Withdrawn

\* Playbook p is merged into q.
MergePlaybook(p, q) ==
  /\ p # q /\ playbook[p] = "current" /\ playbook[q] = "current"
  /\ playbook' = [playbook EXCEPT ![p] = "retired"]
  /\ Invalidate([entity |-> q, source |-> {p}, revises |-> FALSE])
  /\ Withdrawn

\* A user edits, rejects, archives or deletes an agent playbook; or approves
\* it, and then the cluster stays.
EditAgent(g) ==
  /\ g \in agents \/ \E c \in Stored : cluster[c].agent = g
  /\ agents' = agents \ {g} /\ displaced' = displaced \ {g}
  /\ Retire(g)
  /\ UNCHANGED <<playbook, stale, claimed, unit>>

ApproveAgent(g) ==
  /\ g \in agents
  /\ agents' = agents \ {g} /\ displaced' = displaced \ {g}
  /\ UNCHANGED <<playbook, item, cluster, stale, pending, claimed, unit>>

-----------------------------------------------------------------------------
(* The claim.                                                              *)

\* repair_playbook_aggregation_pending_state: work that no wake-up announces.
Repair ==
  /\ ~pending /\ Backlog
  /\ pending' = TRUE
  /\ UNCHANGED <<rows, claimed, unit>>

\* claim_due_playbook_aggregation.
ClaimDue(a) ==
  /\ unit[a].phase = "idle" /\ claimed = NoAggregator /\ pending
  /\ claimed' = a
  /\ unit' = [unit EXCEPT ![a] = [NoUnit EXCEPT !.phase = "claimed", !.current = TRUE]]
  /\ UNCHANGED <<rows, pending>>

\* The lease runs out; its row keeps an owner nobody is compared with again.
LoseClaim ==
  /\ claimed # NoAggregator
  /\ claimed' = NoAggregator
  /\ UNCHANGED <<rows, pending, unit>>

ClaimIsLive(a) == claimed = a

\* Slip: the state version alone is compared.
ValidatedUnfenced(a) == unit[a].current

\* validate_playbook_aggregation_claim, before and after each effect.
Validated(a) == ClaimIsLive(a) /\ unit[a].current

Step(a, phase) ==
  /\ unit' = [unit EXCEPT ![a].phase = phase]
  /\ UNCHANGED <<playbook, agents, displaced, pending, claimed>>

-----------------------------------------------------------------------------
(* The unit of work.                                                       *)

Named(batch) == UNION {{r.entity} \cup r.source : r \in batch}

\* The one cluster a revision's sources are in; the revision joins it.
Heirs(batch, c) ==
  {p \in Current : \E r \in batch :
     r.revises /\ r.entity = p /\ {item[s].of : s \in r.source} \ {NoCluster} = {c}}

\* The items once the clusters in hit are broken up for the batch.
Released(batch, hit) == [p \in Playbooks |->
  IF \E c \in hit : p \in Heirs(batch, c)
  THEN [is |-> "residual", of |-> CHOOSE c \in hit : p \in Heirs(batch, c)]
  ELSE IF p \in Named(batch) THEN NoItem
  ELSE IF item[p].of \in hit THEN [item[p] EXCEPT !.is = "residual"]
  ELSE item[p]]

\* With more rows than one batch the unit stops after the batch.
Applied(a, batch) ==
  /\ unit[a].phase = "claimed" /\ ClaimIsLive(a)
  /\ batch = {} <=> stale = {}
  /\ stale' = stale \ batch
  /\ Step(a, IF batch = stale THEN "applied" ELSE "swept")

\* apply_playbook_aggregation_invalidations: every cluster of a named
\* playbook is rebuilt from the members that remain.
ApplyInvalidations(a, batch) ==
  LET hit == {item[p].of : p \in Named(batch)} \ {NoCluster} IN
  /\ Applied(a, batch)
  /\ item' = Released(batch, hit)
  /\ cluster' = [c \in Ids |->
       IF c \in hit THEN [cluster[c] EXCEPT !.state = "rebuilding", !.count = 0] ELSE cluster[c]]

\* stage_playbook_aggregation_intake; it takes no claim.
Stage(a) ==
  /\ unit[a].phase = "applied"
  /\ item' = [p \in Playbooks |-> IF p \in Undisposed THEN Residual ELSE item[p]]
  /\ Step(a, "staged")
  /\ UNCHANGED <<cluster, stale>>

\* Residual playbooks that may be matched; clusters that may be rebuilt and
\* the members the model is shown.
Matchable == {p \in Residuals \cap Current : item[p].of \notin Broken}
Sample(c) == ItemsOf(c) \cap Residuals \cap Current
Rebuildable == {c \in Broken : Sample(c) # {}}

\* One refresh for each cluster that a matched playbook is nearest to.
Refreshes(nearest) ==
  {[kind |-> "refresh", id |-> c, agent |-> cluster[c].agent,
    members |-> {p \in DOMAIN nearest : nearest[p] = c}] :
     c \in {nearest[p] : p \in DOMAIN nearest}}

Rebuilds(ready) ==
  {[kind |-> "rebuild", id |-> c, agent |-> cluster[c].agent, members |-> Sample(c)] :
     c \in ready}

Creations(fresh) ==
  {[kind |-> "new", id |-> m, agent |-> NoAgent, members |-> m] : m \in fresh}

\* Clusters may be made of the unmatched playbooks, once there are enough.
Clusterings(unmatched) ==
  {fresh \in SUBSET {m \in SUBSET unmatched : Cardinality(m) >= MinClusterSize} :
     /\ fresh # {} => Cardinality(unmatched) >= TriggerCount
     /\ \A m, n \in fresh : m # n => m \cap n = {}}

\* The reads of _run_incremental: a matched playbook refreshes the cluster it
\* is nearest to, the others are clustered among themselves, clusters out of
\* cooldown are rebuilt.
Plan(a) ==
  /\ unit[a].phase = "staged"
  /\ \E matched \in SUBSET Matchable, ready \in SUBSET Rebuildable :
     \E nearest \in [matched -> Stored \ Broken], fresh \in Clusterings(Matchable \ matched) :
       unit' = [unit EXCEPT ![a].phase = "planned",
                            ![a].tasks = Refreshes(nearest) \cup Rebuilds(ready) \cup Creations(fresh)]
  /\ UNCHANGED <<rows, pending, claimed>>

\* Outcomes commit in this order.
Order(kind) == CASE kind = "refresh" -> 1 [] kind = "rebuild" -> 2 [] OTHER -> 3

\* Task t is next, and its transaction passes the fence.
Doing(a, t, kind) ==
  /\ unit[a].phase = "planned" /\ t \in unit[a].tasks /\ t.kind = kind
  /\ \A s \in unit[a].tasks : Order(t.kind) <= Order(s.kind)
  /\ Validated(a)

Done(a, t) ==
  /\ unit' = [unit EXCEPT ![a].tasks = @ \ {t}]
  /\ UNCHANGED <<playbook, stale, pending, claimed>>

\* supersede_agent_playbooks_by_ids, after the save of new ones.
Supersede(old, new) ==
  /\ agents' = (agents \cup new) \ old
  /\ displaced' = displaced \ old

\* set_playbook_aggregation_disposition; playbooks without a row are passed over.
Disposed(members, as) ==
  [p \in Playbooks |-> IF p \in members /\ item[p].is # "none" THEN as ELSE item[p]]

\* _mark_aggregation_members_unavailable: the cluster has changed meanwhile.
GiveUp(a, t) ==
  /\ item' = Disposed(t.members, Residual)
  /\ Done(a, t)
  /\ UNCHANGED <<cluster, agents, displaced>>

\* attach_playbook_aggregation_items takes residual members only.
Attachable(t) ==
  /\ cluster[t.id].state = "active"
  /\ \A p \in t.members : item[p].is = "residual"

\* _apply_refresh_outcome: attach, and with a new text replace the agent.
Refresh(a, t) ==
  /\ Doing(a, t, "refresh") /\ Attachable(t)
  /\ item' = [p \in Playbooks |->
       IF p \in t.members THEN [is |-> "member", of |-> t.id] ELSE item[p]]
  /\ \E g \in Unused \cup {t.agent} :
       /\ g # t.agent => cluster[t.id].agent = t.agent
       /\ cluster' = [cluster EXCEPT ![t.id].count = @ + Cardinality(t.members),
                                     ![t.id].agent = IF g = t.agent THEN @ ELSE g]
       /\ IF g = t.agent THEN UNCHANGED <<agents, displaced>> ELSE Supersede({t.agent}, {g})
  /\ Done(a, t)

\* The model failed, or the cluster or its agent is not the planned one.
RefreshNothing(a, t) == Doing(a, t, "refresh") /\ GiveUp(a, t)

Rebuilding(t) == cluster[t.id].state = "rebuilding" /\ cluster[t.id].agent = t.agent

\* complete_playbook_aggregation_cluster_rebuild restores every stored member.
Restored(t) == ItemsOf(t.id)

Rebuild(a, t) ==
  /\ Doing(a, t, "rebuild") /\ Rebuilding(t) /\ Restored(t) # {}
  /\ item' = [p \in Playbooks |->
       IF p \in Restored(t) THEN [item[p] EXCEPT !.is = "member"] ELSE item[p]]
  /\ \E g \in Unused :
       /\ cluster' = [cluster EXCEPT ![t.id] = [state |-> "active", agent |-> g,
                                       count |-> Cardinality(Restored(t)), over |-> FALSE]]
       /\ Supersede({t.agent}, {g})
  /\ Done(a, t)

\* discard_playbook_aggregation_cluster_rebuild: nothing is left to say.
Discard(a, t) ==
  /\ Doing(a, t, "rebuild") /\ Rebuilding(t)
  /\ item' = Disposed(ItemsOf(t.id), Terminal)
  /\ cluster' = [cluster EXCEPT ![t.id] = NoRow]
  /\ Supersede({t.agent}, {})
  /\ Done(a, t)

\* defer_playbook_aggregation_cluster_rebuild: the model failed, cool down.
DeferRebuild(a, t) ==
  /\ Doing(a, t, "rebuild") /\ Rebuilding(t)
  /\ Done(a, t)
  /\ UNCHANGED <<item, cluster, agents, displaced>>

RebuildNothing(a, t) ==
  /\ Doing(a, t, "rebuild") /\ (~Rebuilding(t) \/ ItemsOf(t.id) = {})
  /\ GiveUp(a, t)

\* create_playbook_aggregation_cluster and the disposition of its members; a
\* row of the same members that awaits the sweep is written over.
Create(a, t) ==
  /\ Doing(a, t, "new")
  /\ \E g \in Unused :
       /\ cluster' = [cluster EXCEPT ![t.id] = [state |-> "active", agent |-> g,
                        count |-> Cardinality(t.members), over |-> t.id \in Stored]]
       /\ agents' = agents \cup {g}
  /\ displaced' = displaced \cup ({cluster[t.id].agent} \cap agents)
  /\ item' = Disposed(t.members, [is |-> "member", of |-> t.id])
  /\ Done(a, t)

\* The model found nothing in common, or failed.
CreateNothing(a, t) ==
  /\ Doing(a, t, "new")
  /\ \E as \in {Residual, Terminal} : item' = Disposed(t.members, as)
  /\ Done(a, t)
  /\ UNCHANGED <<cluster, agents, displaced>>

\* Slip: every cluster under repair is swept.
Emptied == Broken

\* delete_orphaned_playbook_aggregation_clusters.
Orphans == {c \in Broken : ItemsOf(c) = {}}

Sweep(a) ==
  /\ unit[a].phase = "planned" /\ unit[a].tasks = {} /\ Validated(a)
  /\ cluster' = [c \in Ids |-> IF c \in Orphans THEN NoRow ELSE cluster[c]]
  /\ Supersede({cluster[c].agent : c \in Orphans}, {})
  /\ unit' = [unit EXCEPT ![a].phase = "swept"]
  /\ UNCHANGED <<playbook, item, stale, pending, claimed>>

\* get_playbook_aggregation_backlog, read before the claim is finished.
CountBacklog(a) ==
  /\ unit[a].phase = "swept"
  /\ unit' = [unit EXCEPT ![a].phase = "counted", ![a].backlog = Backlog]
  /\ UNCHANGED <<rows, pending, claimed>>

\* finish_playbook_aggregation_claim: the state at the claimed version only,
\* the lease in any case.
Finish(a, more) ==
  /\ IF ClaimIsLive(a)
     THEN /\ claimed' = NoAggregator
          /\ pending' = IF unit[a].current THEN more ELSE pending
          /\ unit' = [(IF unit[a].current THEN Outdated ELSE unit) EXCEPT ![a] = NoUnit]
     ELSE /\ unit' = [unit EXCEPT ![a] = NoUnit]
          /\ UNCHANGED <<claimed, pending>>
  /\ UNCHANGED rows

FinishUnit(a) == unit[a].phase = "counted" /\ Finish(a, unit[a].backlog)

\* A lost fence, a failing call, a saturated limiter: try again later.
FailUnit(a) == unit[a].phase # "idle" /\ Finish(a, TRUE)

\* The process dies; its lease runs out.
CrashUnit(a) ==
  /\ unit[a].phase # "idle"
  /\ unit' = [unit EXCEPT ![a] = NoUnit]
  /\ UNCHANGED <<rows, pending, claimed>>

-----------------------------------------------------------------------------
Writers ==
  \/ \E p \in Playbooks : 
       AddPlaybook(p) \/ RetirePlaybook(p) \/ RestorePlaybook(p) \/ EditPlaybook(p)
  \/ \E p, q \in Playbooks : RevisePlaybook(p, q) \/ MergePlaybook(p, q)
  \/ \E g \in AgentIds : EditAgent(g) \/ ApproveAgent(g)

Outcome(a, t) ==
  \/ Refresh(a, t) \/ RefreshNothing(a, t)
  \/ Rebuild(a, t) \/ Discard(a, t) \/ DeferRebuild(a, t) \/ RebuildNothing(a, t)
  \/ Create(a, t) \/ CreateNothing(a, t)

UnitOfWork(a) ==
  \/ ClaimDue(a)
  \/ \E batch \in SUBSET stale : ApplyInvalidations(a, batch)
  \/ Stage(a) \/ Plan(a) \/ Sweep(a) \/ CountBacklog(a)
  \/ \E t \in unit[a].tasks : Outcome(a, t)
  \/ FinishUnit(a) \/ FailUnit(a) \/ CrashUnit(a)

AggregationNext ==
  Writers \/ LoseClaim \/ Repair \/ \E a \in Aggregators : UnitOfWork(a)

AggregationSpec == AggregationInit /\ [][AggregationNext]_aggVars

-----------------------------------------------------------------------------
(* Properties.                                                             *)

\* The member count that attachments build on is the number of member items,
\* members name an active cluster, and a residual item names one that is
\* stored.  Outcomes, invalidations and edits of agent playbooks all rewrite
\* both sides.  A cluster that was created again over its older row may have
\* items of its first life that it does not count: of such a cluster the count
\* is only at most that number.
ClustersMatchItems ==
  /\ \A c \in Stored \ Broken :
       /\ cluster[c].count <= Cardinality(ItemsOf(c))
       /\ cluster[c].over \/ cluster[c].count = Cardinality(ItemsOf(c))
  /\ \A p \in Playbooks :
       /\ item[p].is = "member" => item[p].of \in Stored \ Broken
       /\ item[p].of \in Stored \cup {NoCluster}

\* A playbook that is gone contributes to a cluster only until an invalidation
\* that still names it is applied: no retirement slips past aggregation,
\* whatever the unit at work had read before.
RetiredMembersAreTracked ==
  \A p \in Playbooks :
    playbook[p] # "current" /\ item[p].of # NoCluster => p \in Named(stale)

\* An agent playbook nobody has taken over speaks for one stored cluster: a
\* crash, a lost fence or an edit between planning and commit leaves no orphan
\* behind.  Only an emptied cluster that is created again before the sweep does.
AgentsSpeakForClusters ==
  /\ agents \subseteq displaced \cup {cluster[c].agent : c \in Stored}
  /\ \A c, d \in Stored : cluster[c].agent = cluster[d].agent => c = d

\* What the sweep is for: once nothing is left to do, the agent playbook of a
\* cluster that was emptied is no longer in use.
NoOrphanedAgent ==
  ~Backlog /\ (\A a \in Aggregators : unit[a].phase = "idle") =>
    agents \subseteq {cluster[c].agent : c \in Stored}
=============================================================================
