---------------------------- MODULE MCComponents ----------------------------
(***************************************************************************)
(* Instances for TLC of components that share no state.  Interleaving them *)
(* would only multiply their states, so that a behaviour picks one of them *)
(* at the start and the others rest.                                       *)
(***************************************************************************)
EXTENDS WindowSelectionCheck, PlaybookAggregation, CallbackExecutor,
        InstanceCache, ProviderCircuit, UserLease, OverflowJournal

VARIABLE focus

allVars == <<vars, aggVars, callbackVars, cacheVars, circuitVars, leaseVars,
             journalVars, focus>>

One(session, for, force, width, stride, idle, wait) ==
  [size |-> 1, session |-> session, eligible |-> for, force |-> force,
   width |-> width, stride |-> stride, idle |-> idle, wait |-> wait]

\* Policies that differ in every respect, so that the first pending input's
\* policy governs inputs admitted under another one.
MixedPolicies ==
  LET a == CHOOSE s \in Sessions : TRUE
      b == CHOOSE s \in Sessions : Cardinality(Sessions) > 1 => s # a
  IN  {One(a, Kinds, FALSE, 3, 2, "later", "none"),
       One(a, Kinds \ {Kind}, FALSE, 3, 2, "later", "none"),
       One(a, Kinds, FALSE, 2, 1, "none", "none"),
       One(b, {Kind}, FALSE, 2, 1, "none", "later"),
       One(a, Kinds \ {Kind}, TRUE, 1, 1, "none", "none")}

Interchangeable == Permutations(Playbooks) \cup Permutations(AgentIds)

\* One scheduler thread against every writer, with no explicit operation on
\* the version.  The lease runs out when the thread has died, and then at
\* once: no writer reads it.
OneAggregator == CHOOSE a \in Aggregators : TRUE
Abandoned == claimed # NoAggregator /\ unit[OneAggregator].phase = "idle"
AloneNext ==
  /\ IF Abandoned THEN LoseClaim ELSE Writers \/ Repair \/ UnitOfWork(OneAggregator)
  /\ unit'[OneAggregator].phase # "idle" => unit'[OneAggregator].current

\* Two of them, of which one may hold a lost or outdated claim, against the
\* writers that touch what a unit has planned.
PairNext ==
  \/ \E p \in Playbooks : AddPlaybook(p) \/ RetirePlaybook(p)
  \/ \E g \in AgentIds : EditAgent(g)
  \/ LoseClaim \/ Repair \/ \E a \in Aggregators : UnitOfWork(a)

Components == {"selection", "alone", "pair", "callbacks", "cache", "circuit",
               "lease", "journal"}

ComponentsInit ==
  /\ focus \in Components
  /\ Init /\ AggregationInit /\ CallbackInit /\ CacheInit /\ CircuitInit
  /\ LeaseInit /\ JournalInit
  /\ focus # "cache" => probing

ComponentsNext ==
  \/ /\ focus = "selection" /\ Next
     /\ UNCHANGED <<aggVars, callbackVars, cacheVars, circuitVars, leaseVars, journalVars, focus>>
  \/ /\ focus = "alone" /\ AloneNext
     /\ UNCHANGED <<vars, callbackVars, cacheVars, circuitVars, leaseVars, journalVars, focus>>
  \/ /\ focus = "pair" /\ PairNext
     /\ UNCHANGED <<vars, callbackVars, cacheVars, circuitVars, leaseVars, journalVars, focus>>
  \/ /\ focus = "callbacks" /\ CallbackNext
     /\ UNCHANGED <<vars, aggVars, cacheVars, circuitVars, leaseVars, journalVars, focus>>
  \/ /\ focus = "cache" /\ CacheNext
     /\ UNCHANGED <<vars, aggVars, callbackVars, circuitVars, leaseVars, journalVars, focus>>
  \/ /\ focus = "circuit" /\ CircuitNext
     /\ UNCHANGED <<vars, aggVars, callbackVars, cacheVars, leaseVars, journalVars, focus>>
  \/ /\ focus = "lease" /\ LeaseNext
     /\ UNCHANGED <<vars, aggVars, callbackVars, cacheVars, circuitVars, journalVars, focus>>
  \/ /\ focus = "journal" /\ JournalNext
     /\ UNCHANGED <<vars, aggVars, callbackVars, cacheVars, circuitVars, leaseVars, focus>>

ComponentsSpec == ComponentsInit /\ [][ComponentsNext]_allVars

\* Every component's variables keep their shape.
ComponentsTypeOK ==
  /\ AggregationTypeOK /\ CallbackTypeOK /\ CacheTypeOK /\ CircuitTypeOK
  /\ LeaseTypeOK /\ JournalTypeOK
=============================================================================
