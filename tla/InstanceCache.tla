--------------------------- MODULE InstanceCache ---------------------------
(***************************************************************************)
(* The cache entry of one organization: an instance built from its         *)
(* configuration and the version the configuration had when it was read.   *)
(*                                                                         *)
(* A get returns the cached instance while its version is the stored one,  *)
(* or the version cannot be told; otherwise it evicts what it inspected    *)
(* and builds a new one under the organization's construction lock.  The   *)
(* configuration is written by this process, which then invalidates the    *)
(* entry, or behind its back.                                              *)
(*                                                                         *)
(* Instances are numbered, since eviction compares identities.             *)
(***************************************************************************)
EXTENDS Integers

CONSTANTS
  Getters,      \* threads that ask for the instance
  NoGetter,
  MaxVersion,   \* bound: writes of the configuration
  MaxInstances  \* bound: instances built

ASSUME CacheAssumption ==
  NoGetter \notin Getters /\ MaxVersion \in Nat /\ MaxInstances \in Nat

VARIABLES
  probing,    \* whether the backend tells the stored version
  version,    \* version of the stored configuration
  built,      \* instances built so far
  instance,   \* by number: its stamp and the version of what it loaded
  entry,      \* the cached instance, 0: none
  builder,    \* holder of the construction lock
  fence,      \* version at the last completed invalidation
  getter      \* by thread: where it is, with which instance, and the fence and
              \* version it started from; at rest, what it was served and whether
              \* without a probe

cacheVars == <<probing, version, built, instance, entry, builder, fence, getter>>

NoInstance == 0
Steps == {"idle", "inspect", "evict", "enter", "recheck", "stamp", "load", "store"}
Getter == [at: Steps, holds: 0..MaxInstances, must: 0..MaxVersion,
           was: 0..MaxVersion, blind: BOOLEAN]
Resting == [at |-> "idle", holds |-> NoInstance, must |-> 0, was |-> 0, blind |-> FALSE]

CacheTypeOK ==
  /\ probing \in BOOLEAN
  /\ version \in 0..MaxVersion
  /\ built \in 0..MaxInstances
  /\ instance \in [1..MaxInstances -> [stamp: 0..MaxVersion, loaded: 0..MaxVersion]]
  /\ entry \in 0..built
  /\ builder \in Getters \cup {NoGetter}
  /\ fence \in 0..version
  /\ getter \in [Getters -> Getter]

CacheInit ==
  /\ probing \in BOOLEAN
  /\ version = 0 /\ fence = 0
  /\ built = 0
  /\ instance = [i \in 1..MaxInstances |-> [stamp |-> 0, loaded |-> 0]]
  /\ entry = NoInstance
  /\ builder = NoGetter
  /\ getter = [g \in Getters |-> Resting]

-----------------------------------------------------------------------------
Go(g, at) == getter' = [getter EXCEPT ![g].at = at]

\* The caller leaves with instance i.
Serve(g, i, blind) ==
  getter' = [getter EXCEPT ![g] = [Resting EXCEPT !.holds = i, !.blind = blind]]

\* The lookup, under the cache lock.
Look(g) ==
  /\ getter[g].at = "idle"
  /\ getter' = [getter EXCEPT
       ![g].at = IF entry = NoInstance THEN "enter" ELSE "inspect",
       ![g].holds = entry, ![g].must = fence, ![g].was = version,
       ![g].blind = FALSE]
  /\ UNCHANGED <<probing, version, built, instance, entry, builder, fence>>

\* An entry is fresh when it carries the stored version, or that cannot be told.
Fresh(i, blind) == blind \/ (probing /\ instance[i].stamp = version)
Superseded(i) == probing /\ instance[i].stamp # version

Inspect(g) ==
  /\ getter[g].at = "inspect"
  /\ \/ \E blind \in BOOLEAN : Fresh(getter[g].holds, blind) /\ Serve(g, getter[g].holds, blind)
     \/ Superseded(getter[g].holds) /\ Go(g, "evict")
  /\ UNCHANGED <<probing, version, built, instance, entry, builder, fence>>

\* Only the entry that was inspected: another may have replaced it.
EvictInspected(g) ==
  /\ getter[g].at = "evict"
  /\ entry' = IF entry = getter[g].holds THEN NoInstance ELSE entry
  /\ Go(g, "enter")
  /\ UNCHANGED <<probing, version, built, instance, builder, fence>>

\* The construction lock is taken and the entry looked up again.
Enter(g) ==
  /\ getter[g].at = "enter"
  /\ builder = NoGetter
  /\ builder' = g
  /\ getter' = [getter EXCEPT
       ![g].at = IF entry = NoInstance THEN "stamp" ELSE "recheck",
       ![g].holds = entry]
  /\ UNCHANGED <<probing, version, built, instance, entry, fence>>

RecheckFresh(g) ==
  /\ getter[g].at = "recheck"
  /\ \E blind \in BOOLEAN : Fresh(getter[g].holds, blind) /\ Serve(g, getter[g].holds, blind)
  /\ builder' = NoGetter
  /\ UNCHANGED <<probing, version, built, instance, entry, fence>>

RecheckOutdated(g) ==
  /\ getter[g].at = "recheck"
  /\ Superseded(getter[g].holds)
  /\ entry' = NoInstance
  /\ Go(g, "stamp")
  /\ UNCHANGED <<probing, version, built, instance, builder, fence>>

\* A new instance reads the version, then the configuration.
Stamp(g) ==
  /\ getter[g].at = "stamp"
  /\ built < MaxInstances
  /\ built' = built + 1
  /\ instance' = [instance EXCEPT ![built'].stamp = version]
  /\ \E blind \in BOOLEAN :
       getter' = [getter EXCEPT ![g].at = "load", ![g].holds = built', ![g].blind = blind]
  /\ UNCHANGED <<probing, version, entry, builder, fence>>

Load(g) ==
  /\ getter[g].at = "load"
  /\ instance' = [instance EXCEPT ![getter[g].holds].loaded = version]
  /\ Go(g, "store")
  /\ UNCHANGED <<probing, version, built, entry, builder, fence>>

\* Slip: the entry is stamped with the version at the time it is stored.
StoreStampedLate(g) ==
  /\ getter[g].at = "store"
  /\ instance' = [instance EXCEPT ![getter[g].holds].stamp = version]
  /\ entry' = IF probing /\ getter[g].blind THEN entry ELSE getter[g].holds
  /\ builder' = NoGetter
  /\ Serve(g, getter[g].holds, getter[g].blind)
  /\ UNCHANGED <<probing, version, built, fence>>

\* An instance whose version could not be read serves this request only.
Store(g) ==
  /\ getter[g].at = "store"
  /\ entry' = IF probing /\ getter[g].blind THEN entry ELSE getter[g].holds
  /\ builder' = NoGetter
  /\ Serve(g, getter[g].holds, getter[g].blind)
  /\ UNCHANGED <<probing, version, built, instance, fence>>

\* A write through this process, another replica or the file itself.
Write ==
  /\ version < MaxVersion
  /\ version' = version + 1
  /\ UNCHANGED <<probing, built, instance, entry, builder, fence, getter>>

\* Slip: an invalidation does not wait for a construction under way.
InvalidateAtOnce ==
  /\ fence' = version
  /\ entry' = NoInstance
  /\ UNCHANGED <<probing, version, built, instance, builder, getter>>

InvalidateEntry ==
  /\ builder = NoGetter
  /\ fence' = version
  /\ entry' = NoInstance
  /\ UNCHANGED <<probing, version, built, instance, builder, getter>>

\* The time to live ran out, or another organization needed the place.
Expire ==
  /\ entry # NoInstance
  /\ entry' = NoInstance
  /\ UNCHANGED <<probing, version, built, instance, builder, fence, getter>>

CacheNext ==
  \/ \E g \in Getters :
       \/ Look(g) \/ Inspect(g) \/ EvictInspected(g) \/ Enter(g)
       \/ RecheckFresh(g) \/ RecheckOutdated(g) \/ Stamp(g) \/ Load(g) \/ Store(g)
  \/ Write \/ InvalidateEntry \/ Expire

CacheSpec == CacheInit /\ [][CacheNext]_cacheVars

-----------------------------------------------------------------------------
ServesNow(g) == getter[g].at # "idle" /\ getter'[g].at = "idle"
Served(g) == instance[getter[g].holds]

\* A get that began after an invalidation had completed is served what was
\* stored by then or later, also when the probe of the version fails.
InvalidationIsSeen ==
  [][\A g \in Getters : ServesNow(g) => Served(g)'.loaded >= getter[g].must]_cacheVars

\* A get served on the word of a probe sees what was stored when it began.
FreshHitIsCurrent ==
  [][\A g \in Getters : ServesNow(g) /\ ~getter'[g].blind =>
       Served(g)'.loaded >= getter[g].was]_cacheVars
=============================================================================
