--------------------------- MODULE WindowSelection ---------------------------
(***************************************************************************)
(* How ExtractionStreamStore._select picks the next batch of user inputs   *)
(* for one extractor.  Inputs are named by their ingestion sequence number *)
(* and belong to the admission record of the request that carried them.    *)
(* An absolute deadline (idle timeout, batch wait) is "none", "later" or   *)
(* "due"; the passage of time turns "later" into "due".                    *)
(*                                                                         *)
(* Nothing here is recursive and every selection is described by the set   *)
(* it yields, so modules that prove theorems can extend this one.          *)
(***************************************************************************)
EXTENDS Integers, FiniteSets, Sequences

CONSTANTS Kinds,      \* the extractors: "profile" and "playbook"
          Sessions,   \* conversations
          MaxWidth    \* bound on the configured window_size

ASSUME KindsAssumption == IsFiniteSet(Kinds)
ASSUME MaxWidthAssumption == MaxWidth \in Nat \ {0}

Deadlines == {"none", "later", "due"}

\* requests.learning_admission: the sequence range an accepted request was
\* given and the policy frozen into it.
Request ==
  [first: Nat, last: Nat, session: Sessions, eligible: SUBSET Kinds,
   force: BOOLEAN, finished: BOOLEAN, width: 1..MaxWidth, stride: 1..MaxWidth,
   idle: Deadlines, wait: Deadlines]

-----------------------------------------------------------------------------
\* The n smallest, and the n largest, members of a set of sequence numbers.
Earliest(S, n) == {s \in S : Cardinality({t \in S : t < s}) < n}
Latest(S, n)   == {s \in S : Cardinality({t \in S : t > s}) < n}

IsLeast(s, S)    == s \in S /\ \A t \in S : s <= t
IsGreatest(s, S) == s \in S /\ \A t \in S : t <= s

SeqsOf(r) == r.first .. r.last

\* Surviving inputs of kind k, and those its cursor has not reached.
Inputs(reqs, live, k) ==
  UNION {SeqsOf(reqs[i]) \cap live : i \in {j \in DOMAIN reqs : k \in reqs[j].eligible}}

Pending(reqs, live, k, after) == {s \in Inputs(reqs, live, k) : s > after}
Consumed(reqs, live, k, after) == {s \in Inputs(reqs, live, k) : s <= after}

\* The admission whose policy judges the batch: the one of its first input.
Policy(reqs, live, k, after) ==
  CHOOSE r \in {reqs[i] : i \in DOMAIN reqs} :
    \E s \in Pending(reqs, live, k, after) :
      IsLeast(s, Pending(reqs, live, k, after)) /\ s \in SeqsOf(r)

-----------------------------------------------------------------------------
(* Barriers: a position the batch must not cross and need not fill up to.  *)

ForcedEnds(reqs, live, k, after) ==
  {reqs[i].last : i \in
     {j \in DOMAIN reqs :
        /\ reqs[j].force /\ k \in reqs[j].eligible
        /\ \E s \in SeqsOf(reqs[j]) \cap live : s > after}}

\* Any finished request of a session, whatever kinds it is eligible for, as
\* long as an eligible input of that session is still pending before it.
FinishedEnds(reqs, live, k, after) ==
  {reqs[i].last : i \in
     {j \in DOMAIN reqs :
        /\ reqs[j].finished
        /\ \E m \in DOMAIN reqs :
             /\ reqs[m].session = reqs[j].session /\ k \in reqs[m].eligible
             /\ \E s \in SeqsOf(reqs[m]) \cap live : after < s /\ s <= reqs[j].last}}

Owners(reqs, new) == {i \in DOMAIN reqs : SeqsOf(reqs[i]) \cap new # {}}

\* _batch_wait_boundary: one overdue member coalesces the whole prefix.
BatchEnds(reqs, new) ==
  IF \E i \in Owners(reqs, new) : reqs[i].wait = "due"
  THEN {s \in new : IsGreatest(s, new)}
  ELSE {}

\* _idle_boundary: judged by the latest request of each session in the batch.
LatestOfSession(reqs, s) ==
  {i \in DOMAIN reqs : reqs[i].session = s
                       /\ \A j \in DOMAIN reqs : reqs[j].session = s => j <= i}

SessionTails(reqs, new) ==
  UNION {LatestOfSession(reqs, reqs[i].session) : i \in Owners(reqs, new)}
IdleEnds(reqs, new) ==
  {reqs[i].last : i \in {j \in SessionTails(reqs, new) : reqs[j].idle = "due"}}

-----------------------------------------------------------------------------
\* Slip: a started cursor asks for its stride, whatever erasure took from the
\* context.
NeededIgnoringContext(reqs, live, k, after, started) ==
  LET p == Policy(reqs, live, k, after) IN IF started THEN p.stride ELSE p.width

\* How many new inputs fill a batch: the stride once the cursor has started,
\* but never fewer than what the surviving context leaves of the width.
Needed(reqs, live, k, after, started) ==
  LET p == Policy(reqs, live, k, after)
      context == Cardinality(Latest(Consumed(reqs, live, k, after), p.width))
  IN  IF started /\ p.stride > p.width - context THEN p.stride
      ELSE IF started THEN p.width - context
      ELSE p.width

Visible(reqs, live, k, after) ==
  Earliest(Pending(reqs, live, k, after), Policy(reqs, live, k, after).width)

Short(reqs, live, k, after, started) ==
  Cardinality(Visible(reqs, live, k, after)) < Needed(reqs, live, k, after, started)

\* The candidate barriers in force: each rule is consulted only when the
\* ones before it found none, and the deadlines only for a short batch.
Barriers(reqs, live, k, after, started) ==
  LET forced   == ForcedEnds(reqs, live, k, after)
      finished == FinishedEnds(reqs, live, k, after)
      new      == Visible(reqs, live, k, after)
      short    == Short(reqs, live, k, after, started)
  IN  IF forced # {} THEN forced
      ELSE IF finished # {} THEN finished
      ELSE IF ~short THEN {}
      ELSE IF BatchEnds(reqs, new) # {} THEN BatchEnds(reqs, new)
      ELSE IdleEnds(reqs, new)

\* The new inputs of the next window; {} when _select returns no window.
NewInputs(reqs, live, k, after, started) ==
  LET bars == Barriers(reqs, live, k, after, started)
      new  == {s \in Visible(reqs, live, k, after) : \A b \in bars : s <= b}
  IN  IF Pending(reqs, live, k, after) = {} THEN {}
      ELSE IF bars = {} /\ Short(reqs, live, k, after, started) THEN {}
      ELSE Earliest(new, Needed(reqs, live, k, after, started))

\* Slip: the combined rows are cut at the wrong end.
ManifestHead(reqs, live, k, after, started) ==
  LET width == Policy(reqs, live, k, after).width
  IN  Earliest(Latest(Consumed(reqs, live, k, after), width)
                 \cup NewInputs(reqs, live, k, after, started), width)

\* The stored manifest: the last width of the context and the new inputs.
Manifest(reqs, live, k, after, started) ==
  LET width == Policy(reqs, live, k, after).width
  IN  Latest(Latest(Consumed(reqs, live, k, after), width)
               \cup NewInputs(reqs, live, k, after, started), width)

Selectable(reqs, live, k, after, started) ==
  NewInputs(reqs, live, k, after, started) # {}

\* The unexpired deadlines an unselected kind waits for (the "deadlines" list).
Awaits(reqs, live, k, after, started) ==
  LET new == Visible(reqs, live, k, after)
  IN  /\ Pending(reqs, live, k, after) # {}
      /\ Barriers(reqs, live, k, after, started) = {}
      /\ Short(reqs, live, k, after, started)
      /\ \/ \E i \in Owners(reqs, new) : reqs[i].wait = "later"
         \/ \E i \in SessionTails(reqs, new) : reqs[i].idle = "later"
=============================================================================
