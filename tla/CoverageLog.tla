----------------------------- MODULE CoverageLog -----------------------------
(***************************************************************************)
(* What the durable extraction stream promises, without leases, workers,   *)
(* windows, retries or time.  Accepted inputs form a log; each extractor   *)
(* consumes, in order and in one step each, batches of the inputs that     *)
(* survive and that its admission made eligible.  A batch is published     *)
(* once and completely, or an operator retires it; an erased input is      *)
(* never published after its erasure.                                      *)
(***************************************************************************)
EXTENDS Integers, FiniteSets

CONSTANTS Kinds,      \* the extractors
          Positions   \* the sequence numbers inputs may be given

VARIABLES
  wanted,     \* wanted[k]: the accepted inputs extractor k is to see
  live,       \* the accepted inputs not yet erased
  completed,  \* completed[k]: the position extractor k has passed
  published   \* published[k]: the inputs extractor k has published

logVars == <<wanted, live, completed, published>>

Accepted == (UNION {wanted[k] : k \in Kinds}) \cup live

Init ==
  /\ wanted = [k \in Kinds |-> {}]
  /\ live = {}
  /\ completed = [k \in Kinds |-> 0]
  /\ published = [k \in Kinds |-> {}]

\* Accepted inputs come after everything any extractor has consumed.
Accept(new, for) ==
  /\ new \cap Accepted = {}
  /\ \A s \in new, t \in Accepted : t < s
  /\ \A s \in new, k \in Kinds : completed[k] < s
  /\ live' = live \cup new
  /\ wanted' = [k \in Kinds |-> IF k \in for THEN wanted[k] \cup new ELSE wanted[k]]
  /\ UNCHANGED <<completed, published>>

Erase(s) ==
  /\ s \in live
  /\ live' = live \ {s}
  /\ UNCHANGED <<wanted, completed, published>>

Batch(k, end) == {s \in wanted[k] \cap live : completed[k] < s /\ s <= end}

\* Everything that survives up to end is published together, exactly once.
Publish(k, end) ==
  /\ Batch(k, end) # {}
  /\ end \in Batch(k, end)
  /\ completed' = [completed EXCEPT ![k] = end]
  /\ published' = [published EXCEPT ![k] = @ \cup Batch(k, end)]
  /\ UNCHANGED <<wanted, live>>

\* An operator closes a batch that cannot be extracted; nothing is published.
Retire(k, end) ==
  /\ completed[k] < end
  /\ end \in wanted[k]
  /\ completed' = [completed EXCEPT ![k] = end]
  /\ UNCHANGED <<wanted, live, published>>

Next ==
  \/ \E new \in (SUBSET Positions) \ {{}}, for \in SUBSET Kinds : Accept(new, for)
  \/ \E s \in Positions : Erase(s)
  \/ \E k \in Kinds, end \in Positions : Publish(k, end) \/ Retire(k, end)

Spec == Init /\ [][Next]_logVars
=============================================================================
