--------------------------- MODULE MCResumableRun ---------------------------
(* Instances of ResumableRun for TLC.                                      *)
EXTENDS ResumableRun, TLC

CONSTANTS c1, c2, k1, k2

TwoCalls == {c1, c2}
TwoKeys == {k1, k2}

\* Each call asks a question of its own.
OwnKeys == [c \in Calls |-> IF c = c1 THEN k1 ELSE k2]

\* Every run has asked c1, and the other question is asked while resuming.
AllAskC1 == [r \in Runs |-> {c1}]

\* A stale answer, a question without an answer and an output that a delivery
\* left do not meet, nor does a changed answer meet another one or a stale one.
\* A run whose window is delivered goes on as one whose delivery never comes,
\* where nothing is erased.
Apart ==
  LET stale == \E c \in Calls : call[c].stale
      na == \E c \in Calls : call[c].na
      left == \E r \in Runs : run[r].published = "left" \/ prep[r].earlier
      changed == {c \in Calls : call[c].version = MaxVersion}
  IN /\ ~(stale /\ na) /\ ~(stale /\ left) /\ ~(na /\ left)
     /\ changed # Calls /\ ~(stale /\ changed # {})
     /\ \A r \in Runs : run[r].window # "settled"

WorkerSymmetry == Permutations(Workers)
=============================================================================
