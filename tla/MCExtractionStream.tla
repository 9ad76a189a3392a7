------------------------- MODULE MCExtractionStream -------------------------
(***************************************************************************)
(* Instances of ExtractionStream for TLC: request shapes, kind orders and  *)
(* the symmetry of the workers.                                            *)
(***************************************************************************)
EXTENDS ExtractionStream, TLC

Shape(size, for, force, width, stride, idle, wait) ==
  [size |-> size, session |-> CHOOSE s \in Sessions : TRUE, eligible |-> for,
   force |-> force, width |-> width, stride |-> stride, idle |-> idle, wait |-> wait]

OneKindOrder  == {}
TwoKindsOrder == {<<"playbook", "profile">>}

\* A window of two that slides by one, judged by its idle timeout.
WindowShapes == {Shape(1, Kinds, FALSE, 2, 1, "later", "none")}

\* Every input is a batch of its own.
SingleShapes == {Shape(1, Kinds, FALSE, 1, 1, "none", "none")}

\* Inputs for both kinds or for one of them.
SplitShapes ==
  {Shape(1, Kinds, FALSE, 1, 1, "none", "none"),
   Shape(1, {"profile"}, FALSE, 1, 1, "none", "none")}

\* One policy for all requests: a batch of two, coalesced by its deadline.
UniformShapes == {Shape(1, Kinds, FALSE, 2, 2, "none", "later")}

WorkerSymmetry == Permutations(Workers)
=============================================================================
