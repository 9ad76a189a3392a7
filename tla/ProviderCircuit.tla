-------------------------- MODULE ProviderCircuit --------------------------
(***************************************************************************)
(* The circuit breaker of one provider route, shared by the calls of a     *)
(* process.  Consecutive failures open it; while it is open calls are      *)
(* refused until the open period ends, when one call is let through as a   *)
(* probe.  A success of any call replaces the circuit by a closed one.     *)
(*                                                                         *)
(* Time is abstracted to the end of the open period and to a probe having  *)
(* run long enough that another may be sent.                               *)
(***************************************************************************)
EXTENDS Integers

CONSTANTS
  Calls,              \* calls of the route that may be under way
  OpenAfterFailures,  \* OPEN_AFTER_FAILURES
  MaxDoublings        \* doublings of the open period up to MAX_OPEN_SECONDS

ASSUME CircuitAssumption ==
  OpenAfterFailures \in Nat \ {0} /\ MaxDoublings \in Nat

VARIABLES
  circuit,  \* the route's _Circuit
  ticket    \* what each call was admitted as

circuitVars == <<circuit, ticket>>

Circuit == [period: {"closed", "open", "over"}, failures: 0..OpenAfterFailures,
            doubled: 0..MaxDoublings, probe: {"none", "running", "stale"}]
Closed == [period |-> "closed", failures |-> 0, doubled |-> 0, probe |-> "none"]

CircuitTypeOK ==
  /\ circuit \in Circuit
  /\ ticket \in [Calls -> {"none", "call", "probe"}]

CircuitInit ==
  /\ circuit = Closed
  /\ ticket = [c \in Calls |-> "none"]

-----------------------------------------------------------------------------
AdmitCall(c) ==
  /\ ticket[c] = "none"
  /\ circuit.period = "closed"
  /\ ticket' = [ticket EXCEPT ![c] = "call"]
  /\ UNCHANGED circuit

AdmitProbe(c) ==
  /\ ticket[c] = "none"
  /\ circuit.period = "over"
  /\ circuit.probe # "running"
  /\ circuit' = [circuit EXCEPT !.probe = "running"]
  /\ ticket' = [ticket EXCEPT ![c] = "probe"]

\* Every way a call ends settles its ticket; a probe's clears the mark.
Unmarked(c) == IF ticket[c] = "probe" THEN "none" ELSE circuit.probe

Succeeded(c) ==
  /\ ticket[c] # "none"
  /\ circuit' = Closed
  /\ ticket' = [ticket EXCEPT ![c] = "none"]

\* Slip: one failure too many.
OpensLate(failures, quota) == quota \/ failures > OpenAfterFailures

Opens(failures, quota) == quota \/ failures >= OpenAfterFailures

\* A failure of an admitted call while the breaker is closed.
FailedClosed(c, quota) ==
  /\ ticket[c] # "none"
  /\ circuit.period = "closed"
  /\ LET failures == circuit.failures + 1 IN
     circuit' = [circuit EXCEPT
       !.failures = failures, !.probe = Unmarked(c),
       !.period = IF Opens(failures, quota) THEN "open" ELSE "closed"]
  /\ ticket' = [ticket EXCEPT ![c] = "none"]

FailedProbe(c) ==
  /\ ticket[c] = "probe"
  /\ circuit.period # "closed"
  /\ circuit' = [circuit EXCEPT
       !.period = "open", !.probe = Unmarked(c),
       !.doubled = IF @ < MaxDoublings THEN @ + 1 ELSE @]
  /\ ticket' = [ticket EXCEPT ![c] = "none"]

\* A call dispatched before the breaker opened adds nothing.
FailedLate(c) ==
  /\ ticket[c] = "call"
  /\ circuit.period # "closed"
  /\ ticket' = [ticket EXCEPT ![c] = "none"]
  /\ UNCHANGED circuit

\* Slip: a call that ends for an unrelated reason keeps its mark.
CloseMarked(c) ==
  /\ ticket[c] # "none"
  /\ ticket' = [ticket EXCEPT ![c] = "none"]
  /\ UNCHANGED circuit

\* The call ended for a reason that says nothing of the provider.
Close(c) ==
  /\ ticket[c] # "none"
  /\ circuit' = [circuit EXCEPT !.probe = Unmarked(c)]
  /\ ticket' = [ticket EXCEPT ![c] = "none"]

PeriodEnds ==
  /\ circuit.period = "open"
  /\ circuit' = [circuit EXCEPT !.period = "over"]
  /\ UNCHANGED ticket

ProbeGrowsStale ==
  /\ circuit.probe = "running"
  /\ circuit' = [circuit EXCEPT !.probe = "stale"]
  /\ UNCHANGED ticket

CircuitNext ==
  \/ \E c \in Calls :
       \/ AdmitCall(c) \/ AdmitProbe(c)
       \/ Succeeded(c) \/ FailedProbe(c) \/ FailedLate(c) \/ Close(c)
       \/ \E quota \in BOOLEAN : FailedClosed(c, quota)
  \/ PeriodEnds \/ ProbeGrowsStale

CircuitSpec == CircuitInit /\ [][CircuitNext]_circuitVars

-----------------------------------------------------------------------------
\* A mark refuses every other probe only while a probe is under way: once all
\* calls have ended, however they did, the next one after the period is sent.
NoProbeIsForgotten ==
  circuit.probe # "none" => \E c \in Calls : ticket[c] = "probe"
=============================================================================
