---------------------------- MODULE ResumableRun ----------------------------
(***************************************************************************)
(* Resumable extraction runs of one user: the questions a run has asked,   *)
(* its dependencies on their answers, and the workers that resume the run  *)
(* when an answer arrives and publish what it computes.                    *)
(*                                                                         *)
(* Answers come from callbacks that take no lease; a worker holds the      *)
(* user's lease, and every write of its turn is one transaction fenced by  *)
(* that lease and by the run's claim.  The model call, the preparation, a  *)
(* crash and the expiry of the lease fall between those transactions.      *)
(*                                                                         *)
(* An answer is its version: a new answer, an edit and a "not applicable"  *)
(* each give the call a version no reader has seen.  Clock comparisons are *)
(* flags: due (expires_at has passed), stale (valid_until has passed).     *)
(*                                                                         *)
(* A run may be that of an extraction window whose effects are still to be *)
(* delivered.  The delivery takes the same lease and may park the run; an  *)
(* erasure before it leaves the run one that no selection returns.         *)
(***************************************************************************)
EXTENDS Integers, FiniteSets

CONSTANTS
  Workers,      \* threads (of any process) that take turns for the user
  NoOne,        \* the absent lease holder or claimant
  Runs,         \* finished first turns that may be resumed
  Calls,        \* supply of pending tool calls (uuid4 in the code)
  Keys,         \* dedup keys of questions
  KeyOf,        \* the key of each call
  Asked,        \* the calls each run has asked in its first turn
  Windows,      \* the runs that are of a window, not of a direct call
  Foreign,      \* calls asked by another user, whose data may be erased
  MaxResume,    \* max_resume_attempts
  MaxFinalize,  \* max_finalization_attempts
  MaxVersion,   \* bound: answers given, edited or withdrawn, per call
  Callbacks,    \* which callbacks happen in an instance
  Failures      \* which failures of a turn happen in an instance

ASSUME RunAssumption ==
  /\ MaxResume \in Nat \ {0}
  /\ MaxFinalize \in Nat \ {0}
  /\ MaxVersion \in Nat
  /\ NoOne \notin Workers
  /\ Runs # {}
  /\ KeyOf \in [Calls -> Keys]
  /\ Asked \in [Runs -> SUBSET Calls]
  /\ Foreign \subseteq Calls
  /\ Windows \subseteq Runs

VARIABLES
  call,   \* _pending_tool_calls, by id
  dep,    \* _run_tool_dependencies, by run and call
  run,    \* _agent_runs, by id
  prep,   \* _agent_output_preparations, by run
  lease,  \* learning_work.lease_token and lease_until of the user
  turn,   \* what each worker's thread has in hand
  used,   \* history: <<run, call, version>> of published answers
  spent,  \* history: resumed computations that no outage undid
  wasted  \* history: preparations begun and neither saved nor undone by an outage

tables  == <<call, dep, run, prep, lease>>
history == <<used, spent, wasted>>
vars == <<call, dep, run, prep, lease, turn, used, spent, wasted>>

-----------------------------------------------------------------------------
CallStatuses == {"none", "pending", "resolved", "cancelled", "expired",
                 "superseded", "deleted"}
Call == [status: CallStatuses, version: 0..MaxVersion, na: BOOLEAN,
         stale: BOOLEAN, due: BOOLEAN]

Unresolved == 0   \* a NULL resolved_at
Closed == -1      \* resolved_at set by a cancellation or an expiry
Dep == [attached: BOOLEAN, at: Closed..MaxVersion, consumed: BOOLEAN]
NoDep == [attached |-> FALSE, at |-> Unresolved, consumed |-> FALSE]

Parked == {"finalized", "finalized_pending_tool"}
Statuses == Parked \cup {"resume_ready", "resuming", "agent_completed", "finalizing",
                         "finalization_failed", "failed", "cancelled"}

Versions == [Calls -> 0..MaxVersion]   \* 0: the answer was not read
NoVersions == [c \in Calls |-> 0]

\* output: how many outputs the run has committed; published: whether the
\* last of them has its receipt, or was left without one by a delivery; uses,
\* deps: its captured input witnesses; asked: pending_tool_call_ids, the
\* questions of that output; window: whether the effects of the run's window
\* are owed, delivered (or the run is not of a window), or will never be, since
\* the window was invalidated first.
Run == [status: Statuses, claimant: Workers \cup {NoOne}, attempts: Nat,
        fin: Nat, output: Nat, published: {"no", "yes", "left"}, uses: Versions,
        deps: SUBSET Calls, asked: SUBSET Calls, sources: BOOLEAN,
        window: {"owed", "settled", "invalid"}]

\* earlier: the row is of an output before the last.
Prep == [entry: {"none", "mine", "orphaned"}, saved: BOOLEAN, earlier: BOOLEAN]
NoPrep == [entry |-> "none", saved |-> FALSE, earlier |-> FALSE]

Resuming   == {"adopted", "loaded", "computing"}
Finalizing == {"selected", "finalizing", "checked", "preparing", "prepared"}
Phases == {"idle", "failed", "completed"} \cup Resuming \cup Finalizing

Turn == [phase: Phases, run: Runs, uses: Versions, deps: SUBSET Calls,
         asked: SUBSET Calls]
IdleTurn == [phase |-> "idle", run |-> CHOOSE r \in Runs : TRUE,
             uses |-> NoVersions, deps |-> {}, asked |-> {}]

\* The shape of every row the component stores and of a turn.
TypeOK ==
  /\ call \in [Calls -> Call]
  /\ dep \in [Runs -> [Calls -> Dep]]
  /\ run \in [Runs -> Run]
  /\ prep \in [Runs -> Prep]
  /\ lease \in [holder: Workers \cup {NoOne}, live: BOOLEAN]
  /\ turn \in [Workers -> Turn]
  /\ used \subseteq Runs \X Calls \X (1..MaxVersion)
  /\ spent \in [Runs -> Int]
  /\ wasted \in [Runs -> Int]

NoLease == [holder |-> NoOne, live |-> FALSE]

\* Every run has published its first turn and waits for what it asked; the
\* effects of its window are not yet delivered.
Init ==
  /\ call = [c \in Calls |->
       [status |-> IF c \in Foreign \/ \E r \in Runs : c \in Asked[r]
                   THEN "pending" ELSE "none",
        version |-> 0, na |-> FALSE, stale |-> FALSE, due |-> FALSE]]
  /\ dep = [r \in Runs |-> [c \in Calls |-> [NoDep EXCEPT !.attached = c \in Asked[r]]]]
  /\ run = [r \in Runs |->
       [status |-> IF Asked[r] = {} THEN "finalized" ELSE "finalized_pending_tool",
        claimant |-> NoOne, attempts |-> 0, fin |-> 0, output |-> 0,
        published |-> "yes", uses |-> NoVersions, deps |-> {}, asked |-> {},
        sources |-> TRUE, window |-> IF r \in Windows THEN "owed" ELSE "settled"]]
  /\ prep = [r \in Runs |-> NoPrep]
  /\ lease = NoLease
  /\ turn = [w \in Workers |-> IdleTurn]
  /\ used = {}
  /\ spent = [r \in Runs |-> 0]
  /\ wasted = [r \in Runs |-> 0]

-----------------------------------------------------------------------------
(* Clauses the statements share; the primed table is passed in.            *)

\* d.resolved_at IS NOT NULL AND d.consumed_at IS NULL on a usable answer.
Actionable(calls, deps, r) ==
  \E c \in Calls :
    /\ deps[r][c].attached /\ deps[r][c].at # Unresolved /\ ~deps[r][c].consumed
    /\ calls[c].status = "resolved" /\ ~calls[c].na

\* d.resolved_at IS NULL AND d.consumed_at IS NULL on a pending question.
Awaiting(calls, deps, r) ==
  \E c \in Calls :
    /\ deps[r][c].attached /\ deps[r][c].at = Unresolved /\ ~deps[r][c].consumed
    /\ calls[c].status = "pending"

\* UPDATE _agent_runs SET status = s for the runs in S.
Moved(runs, S, s) ==
  [r \in Runs |-> IF r \in S THEN [runs[r] EXCEPT !.status = s] ELSE runs[r]]

Attached(c) == {r \in Runs : dep[r][c].attached}
WithStatus(S) == {r \in Runs : run[r].status \in S}

\* Other usable answers under the key of c give way to it.
Superseding(c, calls) ==
  [d \in Calls |->
     IF d # c /\ KeyOf[d] = KeyOf[c] /\ calls[d].status = "resolved" /\ ~calls[d].stale
     THEN [calls[d] EXCEPT !.status = "superseded"]
     ELSE calls[d]]

\* The fields of call c after an answer with version v.
Answered(c, na) ==
  [call EXCEPT ![c].status = "resolved", ![c].version = @ + 1, ![c].na = na,
               ![c].stale = FALSE]

Callback(name) == name \in Callbacks /\ UNCHANGED <<prep, lease, turn, history>>

-----------------------------------------------------------------------------
(* Callbacks: answers, edits, withdrawals, expiry, erasure.                *)

\* Slip: a first answer wakes only the runs that still wait for a question.
ResolveWaitingOnly(c) ==
  /\ Callback("resolve")
  /\ call[c].status = "pending" /\ call[c].version < MaxVersion
  /\ call' = Superseding(c, Answered(c, FALSE))
  /\ dep' = [r \in Runs |-> [dep[r] EXCEPT ![c].at =
               IF @ = Unresolved /\ dep[r][c].attached THEN call[c].version + 1 ELSE @]]
  /\ run' = Moved(run, {r \in WithStatus({"finalized_pending_tool"}) \cap Attached(c) :
                        dep'[r][c].at # Unresolved /\ ~dep'[r][c].consumed}, "resume_ready")

\* resolve_pending_tool_call: the first answer of a pending question.
Resolve(c) ==
  /\ Callback("resolve")
  /\ call[c].status = "pending" /\ call[c].version < MaxVersion
  /\ call' = Superseding(c, Answered(c, FALSE))
  /\ dep' = [r \in Runs |-> [dep[r] EXCEPT ![c].at =
               IF @ = Unresolved /\ dep[r][c].attached THEN call[c].version + 1 ELSE @]]
  /\ run' = Moved(run, {r \in WithStatus(Parked) \cap Attached(c) :
                        dep'[r][c].at # Unresolved /\ ~dep'[r][c].consumed}, "resume_ready")

\* update_resolved_pending_tool_call_result: an edited answer is unconsumed
\* again for every dependent, and wakes those that are parked.
Edit(c) ==
  /\ Callback("edit")
  /\ call[c].status = "resolved" /\ call[c].version < MaxVersion
  /\ call' = Superseding(c, Answered(c, FALSE))
  /\ dep' = [r \in Runs |-> IF dep[r][c].attached
               THEN [dep[r] EXCEPT ![c].at = call[c].version + 1, ![c].consumed = FALSE]
               ELSE dep[r]]
  /\ run' = Moved(run, {r \in WithStatus(Parked) \cap Attached(c) : Actionable(call', dep', r)},
                  "resume_ready")

\* mark_pending_tool_call_not_applicable: the user has no answer; the
\* dependency is consumed, and runs left without an answer are finalized.
MarkNotApplicable(c) ==
  /\ Callback("notApplicable")
  /\ call[c].status \in {"pending", "resolved"} /\ call[c].version < MaxVersion
  /\ call' = Answered(c, TRUE)
  /\ dep' = [r \in Runs |-> IF dep[r][c].attached /\ ~dep[r][c].consumed
               THEN [dep[r] EXCEPT ![c].at = IF @ = Unresolved THEN call[c].version + 1 ELSE @,
                                   ![c].consumed = TRUE]
               ELSE dep[r]]
  /\ LET woken == {r \in WithStatus(Parked) \cap Attached(c) : Actionable(call', dep', r)}
         done  == {r \in WithStatus({"finalized_pending_tool", "resume_ready"}) \cap Attached(c) :
                     ~Actionable(call', dep', r) /\ ~Awaiting(call', dep', r)}
     IN run' = Moved(Moved(run, woken, "resume_ready"), done, "finalized")

\* The dependencies a question leaves behind when it closes unanswered.
ClosedDeps(c) ==
  [r \in Runs |-> [dep[r] EXCEPT ![c].at =
     IF @ = Unresolved /\ dep[r][c].attached THEN Closed ELSE @]]

\* cancel_pending_tool_call: the sweep covers every run that waits for nothing.
Cancel(c) ==
  /\ Callback("cancel")
  /\ call[c].status = "pending"
  /\ call' = [call EXCEPT ![c].status = "cancelled"]
  /\ dep' = ClosedDeps(c)
  /\ run' = Moved(run, {r \in WithStatus({"finalized_pending_tool"}) : ~Awaiting(call', dep', r)},
                  "finalized")

\* _expire_pending_question: only the dependents of this question move.
Expire(c) ==
  /\ Callback("expire")
  /\ call[c].status = "pending" /\ call[c].due
  /\ call' = [call EXCEPT ![c].status = "expired"]
  /\ dep' = ClosedDeps(c)
  /\ LET waiting == WithStatus({"finalized_pending_tool"}) \cap Attached(c)
         ready   == {r \in waiting : Actionable(call', dep', r)}
         done    == {r \in waiting : ~Actionable(call', dep', r) /\ ~Awaiting(call', dep', r)}
     IN run' = Moved(Moved(run, ready, "resume_ready"), done, "finalized")

\* The rows that survive the deletion of the calls in S; dependencies cascade.
DeleteCalls(S) ==
  /\ call' = [c \in Calls |-> IF c \in S THEN [call[c] EXCEPT !.status = "deleted"] ELSE call[c]]
  /\ dep' = [r \in Runs |-> [c \in Calls |-> IF c \in S THEN NoDep ELSE dep[r][c]]]

\* delete_expired_pending_tool_calls: the sweep of rows expired long ago.
DeleteExpired(c) ==
  /\ Callback("expire")
  /\ call[c].status = "expired"
  /\ DeleteCalls({c})
  /\ UNCHANGED run

\* The questions of an output that are erased are not waited for.
WithoutForeign(runs) == [r \in Runs |-> [runs[r] EXCEPT !.asked = @ \ Foreign]]

\* Slip: a run that is ready for an answer is left as it is.
EraseForeignWaitingOnly ==
  /\ Callback("erase")
  /\ \E c \in Foreign : call[c].status \notin {"none", "deleted"}
  /\ DeleteCalls({c \in Foreign : call[c].status # "none"})
  /\ LET affected == {r \in WithStatus({"finalized_pending_tool"}) :
                        \E c \in Foreign : dep[r][c].attached}
         ready   == {r \in affected : Actionable(call', dep', r)}
         waiting == {r \in affected \ ready : Awaiting(call', dep', r)}
     IN run' = WithoutForeign(Moved(Moved(Moved(run, affected, "finalized"),
                              waiting, "finalized_pending_tool"), ready, "resume_ready"))

\* _erase_pending_tool_calls_for_user_unlocked, for the other user: an
\* executing run loses its phase, so its turn cannot write what it has read.
EraseForeign ==
  /\ Callback("erase")
  /\ \E c \in Foreign : call[c].status \notin {"none", "deleted"}
  /\ DeleteCalls({c \in Foreign : call[c].status # "none"})
  /\ LET affected == {r \in WithStatus({"finalized_pending_tool", "resume_ready", "resuming"}) :
                        \E c \in Foreign : dep[r][c].attached}
         ready   == {r \in affected : Actionable(call', dep', r)}
         waiting == {r \in affected \ ready : Awaiting(call', dep', r)}
     IN run' = WithoutForeign(Moved(Moved(Moved(run, affected, "finalized"),
                              waiting, "finalized_pending_tool"), ready, "resume_ready"))

\* The source interactions of a run are deleted, and with them the effects
\* its window still owes; the run is told nothing.
EraseSources(r) ==
  /\ Callback("eraseSources")
  /\ run[r].sources
  /\ run' = [run EXCEPT ![r].sources = FALSE,
                        ![r].window = IF @ = "owed" THEN "invalid" ELSE @]
  /\ UNCHANGED <<call, dep>>

\* Time passes: a question falls due, an answer outlives its validity.
FallDue(c) ==
  /\ Callback("expire")
  /\ call[c].status = "pending" /\ ~call[c].due
  /\ call' = [call EXCEPT ![c].due = TRUE]
  /\ UNCHANGED <<dep, run>>

GoStale(c) ==
  /\ Callback("stale")
  /\ call[c].status = "resolved" /\ ~call[c].stale
  /\ call' = [call EXCEPT ![c].stale = TRUE]
  /\ UNCHANGED <<dep, run>>

-----------------------------------------------------------------------------
(* Turns.  A worker that takes the user's lease adopts one run.            *)

LeaseFree == lease.holder = NoOne \/ ~lease.live

\* The fence of every write of a turn: the live lease, the claim, the status.
Owns(w, s) ==
  LET r == turn[w].run IN
  /\ lease = [holder |-> w, live |-> TRUE]
  /\ run[r].claimant = w
  /\ run[r].status = s

\* The status a turn's phase is fenced by.
Expected(w) ==
  CASE turn[w].phase \in Resuming -> "resuming"
    [] turn[w].phase = "failed" -> "failed"
    [] turn[w].phase = "completed" -> "agent_completed"
    [] OTHER -> "finalizing"

\* A turn at one of `phases` that still owns its run.
At(w, phases) == turn[w].phase \in phases /\ Owns(w, Expected(w))

Advance(w, p) == turn' = [turn EXCEPT ![w].phase = p] /\ UNCHANGED lease

\* The finally clause of a turn: release by token.  A crash before it only
\* leaves the lease to lapse, as a crash of an idle holder does.
EndTurn(w) ==
  /\ turn' = [turn EXCEPT ![w] = IdleTurn]
  /\ lease' = IF lease.holder = w THEN NoLease ELSE lease

Outcome(w, s) == run' = [run EXCEPT ![turn[w].run].status = s]

\* Selection adopts r under the lease: the claim of an earlier execution is
\* replaced, and a preparation that execution had begun is nobody's now.
Adopt(w, r, s, p) ==
  /\ turn[w].phase = "idle" /\ LeaseFree
  /\ lease' = [holder |-> w, live |-> TRUE]
  /\ run' = [run EXCEPT ![r].status = s, ![r].claimant = w]
  /\ prep' = [prep EXCEPT ![r].entry = IF @ = "mine" THEN "orphaned" ELSE @]
  /\ turn' = [turn EXCEPT ![w] = [IdleTurn EXCEPT !.phase = p, !.run = r]]
  /\ UNCHANGED <<call, dep, history>>

\* Slip: a run whose publication failed is resumed again.
SelectFailedToo(w, r) ==
  /\ run[r].window # "invalid"
  /\ run[r].status \in {"resume_ready", "resuming", "finalization_failed"}
  /\ Actionable(call, dep, r)
  /\ Adopt(w, r, "resuming", "adopted")

\* resume_work_condition: the window of a run is not invalidated.
Selectable(r) == run[r].window # "invalid"

SelectContinuation(w, r) ==
  /\ Selectable(r)
  /\ run[r].status \in {"resume_ready", "resuming"}
  /\ Actionable(call, dep, r)
  /\ Adopt(w, r, "resuming", "adopted")

SelectFinalization(w, r) ==
  /\ Selectable(r)
  /\ run[r].status \in {"finalization_failed", "finalizing", "agent_completed"}
  /\ Adopt(w, r, "finalizing", "selected")

-----------------------------------------------------------------------------
(* Before the model call.                                                  *)

Erased(w) == ~run[turn[w].run].sources

\* Saved output whose source was erased is never revived by a selection.
CancelErased(w) ==
  /\ At(w, {"adopted", "selected"}) /\ Erased(w)
  /\ Outcome(w, "cancelled") /\ EndTurn(w)
  /\ UNCHANGED <<call, dep, prep, history>>

RefuseSpent(w) ==
  /\ At(w, {"adopted"}) /\ ~Erased(w)
  /\ run[turn[w].run].attempts >= MaxResume
  /\ Outcome(w, "failed") /\ EndTurn(w)
  /\ UNCHANGED <<call, dep, prep, history>>

\* _load_resolved_tool_calls: it asks neither for validity nor applicability.
Loaded(r) ==
  {c \in Calls : /\ dep[r][c].attached /\ dep[r][c].at # Unresolved /\ ~dep[r][c].consumed
                 /\ call[c].status = "resolved"}

Load(w) ==
  LET r == turn[w].run IN
  /\ At(w, {"adopted"}) /\ ~Erased(w) /\ run[r].attempts < MaxResume
  /\ Loaded(r) # {}
  /\ turn' = [turn EXCEPT ![w] = [@ EXCEPT
       !.phase = "loaded", !.deps = Loaded(r),
       !.uses = [c \in Calls |-> IF c \in Loaded(r) THEN call[c].version ELSE 0]]]
  /\ UNCHANGED <<call, dep, run, prep, lease, history>>

\* An ordinary failure before the output is committed.
Retry(w) ==
  /\ Outcome(w, IF run[turn[w].run].attempts >= MaxResume THEN "failed" ELSE "resume_ready")
  /\ EndTurn(w)
  /\ UNCHANGED <<call, dep, prep, history>>

FindNoAnswer(w) ==
  /\ At(w, {"adopted"}) /\ ~Erased(w) /\ run[turn[w].run].attempts < MaxResume
  /\ Loaded(turn[w].run) = {}
  /\ Retry(w)

\* A loaded answer that has outlived its validity is refused uncharged.
LoadedStale(w) == \E c \in turn[w].deps : call[c].stale /\ call[c].version = turn[w].uses[c]

RefuseStale(w) ==
  /\ At(w, {"loaded"}) /\ LoadedStale(w)
  /\ Retry(w)

\* begin_extraction_resume: the model call is charged before it is made.
Charge(w) ==
  /\ At(w, {"loaded"}) /\ ~LoadedStale(w)
  /\ run' = [run EXCEPT ![turn[w].run].attempts = @ + 1]
  /\ spent' = [spent EXCEPT ![turn[w].run] = @ + 1]
  /\ Advance(w, "computing")
  /\ UNCHANGED <<call, dep, prep, used, wasted>>

\* Slip: every deferral refunds an attempt.
DeferAlwaysRefunds(w) ==
  LET r == turn[w].run
      entered == turn[w].phase = "computing"
  IN
  /\ "outage" \in Failures
  /\ At(w, Resuming)
  /\ run' = [run EXCEPT ![r].status = "resume_ready",
                        ![r].attempts = @ - 1]
  /\ spent' = [spent EXCEPT ![r] = IF entered THEN @ - 1 ELSE @]
  /\ EndTurn(w)
  /\ UNCHANGED <<call, dep, prep, used, wasted>>

\* _defer_without_charge: readiness is unavailable or the provider is down
\* for everyone; only the charge of this execution is refunded.
Defer(w) ==
  LET r == turn[w].run
      entered == turn[w].phase = "computing"
  IN
  /\ "outage" \in Failures
  /\ At(w, Resuming)
  /\ run' = [run EXCEPT ![r].status = "resume_ready",
                        ![r].attempts = IF entered THEN @ - 1 ELSE @]
  /\ spent' = [spent EXCEPT ![r] = IF entered THEN @ - 1 ELSE @]
  /\ EndTurn(w)
  /\ UNCHANGED <<call, dep, prep, used, wasted>>

-----------------------------------------------------------------------------
(* The model call: its tools, its completion, its failures.                *)

Attach(deps, r, c) ==
  IF deps[r][c].attached THEN deps ELSE [deps EXCEPT ![r][c] = [NoDep EXCEPT !.attached = TRUE]]

Open(c) == call[c].status = "pending" /\ ~call[c].due

\* handle_ask_human, when no open question has the key or its cache_until has
\* passed (left open here): c is created.
Ask(w, c) ==
  /\ At(w, {"computing"})
  /\ call[c].status = "none"
  /\ call' = [call EXCEPT ![c].status = "pending"]
  /\ dep' = Attach(dep, turn[w].run, c)
  /\ turn' = [turn EXCEPT ![w].asked = @ \cup {c}]
  /\ UNCHANGED <<run, prep, lease, history>>

\* The same, when the question is shared by its key, and
\* handle_attach_pending_info_request for an open question of anybody.
AttachOpen(w, c) ==
  /\ At(w, {"computing"})
  /\ Open(c)
  /\ dep' = Attach(dep, turn[w].run, c)
  /\ turn' = [turn EXCEPT ![w].asked = @ \cup {c}]
  /\ UNCHANGED <<call, run, prep, lease, history>>

\* That tool, and prior knowledge, for an answer that is already there:
\* it becomes an input of the output without being a dependency.
ReadAnswer(w, c) ==
  /\ At(w, {"computing"})
  /\ call[c].status = "resolved" /\ ~call[c].stale
  /\ turn[w].uses[c] \in {0, call[c].version}
  /\ turn' = [turn EXCEPT ![w].uses[c] = call[c].version]
  /\ UNCHANGED <<call, dep, run, prep, lease, history>>

\* Every captured answer is the one the model has read, and still valid.
Current(uses) ==
  \A c \in Calls : uses[c] # 0 =>
    call[c].status = "resolved" /\ call[c].version = uses[c] /\ ~call[c].stale

\* A preparation of an output left unpublished stays, and is in the way.
Outdated(r) ==
  IF run[r].published = "left" /\ (prep[r].saved \/ prep[r].entry # "none")
  THEN [prep[r] EXCEPT !.earlier = TRUE]
  ELSE [prep[r] EXCEPT !.saved = FALSE]

Complete(w) ==
  LET r == turn[w].run IN
  /\ At(w, {"computing"})
  /\ Current(turn[w].uses) /\ ~Erased(w)
  /\ run' = [run EXCEPT
       ![r].status = "agent_completed", ![r].output = @ + 1, ![r].published = "no",
       ![r].uses = turn[w].uses, ![r].deps = turn[w].deps, ![r].asked = turn[w].asked]
  /\ prep' = [prep EXCEPT ![r] = Outdated(r)]
  /\ Advance(w, "completed")
  /\ UNCHANGED <<call, dep, history>>

\* agent_completion_input_scope refuses an output whose inputs have changed.
RefuseCompletion(w) ==
  /\ At(w, {"computing"})
  /\ ~Current(turn[w].uses) \/ Erased(w)
  /\ Retry(w)

\* Input contention keeps the charge and returns the run at once.
BusyCompletion(w) ==
  /\ "busy" \in Failures
  /\ At(w, {"computing"})
  /\ Outcome(w, "resume_ready") /\ EndTurn(w)
  /\ UNCHANGED <<call, dep, prep, history>>

\* The agent writes its failure; the worker turns it into a retry or leaves it.
ModelFails(w) ==
  /\ "fault" \in Failures
  /\ At(w, {"computing"})
  /\ Outcome(w, "failed") /\ Advance(w, "failed")
  /\ UNCHANGED <<call, dep, prep, history>>

RetryFailed(w) == At(w, {"failed"}) /\ Retry(w)

\* The worker takes up the committed output, or is deferred before it does.
BeginFinalizing(w) ==
  /\ At(w, {"completed"})
  /\ Outcome(w, "finalizing") /\ Advance(w, "finalizing")
  /\ UNCHANGED <<call, dep, prep, history>>

DeferCompleted(w) ==
  /\ "busy" \in Failures
  /\ At(w, {"completed"})
  /\ Outcome(w, "finalization_failed") /\ EndTurn(w)
  /\ UNCHANGED <<call, dep, prep, history>>

-----------------------------------------------------------------------------
(* Publication of the committed output.                                    *)

\* A selected run whose sources are there, or one that just completed.
Retained(w) == At(w, {"selected", "finalizing"}) /\ (turn[w].phase = "selected" => ~Erased(w))

\* Slip: the entry of an interrupted preparation is dropped uncharged.
ForgetInterrupted(w) ==
  LET r == turn[w].run IN
  /\ Retained(w) /\ prep[r].entry = "orphaned"
  /\ prep' = [prep EXCEPT ![r] = NoPrep]
  /\ UNCHANGED <<call, dep, run, lease, turn, history>>

\* _settle_interrupted_preparation: the preparation of a lost execution is
\* charged to the run before another may begin.
SettleInterrupted(w) ==
  LET r == turn[w].run
      count == run[r].fin + 1
  IN
  /\ Retained(w) /\ prep[r].entry = "orphaned" /\ ~prep[r].earlier
  /\ prep' = [prep EXCEPT ![r] = NoPrep]
  /\ run' = [run EXCEPT ![r].fin = count,
                        ![r].status = IF count >= MaxFinalize THEN "failed" ELSE @]
  /\ IF count >= MaxFinalize THEN EndTurn(w) ELSE Advance(w, "finalizing")
  /\ UNCHANGED <<call, dep, history>>

\* An entry of an earlier output can neither be read nor be settled: the turn
\* ends with an error, and the run stays as it is.
RefuseEarlierEntry(w) ==
  /\ Retained(w) /\ prep[turn[w].run].entry = "orphaned" /\ prep[turn[w].run].earlier
  /\ EndTurn(w)
  /\ UNCHANGED <<call, dep, run, prep, history>>

Publishable(r) == Current(run[r].uses) /\ run[r].sources

\* The first look, before any secondary compute.
Precheck(w) ==
  /\ Retained(w) /\ prep[turn[w].run].entry = "none"
  /\ Publishable(turn[w].run) /\ ~prep[turn[w].run].earlier
  /\ Advance(w, IF prep[turn[w].run].saved THEN "prepared" ELSE "checked")
  /\ UNCHANGED <<call, dep, run, prep, history>>

\* begin_agent_preparation_attempt, at the first external call it makes.
BeginPreparation(w) ==
  LET r == turn[w].run IN
  /\ At(w, {"checked"})
  /\ prep' = [prep EXCEPT ![r].entry = "mine"]
  /\ wasted' = [wasted EXCEPT ![r] = @ + 1]
  /\ Advance(w, "preparing")
  /\ UNCHANGED <<call, dep, run, used, spent>>

\* agent_output_preparation with save: a preparation that needed no external
\* call has no entry to clear.
SavePreparation(w) ==
  LET r == turn[w].run IN
  /\ At(w, {"checked", "preparing"})
  /\ Publishable(r)
  /\ prep' = [prep EXCEPT ![r] = [NoPrep EXCEPT !.saved = TRUE]]
  /\ wasted' = [wasted EXCEPT ![r] = IF turn[w].phase = "preparing" THEN @ - 1 ELSE @]
  /\ Advance(w, "prepared")
  /\ UNCHANGED <<call, dep, run, used, spent>>

\* _remaining_status: what the run waits for once its inputs are consumed.
RemainingStatus(r, deps) ==
  LET open == {c \in Calls : deps[r][c].attached /\ ~deps[r][c].consumed} IN
  IF \E c \in open : call[c].status = "resolved" /\ ~call[c].stale THEN "resume_ready"
  ELSE IF \E c \in open : Open(c) THEN "finalized_pending_tool"
  ELSE "finalized"

\* Slip: every answered dependency is consumed, captured or not.
PublishConsumingAll(w) ==
  LET r == turn[w].run IN
  /\ At(w, {"prepared"})
  /\ Publishable(r)
  /\ dep' = [dep EXCEPT ![r] = [c \in Calls |->
       IF @[c].attached /\ @[c].at # Unresolved THEN [@[c] EXCEPT !.consumed = TRUE] ELSE @[c]]]
  /\ run' = [run EXCEPT ![r].published = "yes", ![r].asked = {},
                        ![r].status = RemainingStatus(r, dep')]
  /\ used' = used \cup {<<r, c, run[r].uses[c]>> : c \in {d \in Calls : run[r].uses[d] # 0}}
  /\ EndTurn(w)
  /\ UNCHANGED <<call, prep, spent, wasted>>

\* The final transaction: learnings, receipt, consumption of the captured
\* dependencies, and the status the remaining ones call for.
Publish(w) ==
  LET r == turn[w].run IN
  /\ At(w, {"prepared"})
  /\ Publishable(r)
  /\ dep' = [dep EXCEPT ![r] = [c \in Calls |->
       IF c \in run[r].deps THEN [@[c] EXCEPT !.consumed = TRUE] ELSE @[c]]]
  /\ run' = [run EXCEPT ![r].published = "yes", ![r].asked = {},
                        ![r].status = RemainingStatus(r, dep')]
  /\ used' = used \cup {<<r, c, run[r].uses[c]>> : c \in {d \in Calls : run[r].uses[d] # 0}}
  /\ EndTurn(w)
  /\ UNCHANGED <<call, prep, spent, wasted>>

\* settle_finalization_failure: the entry of this execution goes with it.
SettleFailure(w, charge) ==
  LET r == turn[w].run
      count == run[r].fin + IF charge THEN 1 ELSE 0
      mine == prep[r].entry = "mine"
  IN
  /\ run' = [run EXCEPT ![r].fin = count,
       ![r].status = IF charge /\ count >= MaxFinalize THEN "failed" ELSE "finalization_failed"]
  /\ prep' = [prep EXCEPT ![r] = IF mine THEN NoPrep ELSE @]
  /\ wasted' = [wasted EXCEPT ![r] = IF mine /\ ~charge THEN @ - 1 ELSE @]
  /\ EndTurn(w)
  /\ UNCHANGED <<call, dep, used, spent>>

\* The phases in which a publication can fail: not before its entry is settled.
InPublication(w) ==
  /\ At(w, Finalizing) /\ prep[turn[w].run].entry # "orphaned"
  /\ turn[w].phase = "selected" => ~Erased(w)

\* The inputs have changed since the output was committed.
RefusePublication(w) ==
  /\ InPublication(w) /\ ~Publishable(turn[w].run)
  /\ SettleFailure(w, TRUE)

\* So is a saved preparation of an earlier output, which has no receipt.
RefuseEarlier(w) ==
  /\ Retained(w) /\ prep[turn[w].run].entry = "none" /\ prep[turn[w].run].earlier
  /\ SettleFailure(w, TRUE)

FailPublication(w) ==
  /\ "fault" \in Failures
  /\ InPublication(w)
  /\ SettleFailure(w, TRUE)

OutagePublication(w) ==
  /\ "outage" \in Failures
  /\ InPublication(w)
  /\ SettleFailure(w, FALSE)

\* Input contention settles nothing: an entry stays for the next execution.
BusyPublication(w) ==
  /\ "busy" \in Failures
  /\ InPublication(w)
  /\ Outcome(w, "finalization_failed") /\ EndTurn(w)
  /\ UNCHANGED <<call, dep, prep, history>>
-----------------------------------------------------------------------------
(* The delivery of a window's effects, under the lease from its first step *)
(* to its last; what it owes elsewhere is ExtractionStream's.              *)

\* _finalize_completed_window_execution: an output that is not yet published
\* and asked something is parked without its receipt.  One that asked nothing
\* makes the delivery wait.
FinalizeWindowExecution(r) ==
  /\ "deliver" \in Callbacks /\ LeaseFree
  /\ run[r].window = "owed"
  /\ run[r].status \in {"agent_completed", "finalizing"} /\ run[r].asked # {}
  /\ run' = [run EXCEPT ![r].status = RemainingStatus(r, dep), ![r].claimant = NoOne,
                        ![r].published = "left", ![r].asked = {}]
  /\ prep' = [prep EXCEPT ![r].entry = IF @ = "mine" THEN "orphaned" ELSE @]
  /\ lease' = NoLease
  /\ UNCHANGED <<call, dep, turn, history>>

\* ack_extraction_effects: no later erasure invalidates the window.
AckEffects(r) ==
  /\ "deliver" \in Callbacks /\ LeaseFree
  /\ run[r].window = "owed"
  /\ run[r].status \notin {"agent_completed", "finalizing"}
  /\ run' = [run EXCEPT ![r].window = "settled"]
  /\ lease' = NoLease
  /\ UNCHANGED <<call, dep, prep, turn, history>>

-----------------------------------------------------------------------------
(* The end of a turn the worker did not choose.                            *)

\* A fenced write is refused: another execution has the lease or the run.
LoseTurn(w) ==
  /\ turn[w].phase # "idle" /\ ~Owns(w, Expected(w))
  /\ EndTurn(w)
  /\ UNCHANGED <<call, dep, run, prep, history>>

\* The process dies with the lease in its name.
Crash(w) ==
  /\ \/ "crash" \in Failures
     \/ "computeCrash" \in Failures /\ turn[w].phase \in {"computing", "preparing"}
  /\ turn[w].phase # "idle"
  /\ turn' = [turn EXCEPT ![w] = IdleTurn]
  /\ UNCHANGED <<tables, history>>

\* lease_until passes: nobody renews for a dead process, and the heartbeat of
\* a live one may be late.
Lapse ==
  /\ lease.live
  /\ "lapse" \in Failures \/ turn[lease.holder].phase = "idle"
  /\ lease' = [lease EXCEPT !.live = FALSE]
  /\ UNCHANGED <<call, dep, run, prep, turn, history>>

-----------------------------------------------------------------------------
UserAnswers(c) == Resolve(c) \/ Edit(c) \/ MarkNotApplicable(c) \/ Cancel(c)

Sweeps(c) == Expire(c) \/ DeleteExpired(c) \/ FallDue(c) \/ GoStale(c)

Deliver(r) == FinalizeWindowExecution(r) \/ AckEffects(r)

Erasure == EraseForeign \/ \E r \in Runs : EraseSources(r)

Select(w, r) == SelectContinuation(w, r) \/ SelectFinalization(w, r)

Prepare(w) ==
  \/ CancelErased(w) \/ RefuseSpent(w) \/ Load(w) \/ FindNoAnswer(w)
  \/ RefuseStale(w) \/ Charge(w)

UseTool(w, c) == Ask(w, c) \/ AttachOpen(w, c) \/ ReadAnswer(w, c)

FinishComputing(w) ==
  \/ Complete(w) \/ RefuseCompletion(w) \/ BusyCompletion(w) \/ ModelFails(w)
  \/ RetryFailed(w) \/ BeginFinalizing(w) \/ DeferCompleted(w)

Finalize(w) ==
  \/ SettleInterrupted(w) \/ RefuseEarlierEntry(w) \/ Precheck(w) \/ BeginPreparation(w)
  \/ SavePreparation(w) \/ Publish(w) \/ RefusePublication(w) \/ RefuseEarlier(w)
  \/ FailPublication(w) \/ OutagePublication(w) \/ BusyPublication(w)

Continue(w) ==
  Prepare(w) \/ Defer(w) \/ FinishComputing(w) \/ Finalize(w) \/ LoseTurn(w)

Next ==
  \/ \E c \in Calls : UserAnswers(c) \/ Sweeps(c)
  \/ Erasure \/ \E r \in Runs : Deliver(r)
  \/ \E w \in Workers : \/ \E r \in Runs : Select(w, r)
                        \/ \E c \in Calls : UseTool(w, c)
                        \/ Continue(w)
                        \/ Crash(w)
  \/ Lapse

Spec == Init /\ [][Next]_vars

\* A live thread goes on with its turn, some worker keeps selecting (the
\* durable loop polls), and clocks advance.  Users and faults owe nothing.
Fairness ==
  /\ \A w \in Workers : WF_vars(Continue(w))
  /\ \A r \in Runs : WF_vars(\E w \in Workers : Select(w, r))
  /\ WF_vars(Lapse)

FairSpec == Spec /\ Fairness

-----------------------------------------------------------------------------
(* Properties.                                                             *)

\* A run that is parked, finished or waiting for questions, has no usable
\* answer it has not consumed: every answer, edit, withdrawal, expiry and
\* erasure, in any order with a publication, leaves such a run selectable.
NoAnsweredRunIsParked ==
  \A r \in Runs : run[r].status \in Parked =>
    \A c \in Calls : ~ /\ dep[r][c].attached /\ ~dep[r][c].consumed
                       /\ dep[r][c].at # Unresolved
                       /\ call[c].status = "resolved" /\ ~call[c].stale

\* A consumed answer is one an output was published from, in the version it
\* has now: an answer edited after the model read it is not consumed unread.
ConsumedMeansUsed ==
  \A r \in Runs, c \in Calls :
    dep[r][c].consumed /\ call[c].status = "resolved" /\ ~call[c].na =>
      <<r, c, call[c].version>> \in used

\* Over all executions, crashes and refunds, a run makes at most
\* max_resume_attempts model computations that no outage undid.
ComputationsAreBounded == \A r \in Runs : spent[r] <= MaxResume

\* A preparation is paid for even when its execution dies: preparations that
\* begin and are neither saved nor undone by an outage are at most
\* max_finalization_attempts.
PreparationsAreBounded == \A r \in Runs : wasted[r] <= MaxFinalize

\* A committed output is published before another replaces it: a run whose
\* output is retained for another attempt is never computed again.  The
\* exception are outputs that a delivery parked without a receipt.
NoOutputIsOverwritten ==
  [][\A r \in Runs : run'[r].output # run[r].output => run[r].published # "no"]_vars

Settled(r) == run[r].status \in Parked \cup {"failed", "cancelled"}

\* No selection returns the run, or none gets past the preparation an earlier
\* output has left.
Stranded(r) ==
  run[r].window = "invalid" \/ (prep[r].earlier /\ prep[r].entry # "none")

\* A run that has been woken is published again or gives up: neither repeated
\* failures nor crashes during a computation keep it in work for ever.  Nothing
\* else strands it than an erasure before the delivery of its window, or a
\* delivery that parked an output while it was being prepared.
AnsweredRunSettles == \A r \in Runs : ~Settled(r) ~> (Settled(r) \/ Stranded(r))

\* What the client promises of an edited answer: "Editing schedules another
\* resume of dependent agent runs with the new answer" (client.py).  A run
\* that still has resume attempts does not fail with such an answer unread.
EditIsScheduled ==
  \A r \in Runs : ~ /\ run[r].status = "failed" /\ run[r].attempts < MaxResume
                    /\ Actionable(call, dep, r)
=============================================================================
