-------------------------- MODULE GenerationAttempt --------------------------
(***************************************************************************)
(* Batch generation (rerun or manual) of one service: attempts that claim  *)
(* the progress slot, work through a list of users and end with a verdict, *)
(* callers that cancel them, and status polls that recover a slot whose    *)
(* attempt has been in progress for too long.                              *)
(*                                                                         *)
(* An operation state is a row of its own and every storage call on it is  *)
(* an action.  A progress write is a read, an edit of the copy and a       *)
(* conditional replacement, so everybody may step in between.              *)
(***************************************************************************)
EXTENDS Naturals

CONSTANTS
  Attempts,    \* operation ids (uuid4 in the code), one batch run each
  Cancellers,  \* callers of the cancel routes
  Pollers,     \* callers that recover a stale slot
  NoOne,       \* the owner of a slot nobody ever claimed
  BatchSizes,  \* how many users a selection may find
  Environment  \* which disturbances happen in an instance

ASSUME AttemptAssumption ==
  /\ BatchSizes \subseteq Nat
  /\ NoOne \notin Attempts

VARIABLES
  slot,       \* {service}::{org}::progress, the row everybody sees
  aged,       \* whether the slot's started_at is BATCH_STALE_PROGRESS_SECONDS ago
  record,     \* generation_attempt::..., one row per attempt
  flag,       \* the cancellation row of each attempt
  worker,     \* the thread that runs an attempt
  canceller,  \* a cancel request being served
  poll,       \* a status poll being served
  asked,      \* history: attempts somebody tried to cancel
  accepted,   \* history: attempts of which a cancellation was acknowledged
  late,       \* history: users an attempt began after that
  failures    \* history: users whose generation failed

rows    == <<slot, aged, record, flag>>
callers == <<canceller, poll>>
history == <<asked, accepted, late, failures>>
vars == <<slot, aged, record, flag, worker, canceller, poll,
          asked, accepted, late, failures>>

-----------------------------------------------------------------------------
Statuses == {"in_progress", "completed", "failed", "cancelled"}

Slot == [owner: Attempts \cup {NoOne}, status: Statuses \cup {"none"},
         processed: Nat, failed: Nat]

Record == [state: {"absent", "admitted", "finished"}, status: Statuses,
           processed: Nat, failed: Nat]

Edits == {"initialize", "begin", "pass", "fail"}

Phases == {"new", "admitted", "selecting", "reclaiming", "reading", "writing",
           "looking", "running", "cancelling", "lowering", "finalizing",
           "clearing", "failing", "sweeping", "over", "crashed"}

Worker == [phase: Phases, edit: Edits, todo: Nat, copy: Slot]

Canceller == [phase: {"idle", "raising", "rechecking", "withdrawing"},
              named: BOOLEAN, target: Attempts \cup {NoOne}]

Poll == [phase: {"idle", "recovering"}, copy: Slot]

NoSlot == [owner |-> NoOne, status |-> "none", processed |-> 0, failed |-> 0]

\* The shape of the rows and of what each thread has in hand.
TypeOK ==
  /\ slot \in Slot
  /\ aged \in BOOLEAN
  /\ record \in [Attempts -> Record]
  /\ flag \in [Attempts -> {"absent", "down", "up"}]
  /\ worker \in [Attempts -> Worker]
  /\ canceller \in [Cancellers -> Canceller]
  /\ poll \in [Pollers -> Poll]
  /\ asked \in SUBSET Attempts
  /\ accepted \in SUBSET Attempts
  /\ late \in [Attempts -> Nat]
  /\ failures \in [Attempts -> Nat]

Init ==
  /\ slot = NoSlot
  /\ aged = FALSE
  /\ record = [a \in Attempts |-> [state |-> "absent", status |-> "in_progress",
                                   processed |-> 0, failed |-> 0]]
  /\ flag = [a \in Attempts |-> "absent"]
  /\ worker = [a \in Attempts |-> [phase |-> "new", edit |-> "initialize", todo |-> 0,
                                   copy |-> NoSlot]]
  /\ canceller = [c \in Cancellers |-> [phase |-> "idle", named |-> TRUE, target |-> NoOne]]
  /\ poll = [p \in Pollers |-> [phase |-> "idle", copy |-> NoSlot]]
  /\ asked = {}
  /\ accepted = {}
  /\ late = [a \in Attempts |-> 0]
  /\ failures = [a \in Attempts |-> 0]

-----------------------------------------------------------------------------
(* Admission.                                                              *)

AtPhase(a, p) == worker[a].phase = p

Hand(p, e, n) == [phase |-> p, edit |-> e, todo |-> n, copy |-> NoSlot]

Goto(a, p)  == worker' = [worker EXCEPT ![a] = Hand(p, "initialize", @.todo)]
Quit(a, p)  == worker' = [worker EXCEPT ![a] = Hand(p, "initialize", 0)]
Write(a, e) == worker' = [worker EXCEPT ![a] = Hand("reading", e, @.todo)]

\* The slot is taken over when its owner is done or has been too long about it.
Held == slot.status = "in_progress" /\ ~aged

\* Slot, record and a lowered cancellation row appear in one transaction.  The
\* route hands the attempt to a background task; a direct call runs on.
ClaimProgress(a) ==
  /\ AtPhase(a, "new")
  /\ ~Held
  /\ slot' = [owner |-> a, status |-> "in_progress", processed |-> 0, failed |-> 0]
  /\ aged' = FALSE
  /\ record' = [record EXCEPT ![a].state = "admitted"]
  /\ flag' = [flag EXCEPT ![a] = "down"]
  /\ Goto(a, "admitted") \/ Goto(a, "selecting")
  /\ UNCHANGED <<callers, history>>

\* The claim is refused (the marker it leaves in the queue is never read).
RefuseClaim(a) ==
  /\ AtPhase(a, "new")
  /\ Held
  /\ Quit(a, "over")
  /\ UNCHANGED <<rows, callers, history>>

Owns(a) == slot.owner = a /\ slot.status = "in_progress"

\* The background task starts; an attempt that lost the slot meanwhile returns.
Begin(a) ==
  /\ AtPhase(a, "admitted")
  /\ Goto(a, IF Owns(a) THEN "selecting" ELSE "over")
  /\ UNCHANGED <<rows, callers, history>>

\* No users, or an error while selecting or preparing them, fails the attempt.
Select(a) ==
  /\ AtPhase(a, "selecting")
  /\ \/ \E n \in BatchSizes \ {0} :
          worker' = [worker EXCEPT ![a] = Hand("reclaiming", "initialize", n)]
     \/ Quit(a, "failing")
  /\ UNCHANGED <<rows, callers, history>>

Reclaim(a) ==
  /\ AtPhase(a, "reclaiming")
  /\ IF Owns(a) THEN Write(a, "initialize") ELSE Quit(a, "failing")
  /\ UNCHANGED <<rows, callers, history>>

-----------------------------------------------------------------------------
(* Progress writes.                                                        *)

ReadProgress(a) ==
  /\ AtPhase(a, "reading")
  /\ worker' = [worker EXCEPT ![a].phase = "writing", ![a].copy = slot]
  /\ UNCHANGED <<rows, callers, history>>

Edited(s, e) ==
  CASE e = "pass" -> [s EXCEPT !.processed = @ + 1]
    [] e = "fail" -> [s EXCEPT !.failed = @ + 1]
    [] OTHER      -> s

Summary(state, s) ==
  [state |-> state, status |-> s.status, processed |-> s.processed, failed |-> s.failed]

\* Slip: only the copy is looked at.
MayWriteUnfenced(a) == worker[a].copy.owner = a

\* Both the copy and the row must still be the attempt's own.
MayWrite(a) == worker[a].copy.owner = a /\ slot.owner = a

\* Slip: every progress write counts a user off.
LeftByEveryWrite(e, n) == n - 1

Left(e, n) == IF e \in {"pass", "fail"} THEN n - 1 ELSE n

\* The edited copy replaces the slot and its summary the record.
WriteProgress(a) ==
  LET e == worker[a].edit
      s == Edited(worker[a].copy, e)
  IN  /\ AtPhase(a, "writing")
      /\ MayWrite(a)
      /\ slot' = s
      /\ record' = [record EXCEPT ![a] = Summary("admitted", s)]
      /\ worker' = [worker EXCEPT ![a] =
           Hand(IF e = "begin" THEN "running" ELSE "looking", "initialize", Left(e, @.todo))]
      /\ late' = IF e = "begin" /\ a \in accepted THEN [late EXCEPT ![a] = @ + 1] ELSE late
      /\ UNCHANGED <<aged, flag, callers, asked, accepted, failures>>

\* A refused write of a success is caught and tried again as a failed user.
RefuseWrite(a) ==
  /\ AtPhase(a, "writing")
  /\ ~MayWrite(a)
  /\ IF worker[a].edit = "pass"
     THEN Write(a, "fail") /\ failures' = [failures EXCEPT ![a] = @ + 1]
     ELSE Quit(a, "failing") /\ UNCHANGED failures
  /\ UNCHANGED <<rows, callers, asked, accepted, late>>

-----------------------------------------------------------------------------
(* The loop over the users.                                                *)

\* Slip: looked at once, before the first user.
CancellationRequestedAtFirst(a) ==
  flag[a] = "up" /\ record[a].processed + record[a].failed = 0

CancellationRequested(a) == flag[a] = "up"

\* Looked at before every user.
LookForCancellation(a) ==
  /\ AtPhase(a, "looking")
  /\ IF worker[a].todo = 0 THEN Goto(a, "finalizing")
     ELSE IF CancellationRequested(a) THEN Goto(a, "cancelling")
     ELSE Write(a, "begin")
  /\ UNCHANGED <<rows, callers, history>>

GenerateUser(a) ==
  /\ AtPhase(a, "running")
  /\ \/ Write(a, "pass") /\ UNCHANGED failures
     \/ Write(a, "fail") /\ failures' = [failures EXCEPT ![a] = @ + 1]
  /\ UNCHANGED <<rows, callers, asked, accepted, late>>

-----------------------------------------------------------------------------
(* The end of an attempt.                                                  *)

\* Slip: a finished record is written again.
WriteOutcomeAgain(a, state, status) ==
  /\ record' = [record EXCEPT ![a].state = state, ![a].status = status]
  /\ slot' = IF slot.owner = a THEN [slot EXCEPT !.status = status] ELSE slot

\* An unfinished record takes the outcome, and the slot takes it from the record
\* while it is still owned.
WriteOutcome(a, state, status) ==
  IF record[a].state = "finished" THEN UNCHANGED <<slot, record>>
  ELSE /\ record' = [record EXCEPT ![a].state = state, ![a].status = status]
       /\ slot' = IF slot.owner = a
                  THEN [owner |-> a, status |-> status, processed |-> record[a].processed,
                        failed |-> record[a].failed]
                  ELSE slot

MarkCancelled(a) ==
  /\ AtPhase(a, "cancelling")
  /\ WriteOutcome(a, "admitted", "cancelled")
  /\ Quit(a, "lowering")
  /\ UNCHANGED <<aged, flag, callers, history>>

LowerFlag(a) ==
  /\ AtPhase(a, "lowering")
  /\ flag' = [flag EXCEPT ![a] = "down"]
  /\ Goto(a, "finalizing")
  /\ UNCHANGED <<slot, aged, record, callers, history>>

\* Slip: the verdict does not look at the failed users.
VerdictOptimistic(r) == IF r.status = "cancelled" THEN "cancelled" ELSE "completed"

Verdict(r) ==
  IF r.status = "cancelled" THEN "cancelled"
  ELSE IF r.failed > 0 THEN "failed" ELSE "completed"

FinalizeProgress(a) ==
  /\ AtPhase(a, "finalizing")
  /\ WriteOutcome(a, "finished", Verdict(record[a]))
  /\ Quit(a, "clearing")
  /\ UNCHANGED <<aged, flag, callers, history>>

MarkProgressFailed(a) ==
  /\ AtPhase(a, "failing")
  /\ WriteOutcome(a, "finished", "failed")
  /\ Goto(a, "sweeping")
  /\ UNCHANGED <<aged, flag, callers, history>>

ClearAttemptCancellation(a) ==
  /\ worker[a].phase \in {"clearing", "sweeping"}
  /\ flag' = [flag EXCEPT ![a] = "absent"]
  /\ Quit(a, "over")
  /\ UNCHANGED <<slot, aged, record, callers, history>>

\* A storage call raises: after a generated user it counts as that user's
\* failure, while the failure is being marked it is swallowed, elsewhere it
\* fails the attempt.
StorageFails(a) ==
  LET p == worker[a].phase
  IN  /\ "fault" \in Environment
      /\ p \notin {"new", "running", "over", "crashed"}
      /\ IF p \in {"reading", "writing"} /\ worker[a].edit = "pass"
         THEN Write(a, "fail") /\ failures' = [failures EXCEPT ![a] = @ + 1]
         ELSE /\ Quit(a, IF p \in {"failing", "sweeping"} THEN "over" ELSE "failing")
              /\ UNCHANGED failures
      /\ UNCHANGED <<rows, callers, asked, accepted, late>>

Crash(a) ==
  /\ "crash" \in Environment
  /\ worker[a].phase \notin {"new", "over", "crashed"}
  /\ Quit(a, "crashed")
  /\ UNCHANGED <<rows, callers, history>>

-----------------------------------------------------------------------------
(* Cancellation: look, raise the flag, look again.                         *)

\* By attempt the record decides, by service the slot.
Cancellable(named, a) ==
  IF named THEN record[a].state = "admitted" ELSE Owns(a)

Canceling(c, p, named, a) ==
  canceller' = [canceller EXCEPT ![c] = [phase |-> p, named |-> named, target |-> a]]

Dismiss(c) ==
  canceller' = [canceller EXCEPT ![c] = [phase |-> "idle", named |-> TRUE, target |-> NoOne]]

RequestCancellation(c) ==
  /\ canceller[c].phase = "idle"
  /\ \E a \in Attempts :
       \/ "cancelNamed" \in Environment /\ Cancellable(TRUE, a) /\ Canceling(c, "raising", TRUE, a)
       \/ "cancelBroad" \in Environment /\ Cancellable(FALSE, a) /\ Canceling(c, "raising", FALSE, a)
  /\ UNCHANGED <<rows, worker, poll, history>>

\* Slip: the flag of whoever owns the slot by now is raised.
RaiseFlagOfOwner(c) ==
  /\ canceller[c].phase = "raising"
  /\ flag' = [flag EXCEPT ![slot.owner] = "up"]
  /\ asked' = asked \cup {canceller[c].target}
  /\ canceller' = [canceller EXCEPT ![c].phase = "rechecking"]
  /\ UNCHANGED <<slot, aged, record, worker, poll, accepted, late, failures>>

RaiseFlag(c) ==
  /\ canceller[c].phase = "raising"
  /\ flag' = [flag EXCEPT ![canceller[c].target] = "up"]
  /\ asked' = asked \cup {canceller[c].target}
  /\ canceller' = [canceller EXCEPT ![c].phase = "rechecking"]
  /\ UNCHANGED <<slot, aged, record, worker, poll, accepted, late, failures>>

\* Slip: the second look is skipped.
RecheckBlind(c) ==
  /\ canceller[c].phase = "rechecking"
  /\ accepted' = accepted \cup {canceller[c].target}
  /\ Dismiss(c)
  /\ UNCHANGED <<rows, worker, poll, asked, late, failures>>

Recheck(c) ==
  LET a == canceller[c].target
  IN  /\ canceller[c].phase = "rechecking"
      /\ IF Cancellable(canceller[c].named, a)
         THEN Dismiss(c) /\ accepted' = accepted \cup {a}
         ELSE canceller' = [canceller EXCEPT ![c].phase = "withdrawing"] /\ UNCHANGED accepted
      /\ UNCHANGED <<rows, worker, poll, asked, late, failures>>

WithdrawFlag(c) ==
  /\ canceller[c].phase = "withdrawing"
  /\ flag' = [flag EXCEPT ![canceller[c].target] = "absent"]
  /\ Dismiss(c)
  /\ UNCHANGED <<slot, aged, record, worker, poll, history>>

-----------------------------------------------------------------------------
(* Recovery of a stale slot, by a status poll or a new attempt's check.    *)

FindStale(p) ==
  /\ "poll" \in Environment
  /\ poll[p].phase = "idle"
  /\ slot.status = "in_progress" /\ aged
  /\ poll' = [poll EXCEPT ![p] = [phase |-> "recovering", copy |-> slot]]
  /\ UNCHANGED <<rows, worker, canceller, history>>

\* The copy read before is written back as failed, if its owner still shows.
RecoverStale(p) ==
  /\ poll[p].phase = "recovering"
  /\ slot' = IF slot.owner = poll[p].copy.owner
             THEN [poll[p].copy EXCEPT !.status = "failed"] ELSE slot
  /\ poll' = [poll EXCEPT ![p] = [phase |-> "idle", copy |-> NoSlot]]
  /\ UNCHANGED <<aged, record, flag, worker, canceller, history>>

SlotAges ==
  /\ slot.status = "in_progress"
  /\ ~aged
  /\ aged' = TRUE
  /\ UNCHANGED <<slot, record, flag, worker, callers, history>>

-----------------------------------------------------------------------------
Run(a) ==
  \/ ClaimProgress(a) \/ RefuseClaim(a) \/ Begin(a) \/ Select(a) \/ Reclaim(a)
  \/ ReadProgress(a) \/ WriteProgress(a) \/ RefuseWrite(a)
  \/ LookForCancellation(a) \/ GenerateUser(a)
  \/ MarkCancelled(a) \/ LowerFlag(a) \/ FinalizeProgress(a)
  \/ MarkProgressFailed(a) \/ ClearAttemptCancellation(a) \/ StorageFails(a)

Cancel(c) == RequestCancellation(c) \/ RaiseFlag(c) \/ Recheck(c) \/ WithdrawFlag(c)

Recover(p) == FindStale(p) \/ RecoverStale(p)

Next ==
  \/ \E a \in Attempts : Run(a) \/ Crash(a)
  \/ \E c \in Cancellers : Cancel(c)
  \/ \E p \in Pollers : Recover(p)
  \/ SlotAges

Spec == Init /\ [][Next]_vars

-----------------------------------------------------------------------------
\* An acknowledged cancellation lets at most the user already past the check
\* begin; "the batch loop stops before the next user".
OneMoreUserAtMost == \A a \in Attempts : late[a] <= 1

\* Only an attempt somebody asked to cancel ends cancelled: no flag raised for
\* a predecessor, and none withdrawn, reaches another attempt.
CancelledOnlyWhenAsked ==
  \A a \in Attempts : record[a].status = "cancelled" => a \in asked

\* No cancellation row outlives an attempt that returned with a verdict, once
\* the requests that name it are answered.
FlagsAreSwept ==
  \A a \in Attempts :
    /\ AtPhase(a, "over")
    /\ record[a].state = "finished"
    /\ \A c \in Cancellers : canceller[c].target # a
    => flag[a] = "absent"

\* "Finalize statistics without hiding failed users": an attempt whose verdict
\* is a success had no user fail.
VerdictHidesNoFailure ==
  \A a \in Attempts :
    record[a].state = "finished" /\ record[a].status = "completed" => failures[a] = 0

\* A finished record is never written again, whoever shows in the slot.
VerdictIsFinal ==
  [][\A a \in Attempts : record[a].state = "finished" => record'[a] = record[a]]_vars

\* While a young attempt is in progress nobody but itself changes its slot, not
\* even an attempt it replaced.
YoungOwnerIsAlone ==
  [][Held /\ slot' # slot => worker[slot.owner].phase \in {"writing", "cancelling", "finalizing", "failing"}
                             /\ slot'.owner = slot.owner]_vars
=============================================================================
