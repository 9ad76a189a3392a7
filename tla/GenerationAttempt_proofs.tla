----------------------- MODULE GenerationAttempt_proofs -----------------------
(***************************************************************************)
(* Batch attempts: type correctness, the finality of a verdict and what it *)
(* may hide, that only an attempt somebody asked to cancel ends cancelled, *)
(* in time and without a row left behind, and who writes a young slot.     *)
(***************************************************************************)
EXTENDS MCGenerationAttempt, TLAPS

USE AttemptAssumption

-----------------------------------------------------------------------------
(* Types.                                                                  *)

\* Whoever owns a row gave it a status.
Claimed(s) == s \in Slot /\ (s.owner \in Attempts => s.status \in Statuses)

RowsInv ==
  /\ Claimed(slot)
  /\ aged \in BOOLEAN
  /\ record \in [Attempts -> Record]
  /\ flag \in [Attempts -> {"absent", "down", "up"}]

\* A write about a user has a user left to count off.
Sound(r) ==
  /\ r \in Worker
  /\ Claimed(r.copy)
  /\ r.phase = "running" => r.todo # 0
  /\ r.phase \in {"reading", "writing"} /\ r.edit # "initialize" => r.todo # 0

WorkersInv == worker \in [Attempts -> Worker] /\ \A a \in Attempts : Sound(worker[a])

\* A request in flight names an attempt.
CallersInv ==
  /\ canceller \in [Cancellers -> Canceller]
  /\ \A c \in Cancellers : canceller[c].phase # "idle" => canceller[c].target \in Attempts
  /\ poll \in [Pollers -> Poll]
  /\ \A p \in Pollers : Claimed(poll[p].copy)

HistoryInv ==
  /\ asked \in SUBSET Attempts
  /\ accepted \in SUBSET Attempts
  /\ late \in [Attempts -> Nat]
  /\ failures \in [Attempts -> Nat]

\* TypeOK with the relations between fields that keep it inductive.
TypeInv == RowsInv /\ WorkersInv /\ CallersInv /\ HistoryInv

\* The strengthened invariant has the types as a part.
LEMMA TypeInvTypes == TypeInv => TypeOK
BY DEF TypeInv, TypeOK, RowsInv, WorkersInv, CallersInv, HistoryInv, Claimed

\* What a step leaves alone stays well typed.
LEMMA Untouched ==
  ASSUME TypeInv
  PROVE  /\ UNCHANGED rows => RowsInv'
         /\ UNCHANGED worker => WorkersInv'
         /\ UNCHANGED callers => CallersInv'
         /\ UNCHANGED history => HistoryInv'
BY DEF TypeInv, rows, callers, history, RowsInv, WorkersInv, CallersInv, HistoryInv,
       Claimed, Sound

\* What one attempt has in hand may be replaced by anything sound.
LEMMA HandReplaced ==
  ASSUME WorkersInv, NEW a \in Attempts, NEW r, Sound(r),
         worker' = [worker EXCEPT ![a] = r]
  PROVE  WorkersInv'
BY DEF WorkersInv, Sound

\* Empty hands are a slot that nobody owns.
LEMMA EmptyHands == Claimed(NoSlot)
BY DEF NoSlot, Slot, Claimed

\* A hand is sound if its phase and its user agree.
LEMMA SoundHand ==
  ASSUME NEW p \in Phases, NEW e \in Edits, NEW n \in Nat,
         p = "running" => n # 0,
         p \in {"reading", "writing"} /\ e # "initialize" => n # 0
  PROVE  Sound(Hand(p, e, n))
BY EmptyHands DEF Hand, Sound, Worker, Claimed

\* An attempt that goes on or gives up with empty hands stays well typed.
LEMMA GotoType ==
  ASSUME WorkersInv, NEW a \in Attempts, NEW p \in Phases \ {"running"}, Goto(a, p) \/ Quit(a, p)
  PROVE  WorkersInv'
<1>1. worker[a].todo \in Nat /\ "initialize" \in Edits
  BY DEF WorkersInv, Worker, Edits
<1>2. Sound(Hand(p, "initialize", worker[a].todo)) /\ Sound(Hand(p, "initialize", 0))
  BY <1>1, SoundHand
<1>. QED
  BY <1>2, HandReplaced DEF Goto, Quit

\* So does one that starts a progress write.
LEMMA WriteType ==
  ASSUME WorkersInv, NEW a \in Attempts, NEW e \in Edits, Write(a, e),
         e = "initialize" \/ worker[a].todo # 0
  PROVE  WorkersInv'
<1>1. worker[a].todo \in Nat /\ "reading" \in Phases
  BY DEF WorkersInv, Worker, Phases
<1>2. Sound(Hand("reading", e, worker[a].todo))
  BY <1>1, SoundHand
<1>. QED
  BY <1>2, HandReplaced DEF Write

\* An outcome leaves both rows well typed.
LEMMA OutcomeType ==
  ASSUME RowsInv, NEW a \in Attempts, NEW st \in {"admitted", "finished"}, NEW v \in Statuses,
         WriteOutcome(a, st, v), UNCHANGED <<aged, flag>>
  PROVE  RowsInv'
<1>1. CASE record[a].state = "finished"
  BY <1>1 DEF WriteOutcome, RowsInv, Claimed
<1>2. CASE record[a].state # "finished"
  <2>1. record' \in [Attempts -> Record]
    BY <1>2 DEF WriteOutcome, RowsInv, Record
  <2>2. Claimed(slot)'
    BY <1>2 DEF WriteOutcome, RowsInv, Claimed, Slot, Record
  <2>. QED
    BY <2>1, <2>2 DEF RowsInv
<1>. QED
  BY <1>1, <1>2

\* A step of an attempt keeps the types.
LEMMA RunType ==
  ASSUME TypeInv, NEW a \in Attempts, Run(a) \/ Crash(a)
  PROVE  TypeInv'
<1>. USE DEF AtPhase
<1>1. RowsInv /\ WorkersInv /\ HistoryInv /\ Sound(worker[a]) /\ Claimed(slot)
  BY DEF TypeInv, WorkersInv, RowsInv
<1>2. UNCHANGED <<asked, accepted, late>> /\ failures' = [failures EXCEPT ![a] = @ + 1]
        => HistoryInv'
  BY <1>1 DEF HistoryInv
<1>3. ASSUME NEW p \in Phases \ {"running"}, Goto(a, p) \/ Quit(a, p)
      PROVE  WorkersInv'
  BY <1>1, <1>3, GotoType
<1>4. CASE ClaimProgress(a)
  <2>1. Claimed(slot)'
    BY <1>4 DEF ClaimProgress, Claimed, Slot, Statuses
  <2>2. RowsInv'
    BY <1>1, <1>4, <2>1 DEF ClaimProgress, RowsInv, Record
  <2>3. WorkersInv'
    BY <1>3, <1>4 DEF ClaimProgress, Phases
  <2>. QED
    BY <1>4, <2>2, <2>3, Untouched DEF ClaimProgress, TypeInv
<1>5. CASE RefuseClaim(a)
  BY <1>3, <1>5, Untouched DEF RefuseClaim, Phases, TypeInv
<1>6. CASE Begin(a)
  BY <1>3, <1>6, Untouched DEF Begin, Phases, TypeInv
<1>7. CASE Select(a)
  <2>1. ASSUME NEW n \in BatchSizes \ {0},
               worker' = [worker EXCEPT ![a] = Hand("reclaiming", "initialize", n)]
        PROVE  WorkersInv'
    <3>1. n \in Nat /\ "reclaiming" \in Phases /\ "initialize" \in Edits
      BY DEF Phases, Edits
    <3>. QED
      BY <1>1, <2>1, <3>1, SoundHand, HandReplaced
  <2>. QED
    BY <1>3, <1>7, <2>1, Untouched DEF Select, Phases, TypeInv
<1>8. CASE Reclaim(a)
  BY <1>1, <1>3, <1>8, WriteType, Untouched DEF Reclaim, Phases, Edits, TypeInv
<1>9. CASE ReadProgress(a)
  <2>1. worker' = [worker EXCEPT ![a] = [worker[a] EXCEPT !.phase = "writing", !.copy = slot]]
    BY <1>9 DEF ReadProgress
  <2>2. Sound([worker[a] EXCEPT !.phase = "writing", !.copy = slot])
    BY <1>1, <1>9 DEF ReadProgress, Sound, Worker, Phases, Claimed
  <2>. QED
    BY <1>1, <1>9, <2>1, <2>2, HandReplaced, Untouched DEF ReadProgress, TypeInv
<1>10. CASE WriteProgress(a)
  <2>. DEFINE e == worker[a].edit
              s == Edited(worker[a].copy, e)
              r == Hand(IF e = "begin" THEN "running" ELSE "looking", "initialize",
                        Left(e, worker[a].todo))
  <2>1. Claimed(s) /\ s.status \in Statuses
    BY <1>1, <1>10 DEF WriteProgress, MayWrite, Sound, Claimed, Slot, Edited
  <2>2. Summary("admitted", s) \in Record
    BY <2>1 DEF Summary, Record, Claimed, Slot
  <2>3. Sound(r)
    <3>1. Left(e, worker[a].todo) \in Nat /\ (e = "begin" => Left(e, worker[a].todo) # 0)
      BY <1>1, <1>10 DEF WriteProgress, Sound, Worker, Left
    <3>2. "running" \in Phases /\ "looking" \in Phases /\ "initialize" \in Edits
      BY DEF Phases, Edits
    <3>. QED
      BY <3>1, <3>2, SoundHand
  <2>4. slot' = s /\ record' = [record EXCEPT ![a] = Summary("admitted", s)]
        /\ worker' = [worker EXCEPT ![a] = r] /\ UNCHANGED <<aged, flag, callers>>
    BY <1>10 DEF WriteProgress
  <2>5. HistoryInv'
    BY <1>1, <1>10 DEF WriteProgress, HistoryInv
  <2>. HIDE DEF e, s, r
  <2>6. RowsInv'
    BY <1>1, <2>1, <2>2, <2>4 DEF RowsInv, Claimed
  <2>. QED
    BY <1>1, <2>3, <2>4, <2>5, <2>6, HandReplaced, Untouched DEF TypeInv
<1>11. CASE RefuseWrite(a)
  BY <1>1, <1>2, <1>3, <1>11, WriteType, Untouched DEF RefuseWrite, Phases, Edits, Sound, history, TypeInv
<1>12. CASE LookForCancellation(a)
  BY <1>1, <1>3, <1>12, WriteType, Untouched DEF LookForCancellation, Phases, Edits, TypeInv
<1>13. CASE GenerateUser(a)
  BY <1>1, <1>2, <1>13, WriteType, Untouched DEF GenerateUser, Sound, Edits, history, TypeInv
<1>14. CASE MarkCancelled(a)
  BY <1>1, <1>3, <1>14, OutcomeType, Untouched DEF MarkCancelled, Phases, Statuses, TypeInv
<1>15. CASE LowerFlag(a)
  BY <1>1, <1>3, <1>15, Untouched DEF LowerFlag, Phases, RowsInv, Claimed, TypeInv
<1>16. CASE FinalizeProgress(a)
  <2>1. Verdict(record[a]) \in Statuses
    BY DEF Verdict, Statuses
  <2>. QED
    BY <1>1, <1>3, <1>16, <2>1, OutcomeType, Untouched DEF FinalizeProgress, Phases, TypeInv
<1>17. CASE MarkProgressFailed(a)
  BY <1>1, <1>3, <1>17, OutcomeType, Untouched DEF MarkProgressFailed, Phases, Statuses, TypeInv
<1>18. CASE ClearAttemptCancellation(a)
  BY <1>1, <1>3, <1>18, Untouched DEF ClearAttemptCancellation, Phases, RowsInv, Claimed, TypeInv
<1>19. CASE StorageFails(a)
  BY <1>1, <1>2, <1>3, <1>19, WriteType, Untouched DEF StorageFails, Phases, Edits, Sound, history, TypeInv
<1>20. CASE Crash(a)
  BY <1>3, <1>20, Untouched DEF Crash, Phases, TypeInv
<1>. QED
  BY <1>4, <1>5, <1>6, <1>7, <1>8, <1>9, <1>10, <1>11, <1>12, <1>13, <1>14, <1>15, <1>16,
     <1>17, <1>18, <1>19, <1>20 DEF Run

\* What one canceller has in hand may be replaced by a request that names an attempt.
LEMMA RequestReplaced ==
  ASSUME CallersInv, NEW c \in Cancellers, NEW r \in Canceller,
         r.phase # "idle" => r.target \in Attempts,
         canceller' = [canceller EXCEPT ![c] = r], UNCHANGED poll
  PROVE  CallersInv'
<1>1. canceller' \in [Cancellers -> Canceller]
  BY DEF CallersInv
<1>2. \A b \in Cancellers : canceller'[b].phase # "idle" => canceller'[b].target \in Attempts
  BY DEF CallersInv
<1>3. poll' \in [Pollers -> Poll] /\ \A p \in Pollers : Claimed(poll[p].copy)'
  BY DEF CallersInv, Claimed
<1>. QED
  BY <1>1, <1>2, <1>3 DEF CallersInv

\* A step of a canceller keeps the types.
LEMMA CancelType ==
  ASSUME TypeInv, NEW c \in Cancellers, Cancel(c)
  PROVE  TypeInv'
<1>1. RowsInv /\ CallersInv /\ HistoryInv
  BY DEF TypeInv
<1>2. CASE RequestCancellation(c)
  <2>1. CallersInv'
    <3>1. PICK a \in Attempts, b \in BOOLEAN : Canceling(c, "raising", b, a)
      BY <1>2 DEF RequestCancellation
    <3>. QED
      BY <1>1, <1>2, <3>1, RequestReplaced DEF RequestCancellation, Canceling, Canceller
  <2>. QED
    BY <1>2, <2>1, Untouched DEF RequestCancellation, TypeInv
<1>3. CASE RaiseFlag(c)
  <2>1. CallersInv'
    BY <1>1, <1>3 DEF RaiseFlag, CallersInv, Canceller, Claimed
  <2>2. RowsInv' /\ HistoryInv'
    BY <1>1, <1>3 DEF RaiseFlag, CallersInv, RowsInv, HistoryInv, Claimed
  <2>. QED
    BY <1>3, <2>1, <2>2, Untouched DEF RaiseFlag, TypeInv
<1>4. CASE Recheck(c)
  <2>1. CallersInv'
    <3>1. Dismiss(c) => CallersInv'
      BY <1>1, <1>4, RequestReplaced DEF Recheck, Dismiss, Canceller
    <3>. QED
      BY <1>1, <1>4, <3>1 DEF Recheck, CallersInv, Canceller, Claimed
  <2>2. HistoryInv'
    BY <1>1, <1>4 DEF Recheck, CallersInv, HistoryInv
  <2>. QED
    BY <1>4, <2>1, <2>2, Untouched DEF Recheck, TypeInv
<1>5. CASE WithdrawFlag(c)
  <2>1. CallersInv'
    BY <1>1, <1>5 DEF WithdrawFlag, Dismiss, CallersInv, Canceller, Claimed
  <2>2. RowsInv'
    BY <1>1, <1>5 DEF WithdrawFlag, RowsInv, Claimed
  <2>. QED
    BY <1>5, <2>1, <2>2, Untouched DEF WithdrawFlag, TypeInv
<1>. QED
  BY <1>2, <1>3, <1>4, <1>5 DEF Cancel

\* A step of a poll keeps the types.
LEMMA RecoverType ==
  ASSUME TypeInv, NEW p \in Pollers, Recover(p)
  PROVE  TypeInv'
<1>1. RowsInv /\ CallersInv
  BY DEF TypeInv
<1>2. CASE FindStale(p)
  <2>1. CallersInv'
    BY <1>1, <1>2 DEF FindStale, CallersInv, RowsInv, Poll, Claimed
  <2>. QED
    BY <1>2, <2>1, Untouched DEF FindStale, TypeInv
<1>3. CASE RecoverStale(p)
  <2>1. CallersInv'
    BY <1>1, <1>3, EmptyHands DEF RecoverStale, CallersInv, Poll, Claimed
  <2>2. RowsInv'
    BY <1>1, <1>3 DEF RecoverStale, CallersInv, RowsInv, Claimed, Slot, Statuses
  <2>. QED
    BY <1>3, <2>1, <2>2, Untouched DEF RecoverStale, TypeInv
<1>. QED
  BY <1>2, <1>3 DEF Recover

\* No attempt has been admitted, no request made.
LEMMA InitType == Init => TypeInv
<1>. SUFFICES ASSUME Init PROVE TypeInv
  OBVIOUS
<1>1. RowsInv
  BY EmptyHands DEF Init, RowsInv, Record, Statuses
<1>2. WorkersInv
  BY EmptyHands DEF Init, WorkersInv, Sound, Worker, Phases, Edits, Claimed
<1>3. CallersInv
  BY EmptyHands DEF Init, CallersInv, Canceller, Poll, Claimed
<1>4. HistoryInv
  BY DEF Init, HistoryInv
<1>. QED
  BY <1>1, <1>2, <1>3, <1>4 DEF TypeInv

\* Every step keeps the types.
LEMMA NextType == TypeInv /\ [Next]_vars => TypeInv'
<1>. SUFFICES ASSUME TypeInv, [Next]_vars PROVE TypeInv'
  OBVIOUS
<1>1. CASE SlotAges
  BY <1>1, Untouched DEF SlotAges, TypeInv, RowsInv, Claimed
<1>2. CASE UNCHANGED vars
  BY <1>2, Untouched DEF vars, rows, callers, history, TypeInv
<1>. QED
  BY <1>1, <1>2, RunType, CancelType, RecoverType DEF Next

\* The types hold throughout, and with them the relations that keep them.
LEMMA TypeInvariant == Spec => []TypeInv
BY InitType, NextType, PTL DEF Spec

\* Rows, threads and counters keep their types for any number of attempts,
\* callers and users (TypeOK).
THEOREM AttemptTypes == Spec => []TypeOK
BY TypeInvariant, TypeInvTypes, PTL

-----------------------------------------------------------------------------
(* The verdict is final.                                                   *)

Returning == {"clearing", "failing", "sweeping", "over", "crashed"}

\* An attempt with a verdict only has its flag left to sweep, or an error of
\* that sweep to handle.
FinalInv == \A a \in Attempts : record[a].state = "finished" => worker[a].phase \in Returning

Final == \A a \in Attempts : record[a].state = "finished" => record'[a] = record[a]

\* An attempt leaves the records and threads of the others alone.
LEMMA RunAlone ==
  ASSUME TypeInv, NEW b \in Attempts, Run(b) \/ Crash(b)
  PROVE  \A a \in Attempts \ {b} : worker'[a] = worker[a] /\ record'[a] = record[a]
BY DEF TypeInv, WorkersInv, RowsInv, Run, Crash, ClaimProgress, RefuseClaim, Begin, Select,
       Reclaim, ReadProgress, WriteProgress, RefuseWrite, LookForCancellation, GenerateUser,
       MarkCancelled, LowerFlag, FinalizeProgress, MarkProgressFailed,
       ClearAttemptCancellation, StorageFails, WriteOutcome, Goto, Quit, Write, rows

\* Where an attempt goes by each of the three ways to go.
LEMMA Went ==
  ASSUME TypeInv, NEW a \in Attempts
  PROVE  /\ \A p \in Phases : Goto(a, p) \/ Quit(a, p) => worker'[a].phase = p
         /\ \A e \in Edits : Write(a, e) => worker'[a].phase = "reading"
BY DEF TypeInv, WorkersInv, Goto, Quit, Write, Hand

\* A step of an attempt with a verdict leaves its record alone and stays on the
\* way out; an attempt that gets its verdict enters it.
LEMMA RunFinal ==
  ASSUME TypeInv, FinalInv, NEW a \in Attempts, Run(a) \/ Crash(a)
  PROVE  /\ record[a].state = "finished" => record'[a] = record[a]
         /\ record'[a].state = "finished" => worker'[a].phase \in Returning
<1>. USE DEF AtPhase, Returning
<1>1. worker[a] \in Worker /\ record[a] \in Record /\ record \in [Attempts -> Record]
      /\ worker \in [Attempts -> Worker]
  BY DEF TypeInv, WorkersInv, RowsInv
<1>2. record[a].state = "finished" => worker[a].phase \in Returning
  BY DEF FinalInv
<1>3. CASE ClaimProgress(a)
  BY <1>1, <1>2, <1>3 DEF ClaimProgress, Record
<1>4. CASE UNCHANGED record /\ worker[a].phase \notin Returning
  BY <1>2, <1>4
<1>5. CASE WriteProgress(a)
  BY <1>1, <1>2, <1>5 DEF WriteProgress, Summary
<1>6. CASE MarkCancelled(a)
  BY <1>1, <1>2, <1>6 DEF MarkCancelled, WriteOutcome, Record
<1>7. CASE FinalizeProgress(a)
  BY <1>1, <1>2, <1>7, Went DEF FinalizeProgress, Phases
<1>8. CASE MarkProgressFailed(a)
  <2>1. worker'[a].phase = "sweeping"
    BY <1>8, Went DEF MarkProgressFailed, Phases
  <2>2. record[a].state = "finished" => UNCHANGED record
    BY <1>8 DEF MarkProgressFailed, WriteOutcome
  <2>. QED
    BY <2>1, <2>2
<1>9. CASE ClearAttemptCancellation(a)
  BY <1>9, Went DEF ClearAttemptCancellation, Phases
<1>10. CASE StorageFails(a) /\ worker[a].phase \in Returning
  BY <1>10, Went DEF StorageFails, Phases, rows
<1>11. CASE Crash(a)
  BY <1>11, Went DEF Crash, Phases, rows
<1>. QED
  BY <1>3, <1>4, <1>5, <1>6, <1>7, <1>8, <1>9, <1>10, <1>11
     DEF Run, RefuseClaim, Begin, Select, Reclaim, ReadProgress, RefuseWrite,
         LookForCancellation, GenerateUser, LowerFlag, StorageFails, rows

\* Every step keeps the verdicts there are.
LEMMA NextFinal == TypeInv /\ FinalInv /\ [Next]_vars => FinalInv' /\ Final
<1>. SUFFICES ASSUME TypeInv, FinalInv, [Next]_vars PROVE FinalInv' /\ Final
  OBVIOUS
<1>1. ASSUME NEW b \in Attempts, Run(b) \/ Crash(b) PROVE FinalInv' /\ Final
  BY <1>1, RunAlone, RunFinal DEF FinalInv, Final
<1>2. CASE UNCHANGED <<record, worker>>
  BY <1>2 DEF FinalInv, Final
<1>. QED
  BY <1>1, <1>2 DEF Next, Cancel, RequestCancellation, RaiseFlag, Recheck, WithdrawFlag,
                    Recover, FindStale, RecoverStale, SlotAges, vars, rows

\* A finished record is never written again: not by the attempt, whose sweep
\* may still fail and mark it failed, not by its successor and not by a poll.
THEOREM VerdictStands == Spec => VerdictIsFinal
<1>1. Init => FinalInv
  BY DEF Init, FinalInv
<1>2. TypeInv /\ FinalInv /\ [Next]_vars =>
        [\A a \in Attempts : record[a].state = "finished" => record'[a] = record[a]]_vars
  BY NextFinal DEF Final
<1>. QED
  BY <1>1, <1>2, NextFinal, TypeInvariant, PTL DEF Spec, VerdictIsFinal

-----------------------------------------------------------------------------
(* Only an attempt somebody asked to cancel ends cancelled.                *)

\* A copy that shows a cancelled owner shows one that was asked.
Tells(s) == s.owner \in Attempts /\ s.status = "cancelled" => s.owner \in asked

\* The request travels from the flag through the thread to the record, and by
\* the rows and their copies to whoever writes them back.
AskedInv ==
  /\ CancelledOnlyWhenAsked
  /\ \A a \in Attempts : flag[a] = "up" => a \in asked
  /\ \A a \in Attempts : worker[a].phase = "cancelling" => a \in asked
  /\ \A a \in Attempts : Tells(worker[a].copy)
  /\ Tells(slot)
  /\ \A p \in Pollers : Tells(poll[p].copy)

\* What the rows and threads say, in the parts a step changes one at a time.
RowsAsked ==
  /\ CancelledOnlyWhenAsked
  /\ \A a \in Attempts : flag[a] = "up" => a \in asked
  /\ Tells(slot)

HandAsked(a) ==
  /\ worker[a].phase = "cancelling" => a \in asked
  /\ Tells(worker[a].copy)

\* Empty hands tell nothing.
LEMMA EmptyTells == Tells(NoSlot)
BY DEF Tells, NoSlot

\* A thread that goes on with empty hands is asked to stop only if it was.
LEMMA GoesAsked ==
  ASSUME TypeInv, NEW a \in Attempts, UNCHANGED asked
  PROVE  /\ \A p \in Phases : (Goto(a, p) \/ Quit(a, p)) /\ (p = "cancelling" => a \in asked)
                               => HandAsked(a)'
         /\ \A e \in Edits : Write(a, e) => HandAsked(a)'
BY EmptyTells DEF TypeInv, WorkersInv, Goto, Quit, Write, Hand, HandAsked, Tells, NoSlot

\* An outcome other than a cancellation, or one that was asked for, keeps the rows truthful.
LEMMA OutcomeAsked ==
  ASSUME TypeInv, RowsAsked, NEW a \in Attempts, NEW st, NEW v, WriteOutcome(a, st, v),
         v = "cancelled" => a \in asked, UNCHANGED <<flag, asked>>
  PROVE  RowsAsked'
<1>1. record \in [Attempts -> Record]
  BY DEF TypeInv, RowsInv
<1>2. CASE record[a].state = "finished"
  BY <1>2 DEF WriteOutcome, RowsAsked, CancelledOnlyWhenAsked, Tells
<1>3. CASE record[a].state # "finished"
  BY <1>1, <1>3 DEF WriteOutcome, RowsAsked, CancelledOnlyWhenAsked, Tells, Record
<1>. QED
  BY <1>2, <1>3

\* A step of an attempt keeps its rows and its own thread truthful.
LEMMA RunAsked ==
  ASSUME TypeInv, AskedInv, NEW a \in Attempts, Run(a) \/ Crash(a)
  PROVE  RowsAsked' /\ HandAsked(a)' /\ UNCHANGED <<asked, poll>>
<1>. USE DEF AtPhase
<1>1. RowsAsked /\ HandAsked(a)
  BY DEF AskedInv, RowsAsked, HandAsked
<1>2. UNCHANGED <<asked, poll>>
  BY DEF Run, Crash, ClaimProgress, RefuseClaim, Begin, Select, Reclaim, ReadProgress,
         WriteProgress, RefuseWrite, LookForCancellation, GenerateUser, MarkCancelled, LowerFlag,
         FinalizeProgress, MarkProgressFailed, ClearAttemptCancellation, StorageFails,
         history, callers
<1>3. UNCHANGED rows => RowsAsked'
  BY <1>1, <1>2 DEF rows, RowsAsked, CancelledOnlyWhenAsked, Tells
<1>4. worker \in [Attempts -> Worker] /\ record \in [Attempts -> Record]
      /\ flag \in [Attempts -> {"absent", "down", "up"}] /\ worker[a] \in Worker
  BY DEF TypeInv, WorkersInv, RowsInv
<1>5. CASE ClaimProgress(a)
  <2>1. RowsAsked'
    BY <1>1, <1>2, <1>4, <1>5 DEF ClaimProgress, RowsAsked, CancelledOnlyWhenAsked, Tells, Record
  <2>. QED
    BY <1>2, <1>5, <2>1, GoesAsked DEF ClaimProgress, Phases
<1>6. CASE Select(a)
  BY <1>2, <1>3, <1>4, <1>6, GoesAsked, EmptyTells
     DEF Select, Phases, Hand, HandAsked, Tells, NoSlot
<1>7. CASE ReadProgress(a)
  BY <1>1, <1>2, <1>3, <1>4, <1>7 DEF ReadProgress, RowsAsked, HandAsked, Tells, Worker
<1>8. CASE WriteProgress(a)
  <2>. DEFINE s == Edited(worker[a].copy, worker[a].edit)
  <2>1. s.owner = a /\ s.status = worker[a].copy.status
    BY <1>4, <1>8 DEF WriteProgress, MayWrite, Edited, Worker, Slot
  <2>2. s.status = "cancelled" => a \in asked
    BY <1>1, <1>8, <2>1 DEF WriteProgress, MayWrite, HandAsked, Tells
  <2>3. slot' = s /\ record' = [record EXCEPT ![a] = Summary("admitted", s)] /\ flag' = flag
    BY <1>8 DEF WriteProgress
  <2>. HIDE DEF s
  <2>4. RowsAsked'
    BY <1>1, <1>2, <1>4, <2>1, <2>2, <2>3
       DEF RowsAsked, CancelledOnlyWhenAsked, Tells, Summary
  <2>5. HandAsked(a)'
    BY <1>4, <1>8, EmptyTells DEF WriteProgress, HandAsked, Hand, Tells, NoSlot
  <2>. QED
    BY <1>2, <2>4, <2>5
<1>9. CASE LookForCancellation(a)
  BY <1>1, <1>2, <1>3, <1>9, GoesAsked
     DEF LookForCancellation, CancellationRequested, RowsAsked, Phases, Edits
<1>10. CASE MarkCancelled(a)
  BY <1>1, <1>2, <1>10, GoesAsked, OutcomeAsked DEF MarkCancelled, HandAsked, Phases
<1>11. CASE LowerFlag(a) \/ ClearAttemptCancellation(a)
  BY <1>1, <1>2, <1>4, <1>11, GoesAsked
     DEF LowerFlag, ClearAttemptCancellation, RowsAsked, CancelledOnlyWhenAsked, Tells, Phases
<1>12. CASE FinalizeProgress(a)
  <2>1. Verdict(record[a]) = "cancelled" => a \in asked
    BY <1>1 DEF Verdict, RowsAsked, CancelledOnlyWhenAsked
  <2>. QED
    BY <1>1, <1>2, <1>12, <2>1, GoesAsked, OutcomeAsked DEF FinalizeProgress, Phases
<1>13. CASE MarkProgressFailed(a)
  BY <1>1, <1>2, <1>13, GoesAsked, OutcomeAsked DEF MarkProgressFailed, Phases
<1>14. CASE RefuseClaim(a) \/ Begin(a) \/ Crash(a)
  BY <1>2, <1>3, <1>14, GoesAsked DEF RefuseClaim, Begin, Crash, Phases
<1>15. CASE Reclaim(a) \/ RefuseWrite(a) \/ GenerateUser(a) \/ StorageFails(a)
  BY <1>2, <1>3, <1>15, GoesAsked
     DEF Reclaim, RefuseWrite, GenerateUser, StorageFails, Phases, Edits
<1>. QED
  BY <1>5, <1>6, <1>7, <1>8, <1>9, <1>10, <1>11, <1>12, <1>13, <1>14, <1>15 DEF Run

\* Every step keeps the requests truthful.
LEMMA NextAsked == TypeInv /\ AskedInv /\ [Next]_vars => AskedInv'
<1>. SUFFICES ASSUME TypeInv, AskedInv, [Next]_vars PROVE AskedInv'
  OBVIOUS
<1>1. ASSUME NEW b \in Attempts, Run(b) \/ Crash(b) PROVE AskedInv'
  BY <1>1, RunAlone, RunAsked DEF AskedInv, RowsAsked, HandAsked, Tells
<1>2. CASE UNCHANGED <<slot, record, flag, worker, poll, asked>>
  BY <1>2 DEF AskedInv, CancelledOnlyWhenAsked, Tells
<1>3. ASSUME NEW c \in Cancellers, RaiseFlag(c) PROVE AskedInv'
  BY <1>3 DEF RaiseFlag, AskedInv, CancelledOnlyWhenAsked, Tells, TypeInv, RowsInv
<1>4. ASSUME NEW c \in Cancellers, WithdrawFlag(c) PROVE AskedInv'
  BY <1>4 DEF WithdrawFlag, history, AskedInv, CancelledOnlyWhenAsked, Tells, TypeInv, RowsInv
<1>5. ASSUME NEW p \in Pollers, FindStale(p) PROVE AskedInv'
  <2>1. \A q \in Pollers : Tells(poll[q].copy)'
    BY <1>5 DEF FindStale, history, AskedInv, Tells, TypeInv, CallersInv
  <2>. QED
    BY <1>5, <2>1 DEF FindStale, history, rows, AskedInv, CancelledOnlyWhenAsked, Tells
<1>6. ASSUME NEW p \in Pollers, RecoverStale(p) PROVE AskedInv'
  <2>1. \A q \in Pollers : Tells(poll[q].copy)'
    BY <1>6, EmptyTells DEF RecoverStale, history, AskedInv, Tells, TypeInv, CallersInv, NoSlot
  <2>2. Tells(slot)'
    BY <1>6 DEF RecoverStale, history, AskedInv, Tells, TypeInv, CallersInv, Claimed, Slot
  <2>. QED
    BY <1>6, <2>1, <2>2 DEF RecoverStale, history, AskedInv, CancelledOnlyWhenAsked, Tells
<1>7. CASE SlotAges \/ UNCHANGED vars
  BY <1>7 DEF SlotAges, vars, history, callers, AskedInv, CancelledOnlyWhenAsked, Tells
<1>8. ASSUME NEW c \in Cancellers, RequestCancellation(c) \/ Recheck(c) PROVE AskedInv'
  BY <1>2, <1>8 DEF RequestCancellation, Recheck, rows, history
<1>. QED
  BY <1>1, <1>3, <1>4, <1>5, <1>6, <1>7, <1>8 DEF Next, Cancel, Recover

\* Only an attempt somebody asked to cancel ends cancelled, however flags,
\* slots and stale copies pass between attempts (CancelledOnlyWhenAsked).
THEOREM CancelledWhenAsked == Spec => []CancelledOnlyWhenAsked
<1>1. Init => AskedInv
  BY EmptyTells DEF Init, AskedInv, CancelledOnlyWhenAsked, Tells, NoSlot
<1>2. AskedInv => CancelledOnlyWhenAsked
  BY DEF AskedInv
<1>. QED
  BY <1>1, <1>2, NextAsked, TypeInvariant, PTL DEF Spec

-----------------------------------------------------------------------------
(* A young owner is alone.                                                 *)

\* Who shows in the slot, in a copy of a poll or in a request was admitted, and
\* a poll only recovers a slot that still is as old as it was read.
OwnersInv ==
  /\ \A a \in Attempts : AtPhase(a, "new") => record[a].state = "absent"
  /\ slot.status = "in_progress" => slot.owner \in Attempts
  /\ \A a \in Attempts : slot.owner = a => record[a].state # "absent"
  /\ \A p \in Pollers : poll[p].phase = "recovering" =>
       /\ poll[p].copy.owner \in Attempts
       /\ record[poll[p].copy.owner].state # "absent"
       /\ slot.owner = poll[p].copy.owner => aged
  /\ \A c \in Cancellers :
       /\ canceller[c].phase = "idle" => canceller[c].target = NoOne
       /\ canceller[c].phase # "idle" => record[canceller[c].target].state # "absent"

Writing == {"writing", "cancelling", "finalizing", "failing"}

\* An attempt that is not claiming leaves the age and the other parties alone,
\* stays admitted, and writes the slot only as its owner and in a writing phase.
LEMMA RunSlot ==
  ASSUME TypeInv, NEW a \in Attempts, Run(a) \/ Crash(a), ~ClaimProgress(a)
  PROVE  /\ aged' = aged /\ UNCHANGED callers
         /\ worker'[a].phase # "new"
         /\ record[a].state # "absent" => record'[a].state # "absent"
         /\ \/ slot' = slot
            \/ slot.owner = a /\ slot'.owner = a /\ worker[a].phase \in Writing
<1>. USE DEF AtPhase, Writing
<1>1. worker \in [Attempts -> Worker] /\ worker[a] \in Worker /\ record \in [Attempts -> Record]
      /\ Sound(worker[a])
  BY DEF TypeInv, WorkersInv, RowsInv
<1>2. CASE WriteProgress(a)
  <2>1. slot' = Edited(worker[a].copy, worker[a].edit) /\ slot.owner = a
        /\ worker[a].phase = "writing" /\ aged' = aged /\ UNCHANGED callers
    BY <1>2 DEF WriteProgress, MayWrite
  <2>2. Edited(worker[a].copy, worker[a].edit).owner = a
    BY <1>1, <1>2 DEF WriteProgress, MayWrite, Edited, Worker, Slot
  <2>3. record'[a].state = "admitted"
    BY <1>1, <1>2 DEF WriteProgress, Summary
  <2>4. worker'[a].phase # "new"
    BY <1>1, <1>2 DEF WriteProgress, Hand
  <2>. QED
    BY <2>1, <2>2, <2>3, <2>4
<1>3. ASSUME NEW st \in {"admitted", "finished"}, NEW v, WriteOutcome(a, st, v)
      PROVE  /\ record[a].state # "absent" => record'[a].state # "absent"
             /\ slot' = slot \/ (slot.owner = a /\ slot'.owner = a)
  BY <1>1, <1>3 DEF WriteOutcome, Record
<1>4. CASE MarkCancelled(a)
  BY <1>3, <1>4, Went DEF MarkCancelled, Phases
<1>5. CASE FinalizeProgress(a)
  BY <1>3, <1>5, Went DEF FinalizeProgress, Phases
<1>6. CASE MarkProgressFailed(a)
  BY <1>3, <1>6, Went DEF MarkProgressFailed, Phases
<1>7. CASE Select(a)
  BY <1>1, <1>7, Went DEF Select, Hand, Phases, rows
<1>8. CASE ReadProgress(a)
  BY <1>1, <1>8 DEF ReadProgress, Worker, rows
<1>9. CASE RefuseClaim(a) \/ Begin(a) \/ LowerFlag(a) \/ ClearAttemptCancellation(a) \/ Crash(a)
  BY <1>9, Went DEF RefuseClaim, Begin, LowerFlag, ClearAttemptCancellation, Crash, Phases, rows
<1>10. CASE Reclaim(a) \/ RefuseWrite(a) \/ LookForCancellation(a) \/ GenerateUser(a) \/ StorageFails(a)
  BY <1>10, Went
     DEF Reclaim, RefuseWrite, LookForCancellation, GenerateUser, StorageFails, Phases, Edits, rows
<1>. QED
  BY <1>2, <1>4, <1>5, <1>6, <1>7, <1>8, <1>9, <1>10 DEF Run

\* A claim gives the slot to an attempt that was never admitted before.
LEMMA ClaimSlot ==
  ASSUME TypeInv, OwnersInv, NEW a \in Attempts, ClaimProgress(a)
  PROVE  /\ record[a].state = "absent" /\ record'[a].state = "admitted"
         /\ worker'[a].phase \in {"admitted", "selecting"}
         /\ slot'.owner = a /\ slot'.status = "in_progress"
         /\ ~Held /\ UNCHANGED callers
BY Went DEF ClaimProgress, OwnersInv, AtPhase, TypeInv, RowsInv, Record, Phases

\* Every step keeps the owners known.
LEMMA NextOwners == TypeInv /\ OwnersInv /\ [Next]_vars => OwnersInv'
<1>. SUFFICES ASSUME TypeInv, OwnersInv, [Next]_vars PROVE OwnersInv'
  OBVIOUS
<1>. USE DEF AtPhase
<1>1. ASSUME NEW b \in Attempts, ClaimProgress(b) PROVE OwnersInv'
  <2>1. \A a \in Attempts \ {b} : worker'[a] = worker[a] /\ record'[a] = record[a]
    BY <1>1, RunAlone DEF Run
  <2>2. \A p \in Pollers : poll[p].phase = "recovering" => poll[p].copy.owner # b
    BY <1>1, ClaimSlot DEF OwnersInv
  <2>. QED
    BY <1>1, <2>1, <2>2, ClaimSlot DEF OwnersInv, callers, TypeInv, CallersInv
<1>2. ASSUME NEW b \in Attempts, Run(b) \/ Crash(b), ~ClaimProgress(b) PROVE OwnersInv'
  <2>1. \A a \in Attempts \ {b} : worker'[a] = worker[a] /\ record'[a] = record[a]
    BY <1>2, RunAlone
  <2>2. \A a \in Attempts : record[a].state # "absent" => record'[a].state # "absent"
    BY <1>2, <2>1, RunSlot
  <2>3. slot'.status = "in_progress" => slot'.owner \in Attempts
    BY <1>2, RunSlot DEF OwnersInv
  <2>. QED
    BY <1>2, <2>1, <2>2, <2>3, RunSlot DEF OwnersInv, callers, TypeInv, CallersInv
<1>3. ASSUME NEW c \in Cancellers, RequestCancellation(c) PROVE OwnersInv'
  <2>1. PICK a \in Attempts, b \in BOOLEAN : Canceling(c, "raising", b, a) /\ Cancellable(b, a)
    BY <1>3 DEF RequestCancellation
  <2>2. record[a].state # "absent"
    BY <2>1 DEF Cancellable, Owns, OwnersInv
  <2>3. UNCHANGED <<slot, aged, record, worker, poll>>
    BY <1>3 DEF RequestCancellation, rows
  <2>. QED
    BY <2>1, <2>2, <2>3 DEF Canceling, OwnersInv, TypeInv, CallersInv
<1>4. ASSUME NEW c \in Cancellers, RaiseFlag(c) \/ Recheck(c) \/ WithdrawFlag(c) PROVE OwnersInv'
  <2>1. UNCHANGED <<slot, aged, record, worker, poll>>
    BY <1>4 DEF RaiseFlag, Recheck, WithdrawFlag, rows
  <2>2. \/ Dismiss(c)
        \/ \E p : canceller[c].phase # "idle" /\ p # "idle"
                  /\ canceller' = [canceller EXCEPT ![c].phase = p]
    BY <1>4, Zenon DEF RaiseFlag, Recheck, WithdrawFlag
  <2>. QED
    BY <2>1, <2>2 DEF Dismiss, OwnersInv, TypeInv, CallersInv, Canceller
<1>5. ASSUME NEW p \in Pollers, FindStale(p) PROVE OwnersInv'
  BY <1>5 DEF FindStale, rows, OwnersInv, TypeInv, CallersInv
<1>6. ASSUME NEW p \in Pollers, RecoverStale(p) PROVE OwnersInv'
  <2>1. slot' = slot \/ (slot'.status = "failed" /\ slot'.owner = slot.owner)
    BY <1>6 DEF RecoverStale, TypeInv, CallersInv, Claimed, Slot
  <2>. QED
    BY <1>6, <2>1 DEF RecoverStale, OwnersInv, TypeInv, CallersInv
<1>7. CASE SlotAges \/ UNCHANGED vars
  BY <1>7 DEF SlotAges, vars, callers, OwnersInv
<1>. QED
  BY <1>1, <1>2, <1>3, <1>4, <1>5, <1>6, <1>7 DEF Next, Cancel, Recover

\* Initially nobody owns the slot and nobody asks for anything.
LEMMA InitOwners == Init => OwnersInv
BY DEF Init, OwnersInv, NoSlot, AtPhase

\* The owners are known throughout.
LEMMA OwnersInvariant == Spec => []OwnersInv
BY InitOwners, NextOwners, TypeInvariant, PTL DEF Spec

\* Nobody but its owner, in a step that writes it, changes a young slot in
\* progress: not a predecessor with an old copy, not a poll that found it aged
\* under another owner and not a claim (YoungOwnerIsAlone).
THEOREM YoungOwnerAlone == Spec => YoungOwnerIsAlone
<1>. DEFINE Alone == Held /\ slot' # slot =>
              worker[slot.owner].phase \in {"writing", "cancelling", "finalizing", "failing"}
              /\ slot'.owner = slot.owner
<1>1. TypeInv /\ OwnersInv /\ [Next]_vars => Alone
  <2>. SUFFICES ASSUME TypeInv, OwnersInv, [Next]_vars, Held, slot' # slot
                PROVE  worker[slot.owner].phase \in Writing /\ slot'.owner = slot.owner
    BY DEF Writing
  <2>1. ~ \E a \in Attempts : ClaimProgress(a)
    BY DEF ClaimProgress
  <2>2. ~ \E p \in Pollers : RecoverStale(p)
    BY DEF RecoverStale, OwnersInv, Held
  <2>3. PICK a \in Attempts : Run(a) \/ Crash(a)
    BY <2>2 DEF Next, Cancel, Recover, RequestCancellation, RaiseFlag, Recheck, WithdrawFlag,
                FindStale, SlotAges, vars, rows
  <2>. QED
    BY <2>1, <2>3, RunSlot
<1>2. TypeInv /\ OwnersInv /\ [Next]_vars => [Alone]_vars
  BY <1>1
<1>. QED
  BY <1>2, TypeInvariant, OwnersInvariant, PTL DEF Spec, YoungOwnerIsAlone

-----------------------------------------------------------------------------
(* No cancellation row outlives its attempt.                               *)

\* A finished attempt shows no progress in its slot, and a row it left behind
\* is the work of a request that still names it.
SweptInv ==
  /\ \A a \in Attempts :
       record[a].state = "finished" /\ slot.owner = a => slot.status # "in_progress"
  /\ FlagsAreSwept

\* After a verdict the slot shows no progress, and an attempt with a verdict
\* returns only by the sweep of its own row.
LEMMA LeavesByTheSweep ==
  ASSUME TypeInv, FinalInv, OwnersInv, SweptInv, NEW a \in Attempts, Work(a) \/ Crash(a)
  PROVE  /\ record'[a].state = "finished" /\ slot'.owner = a => slot'.status # "in_progress"
         /\ worker'[a].phase = "over" /\ record'[a].state = "finished"
              => flag'[a] = "absent" \/ (worker[a].phase = "over" /\ UNCHANGED <<record, flag>>)
         /\ \A b \in Attempts \ {a} : flag'[b] = flag[b]
<1>. USE DEF AtPhase
<1>1. worker \in [Attempts -> Worker] /\ worker[a] \in Worker /\ record \in [Attempts -> Record]
      /\ flag \in [Attempts -> {"absent", "down", "up"}]
      /\ (record[a].state = "finished" => worker[a].phase \in Returning)
      /\ (record[a].state = "finished" /\ slot.owner = a => slot.status # "in_progress")
      /\ (worker[a].phase = "new" => record[a].state = "absent")
  BY DEF TypeInv, WorkersInv, RowsInv, FinalInv, OwnersInv, SweptInv
<1>2. CASE ClaimProgress(a)
  BY <1>1, <1>2 DEF ClaimProgress, Record
<1>3. CASE WriteProgress(a)
  BY <1>1, <1>3 DEF WriteProgress, Summary
<1>4. ASSUME NEW st, NEW v \in Statuses \ {"in_progress"}, WriteOutcome(a, st, v)
      PROVE  record'[a].state = "finished" /\ slot'.owner = a => slot'.status # "in_progress"
  BY <1>1, <1>4 DEF WriteOutcome
<1>5. CASE MarkCancelled(a)
  BY <1>4, <1>5, Went DEF MarkCancelled, Statuses, Phases
<1>6. CASE FinalizeProgress(a)
  <2>1. Verdict(record[a]) \in Statuses \ {"in_progress"}
    BY DEF Verdict, Statuses
  <2>. QED
    BY <1>4, <1>6, <2>1, Went DEF FinalizeProgress, Phases
<1>7. CASE MarkProgressFailed(a)
  BY <1>4, <1>7, Went DEF MarkProgressFailed, Statuses, Phases
<1>8. CASE ClearAttemptCancellation(a)
  BY <1>1, <1>8 DEF ClearAttemptCancellation
<1>9. CASE RefuseClaim(a) \/ Begin(a)
  BY <1>1, <1>9 DEF RefuseClaim, Begin, rows, Returning
<1>10. CASE Select(a)
  BY <1>1, <1>10, Went DEF Select, Hand, Phases, rows
<1>11. CASE ReadProgress(a)
  BY <1>1, <1>11 DEF ReadProgress, Worker, rows
<1>12. CASE Reclaim(a) \/ RefuseWrite(a) \/ LookForCancellation(a) \/ GenerateUser(a) \/ Crash(a)
  BY <1>1, <1>12, Went
     DEF Reclaim, RefuseWrite, LookForCancellation, GenerateUser, Crash, Phases, Edits, rows
<1>13. CASE LowerFlag(a)
  BY <1>1, <1>13, Went DEF LowerFlag, Phases
<1>. QED
  BY <1>2, <1>3, <1>5, <1>6, <1>7, <1>8, <1>9, <1>10, <1>11, <1>12, <1>13 DEF Work

\* What may happen while no storage call fails.
UnfailingNext ==
  \/ \E a \in Attempts : Work(a) \/ Crash(a)
  \/ \E c \in Cancellers : Cancel(c)
  \/ \E p \in Pollers : Recover(p)
  \/ SlotAges

\* Every such step keeps what is swept.
LEMMA UnfailingSwept ==
  ASSUME TypeInv, FinalInv, OwnersInv, SweptInv, [UnfailingNext]_vars
  PROVE  SweptInv'
<1>. USE DEF AtPhase
<1>1. ASSUME NEW b \in Attempts, Work(b) \/ Crash(b) PROVE SweptInv'
  <2>. Run(b) \/ Crash(b)
    BY <1>1 DEF Work, Run
  <2>1. \A a \in Attempts \ {b} : worker'[a] = worker[a] /\ record'[a] = record[a]
    BY <1>1, RunAlone
  <2>2. UNCHANGED callers
    BY <1>1, RunSlot, ClaimSlot
  <2>3. \A a \in Attempts \ {b} : slot'.owner = a => slot' = slot
    BY <1>1, RunSlot, ClaimSlot
  <2>4. \A a \in Attempts :
           record'[a].state = "finished" /\ slot'.owner = a => slot'.status # "in_progress"
    BY <1>1, <2>1, <2>3, LeavesByTheSweep DEF SweptInv
  <2>5. FlagsAreSwept'
    BY <1>1, <2>1, <2>2, LeavesByTheSweep DEF SweptInv, FlagsAreSwept, callers
  <2>. QED
    BY <2>4, <2>5 DEF SweptInv
<1>2. ASSUME NEW c \in Cancellers, RequestCancellation(c) PROVE SweptInv'
  <2>1. canceller[c].target = NoOne /\ UNCHANGED <<slot, record, flag, worker>>
    BY <1>2 DEF RequestCancellation, OwnersInv, rows
  <2>2. \A d \in Cancellers \ {c} : canceller'[d] = canceller[d]
    BY <1>2 DEF RequestCancellation, Canceling, TypeInv, CallersInv
  <2>. QED
    BY <2>1, <2>2 DEF SweptInv, FlagsAreSwept
<1>3. ASSUME NEW c \in Cancellers, RaiseFlag(c) PROVE SweptInv'
  <2>1. UNCHANGED <<slot, record, worker>>
    BY <1>3 DEF RaiseFlag
  <2>2. \A d \in Cancellers : canceller'[d].target = canceller[d].target
    BY <1>3 DEF RaiseFlag, TypeInv, CallersInv, Canceller
  <2>3. \A a \in Attempts : a # canceller[c].target => flag'[a] = flag[a]
    BY <1>3 DEF RaiseFlag, TypeInv, RowsInv
  <2>. QED
    BY <2>1, <2>2, <2>3 DEF SweptInv, FlagsAreSwept
<1>4. ASSUME NEW c \in Cancellers, Recheck(c) PROVE SweptInv'
  <2>1. UNCHANGED <<slot, record, flag, worker>>
    BY <1>4 DEF Recheck, rows
  <2>2. canceller[c].target \in Attempts
    BY <1>4 DEF Recheck, TypeInv, CallersInv
  <2>3. CASE record[canceller[c].target].state = "finished"
    <3>1. ~ Cancellable(canceller[c].named, canceller[c].target)
      BY <2>2, <2>3 DEF Cancellable, Owns, SweptInv
    <3>2. \A d \in Cancellers : canceller'[d].target = canceller[d].target
      BY <1>4, <3>1 DEF Recheck, TypeInv, CallersInv, Canceller
    <3>. QED
      BY <2>1, <3>2 DEF SweptInv, FlagsAreSwept
  <2>4. CASE record[canceller[c].target].state # "finished"
    <3>1. \A d \in Cancellers \ {c} : canceller'[d] = canceller[d]
      BY <1>4 DEF Recheck, Dismiss, TypeInv, CallersInv
    <3>. QED
      BY <2>1, <2>4, <3>1 DEF SweptInv, FlagsAreSwept
  <2>. QED
    BY <2>3, <2>4
<1>5. ASSUME NEW c \in Cancellers, WithdrawFlag(c) PROVE SweptInv'
  <2>1. UNCHANGED <<slot, record, worker>>
    BY <1>5 DEF WithdrawFlag
  <2>2. \A d \in Cancellers \ {c} : canceller'[d] = canceller[d]
    BY <1>5 DEF WithdrawFlag, Dismiss, TypeInv, CallersInv
  <2>3. \A a \in Attempts :
           flag'[a] = IF a = canceller[c].target THEN "absent" ELSE flag[a]
    BY <1>5 DEF WithdrawFlag, TypeInv, RowsInv
  <2>. QED
    BY <2>1, <2>2, <2>3 DEF SweptInv, FlagsAreSwept
<1>6. ASSUME NEW p \in Pollers, FindStale(p) PROVE SweptInv'
  BY <1>6 DEF FindStale, rows, SweptInv, FlagsAreSwept
<1>7. ASSUME NEW p \in Pollers, RecoverStale(p) PROVE SweptInv'
  <2>1. slot' = slot \/ slot'.status = "failed"
    BY <1>7 DEF RecoverStale, TypeInv, CallersInv, Claimed, Slot
  <2>. QED
    BY <1>7, <2>1 DEF RecoverStale, SweptInv, FlagsAreSwept
<1>8. CASE SlotAges \/ UNCHANGED vars
  BY <1>8 DEF SlotAges, vars, callers, SweptInv, FlagsAreSwept
<1>. QED
  BY <1>1, <1>2, <1>3, <1>4, <1>5, <1>6, <1>7, <1>8 DEF UnfailingNext, Cancel, Recover

\* As long as no storage call fails, an attempt that returned with a verdict
\* leaves no cancellation row once the requests that name it are answered: a
\* flag raised after the sweep is withdrawn by whoever raised it, since neither
\* record nor slot shows progress any more (FlagsAreSwept).
THEOREM FlagsSwept == "fault" \notin Environment => (Spec => []FlagsAreSwept)
<1>. SUFFICES ASSUME "fault" \notin Environment PROVE Spec => []FlagsAreSwept
  OBVIOUS
<1>1. Init => FinalInv /\ SweptInv
  BY DEF Init, FinalInv, SweptInv, FlagsAreSwept
<1>2. [Next]_vars => [UnfailingNext]_vars
  BY DEF Next, Run, StorageFails, Work, UnfailingNext
<1>3. TypeInv /\ OwnersInv /\ FinalInv /\ SweptInv /\ [Next]_vars => FinalInv' /\ SweptInv'
  BY <1>2, NextFinal, UnfailingSwept
<1>4. SweptInv => FlagsAreSwept
  BY DEF SweptInv
<1>. QED
  BY <1>1, <1>3, <1>4, TypeInvariant, OwnersInvariant, PTL DEF Spec

\* The settings are behaviours of the component, and only in one of them may a
\* storage call fail.
LEMMA SettingsAreSteps ==
  /\ SettingsInit => Init
  /\ [SettingsNext]_<<vars, setting>> => [Next]_vars /\ UNCHANGED setting
  /\ [SettingsNext]_<<vars, setting>> /\ setting # "verdict" => [UnfailingNext]_vars
<1>1. SettingsInit => Init
  BY DEF SettingsInit
<1>2. SuccessionNext \/ RecoveryNext => UnfailingNext
  BY DEF SuccessionNext, RecoveryNext, UnfailingNext
<1>3. VerdictNext => UnfailingNext \/ \E a \in Attempts : StorageFails(a)
  BY DEF VerdictNext, UnfailingNext
<1>4. UnfailingNext \/ (\E a \in Attempts : StorageFails(a)) => Next
  BY DEF UnfailingNext, Next, Run, Work
<1>5. SettingsNext => /\ SuccessionNext \/ RecoveryNext \/ VerdictNext
                      /\ UNCHANGED setting
                      /\ setting # "verdict" => SuccessionNext \/ RecoveryNext
  BY DEF SettingsNext
<1>6. UNCHANGED <<vars, setting>> => UNCHANGED vars /\ UNCHANGED setting
  OBVIOUS
<1>. QED
  BY <1>1, <1>2, <1>3, <1>4, <1>5, <1>6

\* The run's settings without failing storage calls leave no cancellation row
\* behind an attempt with a verdict, even where a third setting has them fail
\* (FlagsAreSweptUnfailing).
THEOREM SettingsFlagsSwept == SettingsSpec => []FlagsAreSweptUnfailing
<1>. DEFINE Unfailing == setting # "verdict" => SweptInv
            Steady == TypeInv /\ OwnersInv /\ FinalInv
<1>1. SettingsInit => Steady /\ Unfailing
  BY SettingsAreSteps, InitType, InitOwners
     DEF Init, FinalInv, SweptInv, FlagsAreSwept
<1>2. Steady /\ [SettingsNext]_<<vars, setting>> => Steady'
  BY SettingsAreSteps, NextType, NextOwners, NextFinal
<1>3. Steady /\ Unfailing /\ [SettingsNext]_<<vars, setting>> => Unfailing'
  BY SettingsAreSteps, UnfailingSwept
<1>4. Unfailing => FlagsAreSweptUnfailing
  BY DEF SweptInv, FlagsAreSweptUnfailing
<1>. QED
  BY <1>1, <1>2, <1>3, <1>4, PTL DEF SettingsSpec

-----------------------------------------------------------------------------
(* A verdict hides no failure.                                             *)

\* The failure an attempt has in hand and not yet in its rows.
InHand(r) == IF r.phase \in {"reading", "writing"} /\ r.edit = "fail" THEN 1 ELSE 0

\* Until it is on its way out, an attempt has every failure of its users in the
\* record or in hand, and its slot and current copy count what the record does.
CountedFor(a) ==
  /\ worker[a].phase \notin Returning =>
       /\ failures[a] = record[a].failed + InHand(worker[a])
       /\ slot.owner = a => slot.failed = record[a].failed
  /\ worker[a].phase = "new" => record[a].failed = 0
  /\ worker[a].phase = "writing" /\ worker[a].copy.owner = a =>
       worker[a].copy.failed = record[a].failed

FailuresInv ==
  /\ \A a \in Attempts : CountedFor(a)
  /\ VerdictHidesNoFailure
  /\ \A p \in Pollers : poll[p].phase = "idle"

\* Empty hands and a progress write carry what they should.
LEMMA Carries ==
  ASSUME TypeInv, NEW a \in Attempts
  PROVE  /\ \A p \in Phases \ {"reading", "writing"} :
              Goto(a, p) \/ Quit(a, p) => worker'[a].phase = p /\ InHand(worker'[a]) = 0
         /\ \A e \in Edits : Write(a, e) =>
              /\ worker'[a].phase = "reading"
              /\ InHand(worker'[a]) = IF e = "fail" THEN 1 ELSE 0
BY DEF TypeInv, WorkersInv, Goto, Quit, Write, Hand, InHand

\* A step of an attempt keeps its failures counted and its verdict honest.
LEMMA RunCounts ==
  ASSUME TypeInv, FinalInv, FailuresInv, NEW a \in Attempts, Run(a) \/ Crash(a)
  PROVE  /\ CountedFor(a)'
         /\ record'[a].state = "finished" /\ record'[a].status = "completed" => failures'[a] = 0
         /\ \A b \in Attempts \ {a} : failures'[b] = failures[b]
<1>. USE DEF AtPhase
<1>1. worker \in [Attempts -> Worker] /\ worker[a] \in Worker /\ record \in [Attempts -> Record]
      /\ record[a] \in Record /\ failures \in [Attempts -> Nat] /\ failures[a] \in Nat
      /\ record[a].failed \in Nat /\ Sound(worker[a]) /\ slot \in Slot
  BY DEF TypeInv, WorkersInv, RowsInv, HistoryInv, Record, Claimed
<1>2. /\ record[a].state = "finished" => worker[a].phase \in Returning
      /\ record[a].state = "finished" /\ record[a].status = "completed" => failures[a] = 0
      /\ CountedFor(a)
  BY DEF FinalInv, FailuresInv, VerdictHidesNoFailure
<1>3. CASE ClaimProgress(a)
  <2>1. UNCHANGED failures /\ worker'[a].phase \in {"admitted", "selecting"}
        /\ InHand(worker'[a]) = 0
    BY <1>3, Carries DEF ClaimProgress, history, Phases
  <2>2. slot'.failed = 0 /\ record'[a].failed = record[a].failed /\ record'[a].state = "admitted"
    BY <1>1, <1>3 DEF ClaimProgress, Record
  <2>. QED
    BY <1>1, <1>2, <1>3, <2>1, <2>2 DEF ClaimProgress, CountedFor, InHand, Returning
<1>4. CASE WriteProgress(a)
  <2>. DEFINE s == Edited(worker[a].copy, worker[a].edit)
  <2>1. worker[a].phase = "writing" /\ worker[a].copy.owner = a /\ worker[a].copy \in Slot
    BY <1>1, <1>4 DEF WriteProgress, MayWrite, Worker
  <2>2. s.failed = record[a].failed + InHand(worker[a])
    BY <1>1, <1>2, <2>1 DEF Edited, CountedFor, InHand, Slot
  <2>3. slot' = s /\ record'[a].failed = s.failed /\ record'[a].state = "admitted"
        /\ UNCHANGED failures
    BY <1>1, <1>4 DEF WriteProgress, Summary
  <2>4. worker'[a].phase \in {"running", "looking"} /\ InHand(worker'[a]) = 0
    BY <1>1, <1>4 DEF WriteProgress, Hand, InHand
  <2>5. failures[a] = s.failed /\ failures[a] = failures[a] + 0
    BY <1>1, <1>2, <2>1, <2>2 DEF CountedFor, Returning
  <2>. QED
    BY <1>1, <2>3, <2>4, <2>5 DEF CountedFor
<1>5. ASSUME NEW st, NEW v, WriteOutcome(a, st, v), record[a].state # "finished"
      PROVE  /\ record'[a].failed = record[a].failed
             /\ record'[a].state = st /\ record'[a].status = v
             /\ slot'.owner = a => slot'.failed = record'[a].failed
  BY <1>1, <1>5 DEF WriteOutcome, Record
<1>6. CASE MarkCancelled(a)
  <2>1. record[a].state # "finished" /\ worker'[a].phase = "lowering" /\ InHand(worker'[a]) = 0
        /\ UNCHANGED failures
    BY <1>2, <1>6, Carries DEF MarkCancelled, Phases, Returning, history
  <2>. QED
    BY <1>1, <1>2, <1>5, <1>6, <2>1 DEF MarkCancelled, CountedFor, InHand, Returning
<1>7. CASE FinalizeProgress(a)
  <2>1. record[a].state # "finished" /\ worker'[a].phase = "clearing" /\ UNCHANGED failures
    BY <1>2, <1>7, Carries DEF FinalizeProgress, Phases, Returning, history
  <2>2. Verdict(record[a]) = "completed" => record[a].failed = 0
    BY <1>1 DEF Verdict
  <2>3. failures[a] = record[a].failed
    BY <1>1, <1>2, <1>7 DEF FinalizeProgress, CountedFor, InHand, Returning
  <2>. QED
    BY <1>1, <1>2, <1>5, <1>7, <2>1, <2>2, <2>3 DEF FinalizeProgress, CountedFor, Returning
<1>8. CASE MarkProgressFailed(a)
  <2>1. worker'[a].phase = "sweeping" /\ UNCHANGED failures
    BY <1>8, Carries DEF MarkProgressFailed, Phases, history
  <2>2. record[a].state = "finished" => UNCHANGED record
    BY <1>8 DEF MarkProgressFailed, WriteOutcome
  <2>. QED
    BY <1>1, <1>2, <1>5, <1>8, <2>1, <2>2 DEF MarkProgressFailed, CountedFor, Returning
<1>9. CASE ReadProgress(a)
  <2>1. worker'[a] = [worker[a] EXCEPT !.phase = "writing", !.copy = slot]
        /\ UNCHANGED <<slot, record, failures>> /\ worker[a].phase = "reading"
    BY <1>1, <1>9 DEF ReadProgress, rows, history
  <2>2. worker'[a].phase = "writing" /\ worker'[a].copy = slot /\ worker'[a].edit = worker[a].edit
    BY <1>1, <2>1 DEF Worker
  <2>. QED
    BY <1>1, <1>2, <2>1, <2>2 DEF CountedFor, InHand, Returning
<1>10. CASE UNCHANGED <<slot, record, failures>>
  <2>. SUFFICES CountedFor(a)'
    BY <1>1, <1>2, <1>10
  <2>1. /\ worker'[a].phase \notin {"new", "writing"}
        /\ InHand(worker'[a]) = 0
        /\ worker[a].phase \in Returning => worker'[a].phase \in Returning
        /\ InHand(worker[a]) = 0 \/ worker'[a].phase \in Returning
        => CountedFor(a)'
    BY <1>1, <1>2, <1>10 DEF CountedFor
  <2>2. worker[a].phase \notin {"reading", "writing"} => InHand(worker[a]) = 0
    BY DEF InHand
  <2>3. CASE RefuseClaim(a) \/ ClearAttemptCancellation(a) \/ Crash(a)
    <3>1. worker'[a].phase \in {"over", "crashed"} /\ InHand(worker'[a]) = 0
      BY <2>3, Carries DEF RefuseClaim, ClearAttemptCancellation, Crash, Phases
    <3>. QED
      BY <2>1, <3>1 DEF Returning
  <2>4. CASE Begin(a) \/ LowerFlag(a)
    <3>1. worker'[a].phase \in {"selecting", "over", "finalizing"} /\ InHand(worker'[a]) = 0
      BY <2>4, Carries DEF Begin, LowerFlag, Phases
    <3>2. worker[a].phase \in {"admitted", "lowering"}
      BY <2>4 DEF Begin, LowerFlag
    <3>. QED
      BY <2>1, <2>2, <3>1, <3>2 DEF Returning
  <2>5. CASE Select(a)
    <3>1. worker'[a].phase \in {"reclaiming", "failing"} /\ InHand(worker'[a]) = 0
      <4>1. Quit(a, "failing") => worker'[a].phase = "failing" /\ InHand(worker'[a]) = 0
        BY Carries DEF Phases
      <4>2. ASSUME NEW n, worker' = [worker EXCEPT ![a] = Hand("reclaiming", "initialize", n)]
            PROVE  worker'[a].phase = "reclaiming" /\ InHand(worker'[a]) = 0
        BY <1>1, <4>2 DEF Hand, InHand
      <4>. QED
        BY <2>5, <4>1, <4>2 DEF Select
    <3>. QED
      BY <2>1, <2>2, <2>5, <3>1 DEF Select, Returning
  <2>6. CASE Reclaim(a) \/ LookForCancellation(a)
    <3>1. worker'[a].phase \in {"reading", "failing", "finalizing", "cancelling"}
          /\ InHand(worker'[a]) = 0
      BY <2>6, Carries DEF Reclaim, LookForCancellation, Phases, Edits
    <3>2. worker[a].phase \in {"reclaiming", "looking"}
      BY <2>6 DEF Reclaim, LookForCancellation
    <3>. QED
      BY <2>1, <2>2, <3>1, <3>2 DEF Returning
  <2>7. CASE GenerateUser(a)
    <3>1. failures'[a] # failures[a] + 1
      BY <1>1, <1>10
    <3>2. Write(a, "pass") /\ worker[a].phase = "running"
      BY <1>1, <2>7, <3>1 DEF GenerateUser
    <3>3. worker'[a].phase = "reading" /\ InHand(worker'[a]) = 0
      BY <3>2, Carries DEF Edits
    <3>. QED
      BY <2>1, <2>2, <3>2, <3>3 DEF Returning
  <2>8. CASE RefuseWrite(a) \/ StorageFails(a)
    <3>1. failures'[a] # failures[a] + 1
      BY <1>1, <1>10
    <3>2. Quit(a, "failing") \/ Quit(a, "over")
      BY <1>1, <2>8, <3>1 DEF RefuseWrite, StorageFails
    <3>3. worker'[a].phase \in {"failing", "over"} /\ InHand(worker'[a]) = 0
      BY <3>2, Carries DEF Phases
    <3>. QED
      BY <2>1, <3>3 DEF Returning
  <2>. QED
    BY <1>2, <1>10, <2>3, <2>4, <2>5, <2>6, <2>7, <2>8, <1>3, <1>4, <1>6, <1>7, <1>8, <1>9 DEF Run
<1>11. CASE Write(a, "fail") /\ failures' = [failures EXCEPT ![a] = @ + 1]
            /\ UNCHANGED <<slot, record>> /\ worker[a].phase \notin Returning
            /\ InHand(worker[a]) = 0
  <2>1. worker'[a].phase = "reading" /\ InHand(worker'[a]) = 1
    BY <1>11, Carries DEF Edits
  <2>. QED
    BY <1>1, <1>2, <1>11, <2>1 DEF CountedFor
<1>. QED
  BY <1>1, <1>2, <1>3, <1>4, <1>6, <1>7, <1>8, <1>9, <1>10, <1>11
     DEF Run, Crash, RefuseClaim, Begin, Select, Reclaim, RefuseWrite, LookForCancellation,
         GenerateUser, LowerFlag, ClearAttemptCancellation, StorageFails, rows, history,
         InHand, Returning

\* Every step keeps the failures counted, as long as nobody polls.
LEMMA NextCounts ==
  ASSUME TypeInv, FinalInv, OwnersInv, FailuresInv, "poll" \notin Environment, [Next]_vars
  PROVE  FailuresInv'
<1>1. ASSUME NEW b \in Attempts, Run(b) \/ Crash(b) PROVE FailuresInv'
  <2>1. \A a \in Attempts \ {b} : worker'[a] = worker[a] /\ record'[a] = record[a]
                                  /\ failures'[a] = failures[a]
    BY <1>1, RunAlone, RunCounts
  <2>2. UNCHANGED callers /\ \A a \in Attempts \ {b} : slot'.owner = a => slot' = slot
    BY <1>1, RunSlot, ClaimSlot
  <2>3. \A a \in Attempts \ {b} : CountedFor(a)'
    BY <2>1, <2>2 DEF FailuresInv, CountedFor, InHand
  <2>4. CountedFor(b)' /\ VerdictHidesNoFailure'
    BY <1>1, <2>1, RunCounts DEF FailuresInv, VerdictHidesNoFailure
  <2>. QED
    BY <2>2, <2>3, <2>4 DEF FailuresInv, callers
<1>2. CASE UNCHANGED <<slot, record, worker, failures, poll>>
  BY <1>2 DEF FailuresInv, CountedFor, InHand, VerdictHidesNoFailure
<1>3. ASSUME NEW p \in Pollers, Recover(p) PROVE FALSE
  BY <1>3 DEF Recover, FindStale, RecoverStale, FailuresInv
<1>. QED
  BY <1>1, <1>2, <1>3 DEF Next, Cancel, RequestCancellation, RaiseFlag, Recheck, WithdrawFlag,
                          SlotAges, vars, rows, callers, history

\* An attempt whose verdict is a success had no user fail, whoever took its
\* slot, whichever of its writes was refused or failed, as long as no poll
\* writes an old copy back over a failure counted since (VerdictHidesNoFailure).
THEOREM NoFailureHidden == "poll" \notin Environment => (Spec => []VerdictHidesNoFailure)
<1>. SUFFICES ASSUME "poll" \notin Environment PROVE Spec => []VerdictHidesNoFailure
  OBVIOUS
<1>1. Init => FinalInv /\ FailuresInv
  BY DEF Init, FinalInv, FailuresInv, CountedFor, InHand, VerdictHidesNoFailure, NoSlot
<1>2. TypeInv /\ OwnersInv /\ FinalInv /\ FailuresInv /\ [Next]_vars => FinalInv' /\ FailuresInv'
  BY NextFinal, NextCounts
<1>3. FailuresInv => VerdictHidesNoFailure
  BY DEF FailuresInv
<1>. QED
  BY <1>1, <1>2, <1>3, TypeInvariant, OwnersInvariant, PTL DEF Spec

-----------------------------------------------------------------------------
(* An acknowledged cancellation lets one more user begin at most.          *)

\* The attempt begins no user any more.
Past == Returning \cup {"lowering", "finalizing"}

\* The attempt is about to begin a user without another look at its flag.
Starting(r) ==
  \/ r.phase \in {"new", "admitted", "selecting", "reclaiming"}
  \/ r.phase \in {"reading", "writing"} /\ r.edit \in {"initialize", "begin"}

\* Its flag makes no difference any more.
Spent(a) == worker[a].phase \in Past \/ slot.owner # a

\* Without polls a slot shows progress until its owner is done with the users.
\* This is what a cancellation by service relies on.
ShownInv ==
  \A a \in Attempts :
    /\ slot.owner = a /\ slot.status # "in_progress" => worker[a].phase \in Past
    /\ worker[a].phase = "writing" /\ worker[a].copy.owner = a =>
         worker[a].copy.status = "in_progress"

\* A cancellation by service needs such a route, a recovery a poll.
RoutesInv ==
  /\ \A c \in Cancellers : canceller[c].phase # "idle" /\ ~canceller[c].named =>
       "cancelBroad" \in Environment
  /\ "poll" \in Environment \/ \A p \in Pollers : poll[p].phase = "idle"

\* From the moment a request raised the flag until it is withdrawn, and for ever
\* when the request was acknowledged, the flag is up or makes no difference.
RaisedInv ==
  /\ \A c \in Cancellers :
       /\ canceller[c].phase = "withdrawing" => Spent(canceller[c].target)
       /\ canceller[c].phase = "rechecking" =>
            flag[canceller[c].target] = "up" \/ Spent(canceller[c].target)
  /\ \A a \in accepted : record[a].state # "absent" /\ (flag[a] = "up" \/ Spent(a))

\* Whoever began a user after that is not about to begin another.
LateFor(a) ==
  /\ late[a] <= 1
  /\ late[a] > 0 => a \in accepted
  /\ late[a] > 0 /\ slot.owner = a => ~Starting(worker[a])

LateInv ==
  /\ RoutesInv
  /\ "poll" \notin Environment => ShownInv
  /\ RaisedInv
  /\ \A a \in Attempts : LateFor(a)

\* Nobody who is past the users comes back to them, and a flag comes down only
\* for those or for a newcomer.
LEMMA RunPast ==
  ASSUME TypeInv, NEW a \in Attempts, Run(a) \/ Crash(a)
  PROVE  /\ worker[a].phase \in Past => worker'[a].phase \in Past
         /\ ClaimProgress(a) \/ worker'[a].phase \in Past \/ flag' = flag
         /\ \A b \in Attempts \ {a} : flag'[b] = flag[b] /\ late'[b] = late[b]
         /\ accepted' = accepted
<1>. USE DEF AtPhase, Past, Returning
<1>1. worker \in [Attempts -> Worker] /\ worker[a] \in Worker
      /\ flag \in [Attempts -> {"absent", "down", "up"}] /\ late \in [Attempts -> Nat]
  BY DEF TypeInv, WorkersInv, RowsInv, HistoryInv
<1>2. accepted' = accepted /\ \A b \in Attempts \ {a} : flag'[b] = flag[b] /\ late'[b] = late[b]
  BY <1>1 DEF Run, Crash, ClaimProgress, RefuseClaim, Begin, Select, Reclaim, ReadProgress,
       WriteProgress, RefuseWrite, LookForCancellation, GenerateUser, MarkCancelled, LowerFlag,
       FinalizeProgress, MarkProgressFailed, ClearAttemptCancellation, StorageFails, history, rows
<1>3. ClaimProgress(a) \/ LowerFlag(a) \/ ClearAttemptCancellation(a) \/ flag' = flag
  BY DEF Run, Crash, RefuseClaim, Begin, Select, Reclaim, ReadProgress,
       WriteProgress, RefuseWrite, LookForCancellation, GenerateUser, MarkCancelled,
       FinalizeProgress, MarkProgressFailed, StorageFails, rows
<1>4. LowerFlag(a) \/ ClearAttemptCancellation(a) => worker'[a].phase \in Past
  BY Went DEF LowerFlag, ClearAttemptCancellation, Phases
<1>5. worker[a].phase \in Past => worker'[a].phase \in Past
  <2>1. CASE LowerFlag(a) \/ ClearAttemptCancellation(a)
    BY <1>4, <2>1
  <2>2. CASE FinalizeProgress(a) \/ MarkProgressFailed(a) \/ Crash(a)
    BY <2>2, Went DEF FinalizeProgress, MarkProgressFailed, Crash, Phases
  <2>3. CASE StorageFails(a)
    BY <2>3, Went DEF StorageFails, Phases
  <2>. QED
    BY <2>1, <2>2, <2>3 DEF Run, ClaimProgress, RefuseClaim, Begin, Select, Reclaim, ReadProgress,
       WriteProgress, RefuseWrite, LookForCancellation, GenerateUser, MarkCancelled
<1>. QED
  BY <1>2, <1>3, <1>4, <1>5

\* What makes no difference stays so, but for an attempt just admitted.
LEMMA SpentStays ==
  ASSUME TypeInv, OwnersInv, NEW b \in Attempts, Run(b) \/ Crash(b),
         NEW a \in Attempts, record[a].state # "absent"
  PROVE  /\ Spent(a) => Spent(a)'
         /\ flag[a] = "up" => flag'[a] = "up" \/ Spent(a)'
         /\ slot'.owner = a => slot.owner = a
<1>1. a # b => worker'[a] = worker[a] /\ flag'[a] = flag[a]
  BY RunAlone, RunPast
<1>2. ~(ClaimProgress(b) /\ a = b)
  BY ClaimSlot
<1>3. slot'.owner = a => slot.owner = a
  BY <1>2, RunSlot, ClaimSlot
<1>. QED
  BY <1>1, <1>2, <1>3, RunPast DEF Spent

\* A step of an attempt keeps its slot telling what it does.
LEMMA RunShown ==
  ASSUME TypeInv, OwnersInv, ShownInv, NEW a \in Attempts, Run(a) \/ Crash(a)
  PROVE  ShownInv'
<1>. USE DEF AtPhase
<1>1. worker \in [Attempts -> Worker] /\ worker[a] \in Worker /\ slot \in Slot
      /\ record \in [Attempts -> Record]
  BY DEF TypeInv, WorkersInv, RowsInv, Claimed
<1>2. /\ slot.owner = a /\ slot.status # "in_progress" => worker[a].phase \in Past
      /\ worker[a].phase = "writing" /\ worker[a].copy.owner = a =>
           worker[a].copy.status = "in_progress"
  BY DEF ShownInv
<1>3. /\ slot'.owner = a /\ slot'.status # "in_progress" => worker'[a].phase \in Past
      /\ worker'[a].phase = "writing" /\ worker'[a].copy.owner = a =>
           worker'[a].copy.status = "in_progress"
  <2>1. CASE ClaimProgress(a)
    BY <2>1, ClaimSlot
  <2>2. CASE WriteProgress(a)
    <3>1. slot'.status = worker[a].copy.status /\ worker[a].copy.status = "in_progress"
      BY <1>1, <1>2, <2>2 DEF WriteProgress, MayWrite, Edited, Worker, Slot
    <3>2. worker'[a].phase # "writing"
      BY <1>1, <2>2 DEF WriteProgress, Hand
    <3>. QED
      BY <3>1, <3>2
  <2>3. CASE ReadProgress(a)
    <3>1. worker'[a].phase = "writing" /\ worker'[a].copy = slot /\ UNCHANGED slot
          /\ worker[a].phase = "reading"
      BY <1>1, <2>3 DEF ReadProgress, Worker, rows
    <3>. QED
      BY <1>2, <3>1 DEF Past, Returning
  <2>4. CASE MarkCancelled(a) \/ FinalizeProgress(a) \/ MarkProgressFailed(a)
    <3>1. worker'[a].phase \in {"lowering", "clearing", "sweeping"}
      BY <2>4, Went DEF MarkCancelled, FinalizeProgress, MarkProgressFailed, Phases
    <3>. QED
      BY <3>1 DEF Past, Returning
  <2>5. CASE UNCHANGED slot /\ worker'[a].phase # "writing"
    BY <1>2, <2>5, RunPast
  <2>6. CASE Select(a)
    BY <1>1, <2>5, <2>6, Went DEF Select, Hand, Phases, rows
  <2>7. CASE RefuseClaim(a) \/ Begin(a) \/ Reclaim(a) \/ RefuseWrite(a) \/ LookForCancellation(a)
             \/ GenerateUser(a) \/ LowerFlag(a) \/ ClearAttemptCancellation(a)
             \/ StorageFails(a) \/ Crash(a)
    BY <2>5, <2>7, Went
       DEF RefuseClaim, Begin, Reclaim, RefuseWrite, LookForCancellation, GenerateUser,
           LowerFlag, ClearAttemptCancellation, StorageFails, Crash, Phases, Edits, rows
  <2>. QED
    BY <2>1, <2>2, <2>3, <2>4, <2>6, <2>7 DEF Run
<1>4. \A b \in Attempts \ {a} : worker'[b] = worker[b] /\ (slot'.owner = b => slot' = slot)
  BY RunAlone, RunSlot, ClaimSlot
<1>. QED
  BY <1>3, <1>4 DEF ShownInv

\* A step of an attempt begins at most one user past an acknowledgement.
LEMMA RunLate ==
  ASSUME TypeInv, OwnersInv, LateInv, NEW a \in Attempts, Run(a) \/ Crash(a)
  PROVE  LateFor(a)'
<1>. USE DEF AtPhase
<1>1. worker \in [Attempts -> Worker] /\ worker[a] \in Worker /\ late \in [Attempts -> Nat]
      /\ late[a] \in Nat
  BY DEF TypeInv, WorkersInv, HistoryInv
<1>2. LateFor(a)
  BY DEF LateInv
<1>3. accepted' = accepted
  BY RunPast
<1>4. CASE ClaimProgress(a)
  <2>1. a \notin accepted
    BY <1>4, ClaimSlot DEF LateInv, RaisedInv
  <2>. QED
    BY <1>1, <1>2, <1>3, <1>4, <2>1 DEF ClaimProgress, history, LateFor
<1>5. CASE WriteProgress(a)
  <2>1. slot.owner = a /\ worker[a].phase = "writing" /\ ~Starting(worker'[a])
    BY <1>1, <1>5 DEF WriteProgress, MayWrite, Hand, Starting
  <2>2. CASE worker[a].edit = "begin" /\ a \in accepted
    <3>1. late[a] = 0
      BY <1>1, <1>2, <2>1, <2>2 DEF LateFor, Starting
    <3>. QED
      BY <1>1, <1>3, <1>5, <2>1, <2>2, <3>1 DEF WriteProgress, LateFor
  <2>3. CASE ~(worker[a].edit = "begin" /\ a \in accepted)
    BY <1>1, <1>2, <1>3, <1>5, <2>1, <2>3 DEF WriteProgress, LateFor
  <2>. QED
    BY <2>2, <2>3
<1>6. CASE ~ClaimProgress(a) /\ ~WriteProgress(a)
  <2>1. late' = late
    BY <1>6 DEF Run, Crash, RefuseClaim, Begin, Select, Reclaim, ReadProgress, RefuseWrite,
         LookForCancellation, GenerateUser, MarkCancelled, LowerFlag, FinalizeProgress,
         MarkProgressFailed, ClearAttemptCancellation, StorageFails, history
  <2>2. slot'.owner = a => slot.owner = a
    BY <1>6, RunSlot
  <2>. SUFFICES ASSUME late[a] > 0, slot.owner = a, ~Starting(worker[a]) PROVE ~Starting(worker'[a])
    BY <1>2, <1>3, <2>1, <2>2 DEF LateFor
  <2>3. a \in accepted
    BY <1>2 DEF LateFor
  <2>4. \A p \in Phases : (Goto(a, p) \/ Quit(a, p)) => worker'[a].phase = p
    BY Went
  <2>5. \A e \in Edits : Write(a, e) => worker'[a].phase = "reading" /\ worker'[a].edit = e
    BY <1>1 DEF Write, Hand
  <2>6. CASE LookForCancellation(a)
    <3>1. flag[a] = "up"
      BY <2>3, <2>6 DEF LateInv, RaisedInv, Spent, Past, Returning, LookForCancellation
    <3>2. worker'[a].phase \in {"finalizing", "cancelling"}
      BY <2>4, <2>6, <3>1 DEF LookForCancellation, CancellationRequested, Phases
    <3>. QED
      BY <3>2 DEF Starting
  <2>7. CASE ReadProgress(a)
    BY <1>1, <2>7 DEF ReadProgress, Starting, Worker
  <2>8. CASE RefuseWrite(a) \/ GenerateUser(a) \/ StorageFails(a)
    BY <2>4, <2>5, <2>8 DEF RefuseWrite, GenerateUser, StorageFails, Starting, Phases, Edits
  <2>9. CASE MarkCancelled(a) \/ LowerFlag(a) \/ FinalizeProgress(a) \/ MarkProgressFailed(a)
             \/ ClearAttemptCancellation(a) \/ Crash(a)
    BY <2>4, <2>9 DEF MarkCancelled, LowerFlag, FinalizeProgress, MarkProgressFailed,
                      ClearAttemptCancellation, Crash, Starting, Phases
  <2>. QED
    BY <1>6, <2>6, <2>7, <2>8, <2>9
       DEF Run, RefuseClaim, Begin, Select, Reclaim, Starting
<1>. QED
  BY <1>4, <1>5, <1>6

\* A request that finds its attempt no longer cancellable leaves it nothing to
\* begin: by attempt it has its verdict, by service it lost the slot or is done
\* with its users, unless a poll failed the slot under it.
LEMMA NotCancellable ==
  ASSUME TypeInv, FinalInv, OwnersInv, LateInv, ~({"cancelBroad", "poll"} \subseteq Environment),
         NEW c \in Cancellers, canceller[c].phase # "idle",
         ~Cancellable(canceller[c].named, canceller[c].target)
  PROVE  Spent(canceller[c].target)
<1>. DEFINE a == canceller[c].target
<1>1. a \in Attempts /\ record[a].state # "absent" /\ record[a] \in Record
  BY DEF TypeInv, CallersInv, RowsInv, OwnersInv
<1>2. CASE canceller[c].named
  BY <1>1, <1>2 DEF Cancellable, Record, FinalInv, Spent, Past
<1>3. CASE ~canceller[c].named
  <2>1. ShownInv
    BY <1>3 DEF LateInv, RoutesInv
  <2>. QED
    BY <1>1, <1>3, <2>1 DEF Cancellable, Owns, ShownInv, Spent
<1>. QED
  BY <1>2, <1>3

\* Every step keeps what an acknowledged cancellation relies on.
LEMMA NextLate ==
  ASSUME TypeInv, FinalInv, OwnersInv, LateInv, ~({"cancelBroad", "poll"} \subseteq Environment),
         [Next]_vars
  PROVE  LateInv'
<1>. USE DEF AtPhase
<1>1. ASSUME NEW b \in Attempts, Run(b) \/ Crash(b) PROVE LateInv'
  <2>1. UNCHANGED callers /\ accepted' = accepted
    BY <1>1, RunSlot, ClaimSlot, RunPast
  <2>2. RoutesInv'
    BY <2>1 DEF LateInv, RoutesInv, callers
  <2>3. "poll" \notin Environment => ShownInv'
    BY <1>1, RunShown DEF LateInv
  <2>4. \A a \in Attempts : record[a].state # "absent" =>
          /\ record'[a].state # "absent"
          /\ Spent(a) => Spent(a)'
          /\ flag[a] = "up" => flag'[a] = "up" \/ Spent(a)'
          /\ slot'.owner = a => slot.owner = a
    <3>1. ASSUME NEW a \in Attempts, record[a].state # "absent" PROVE record'[a].state # "absent"
      BY <1>1, <3>1, RunAlone, RunSlot, ClaimSlot
    <3>. QED
      BY <1>1, <3>1, SpentStays
  <2>5. RaisedInv'
    <3>1. \A c \in Cancellers : canceller[c].phase # "idle" =>
            canceller[c].target \in Attempts /\ record[canceller[c].target].state # "absent"
      BY DEF TypeInv, CallersInv, OwnersInv
    <3>2. \A c \in Cancellers :
            /\ canceller'[c].phase = "withdrawing" => Spent(canceller[c].target)'
            /\ canceller'[c].phase = "rechecking" =>
                 flag'[canceller[c].target] = "up" \/ Spent(canceller[c].target)'
      BY <2>1, <2>4, <3>1 DEF LateInv, RaisedInv, callers
    <3>3. \A a \in accepted : a \in Attempts
      BY DEF TypeInv, HistoryInv
    <3>. QED
      BY <2>1, <2>4, <3>2, <3>3 DEF LateInv, RaisedInv, callers, Spent
  <2>6. \A a \in Attempts : LateFor(a)'
    <3>1. ASSUME NEW a \in Attempts \ {b} PROVE LateFor(a)'
      <4>1. worker'[a] = worker[a] /\ late'[a] = late[a]
        BY <1>1, RunAlone, RunPast
      <4>2. slot'.owner = a => slot.owner = a
        BY <1>1, RunSlot, ClaimSlot
      <4>. QED
        BY <2>1, <4>1, <4>2 DEF LateInv, LateFor
    <3>. QED
      BY <1>1, <3>1, RunLate
  <2>. QED
    BY <2>2, <2>3, <2>5, <2>6 DEF LateInv
<1>2. ASSUME NEW c \in Cancellers, RequestCancellation(c) PROVE LateInv'
  <2>1. PICK a \in Attempts, b \in BOOLEAN :
          Canceling(c, "raising", b, a) /\ (~b => "cancelBroad" \in Environment)
    BY <1>2 DEF RequestCancellation
  <2>2. UNCHANGED <<slot, aged, record, flag, worker, poll, asked, accepted, late>>
    BY <1>2 DEF RequestCancellation, rows, history
  <2>3. canceller' = [canceller EXCEPT ![c] = [phase |-> "raising", named |-> b, target |-> a]]
    BY <2>1 DEF Canceling
  <2>4. \A d \in Cancellers \ {c} : canceller'[d] = canceller[d]
    BY <2>3 DEF TypeInv, CallersInv
  <2>5. canceller'[c].phase = "raising" /\ canceller'[c].named = b
    BY <2>3 DEF TypeInv, CallersInv
  <2>6. RoutesInv' /\ RaisedInv'
    BY <2>1, <2>2, <2>4, <2>5 DEF LateInv, RoutesInv, RaisedInv, Spent
  <2>. QED
    BY <2>2, <2>6 DEF LateInv, ShownInv, LateFor
<1>3. ASSUME NEW c \in Cancellers, RaiseFlag(c) PROVE LateInv'
  <2>1. UNCHANGED <<slot, record, worker, poll, accepted, late>>
    BY <1>3 DEF RaiseFlag
  <2>2. /\ \A d \in Cancellers \ {c} : canceller'[d] = canceller[d]
        /\ canceller'[c].phase = "rechecking" /\ canceller'[c].target = canceller[c].target
        /\ canceller'[c].named = canceller[c].named
        /\ canceller[c].phase # "idle" /\ canceller[c].target \in Attempts
    BY <1>3 DEF RaiseFlag, TypeInv, CallersInv, Canceller
  <2>3. flag'[canceller[c].target] = "up" /\ \A a \in Attempts : flag[a] = "up" => flag'[a] = "up"
    BY <1>3, <2>2 DEF RaiseFlag, TypeInv, RowsInv
  <2>4. \A d \in Cancellers : canceller[d].phase # "idle" => canceller[d].target \in Attempts
    BY DEF TypeInv, CallersInv
  <2>5. accepted \subseteq Attempts
    BY DEF TypeInv, HistoryInv
  <2>6. RoutesInv' /\ RaisedInv'
    BY <2>1, <2>2, <2>3, <2>4, <2>5 DEF LateInv, RoutesInv, RaisedInv, Spent
  <2>. QED
    BY <2>1, <2>6 DEF LateInv, ShownInv, LateFor
<1>4. ASSUME NEW c \in Cancellers, Recheck(c) PROVE LateInv'
  <2>. DEFINE a == canceller[c].target
  <2>1. UNCHANGED <<slot, record, flag, worker, poll, late>>
    BY <1>4 DEF Recheck, rows
  <2>2. canceller[c].phase = "rechecking" /\ a \in Attempts /\ record[a].state # "absent"
        /\ (flag[a] = "up" \/ Spent(a))
    BY <1>4 DEF Recheck, TypeInv, CallersInv, OwnersInv, LateInv, RaisedInv
  <2>3. CASE Cancellable(canceller[c].named, a)
    <3>1. accepted' = accepted \cup {a} /\ Dismiss(c)
      BY <1>4, <2>3 DEF Recheck
    <3>2. /\ \A d \in Cancellers \ {c} : canceller'[d] = canceller[d]
          /\ canceller'[c].phase = "idle"
      BY <3>1 DEF Dismiss, TypeInv, CallersInv
    <3>3. RoutesInv' /\ RaisedInv'
      BY <2>1, <2>2, <3>1, <3>2 DEF LateInv, RoutesInv, RaisedInv, Spent
    <3>. QED
      BY <2>1, <3>1, <3>3 DEF LateInv, ShownInv, LateFor
  <2>4. CASE ~Cancellable(canceller[c].named, a)
    <3>1. Spent(a)
      BY <2>2, <2>4, NotCancellable
    <3>2. accepted' = accepted /\ canceller' = [canceller EXCEPT ![c].phase = "withdrawing"]
      BY <1>4, <2>4 DEF Recheck
    <3>3. /\ \A d \in Cancellers \ {c} : canceller'[d] = canceller[d]
          /\ canceller'[c].phase = "withdrawing" /\ canceller'[c].target = a
          /\ canceller'[c].named = canceller[c].named
      BY <3>2 DEF TypeInv, CallersInv, Canceller
    <3>4. RoutesInv' /\ RaisedInv'
      BY <2>1, <2>2, <3>1, <3>2, <3>3 DEF LateInv, RoutesInv, RaisedInv, Spent
    <3>. QED
      BY <2>1, <3>2, <3>4 DEF LateInv, ShownInv, LateFor
  <2>. QED
    BY <2>3, <2>4
<1>5. ASSUME NEW c \in Cancellers, WithdrawFlag(c) PROVE LateInv'
  <2>1. UNCHANGED <<slot, record, worker, poll, accepted, late>>
    BY <1>5 DEF WithdrawFlag, history
  <2>2. Spent(canceller[c].target)
    BY <1>5 DEF WithdrawFlag, LateInv, RaisedInv
  <2>3. /\ \A d \in Cancellers \ {c} : canceller'[d] = canceller[d]
        /\ canceller'[c].phase = "idle"
    BY <1>5 DEF WithdrawFlag, Dismiss, TypeInv, CallersInv
  <2>4. \A a \in Attempts : a # canceller[c].target => flag'[a] = flag[a]
    BY <1>5 DEF WithdrawFlag, TypeInv, RowsInv
  <2>5. \A d \in Cancellers : canceller[d].phase # "idle" => canceller[d].target \in Attempts
    BY DEF TypeInv, CallersInv
  <2>6. accepted \subseteq Attempts
    BY DEF TypeInv, HistoryInv
  <2>7. RoutesInv' /\ RaisedInv'
    BY <2>1, <2>2, <2>3, <2>4, <2>5, <2>6 DEF LateInv, RoutesInv, RaisedInv, Spent
  <2>. QED
    BY <2>1, <2>7 DEF LateInv, ShownInv, LateFor
<1>6. ASSUME NEW p \in Pollers, FindStale(p) PROVE LateInv'
  BY <1>6 DEF FindStale, rows, history, LateInv, RoutesInv, RaisedInv, Spent, LateFor
<1>7. ASSUME NEW p \in Pollers, RecoverStale(p) PROVE LateInv'
  <2>1. "poll" \in Environment
    BY <1>7 DEF RecoverStale, LateInv, RoutesInv
  <2>2. slot'.owner = slot.owner
    BY <1>7 DEF RecoverStale, TypeInv, CallersInv, Claimed, Slot
  <2>3. UNCHANGED <<record, flag, worker, canceller, accepted, late>>
    BY <1>7 DEF RecoverStale, history
  <2>. QED
    BY <2>1, <2>2, <2>3 DEF LateInv, RoutesInv, RaisedInv, Spent, LateFor
<1>8. CASE SlotAges \/ UNCHANGED vars
  BY <1>8 DEF SlotAges, vars, callers, history, LateInv, RoutesInv, ShownInv, RaisedInv, Spent, LateFor
<1>. QED
  BY <1>1, <1>2, <1>3, <1>4, <1>5, <1>6, <1>7, <1>8 DEF Next, Cancel, Recover

\* After a cancellation was acknowledged the attempt begins at most the user
\* that was already past the check, where not both a cancellation by service
\* and a recovering poll meddle (OneMoreUserAtMost): the poll fails the slot of
\* a live attempt, and a second request by service then withdraws the flag the
\* first one raised.
THEOREM OneMoreUser ==
  ~({"cancelBroad", "poll"} \subseteq Environment) => (Spec => []OneMoreUserAtMost)
<1>. SUFFICES ASSUME ~({"cancelBroad", "poll"} \subseteq Environment)
              PROVE  Spec => []OneMoreUserAtMost
  OBVIOUS
<1>1. Init => FinalInv /\ LateInv
  BY DEF Init, FinalInv, LateInv, RoutesInv, ShownInv, RaisedInv, LateFor, NoSlot
<1>2. TypeInv /\ OwnersInv /\ FinalInv /\ LateInv /\ [Next]_vars => FinalInv' /\ LateInv'
  BY NextFinal, NextLate
<1>3. LateInv => OneMoreUserAtMost
  BY DEF LateInv, LateFor, OneMoreUserAtMost
<1>. QED
  BY <1>1, <1>2, <1>3, TypeInvariant, OwnersInvariant, PTL DEF Spec
=============================================================================
