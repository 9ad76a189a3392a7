------------------------ MODULE MCGenerationAttempt ------------------------
(***************************************************************************)
(* Instances of GenerationAttempt for TLC, of which a behaviour picks one  *)
(* at the start: the disturbances an instance leaves out are those         *)
(* under which some of its properties are known to fail (README).          *)
(***************************************************************************)
EXTENDS GenerationAttempt, TLC

VARIABLE setting

\* Attempts are interchangeable, and so are the callers that cancel them.
CallerSymmetry == Permutations(Attempts) \cup Permutations(Cancellers)

Work(a) ==
  \/ ClaimProgress(a) \/ RefuseClaim(a) \/ Begin(a) \/ Select(a) \/ Reclaim(a)
  \/ ReadProgress(a) \/ WriteProgress(a) \/ RefuseWrite(a)
  \/ LookForCancellation(a) \/ GenerateUser(a)
  \/ MarkCancelled(a) \/ LowerFlag(a) \/ FinalizeProgress(a)
  \/ MarkProgressFailed(a) \/ ClearAttemptCancellation(a)

\* Attempts of one user, cancelled by name or by service, and crashing.
SuccessionNext ==
  /\ \/ \E a \in Attempts : Work(a) \/ Crash(a)
     \/ \E c \in Cancellers : Cancel(c)
     \/ SlotAges
  /\ \A a \in Attempts : worker'[a].todo <= 1

\* The same with pollers, who fail the slot of an attempt that looks dead, and
\* callers who cancel by name.
RecoveryNext ==
  /\ \/ \E a \in Attempts : Work(a) \/ Crash(a)
     \/ \E c \in Cancellers : Cancel(c)
     \/ \E p \in Pollers : Recover(p)
     \/ SlotAges
  /\ \A a \in Attempts : worker'[a].todo <= 1
  /\ \A c \in Cancellers : canceller'[c].phase = "raising" => canceller'[c].named

\* Where nobody polls, only a claim reads the slot's age.
AwaitsClaim == \E a \in Attempts : AtPhase(a, "new")

\* Attempts of several users, cancelled by name, whose storage calls may fail.
VerdictNext ==
  /\ \/ \E a \in Attempts : Work(a) \/ StorageFails(a)
     \/ \E c \in Cancellers : Cancel(c)
     \/ AwaitsClaim /\ SlotAges
  /\ \A c \in Cancellers : canceller'[c].phase = "raising" => canceller'[c].named
  /\ \A a \in Attempts : AtPhase(a, "selecting") => worker'[a].todo # 1

SettingsInit == Init /\ setting \in {"succession", "recovery", "verdict"}

SettingsNext ==
  \/ setting = "succession" /\ SuccessionNext /\ UNCHANGED setting
  \/ setting = "recovery" /\ RecoveryNext /\ UNCHANGED setting
  \/ setting = "verdict" /\ VerdictNext /\ UNCHANGED setting

SettingsSpec == SettingsInit /\ [][SettingsNext]_<<vars, setting>>

\* Without failing storage calls no cancellation row outlives an attempt that
\* returned with a verdict (clear_cancellation).
FlagsAreSweptUnfailing == setting # "verdict" => FlagsAreSwept
=============================================================================
