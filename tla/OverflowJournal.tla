-------------------------- MODULE OverflowJournal --------------------------
(***************************************************************************)
(* The journal of provider calls of one large window.                      *)
(*                                                                         *)
(* The window is read in chunks, each a paid step whose answer is kept as  *)
(* a receipt, and then reconciled.  The journal is a column of the         *)
(* window's run.  A turn works on a copy of it; every write is fenced by   *)
(* the lease and compares the revision, adds to the attempts of the row    *)
(* and replaces its checkpoint by the copy's.  A call is written down      *)
(* before it is sent and settled after it ended, and the turn may lose the *)
(* lease, be cancelled or die at any point between.  An answer is settled  *)
(* by its usage, if it has any, before anything asks whether it came in    *)
(* time; one that did not is a failed call, with or without its usage.     *)
(*                                                                         *)
(* A request is named by its step; one with another text or model, as a    *)
(* repair or a fallback sends, is told apart from it.  Left out are the    *)
(* tools and questions of a step, the package protocol with its stage      *)
(* caps, a change of the prompt's context, which starts the chunks anew    *)
(* under other names, and chunks that yield nothing to reconcile.          *)
(***************************************************************************)
EXTENDS Integers, FiniteSets, Sequences

CONSTANTS
  Turns,           \* worker threads that may come to execute the window
  NoTurn,
  Chunks,          \* chunks of the prepared input
  AttemptLimit,    \* attempt_limit of the manifest
  MaxTruncated,    \* MAX_TRUNCATED_REQUEST_DISPATCHES
  SplitReserve     \* calls that must remain for a split beyond its chunks

ASSUME JournalAssumption ==
  /\ {Chunks, AttemptLimit, MaxTruncated} \subseteq Nat \ {0}
  /\ SplitReserve \in Nat /\ NoTurn \notin Turns

VARIABLES
  journal,  \* number of attempts and checkpoint of the manifest
  holder,   \* the turn whose writes the fence lets through
  turn,     \* what each turn has in hand
  paid,     \* calls sent, less those that failed in an outage of the provider
            \* with no usage observed
  cut       \* by request, answers observed to be cut off

journalVars == <<journal, holder, turn, paid, cut>>

Reconciliation == 0
PaidSteps == 0..(Chunks + 2)   \* chunks, the halves of one, reconciliation

Checkpoint == [done: SUBSET PaidSteps, truncated: [PaidSteps -> Nat],
               split: 0..Chunks, extracted: BOOLEAN]
NewCheckpoint == [done |-> {}, truncated |-> [s \in PaidSteps |-> 0],
                  split |-> 0, extracted |-> FALSE]

Manifests == [attempts: Nat, checkpoint: Checkpoint]
Answers == {"metered", "cutOff", "unmetered"}   \* not yet known to be in time
Stages == {"nothing", "next", "asking", "called", "answered"} \cup Answers

\* A copy is current while its revision is the row's.
JournalTypeOK ==
  /\ journal \in Manifests
  /\ holder \in Turns \cup {NoTurn}
  /\ turn \in [Turns -> [doing: Stages, step: PaidSteps, changed: BOOLEAN,
                         copy: Manifests, current: BOOLEAN]]
  /\ paid \in Nat
  /\ cut \in [PaidSteps -> Nat]

NoManifest == [attempts |-> 0, checkpoint |-> NewCheckpoint]
NoTurnWork == [doing |-> "nothing", step |-> 0, changed |-> FALSE,
               copy |-> NoManifest, current |-> FALSE]

JournalInit ==
  /\ journal = NoManifest
  /\ holder = NoTurn
  /\ turn = [t \in Turns |-> NoTurnWork]
  /\ paid = 0 /\ cut = [s \in PaidSteps |-> 0]

-----------------------------------------------------------------------------
\* The plan: the chunks in order, one of them replaced by its halves.
ChunkPlan(c) ==
  LET whole == [i \in 1..Chunks |-> i] IN
  IF c.split = 0 THEN whole
  ELSE SubSeq(whole, 1, c.split - 1) \o <<Chunks + 1, Chunks + 2>>
       \o SubSeq(whole, c.split + 1, Chunks)

Planned(c) == {ChunkPlan(c)[i] : i \in DOMAIN ChunkPlan(c)}

\* One chunk needs no reconciliation.
PlanSteps(c) ==
  IF Cardinality(Planned(c)) = 1 THEN Planned(c) ELSE Planned(c) \cup {Reconciliation}

Unfinished(c) == Planned(c) \ c.done

NextStep(c) ==
  IF Unfinished(c) = {} THEN Reconciliation
  ELSE LET plan == ChunkPlan(c) IN
       plan[CHOOSE i \in DOMAIN plan :
              plan[i] \notin c.done /\ \A k \in 1..(i - 1) : plan[k] \in c.done]

\* require_remaining_work, on the copy.
RemainingWork(m, calls) == m.attempts + calls <= AttemptLimit

-----------------------------------------------------------------------------
\* Slip: a thread left behind by its turn writes its copy.
AcceptedAlways(t) == turn[t].doing # "nothing"

\* The fence of the lease and of the adopted run, and the revision.
Accepted(t) == holder = t /\ turn[t].current

\* A write: attempts are those of the row, the checkpoint is the writer's.
Save(t, attempts, checkpoint, work) ==
  LET m == [attempts |-> attempts, checkpoint |-> checkpoint] IN
  /\ journal' = m
  /\ turn' = [u \in Turns |->
       IF u = t THEN [work EXCEPT !.copy = m]
       ELSE [turn[u] EXCEPT !.current = FALSE]]

\* A turn ends and releases the lease it still holds.
EndTurn(t) ==
  /\ turn' = [turn EXCEPT ![t] = NoTurnWork]
  /\ holder' = IF holder = t THEN NoTurn ELSE holder
  /\ UNCHANGED journal

Goes(t, doing) == turn' = [turn EXCEPT ![t].doing = doing]

-----------------------------------------------------------------------------
\* A turn claims the lease, adopts the run and reads its journal.
StartTurn(t) ==
  /\ turn[t].doing = "nothing" /\ holder = NoTurn
  /\ ~journal.checkpoint.extracted
  /\ holder' = t
  /\ turn' = [turn EXCEPT ![t] =
       [NoTurnWork EXCEPT !.doing = "next", !.copy = journal, !.current = TRUE]]
  /\ UNCHANGED <<journal, paid, cut>>

\* The next step without a receipt.  The window is held when the calls left
\* do not suffice for the steps left.
TakeStep(t) ==
  /\ turn[t].doing = "next"
  /\ LET m == turn[t].copy
         c == m.checkpoint
         left == Cardinality(Unfinished(c)) IN
     /\ PlanSteps(c) \ c.done # {}
     /\ IF RemainingWork(m, IF left = 0 THEN 1 ELSE left)
          THEN /\ turn' = [turn EXCEPT ![t].doing = "asking", ![t].step = NextStep(c)]
               /\ UNCHANGED <<journal, holder>>
          ELSE EndTurn(t)
  /\ UNCHANGED <<paid, cut>>

\* Every step has its receipt: coverage and output are saved.
Extract(t) ==
  /\ turn[t].doing = "next"
  /\ LET c == turn[t].copy.checkpoint IN
     /\ PlanSteps(c) \subseteq c.done
     /\ IF Accepted(t)
          THEN /\ Save(t, journal.attempts,
                         [c EXCEPT !.extracted = TRUE], NoTurnWork)
               /\ holder' = NoTurn
          ELSE EndTurn(t)
  /\ UNCHANGED <<paid, cut>>

\* The guard of a dispatch.  The answers cut off are counted on the copy; the
\* limit is checked on the row.
MayBeSent(t, changed) ==
  changed \/ turn[t].copy.checkpoint.truncated[turn[t].step] < MaxTruncated

WithinLimit(attempts) == attempts < AttemptLimit

Reserve(t, changed) ==
  /\ turn[t].doing = "asking"
  /\ MayBeSent(t, changed)
  /\ Accepted(t) /\ WithinLimit(journal.attempts)
  /\ Save(t, journal.attempts + 1, turn[t].copy.checkpoint,
          [turn[t] EXCEPT !.doing = "called", !.changed = changed])
  /\ paid' = paid + 1
  /\ UNCHANGED <<holder, cut>>

\* No call: no allowance is left, the turn is near its deadline, the write is
\* refused, or what was tried has failed.
GiveTurnUp(t) ==
  /\ turn[t].doing \in {"asking", "answered"}
  /\ EndTurn(t)
  /\ UNCHANGED <<paid, cut>>

\* The count of an answer cut off goes in the write that observes it.
Counted(t) == [turn[t].copy.checkpoint EXCEPT !.truncated[turn[t].step] = @ + 1]

\* An answer with its usage.
Observe(t) ==
  /\ turn[t].doing = "called"
  /\ \E length \in BOOLEAN :
       LET counts == length /\ ~turn[t].changed IN
       IF Accepted(t)
         THEN /\ Save(t, journal.attempts,
                      IF counts THEN Counted(t) ELSE turn[t].copy.checkpoint,
                      [turn[t] EXCEPT !.doing = IF length THEN "cutOff" ELSE "metered"])
              /\ cut' = IF counts THEN [cut EXCEPT ![turn[t].step] = @ + 1] ELSE cut
              /\ UNCHANGED holder
         ELSE EndTurn(t) /\ UNCHANGED cut
  /\ UNCHANGED paid

\* An answer without usage is not observed.
AnswerUnmetered(t) ==
  /\ turn[t].doing = "called"
  /\ Goes(t, "unmetered")
  /\ UNCHANGED <<journal, holder, paid, cut>>

\* An answer in time.  A cut one is of no use, another may be.
UseAnswer(t) ==
  /\ turn[t].doing \in Answers
  /\ \E useful \in BOOLEAN :
       /\ useful => turn[t].doing # "cutOff"
       /\ Goes(t, IF useful THEN "answered" ELSE "asking")
  /\ UNCHANGED <<journal, holder, paid, cut>>

\* A refund is a write of its own; another request may follow.
GiveBack(t) ==
  IF Accepted(t)
    THEN /\ Save(t, journal.attempts - 1, turn[t].copy.checkpoint,
                 [turn[t] EXCEPT !.doing = "asking"])
         /\ UNCHANGED holder
    ELSE EndTurn(t)

\* A failure is charged while the breaker of the route is closed, whatever was
\* paid; so is an answer that comes too late or cannot be read.
CallFails(t) ==
  /\ turn[t].doing \in {"called"} \cup Answers
  /\ Goes(t, "asking")
  /\ UNCHANGED <<journal, holder, paid, cut>>

\* While it is open the attempt is given back, that of an answer without usage
\* too, for nothing tells it from a call that was not served.
CallIsRefused(t) ==
  /\ turn[t].doing \in {"called", "unmetered"}
  /\ paid' = paid - 1
  /\ GiveBack(t)
  /\ UNCHANGED cut

\* Slip: so is that of an answer whose usage is known.
MeteredIsGivenBack(t) ==
  /\ turn[t].doing \in {"metered", "cutOff"}
  /\ GiveBack(t)
  /\ UNCHANGED <<paid, cut>>

\* The refund of an attempt whose usage is known is refused, and ends the turn.
RefundIsRefused(t) ==
  /\ turn[t].doing \in {"metered", "cutOff"}
  /\ EndTurn(t)
  /\ UNCHANGED <<paid, cut>>

\* The provider rejects a chunk as too large: once, the plan is frozen anew
\* with the chunk in halves, and the next turn goes on with it.
SplitChunk(t) ==
  /\ turn[t].doing = "called"
  /\ LET m == turn[t].copy
         halved == [m.checkpoint EXCEPT !.split = turn[t].step] IN
     /\ m.checkpoint.split = 0 /\ turn[t].step \in 1..Chunks
     /\ RemainingWork(m, Cardinality(Unfinished(halved)) + SplitReserve)
     /\ Accepted(t)
     /\ Save(t, journal.attempts, halved, NoTurnWork)
     /\ holder' = NoTurn
  /\ UNCHANGED <<paid, cut>>

\* The receipt of a step, in a write after the one that observed its answer.
CompleteStep(t) ==
  /\ turn[t].doing = "answered"
  /\ IF Accepted(t)
       THEN /\ Save(t, journal.attempts,
                      [turn[t].copy.checkpoint EXCEPT !.done = @ \cup {turn[t].step}],
                      [turn[t] EXCEPT !.doing = "next"])
            /\ UNCHANGED holder
       ELSE EndTurn(t)
  /\ UNCHANGED <<paid, cut>>

-----------------------------------------------------------------------------
\* The lease runs out or is taken, or the turn is cancelled and its handler
\* gives the lease back; the thread goes on and its writes are refused.
LapseTurn ==
  /\ holder # NoTurn
  /\ holder' = NoTurn
  /\ UNCHANGED <<journal, turn, paid, cut>>

\* The process dies; the lease stays until it runs out.
TurnDies(t) ==
  /\ turn[t].doing # "nothing"
  /\ turn' = [turn EXCEPT ![t] = NoTurnWork]
  /\ UNCHANGED <<journal, holder, paid, cut>>

JournalNext ==
  \/ LapseTurn
  \/ \E t \in Turns :
       \/ StartTurn(t) \/ TakeStep(t) \/ Extract(t)
       \/ \E changed \in BOOLEAN : Reserve(t, changed)
       \/ GiveTurnUp(t) \/ Observe(t) \/ AnswerUnmetered(t) \/ UseAnswer(t)
       \/ CallFails(t) \/ CallIsRefused(t) \/ RefundIsRefused(t)
       \/ SplitChunk(t) \/ CompleteStep(t) \/ TurnDies(t)

JournalSpec == JournalInit /\ [][JournalNext]_journalVars

-----------------------------------------------------------------------------
\* Every call whose usage was observed, that failed while its provider served
\* others, or whose end nobody settled is charged, whichever turn sent it and
\* however the turn ended: those calls stay within the limit of the window, and
\* a request whose answers were cut off is not sent for ever.  An answer
\* without usage that is lost in an outage is not among them.
CallsAreCounted ==
  /\ paid <= journal.attempts /\ journal.attempts <= AttemptLimit
  /\ \A s \in PaidSteps : cut[s] <= MaxTruncated

\* A step is paid for until its receipt is kept and then never again, a plan
\* once split stays split, and the window is extracted from a full set of
\* receipts.
Called(t) == turn[t].doing # "called" /\ turn'[t].doing = "called"
ReceiptsAreReused ==
  [][/\ journal.checkpoint.done \subseteq journal'.checkpoint.done
     /\ journal'.checkpoint.split \in {journal.checkpoint.split} \cup
          (IF journal.checkpoint.split = 0 THEN 1..Chunks ELSE {})
     /\ \A t \in Turns : Called(t) => turn'[t].step \notin journal.checkpoint.done
     /\ journal'.checkpoint.extracted =>
          PlanSteps(journal'.checkpoint) \subseteq journal'.checkpoint.done]_journalVars
=============================================================================
