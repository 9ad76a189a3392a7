--------------------------- MODULE ExtractionStream ---------------------------
(***************************************************************************)
(* The durable extraction stream of one user: the input log, the cursor of *)
(* each extractor, the windows cut from the log, the user's work row with  *)
(* its lease, the turns of the workers that execute windows, and the       *)
(* operator who releases parked windows.                                   *)
(*                                                                         *)
(* Every storage method is one transaction and one action here; what runs  *)
(* between two of them (the model call, a crash, an erasure, the expiry of *)
(* the lease) interleaves freely.  Absolute times are abstracted to how    *)
(* they compare with now: "due", "later" or "never" for a retry, "now",    *)
(* "later" or "never" for the work row, a live flag for the lease.         *)
(***************************************************************************)
EXTENDS WindowSelection

CONSTANTS
  Workers,      \* threads (of any process) that take extraction turns
  Operator,     \* an explicit caller of the user lease
  NoOne,        \* the absent lease holder
  WindowIds,    \* supply of window ids (uuid4 in the code)
  NoWindow,     \* the NULL window_id
  KindOrder,    \* <<a, b>> for kinds a before b in the ORDER BY tie break
  OverflowKinds,\* kinds whose windows run under an overflow coordinator
  MaxAttempts,  \* MAX_EXTRACTION_WINDOW_ATTEMPTS
  Admissions,   \* the shapes of publish requests that arrive
  MaxSeq,       \* bound: accepted inputs
  MaxRearms,    \* bound: operator re-arms
  Environment,  \* which disturbances happen in an instance
  Failures,     \* which failures of a turn happen in an instance
  Commands      \* which operator commands happen in an instance

ASSUME StreamAssumption ==
  /\ MaxAttempts \in Nat \ {0}
  /\ MaxSeq \in Nat
  /\ MaxRearms \in Nat
  /\ KindOrder \subseteq Kinds \X Kinds
  /\ OverflowKinds \subseteq Kinds
  /\ NoWindow \notin WindowIds
  /\ Operator \notin Workers
  /\ NoOne \notin Workers \cup {Operator}
  /\ \A a \in Admissions :
       /\ a.size \in Nat \ {0} /\ a.session \in Sessions /\ a.eligible \subseteq Kinds
       /\ a.force \in BOOLEAN /\ a.width \in 1..MaxWidth /\ a.stride \in 1..a.width
       /\ a.idle \in Deadlines /\ a.wait \in Deadlines

VARIABLES
  requests,  \* admission records in commit order
  live,      \* accepted inputs whose interaction row still exists
  cursor,    \* extraction_cursors, by kind
  lastTurn,  \* <<a, b>> when kind a was served longer ago than kind b
  windows,   \* extraction_windows, by id; a deleted row stays as "erased"
  due,       \* learning_work.due_at
  clock,     \* learning_work.pending_since
  lease,     \* learning_work.lease_token and lease_until
  turn,      \* what each worker's thread has in hand
  operator,  \* whether the operator believes it holds the lease
  rearms,    \* re-arms so far
  published, \* history: inputs each kind has written output for
  spent,     \* history: computations charged to a window and not refunded
  emitted,   \* history: derived handoffs made for a window
  billed     \* history: windows billed

log      == <<requests, live>>
workRow  == <<due, clock, lease>>
history  == <<published, spent, emitted, billed>>
vars == <<requests, live, cursor, lastTurn, windows, due, clock, lease, turn,
          operator, rearms, published, spent, emitted, billed>>

-----------------------------------------------------------------------------
Retries == {"due", "later", "never"}
Errors  == {"none", "admitted", "failed", "providerWait", "budget", "config",
            "exhausted", "exhaustedAdmitted"}

Cursor == [completed: Nat, started: BOOLEAN, window: WindowIds \cup {NoWindow},
           attempts: Nat, retry: Retries, error: Errors]

Window == [kind: Kinds, predecessor: Nat, end: Nat, manifest: SUBSET Nat,
           state: {"open", "completed", "erased"}, saved: BOOLEAN,
           invalidated: BOOLEAN, owed: BOOLEAN, effectsRetry: {"due", "later"},
           derived: BOOLEAN]

Executing  == {"prepared", "computing", "computed", "saved"}
Delivering == {"billing", "loading", "claiming", "emitting", "acking"}
Phases == {"idle", "claimed", "selecting", "invalidating", "committed", "ending"}
            \cup Executing \cup Delivering

Turn == [phase: Phases, window: WindowIds \cup {NoWindow}, attempts: Nat,
         saved: BOOLEAN, reserved: BOOLEAN]

IdleTurn == [phase |-> "idle", window |-> NoWindow, attempts |-> 0,
             saved |-> FALSE, reserved |-> FALSE]

WindowsOK ==
  /\ DOMAIN windows \in SUBSET WindowIds
  /\ windows \in [DOMAIN windows -> Window]

\* A cursor that names a window names a row that was once created.
CursorsOK ==
  /\ cursor \in [Kinds -> Cursor]
  /\ \A k \in Kinds : cursor[k].window # NoWindow => cursor[k].window \in DOMAIN windows

\* A turn that works on a window names a row that was once created.
TurnsOK ==
  /\ turn \in [Workers -> Turn]
  /\ \A w \in Workers :
       turn[w].phase \in Executing \cup Delivering \cup {"invalidating", "committed"}
         => turn[w].window \in DOMAIN windows

\* The shape of every row of extraction_stream's tables and of a turn.
TypeOK ==
  /\ requests \in Seq(Request)
  /\ live \in SUBSET Nat
  /\ CursorsOK
  /\ lastTurn \in SUBSET (Kinds \X Kinds)
  /\ WindowsOK
  /\ due \in {"now", "later", "never"}
  /\ clock \in {"off", "fresh", "aged", "parked"}
  /\ lease \in [holder: Workers \cup {Operator, NoOne}, live: BOOLEAN]
  /\ TurnsOK
  /\ operator \in {"idle", "holding"}
  /\ rearms \in Nat
  /\ published \in [Kinds -> SUBSET Nat]
  /\ spent \in [WindowIds -> Int]
  /\ emitted \in [WindowIds -> Nat]
  /\ billed \in SUBSET WindowIds

Init ==
  /\ requests = <<>>
  /\ live = {}
  /\ cursor = [k \in Kinds |-> [completed |-> 0, started |-> FALSE, window |-> NoWindow,
                                attempts |-> 0, retry |-> "due", error |-> "none"]]
  /\ lastTurn = KindOrder
  /\ windows = [i \in {} |-> {}]
  /\ due = "never"
  /\ clock = "off"
  /\ lease = [holder |-> NoOne, live |-> FALSE]
  /\ turn = [w \in Workers |-> IdleTurn]
  /\ operator = "idle"
  /\ rearms = 0
  /\ published = [k \in Kinds |-> {}]
  /\ spent = [i \in WindowIds |-> 0]
  /\ emitted = [i \in WindowIds |-> 0]
  /\ billed = {}

-----------------------------------------------------------------------------
(* Shared clauses.                                                         *)

NoLease == [holder |-> NoOne, live |-> FALSE]

\* Slip: the fence asks whether anybody holds the lease.
HoldsAnyLease(h) == lease.live

\* The fence: the caller's token is on the row and has not expired.
Holds(h) == lease.live /\ lease.holder = h

\* A transaction that ends the turn clears the token and makes the user due.
FreeRow == due' = "now" /\ lease' = NoLease

Goto(w, p) == turn' = [turn EXCEPT ![w].phase = p]
Ended(w)   == turn' = [turn EXCEPT ![w] = IdleTurn]

Row(w)  == windows[turn[w].window]
Kind(w) == Row(w).kind

\* Every interaction of the stored manifest still exists.
InputsSurvive(row) == row.manifest # {} /\ row.manifest \subseteq live

\* A cursor that has passed its window starts afresh behind it.
PassedBy(end) ==
  [completed |-> end, started |-> TRUE, window |-> NoWindow,
   attempts |-> 0, retry |-> "due", error |-> "none"]

Served(k) == {p \in lastTurn : p[1] # k} \cup {<<j, k>> : j \in Kinds \ {k}}

Failing == {k \in Kinds : cursor[k].attempts > 0}
Waiting == Failing \cup {k \in Kinds : cursor[k].error = "providerWait"}

\* Slip: any progress restarts the clock, whatever the sibling waits for.
RestartClockAlways(k, held) == clock' = IF clock # "off" THEN "fresh" ELSE clock

\* pending_since restarts at now, unless it is off or a sibling is in held.
RestartClock(k, held) ==
  clock' = IF clock # "off" /\ held \subseteq {k} THEN "fresh" ELSE clock

\* Slip: the next number follows the surviving rows, not the accepted ones.
HighwaterOfSurvivors ==
  IF live = {} THEN 0 ELSE CHOOSE s \in live : IsGreatest(s, live)

Highwater == IF requests = <<>> THEN 0 ELSE requests[Len(requests)].last

CanSelect(k) ==
  Selectable(requests, live, k, cursor[k].completed, cursor[k].started)
Runnable(k) ==
  cursor[k].retry = "due" /\ (cursor[k].window # NoWindow \/ CanSelect(k))
Owed == {i \in DOMAIN windows : windows[i].state = "completed" /\ windows[i].owed}

-----------------------------------------------------------------------------
(* Publication, erasure and session completion.                            *)

AdmitExtraction(a) ==
  LET first == Highwater + 1
      last  == Highwater + a.size
  IN  /\ last <= MaxSeq
      /\ requests' = Append(requests,
           [first |-> first, last |-> last, session |-> a.session,
            eligible |-> a.eligible, force |-> a.force, finished |-> FALSE,
            width |-> a.width, stride |-> a.stride, idle |-> a.idle, wait |-> a.wait])
      /\ live' = live \cup first..last
      /\ due' = "now"
      /\ clock' = IF clock \in {"off", "parked"} THEN "fresh" ELSE clock
      /\ UNCHANGED <<cursor, lastTurn, windows, lease, turn, operator, rearms, history>>

FinalizeSession(s) ==
  /\ "finish" \in Environment
  /\ \E i \in LatestOfSession(requests, s) :
       requests' = [requests EXCEPT ![i].finished = TRUE]
  /\ due' = "now"
  /\ clock' = IF clock = "parked" THEN "fresh" ELSE clock
  /\ UNCHANGED <<live, cursor, lastTurn, windows, lease, turn, operator, rearms, history>>

\* Deleting an interaction fires the trigger invalidate_extraction_input.
EraseInput(s) ==
  /\ "erase" \in Environment
  /\ s \in live
  /\ live' = live \ {s}
  /\ windows' = [i \in DOMAIN windows |->
       IF /\ s \in windows[i].manifest
          /\ windows[i].state = "open" \/ (windows[i].state = "completed" /\ windows[i].owed)
       THEN [windows[i] EXCEPT !.invalidated = TRUE, !.saved = FALSE]
       ELSE windows[i]]
  /\ UNCHANGED <<requests, cursor, lastTurn, due, clock, lease, turn, operator, rearms, history>>

-----------------------------------------------------------------------------
(* The beginning of a turn.                                                *)

ClaimExtraction(w) ==
  /\ turn[w].phase = "idle"
  /\ due = "now"
  /\ ~lease.live
  /\ lease' = [holder |-> w, live |-> TRUE]
  /\ Goto(w, "claimed")
  /\ UNCHANGED <<log, cursor, lastTurn, windows, due, clock, operator, rearms, history>>

\* One owed window is delivered before any window is cut.
PendingExtractionEffects(w) ==
  /\ turn[w].phase = "claimed"
  /\ Holds(w)
  /\ LET ready == {i \in Owed : windows[i].effectsRetry = "due"}
     IN  \/ \E i \in ready : turn' = [turn EXCEPT ![w] = [@ EXCEPT !.phase = "billing", !.window = i]]
         \/ ready = {} /\ Goto(w, "selecting")
  /\ UNCHANGED <<log, cursor, lastTurn, windows, workRow, operator, rearms, history>>

\* Slip: the worker keeps the window it had in hand.
TakeUnnamed(w, i, k, saved) ==
  turn' = [turn EXCEPT ![w].phase = "prepared", ![w].attempts = cursor[k].attempts,
                       ![w].saved = saved]

Take(w, i, k, saved) ==
  turn' = [turn EXCEPT ![w] = [phase |-> "prepared", window |-> i,
             attempts |-> cursor[k].attempts, saved |-> saved, reserved |-> FALSE]]

\* The cursor's window is handed out again, or the next one is cut.
ResumeWindow(w, k) ==
  /\ cursor[k].window # NoWindow
  /\ Take(w, cursor[k].window, k, windows[cursor[k].window].saved)
  /\ UNCHANGED <<cursor, windows>>

CutWindow(w, k) ==
  /\ cursor[k].window = NoWindow
  /\ WindowIds \ DOMAIN windows # {}
  /\ LET id  == CHOOSE i \in WindowIds \ DOMAIN windows : TRUE
         pos == cursor[k].completed
         new == NewInputs(requests, live, k, pos, cursor[k].started)
     IN  \E end \in new :
           /\ IsGreatest(end, new)
           /\ windows' = [i \in DOMAIN windows \cup {id} |->
                IF i # id THEN windows[i]
                ELSE [kind |-> k, predecessor |-> pos, end |-> end,
                      manifest |-> Manifest(requests, live, k, pos, cursor[k].started),
                      state |-> "open", saved |-> FALSE, invalidated |-> FALSE,
                      owed |-> FALSE, effectsRetry |-> "due", derived |-> FALSE]]
           /\ cursor' = [cursor EXCEPT ![k].window = id]
           /\ Take(w, id, k, FALSE)

PrepareWindow(w) ==
  /\ turn[w].phase = "selecting"
  /\ Holds(w)
  /\ \E k \in Kinds :
       /\ Runnable(k)
       /\ \A j \in Kinds \ {k} : Runnable(j) => <<k, j>> \in lastTurn
       /\ ResumeWindow(w, k) \/ CutWindow(w, k)
  /\ UNCHANGED <<log, lastTurn, workRow, operator, rearms, history>>

\* The earliest of the owed effects, the backed off retries and the deadlines.
Retrying == \E k \in Kinds : cursor[k].retry = "later"
Timed    == \E k \in Kinds : cursor[k].retry = "due"
              /\ Awaits(requests, live, k, cursor[k].completed, cursor[k].started)

\* Slip: the minimum leaves out the owed effects.
NextDueIgnoringEffects == IF Retrying \/ Timed THEN "later" ELSE "never"

\* Slip: the minimum leaves out the deadlines of unselected kinds.
NextDueIgnoringDeadlines ==
  IF \E i \in Owed : windows[i].effectsRetry = "due" THEN "now"
  ELSE IF Owed # {} \/ Retrying THEN "later" ELSE "never"

NextDue ==
  IF \E i \in Owed : windows[i].effectsRetry = "due" THEN "now"
  ELSE IF Owed # {} \/ Retrying \/ Timed THEN "later"
  ELSE "never"

\* Nothing is runnable: the row is parked until the earliest due time.
PrepareNothing(w) ==
  LET failing == Owed # {} \/ \E k \in Kinds : cursor[k].retry # "due"
  IN  /\ turn[w].phase = "selecting"
      /\ Holds(w)
      /\ \A k \in Kinds : ~Runnable(k)
      /\ due' = NextDue
      /\ clock' = IF NextDue = "never" THEN "off" ELSE IF failing THEN clock ELSE "parked"
      /\ lease' = NoLease
      /\ Ended(w)
      /\ UNCHANGED <<log, cursor, lastTurn, windows, operator, rearms, history>>

-----------------------------------------------------------------------------
(* Executing a window.                                                     *)

\* Slip: the last admission does not arm the hold.
DebitUnarmed(c, n) == [c EXCEPT !.attempts = n, !.error = "admitted"]

\* Slip: the hold is armed without its exhausted marker.
DebitUnlabelled(c, n) ==
  [c EXCEPT !.attempts = n, !.retry = IF n >= MaxAttempts THEN "never" ELSE c.retry,
            !.error = "admitted"]

\* The last admission pre-arms the hold.
Debit(c, n) ==
  [c EXCEPT !.attempts = n,
            !.retry = IF n >= MaxAttempts THEN "never" ELSE c.retry,
            !.error = IF n >= MaxAttempts THEN "exhaustedAdmitted" ELSE "admitted"]

\* The debit precedes the dispatch.
BeginExtractionAttempt(w) ==
  LET k == Kind(w)
  IN  /\ turn[w].phase = "prepared"
      /\ ~turn[w].saved
      /\ k \notin OverflowKinds
      /\ InputsSurvive(Row(w))
      /\ Holds(w)
      /\ cursor[k].window = turn[w].window
      /\ Row(w).state = "open" /\ ~Row(w).saved /\ ~Row(w).invalidated
      /\ cursor[k].attempts = turn[w].attempts
      /\ cursor[k].retry = "due"
      /\ cursor' = [cursor EXCEPT ![k] = Debit(@, turn[w].attempts + 1)]
      /\ turn' = [turn EXCEPT ![w] = [@ EXCEPT !.phase = "computing", !.reserved = TRUE]]
      /\ spent' = [spent EXCEPT ![turn[w].window] = @ + 1]
      /\ UNCHANGED <<log, lastTurn, windows, workRow, operator, rearms, published, emitted, billed>>

\* A coordinated window keeps its own provider journal and debits no cursor.
BeginOverflowWindow(w) ==
  /\ turn[w].phase = "prepared"
  /\ ~turn[w].saved
  /\ Kind(w) \in OverflowKinds
  /\ InputsSurvive(Row(w))
  /\ Goto(w, "computing")
  /\ UNCHANGED <<log, cursor, lastTurn, windows, workRow, operator, rearms, history>>

ComputeReturns(w) ==
  /\ turn[w].phase = "computing"
  /\ Goto(w, "computed")
  /\ UNCHANGED <<log, cursor, lastTurn, windows, workRow, operator, rearms, history>>

\* Slip: the computation is retained although an input was erased meanwhile.
SaveUnexamined(w) ==
  LET k == Kind(w)
      mine == /\ cursor[k].window = turn[w].window
              /\ cursor[k].attempts = turn[w].attempts + 1
              /\ cursor[k].error \in {"admitted", "exhaustedAdmitted"}
  IN  /\ turn[w].phase = "computed"
      /\ Holds(w)
      /\ ~Row(w).saved
      /\ windows' = [windows EXCEPT ![turn[w].window].saved = TRUE]
      /\ cursor' = IF mine
                   THEN [cursor EXCEPT ![k] = [@ EXCEPT !.retry = "due", !.error = "admitted"]]
                   ELSE cursor
      /\ Goto(w, "saved")
      /\ UNCHANGED <<log, lastTurn, workRow, operator, rearms, history>>

\* Retaining the outcome releases only the hold this turn's debit pre-armed.
SaveExtractionOutcome(w) ==
  LET k == Kind(w)
      mine == /\ cursor[k].window = turn[w].window
              /\ cursor[k].attempts = turn[w].attempts + 1
              /\ cursor[k].error \in {"admitted", "exhaustedAdmitted"}
  IN  /\ turn[w].phase = "computed"
      /\ Holds(w)
      /\ ~Row(w).saved /\ ~Row(w).invalidated
      /\ windows' = [windows EXCEPT ![turn[w].window].saved = TRUE]
      /\ cursor' = IF mine
                   THEN [cursor EXCEPT ![k] = [@ EXCEPT !.retry = "due", !.error = "admitted"]]
                   ELSE cursor
      /\ Goto(w, "saved")
      /\ UNCHANGED <<log, lastTurn, workRow, operator, rearms, history>>

\* An earlier turn's outcome needs publication only.
AdoptSavedOutcome(w) ==
  /\ turn[w].phase = "prepared"
  /\ turn[w].saved
  /\ InputsSurvive(Row(w))
  /\ Goto(w, "saved")
  /\ UNCHANGED <<log, cursor, lastTurn, windows, workRow, operator, rearms, history>>

\* Outputs, cursor and window commit in one transaction.
PublishWindow(w) ==
  LET k == Kind(w)
      row == Row(w)
  IN  /\ turn[w].phase = "saved"
      /\ Holds(w)
      /\ InputsSurvive(row)
      /\ cursor[k].completed = row.predecessor
      /\ cursor[k].window = turn[w].window
      /\ cursor' = [cursor EXCEPT ![k] = PassedBy(row.end)]
      /\ lastTurn' = Served(k)
      /\ windows' = [windows EXCEPT ![turn[w].window] =
           [@ EXCEPT !.state = "completed", !.owed = TRUE]]
      /\ published' = [published EXCEPT ![k] =
           @ \cup {s \in row.manifest : s > row.predecessor}]
      /\ FreeRow
      /\ RestartClock(k, Waiting)
      /\ Goto(w, "committed")
      /\ UNCHANGED <<log, operator, rearms, spent, emitted, billed>>

FinishCommitted(w) ==
  /\ turn[w].phase = "committed"
  /\ Ended(w)
  /\ UNCHANGED <<log, cursor, lastTurn, windows, workRow, operator, rearms, history>>

\* Loading the manifest, retaining or publishing finds an input gone.
DiscoverErasure(w) ==
  /\ \/ turn[w].phase = "prepared" /\ ~InputsSurvive(Row(w))
     \/ turn[w].phase = "computed" /\ Holds(w) /\ Row(w).invalidated
     \/ turn[w].phase = "saved" /\ Holds(w) /\ ~InputsSurvive(Row(w))
  /\ Goto(w, "invalidating")
  /\ UNCHANGED <<log, cursor, lastTurn, windows, workRow, operator, rearms, history>>

\* The cursor lets go of the window; its attempts, hold and error stay.
InvalidateExtraction(w) ==
  LET k == Kind(w)
  IN  /\ turn[w].phase = "invalidating"
      /\ Holds(w)
      /\ cursor' = [cursor EXCEPT ![k].window = IF @ = turn[w].window THEN NoWindow ELSE @]
      /\ windows' = [windows EXCEPT ![turn[w].window].state =
           IF @ = "open" THEN "erased" ELSE @]
      /\ FreeRow
      /\ Ended(w)
      /\ UNCHANGED <<log, lastTurn, clock, operator, rearms, history>>

-----------------------------------------------------------------------------
(* Failures of an executing turn, by the class _handle_window_failure sees.*)

\* Slip: a failure after the debit restores the count the turn started with.
FailedAttemptsForgotten(w) == turn[w].attempts

FailedAttempts(w) ==
  LET c == cursor[Kind(w)]
  IN  IF c.attempts > turn[w].attempts /\ c.error \in {"admitted", "exhaustedAdmitted"}
      THEN c.attempts ELSE c.attempts + 1

\* attempts, retry_at and last_error of the failed cursor; the sibling goes first.
Charge(w, n, retry, error) ==
  /\ cursor' = [cursor EXCEPT ![Kind(w)] =
       [@ EXCEPT !.attempts = n, !.retry = retry, !.error = error]]
  /\ lastTurn' = Served(Kind(w))
  /\ FreeRow
  /\ Ended(w)
  /\ UNCHANGED <<log, clock, operator, rearms, published, emitted, billed>>

RetryExtraction(w) ==
  LET n == FailedAttempts(w)
  IN  /\ "ordinary" \in Failures
      /\ turn[w].phase \in Executing
      /\ Holds(w)
      /\ IF n >= MaxAttempts THEN Charge(w, n, "never", "exhausted")
                             ELSE Charge(w, n, "later", "failed")
      /\ UNCHANGED <<windows, spent>>

\* A provider outage gives the debit back and never parks.
WaitForProvider(w) ==
  /\ "provider" \in Failures
  /\ turn[w].phase \in Executing
  /\ Holds(w)
  /\ Charge(w, turn[w].attempts, "later", "providerWait")
  /\ spent' = IF turn[w].reserved THEN [spent EXCEPT ![turn[w].window] = @ - 1] ELSE spent
  /\ UNCHANGED windows

ActiveWindow(w) ==
  /\ cursor[Kind(w)].window = turn[w].window
  /\ Row(w).state = "open" /\ ~Row(w).invalidated

\* Too large an input or a hopeless configuration is held at once; another
\* configuration error backs off until the ceiling.
FailInputBudget(w) ==
  LET n == FailedAttempts(w)
  IN  /\ turn[w].phase \in Executing
      /\ Holds(w)
      /\ ActiveWindow(w)
      /\ \/ "budget" \in Failures /\ Charge(w, n, "never", "budget")
         \/ "park" \in Failures /\ Charge(w, n, "never", "config")
         \/ "config" \in Failures /\ n < MaxAttempts /\ Charge(w, n, "later", "config")
         \/ "config" \in Failures /\ n >= MaxAttempts /\ Charge(w, n, "never", "exhausted")
      /\ UNCHANGED <<windows, spent>>

\* Changed evidence drops the outcome, then counts as a configuration error.
DiscardComputation(w) ==
  LET n == FailedAttempts(w)
  IN  /\ "discard" \in Failures
      /\ turn[w].phase \in Executing
      /\ Kind(w) \in OverflowKinds
      /\ Holds(w)
      /\ ActiveWindow(w)
      /\ windows' = [windows EXCEPT ![turn[w].window].saved = FALSE]
      /\ IF n >= MaxAttempts THEN Charge(w, n, "never", "exhausted")
                             ELSE Charge(w, n, "later", "config")
      /\ UNCHANGED spent

SuspendExtraction(w) ==
  LET k == Kind(w)
  IN  /\ "suspend" \in Failures
      /\ turn[w].phase \in Executing
      /\ k \in OverflowKinds
      /\ Holds(w)
      /\ cursor[k].window = turn[w].window
      /\ Charge(w, cursor[k].attempts, "later", cursor[k].error)
      /\ UNCHANGED <<windows, spent>>

\* A locked input is a free yield only while no computation would be lost.
YieldTurn(w) ==
  /\ "busy" \in Failures
  /\ turn[w].phase \in {"prepared", "saved"}
  /\ Holds(w)
  /\ FreeRow
  /\ Ended(w)
  /\ UNCHANGED <<log, cursor, lastTurn, windows, clock, operator, rearms, history>>

\* Token compare-and-set without the expiry check; the release follows.
DeferSetup(w) ==
  /\ "readiness" \in Failures
  /\ turn[w].phase \in {"selecting", "prepared", "computing", "saved"}
  /\ due' = IF lease.holder = w THEN "later" ELSE due
  /\ Goto(w, "ending")
  /\ UNCHANGED <<log, cursor, lastTurn, windows, clock, lease, operator, rearms, history>>

\* retry_extraction_effects: not fenced, by window id.
PostponeEffects(i) ==
  /\ windows' = [windows EXCEPT ![i].effectsRetry = "later"]
  /\ due' = IF due = "never" THEN "later" ELSE due

\* A turn that failed after its lease (or its window's commit) was gone.
FailStale(w) ==
  /\ \/ turn[w].phase \in Executing /\ ~Holds(w) /\ Failures \cap {"ordinary", "provider"} # {}
     \/ turn[w].phase = "committed" /\ "postcommit" \in Failures
  /\ PostponeEffects(turn[w].window)
  /\ Goto(w, "ending")
  /\ UNCHANGED <<log, cursor, lastTurn, clock, lease, operator, rearms, history>>

\* LeaseLostError: the turn writes nothing more.
LoseLease(w) ==
  /\ \/ turn[w].phase \in {"claimed", "selecting", "computed", "saved", "invalidating"} /\ ~Holds(w)
     \/ /\ turn[w].phase \in Executing
        /\ ~Holds(w) \/ ~ActiveWindow(w)
        /\ Failures \cap {"budget", "config", "park", "discard", "suspend", "busy"} # {}
  /\ Goto(w, "ending")
  /\ UNCHANGED <<log, cursor, lastTurn, windows, workRow, operator, rearms, history>>

-----------------------------------------------------------------------------
(* Delivering the effects of a completed window.                           *)

Bill(w) ==
  /\ turn[w].phase = "billing"
  /\ billed' = billed \cup {turn[w].window}
  /\ Goto(w, "loading")
  /\ UNCHANGED <<log, cursor, lastTurn, windows, workRow, operator, rearms, published, spent, emitted>>

\* Erased inputs cancel the derived work, not the receipt.
LoadEffectInputs(w) ==
  /\ turn[w].phase = "loading"
  /\ Goto(w, IF InputsSurvive(Row(w)) THEN "claiming" ELSE "acking")
  /\ UNCHANGED <<log, cursor, lastTurn, windows, workRow, operator, rearms, history>>

\* Slip: the claim is read here and written by nobody before the handoff.
ClaimExtractionDerivedUnwritten(w) ==
  /\ turn[w].phase = "claiming"
  /\ Holds(w)
  /\ Goto(w, IF Row(w).derived THEN "acking" ELSE "emitting")
  /\ UNCHANGED <<log, cursor, lastTurn, windows, workRow, operator, rearms, history>>

ClaimExtractionDerived(w) ==
  /\ turn[w].phase = "claiming"
  /\ Holds(w)
  /\ windows' = [windows EXCEPT ![turn[w].window].derived = TRUE]
  /\ Goto(w, IF Row(w).derived THEN "acking" ELSE "emitting")
  /\ UNCHANGED <<log, cursor, lastTurn, workRow, operator, rearms, history>>

EmitDerived(w) ==
  /\ turn[w].phase = "emitting"
  /\ emitted' = [emitted EXCEPT ![turn[w].window] = @ + 1]
  /\ Goto(w, "acking")
  /\ UNCHANGED <<log, cursor, lastTurn, windows, workRow, operator, rearms, published, spent, billed>>

AckExtractionEffects(w) ==
  /\ turn[w].phase = "acking"
  /\ Holds(w)
  /\ windows' = [windows EXCEPT ![turn[w].window] =
       [@ EXCEPT !.owed = FALSE, !.saved = FALSE, !.manifest = {}]]
  /\ Goto(w, "ending")
  /\ UNCHANGED <<log, cursor, lastTurn, workRow, operator, rearms, history>>

\* Any failed step, a lost lease included, postpones the effects.
RetryEffects(w) ==
  /\ \/ turn[w].phase \in Delivering \ {"emitting"} /\ "effects" \in Failures
     \/ turn[w].phase \in {"claiming", "acking"} /\ ~Holds(w)
  /\ PostponeEffects(turn[w].window)
  /\ Goto(w, "ending")
  /\ UNCHANGED <<log, cursor, lastTurn, clock, lease, operator, rearms, history>>

\* The finally clause of a turn: release the lease if the token is still ours.
ReleaseTurn(w) ==
  /\ turn[w].phase = "ending"
  /\ lease' = IF lease.holder = w THEN NoLease ELSE lease
  /\ Ended(w)
  /\ UNCHANGED <<log, cursor, lastTurn, windows, due, clock, operator, rearms, history>>

Crash(w) ==
  /\ "crash" \in Environment
  /\ turn[w].phase # "idle"
  /\ Ended(w)
  /\ UNCHANGED <<log, cursor, lastTurn, windows, workRow, operator, rearms, history>>

-----------------------------------------------------------------------------
(* The operator, and any other explicit caller of the user lease.          *)

\* A recovery names a window of the user, so the work row exists.
ClaimUserExtraction ==
  /\ Commands # {}
  /\ requests # <<>>
  /\ operator = "idle"
  /\ ~lease.live
  /\ lease' = [holder |-> Operator, live |-> TRUE]
  /\ operator' = "holding"
  /\ UNCHANGED <<log, cursor, lastTurn, windows, due, clock, turn, rearms, history>>

\* Slip: the command trusts the lease its inspection was made under.
HeldWhenInspected(k, holds) ==
  /\ operator = "holding"
  /\ cursor[k].retry = "never"
  /\ cursor[k].error \in holds
  /\ cursor[k].window # NoWindow
  /\ windows[cursor[k].window].state = "open"
  /\ ~windows[cursor[k].window].invalidated

\* What a receipt must show, and what the command compares and sets.
Held(k, holds) ==
  /\ operator = "holding"
  /\ Holds(Operator)
  /\ cursor[k].retry = "never"
  /\ cursor[k].error \in holds
  /\ cursor[k].window # NoWindow
  /\ windows[cursor[k].window].state = "open"
  /\ ~windows[cursor[k].window].invalidated

\* rearm_exhausted_extraction and recover_extraction_input_budget.
RearmHeld(k) ==
  /\ "rearm" \in Commands
  /\ rearms < MaxRearms
  /\ \/ Held(k, {"exhausted", "exhaustedAdmitted"})
     \/ Held(k, {"budget", "config"})
  /\ cursor' = [cursor EXCEPT ![k].retry = "due"]
  /\ due' = "now"
  /\ rearms' = rearms + 1
  /\ UNCHANGED <<log, lastTurn, windows, clock, lease, turn, operator, history>>

RetireWindow(k) ==
  LET i == cursor[k].window
  IN  /\ "retire" \in Commands
      /\ Held(k, Errors \ {"none"})
      /\ cursor[k].completed = windows[i].predecessor
      /\ cursor' = [cursor EXCEPT ![k] = PassedBy(windows[i].end)]
      /\ lastTurn' = Served(k)
      /\ windows' = [windows EXCEPT ![i] =
           [@ EXCEPT !.state = "completed", !.derived = TRUE, !.saved = FALSE, !.manifest = {}]]
      /\ due' = "now"
      /\ RestartClock(k, Failing)
      /\ UNCHANGED <<log, lease, turn, operator, rearms, history>>

ReleaseUserExtraction ==
  /\ operator = "holding"
  /\ operator' = "idle"
  /\ lease' = IF lease.holder = Operator THEN NoLease ELSE lease
  /\ UNCHANGED <<log, cursor, lastTurn, windows, due, clock, turn, rearms, history>>

\* The caller's process dies without releasing.
OperatorCrash ==
  /\ "crash" \in Environment
  /\ operator = "holding"
  /\ operator' = "idle"
  /\ UNCHANGED <<log, cursor, lastTurn, windows, workRow, turn, rearms, history>>

-----------------------------------------------------------------------------
(* Time.                                                                   *)

Abandoned ==
  \/ lease.holder \in Workers /\ turn[lease.holder].phase = "idle"
  \/ lease.holder = Operator /\ operator = "idle"

\* A dead holder's lease expires; a running one's only if its renewals fail.
LeaseLapses ==
  /\ lease.live
  /\ Abandoned \/ "lapse" \in Environment
  /\ lease' = [lease EXCEPT !.live = FALSE]
  /\ UNCHANGED <<log, cursor, lastTurn, windows, due, clock, turn, operator, rearms, history>>

RetryDue(k) ==
  /\ cursor[k].retry = "later"
  /\ cursor' = [cursor EXCEPT ![k].retry = "due"]
  /\ UNCHANGED <<log, lastTurn, windows, workRow, turn, operator, rearms, history>>

EffectsDue(i) ==
  /\ windows[i].effectsRetry = "later"
  /\ windows' = [windows EXCEPT ![i].effectsRetry = "due"]
  /\ UNCHANGED <<log, cursor, lastTurn, workRow, turn, operator, rearms, history>>

WorkDue ==
  /\ due = "later"
  /\ due' = "now"
  /\ UNCHANGED <<log, cursor, lastTurn, windows, clock, lease, turn, operator, rearms, history>>

DeadlinePasses(i) ==
  /\ \/ requests[i].idle = "later" /\ requests' = [requests EXCEPT ![i].idle = "due"]
     \/ requests[i].wait = "later" /\ requests' = [requests EXCEPT ![i].wait = "due"]
  /\ UNCHANGED <<live, cursor, lastTurn, windows, workRow, turn, operator, rearms, history>>

BacklogAges ==
  /\ "age" \in Environment
  /\ \/ clock = "fresh" /\ clock' = "aged"
     \/ clock = "parked" /\ clock' = "fresh"
  /\ UNCHANGED <<log, cursor, lastTurn, windows, due, lease, turn, operator, rearms, history>>

-----------------------------------------------------------------------------
Execute(w) ==
  \/ ClaimExtraction(w) \/ PendingExtractionEffects(w)
  \/ PrepareWindow(w) \/ PrepareNothing(w)
  \/ BeginExtractionAttempt(w) \/ BeginOverflowWindow(w) \/ ComputeReturns(w)
  \/ SaveExtractionOutcome(w) \/ AdoptSavedOutcome(w)
  \/ PublishWindow(w) \/ FinishCommitted(w)
  \/ DiscoverErasure(w) \/ InvalidateExtraction(w)
  \/ ReleaseTurn(w)

Deliver(w) ==
  \/ Bill(w) \/ LoadEffectInputs(w) \/ ClaimExtractionDerived(w)
  \/ EmitDerived(w) \/ AckExtractionEffects(w) \/ RetryEffects(w)

Fail(w) ==
  \/ RetryExtraction(w) \/ WaitForProvider(w) \/ FailInputBudget(w)
  \/ DiscardComputation(w) \/ SuspendExtraction(w) \/ YieldTurn(w)
  \/ DeferSetup(w) \/ FailStale(w) \/ LoseLease(w) \/ Crash(w)

Operate ==
  \/ ClaimUserExtraction \/ ReleaseUserExtraction \/ OperatorCrash
  \/ \E k \in Kinds : RearmHeld(k) \/ RetireWindow(k)

Arrive ==
  \/ \E a \in Admissions : AdmitExtraction(a)
  \/ \E s \in Sessions : FinalizeSession(s)
  \/ \E s \in live : EraseInput(s)

Pass ==
  \/ LeaseLapses \/ WorkDue \/ BacklogAges
  \/ \E k \in Kinds : RetryDue(k)
  \/ \E i \in DOMAIN windows : EffectsDue(i)
  \/ \E i \in DOMAIN requests : DeadlinePasses(i)

Next ==
  \/ \E w \in Workers : Execute(w) \/ Deliver(w) \/ Fail(w)
  \/ Operate \/ Arrive \/ Pass

Spec == Init /\ [][Next]_vars

-----------------------------------------------------------------------------
(* Invariants.                                                             *)

NewOf(i) == {s \in windows[i].manifest : s > windows[i].predecessor}

\* The window a cursor names is its own kind's, is still open and begins where
\* the cursor stands, whoever completes, erases or retires windows meanwhile.
CursorNamesOpenWindow ==
  \A k \in Kinds :
    LET row == windows[cursor[k].window]
    IN  cursor[k].window # NoWindow =>
          row.kind = k /\ row.state = "open" /\ row.predecessor = cursor[k].completed

\* A turn whose token still passes the fence executes the very window its
\* kind's cursor names, and the window is still open: no operator, erasure,
\* crash or expiry moved the cursor under a live lease.
HolderOwnsWindow ==
  \A w \in Workers :
    Holds(w) /\ turn[w].phase \in Executing =>
      /\ cursor[Kind(w)].window = turn[w].window
      /\ Row(w).state = "open"
      /\ Row(w).predecessor = cursor[Kind(w)].completed

\* Without an operator's retirement, everything eligible that survives behind
\* the cursor was published.
PassedMeansPublished ==
  \A k \in Kinds :
    {s \in Inputs(requests, live, k) : s <= cursor[k].completed} \subseteq published[k]

\* What was charged to the cursor's window and not refunded is still on the
\* cursor: crashes, stale turns and provider waits never hand out another
\* free computation.
DebitsAreKept ==
  \A k \in Kinds :
    cursor[k].window # NoWindow => spent[cursor[k].window] <= cursor[k].attempts

\* The debit of the computation this turn has dispatched.
Debited(w) == IF turn[w].reserved THEN 1 ELSE 0

\* A turn writes the attempts it read before the model call, plus or minus its
\* own debit.  While its token passes the fence that arithmetic is right: no
\* operator, stale turn or crash has charged, refunded, held or released the
\* cursor since, and a hold it finds there is the one its own debit armed.
TurnsKnowTheirCharge ==
  \A w \in Workers :
    Holds(w) /\ turn[w].phase \in Executing =>
      /\ cursor[Kind(w)].attempts = turn[w].attempts + Debited(w)
      /\ ~turn[w].reserved => cursor[Kind(w)].retry # "never"
      /\ turn[w].reserved => Kind(w) \notin OverflowKinds

\* No window is computed more often than the ceiling and the operator's
\* re-arms allow, whatever crashes in between.
CeilingHolds == \A i \in WindowIds : spent[i] <= MaxAttempts + rearms

\* A held cursor names an open window that an operator's receipt accepts.
HeldIsRecoverable ==
  \A k \in Kinds :
    cursor[k].retry = "never" =>
      /\ cursor[k].window # NoWindow
      /\ windows[cursor[k].window].state = "open"
      /\ ~windows[cursor[k].window].invalidated
      /\ cursor[k].error \in {"exhausted", "exhaustedAdmitted", "budget", "config"}

\* No outcome computed from erased inputs stays retained, for publication or for
\* effects: neither an erasure between the model call and the save, nor one
\* after the save, nor one after the window was published leaves one behind.
RetainedOutcomesSurvive ==
  \A i \in DOMAIN windows : windows[i].saved => windows[i].manifest \subseteq live

\* An erasure that made the cursor drop its window leaves the cursor free to
\* select the surviving inputs anew.
FreeCursorIsNotHeld ==
  \A k \in Kinds : cursor[k].window = NoWindow => cursor[k].retry # "never"

\* A row parked for ever has nothing to wake up for: no runnable cursor, no
\* retry or deadline to come, no effects to deliver.
NoLostWakeup ==
  due = "never" =>
    /\ Owed = {}
    /\ \A k \in Kinds :
         /\ cursor[k].retry # "later"
         /\ ~Runnable(k)
         /\ cursor[k].retry = "due" =>
              ~Awaits(requests, live, k, cursor[k].completed, cursor[k].started)

\* Derived work is handed off at most once per window, and never before the
\* window was billed, however often delivery is retried or taken over.
DerivedHandoffAtMostOnce ==
  \A i \in WindowIds : emitted[i] <= 1 /\ (emitted[i] = 1 => i \in billed)

-----------------------------------------------------------------------------
(* Action properties.                                                      *)

\* While a cursor keeps waiting on its failures the backlog clock, once aged,
\* is not turned back by anything its sibling or a policy hold does.
Ailing(k) == cursor[k].window # NoWindow /\ k \in Waiting /\ cursor[k].retry # "never"
FailureKeepsAging ==
  [][clock = "aged" /\ (\E k \in Kinds : Ailing(k) /\ Ailing(k)') => clock' = "aged"]_vars

-----------------------------------------------------------------------------
(* Implementation of the abstract log.                                     *)

Log == INSTANCE CoverageLog WITH
         Positions <- 1..MaxSeq,
         wanted <- [k \in Kinds |->
            UNION {SeqsOf(requests[i]) : i \in {j \in DOMAIN requests : k \in requests[j].eligible}}],
         completed <- [k \in Kinds |-> cursor[k].completed]

ImplementsLog == Log!Spec

-----------------------------------------------------------------------------
(* Liveness.                                                               *)

\* Deferrals the code charges to nothing.  Ordinary failures are not among
\* them: they spend attempts until the cursor is held.
Disturbance ==
  \/ \E w \in Workers :
       \/ Crash(w) \/ WaitForProvider(w) \/ SuspendExtraction(w)
       \/ YieldTurn(w) \/ DeferSetup(w)
       \/ Holds(w) /\ RetryEffects(w)
  \/ OperatorCrash
  \/ LeaseLapses /\ ~Abandoned

\* The scheduler keeps polling, started turns run on, clocks advance, and an
\* operator retires what stays held.  Outages and crashes come to an end.
Fairness ==
  /\ <>[][~Disturbance]_vars
  /\ WF_vars(WorkDue)
  /\ WF_vars(LeaseLapses /\ Abandoned)
  /\ WF_vars(ReleaseUserExtraction)
  /\ SF_vars(ClaimUserExtraction)
  /\ \A k \in Kinds : WF_vars(RetryDue(k))
  /\ SF_vars(\E k \in Kinds : RetireWindow(k))
  /\ WF_vars(\E i \in DOMAIN windows : EffectsDue(i))
  /\ WF_vars(\E i \in DOMAIN requests : DeadlinePasses(i))
  /\ SF_vars(\E w \in Workers : ClaimExtraction(w))
  /\ \A w \in Workers :
       WF_vars(turn[w].phase # "idle" /\ (Execute(w) \/ Deliver(w) \/ LoseLease(w)))

FairSpec == Spec /\ Fairness

\* Every surviving input whose request carries a reason to run (a force flag
\* or a deadline) is eventually passed by the cursor of each kind it is for.
Urgent(s, k) ==
  \E i \in DOMAIN requests :
    /\ s \in SeqsOf(requests[i]) \cap live
    /\ k \in requests[i].eligible
    /\ requests[i].force \/ requests[i].wait # "none"
EveryUrgentInputIsPassed ==
  \A s \in 1..MaxSeq, k \in Kinds :
    Urgent(s, k) ~> (s \notin live \/ s <= cursor[k].completed)

\* The effects of every completed window are eventually acknowledged.
EffectsAreSettled ==
  \A i \in WindowIds : (i \in Owed) ~> (i \notin Owed)
=============================================================================
