----------------------- MODULE ExtractionStream_proofs -----------------------
(***************************************************************************)
(* Machine-checked facts about ExtractionStream for every set of workers,  *)
(* kinds and window ids and every attempt ceiling: the shape of its tables *)
(* and turns, and its lease as a fence.  Whoever holds the lease executes  *)
(* the window its cursor names, cursors move under it only, and derived    *)
(* work is handed off at most once, whoever delivers it.                   *)
(***************************************************************************)
EXTENDS ExtractionStream, WindowSelection_proofs

-----------------------------------------------------------------------------
(* Types.                                                                  *)

USE DEF Executing, Delivering, Phases, Retries, Errors

\* The next sequence number starts from a natural number.
LEMMA HighwaterIsNat == requests \in Seq(Request) => Highwater \in Nat
<1>. SUFFICES ASSUME requests \in Seq(Request), requests # <<>>
              PROVE  requests[Len(requests)].last \in Nat
  BY DEF Highwater
<1>1. Len(requests) \in Nat \ {0}
  BY EmptySeq
<1>2. requests[Len(requests)] \in Request
  BY <1>1, ElementOfSeq
<1>. QED
  BY <1>2 DEF Request

\* Rewriting rows of the log keeps it a sequence of admissions.
LEMMA RequestRewrite ==
  ASSUME NEW reqs \in Seq(Request), NEW i \in DOMAIN reqs, NEW d \in Deadlines
  PROVE  /\ [reqs EXCEPT ![i].finished = TRUE] \in Seq(Request)
         /\ [reqs EXCEPT ![i].idle = d] \in Seq(Request)
         /\ [reqs EXCEPT ![i].wait = d] \in Seq(Request)
<1>1. i \in 1..Len(reqs) /\ reqs[i] \in Request
  OBVIOUS
<1>2. /\ [reqs[i] EXCEPT !.finished = TRUE] \in Request
      /\ [reqs[i] EXCEPT !.idle = d] \in Request
      /\ [reqs[i] EXCEPT !.wait = d] \in Request
  BY <1>1 DEF Request
<1>. QED
  BY <1>1, <1>2, ExceptSeq

\* A turn that works on a window has its row, and the row names a kind.
LEMMA TurnRow ==
  ASSUME TypeOK, NEW w \in Workers,
         turn[w].phase \in Executing \cup Delivering \cup {"invalidating", "committed"}
  PROVE  /\ turn[w] \in Turn
         /\ turn[w].window \in DOMAIN windows /\ turn[w].window \in WindowIds
         /\ Row(w) \in Window /\ Kind(w) \in Kinds
BY DEF TypeOK, TurnsOK, WindowsOK, Row, Kind, Window

\* Moving one turn to another phase keeps the turns typed, provided a phase
\* that needs a row has one and no row disappears.
LEMMA GotoTypes ==
  ASSUME TypeOK, NEW w \in Workers, NEW p \in Phases, Goto(w, p),
         DOMAIN windows \subseteq DOMAIN windows',
         p \in Executing \cup Delivering \cup {"invalidating", "committed"}
           => turn[w].window \in DOMAIN windows
  PROVE  TurnsOK'
<1>1. turn'[w] = [turn[w] EXCEPT !.phase = p]
  BY DEF Goto, TypeOK, TurnsOK
<1>2. [turn[w] EXCEPT !.phase = p] \in Turn
  BY ZenonT(40) DEF Turn, TypeOK, TurnsOK
<1>3. \A v \in Workers \ {w} : turn'[v] = turn[v]
  BY DEF Goto, TypeOK, TurnsOK
<1>4. turn' \in [Workers -> Turn]
  BY <1>1, <1>2, <1>3 DEF Goto, TypeOK, TurnsOK
<1>5. turn'[w].phase = p /\ turn'[w].window = turn[w].window
  BY <1>1, <1>2 DEF TypeOK, TurnsOK, Turn
<1>. QED
  BY <1>3, <1>4, <1>5 DEF TypeOK, TurnsOK

\* So does ending a turn.
LEMMA EndedTypes ==
  ASSUME TypeOK, NEW w \in Workers, Ended(w), DOMAIN windows \subseteq DOMAIN windows'
  PROVE  TurnsOK'
<1>1. IdleTurn \in Turn /\ IdleTurn.phase = "idle"
  BY DEF IdleTurn, Turn
<1>2. turn'[w] = IdleTurn /\ \A v \in Workers \ {w} : turn'[v] = turn[v]
  BY DEF Ended, TypeOK, TurnsOK
<1>. QED
  BY <1>1, <1>2 DEF TypeOK, TurnsOK, Ended

\* Rewriting one row of extraction_windows keeps the table typed.
LEMMA RowTypes ==
  ASSUME TypeOK, NEW i \in DOMAIN windows, NEW r \in Window,
         windows' = [windows EXCEPT ![i] = r]
  PROVE  WindowsOK' /\ DOMAIN windows' = DOMAIN windows
BY DEF TypeOK, WindowsOK

\* Rewriting one cursor that keeps or drops its window keeps the cursors typed.
LEMMA CursorTypes ==
  ASSUME TypeOK, NEW k \in Kinds, NEW c \in Cursor,
         c.window \in {NoWindow, cursor[k].window},
         cursor' = [cursor EXCEPT ![k] = c],
         DOMAIN windows \subseteq DOMAIN windows'
  PROVE  CursorsOK'
BY DEF TypeOK, CursorsOK

\* The order of service stays a relation on kinds.
LEMMA ServedTypes ==
  ASSUME TypeOK, NEW k \in Kinds
  PROVE  Served(k) \in SUBSET (Kinds \X Kinds)
BY DEF TypeOK, Served

\* Postponing a window's effects (retry_extraction_effects) keeps the tables typed.
LEMMA PostponeTypes ==
  ASSUME TypeOK, NEW i \in DOMAIN windows, PostponeEffects(i)
  PROVE  /\ WindowsOK' /\ DOMAIN windows' = DOMAIN windows
         /\ due' \in {"now", "later", "never"}
<1>. DEFINE r == [windows[i] EXCEPT !.effectsRetry = "later"]
<1>1. windows[i] \in Window
  BY DEF TypeOK, WindowsOK
<1>2. r \in Window
  BY <1>1 DEF Window
<1>3. windows' = [windows EXCEPT ![i] = r]
  BY DEF PostponeEffects
<1>4. due' \in {"now", "later", "never"}
  BY DEF PostponeEffects, TypeOK
<1>. QED
  BY <1>2, <1>3, <1>4, RowTypes

\* A charged failure rewrites one cursor, rotates the service order, frees the
\* work row and ends the turn.
LEMMA ChargeTypes ==
  ASSUME TypeOK, NEW w \in Workers, turn[w].phase \in Executing,
         NEW n \in Nat, NEW retry \in Retries, NEW error \in Errors,
         Charge(w, n, retry, error), DOMAIN windows' = DOMAIN windows,
         WindowsOK', spent' \in [WindowIds -> Int]
  PROVE  TypeOK'
<1>. DEFINE k == Kind(w)
            c == [cursor[k] EXCEPT !.attempts = n, !.retry = retry, !.error = error]
<1>1. k \in Kinds
  BY TurnRow
<1>2. c \in Cursor /\ c.window = cursor[k].window
  BY <1>1, ZenonT(40) DEF TypeOK, CursorsOK, Cursor
<1>3. cursor' = [cursor EXCEPT ![k] = c]
  BY <1>1 DEF TypeOK, CursorsOK, Charge
<1>4. CursorsOK'
  BY <1>1, <1>2, <1>3, CursorTypes
<1>5. TurnsOK'
  BY EndedTypes DEF Charge
<1>6. lastTurn' \in SUBSET (Kinds \X Kinds)
  BY <1>1, ServedTypes DEF Charge
<1>7. lease' \in [holder: Workers \cup {Operator, NoOne}, live: BOOLEAN] /\ due' = "now"
  BY DEF Charge, FreeRow, NoLease
<1>. QED
  BY <1>4, <1>5, <1>6, <1>7 DEF Charge, TypeOK, log

\* The charged attempt count (_failed_attempts) is a natural number.
LEMMA FailedAttemptsIsNat ==
  ASSUME TypeOK, NEW w \in Workers, turn[w].phase \in Executing
  PROVE  FailedAttempts(w) \in Nat
<1>1. Kind(w) \in Kinds
  BY TurnRow
<1>. QED
  BY <1>1 DEF FailedAttempts, TypeOK, CursorsOK, Cursor

-----------------------------------------------------------------------------
(* Every step preserves the types: publication, erasure, time.             *)

\* Publications, session ends and erasures preserve the type invariant.
LEMMA ArriveTypes == ASSUME TypeOK, Arrive PROVE TypeOK'
<1>1. ASSUME NEW a \in Admissions, AdmitExtraction(a)
      PROVE  TypeOK'
  <2>. DEFINE r == [first |-> Highwater + 1, last |-> Highwater + a.size,
                    session |-> a.session, eligible |-> a.eligible, force |-> a.force,
                    finished |-> FALSE, width |-> a.width, stride |-> a.stride,
                    idle |-> a.idle, wait |-> a.wait]
  <2>1. Highwater \in Nat
    BY HighwaterIsNat DEF TypeOK
  <2>2. r \in Request
    BY <2>1, StreamAssumption, MaxWidthAssumption DEF Request
  <2>3. requests' \in Seq(Request)
    BY <1>1, <2>2, AppendProperties DEF AdmitExtraction, TypeOK
  <2>4. live' \in SUBSET Nat
    <3>1. (Highwater + 1)..(Highwater + a.size) \subseteq Nat
      BY <2>1, StreamAssumption
    <3>. QED
      BY <1>1, <3>1 DEF AdmitExtraction, TypeOK
  <2>5. due' \in {"now", "later", "never"} /\ clock' \in {"off", "fresh", "aged", "parked"}
    BY <1>1 DEF AdmitExtraction, TypeOK
  <2>. QED
    BY <1>1, <2>3, <2>4, <2>5 DEF AdmitExtraction, TypeOK, history, CursorsOK, WindowsOK, TurnsOK
<1>2. ASSUME NEW s \in Sessions, FinalizeSession(s)
      PROVE  TypeOK'
  <2>1. requests' \in Seq(Request)
    <3>1. PICK i \in LatestOfSession(requests, s) :
            requests' = [requests EXCEPT ![i].finished = TRUE]
      BY <1>2 DEF FinalizeSession
    <3>. QED
      BY <3>1, RequestRewrite DEF LatestOfSession, TypeOK, Deadlines
  <2>. QED
    BY <1>2, <2>1 DEF FinalizeSession, TypeOK, history, CursorsOK, WindowsOK, TurnsOK
<1>3. ASSUME NEW s \in live, EraseInput(s)
      PROVE  TypeOK'
  <2>1. WindowsOK' /\ DOMAIN windows' = DOMAIN windows
    <3>1. DOMAIN windows' = DOMAIN windows
      BY <1>3 DEF EraseInput
    <3>2. ASSUME NEW i \in DOMAIN windows
          PROVE  windows'[i] \in Window
      <4>1. windows[i] \in Window
        BY DEF TypeOK, WindowsOK
      <4>2. [windows[i] EXCEPT !.invalidated = TRUE, !.saved = FALSE] \in Window
        BY <4>1 DEF Window
      <4>. QED
        BY <1>3, <4>1, <4>2 DEF EraseInput
    <3>3. windows' \in [DOMAIN windows' -> Window]
      BY <1>3, <3>1, <3>2 DEF EraseInput
    <3>. QED
      BY <3>1, <3>3 DEF TypeOK, WindowsOK
  <2>2. live' \in SUBSET Nat
    BY <1>3 DEF EraseInput, TypeOK
  <2>. QED
    BY <1>3, <2>1, <2>2 DEF EraseInput, TypeOK, history, CursorsOK, TurnsOK
<1>. QED
  BY <1>1, <1>2, <1>3 DEF Arrive

\* So does the passage of time.
LEMMA PassTypes == ASSUME TypeOK, Pass PROVE TypeOK'
<1>1. ASSUME LeaseLapses PROVE TypeOK'
  BY <1>1 DEF LeaseLapses, TypeOK, log, history, CursorsOK, WindowsOK, TurnsOK
<1>2. ASSUME WorkDue PROVE TypeOK'
  BY <1>2 DEF WorkDue, TypeOK, log, history, CursorsOK, WindowsOK, TurnsOK
<1>3. ASSUME BacklogAges PROVE TypeOK'
  BY <1>3 DEF BacklogAges, TypeOK, log, history, CursorsOK, WindowsOK, TurnsOK
<1>4. ASSUME NEW k \in Kinds, RetryDue(k) PROVE TypeOK'
  <2>. DEFINE c == [cursor[k] EXCEPT !.retry = "due"]
  <2>1. c \in Cursor /\ c.window = cursor[k].window
    BY ZenonT(40) DEF TypeOK, CursorsOK, Cursor
  <2>2. CursorsOK'
    BY <1>4, <2>1, CursorTypes DEF RetryDue
  <2>. QED
    BY <1>4, <2>2 DEF RetryDue, TypeOK, log, history, workRow, WindowsOK, TurnsOK
<1>5. ASSUME NEW i \in DOMAIN windows, EffectsDue(i) PROVE TypeOK'
  <2>. DEFINE r == [windows[i] EXCEPT !.effectsRetry = "due"]
  <2>1. windows[i] \in Window
    BY DEF TypeOK, WindowsOK
  <2>2. r \in Window
    BY <2>1 DEF Window
  <2>3. WindowsOK' /\ DOMAIN windows' = DOMAIN windows
    BY <1>5, <2>2, RowTypes DEF EffectsDue
  <2>. QED
    BY <1>5, <2>3 DEF EffectsDue, TypeOK, log, history, workRow, CursorsOK, TurnsOK
<1>6. ASSUME NEW i \in DOMAIN requests, DeadlinePasses(i) PROVE TypeOK'
  <2>1. requests' \in Seq(Request)
    <3>1. requests \in Seq(Request) /\ "due" \in Deadlines
      BY DEF TypeOK, Deadlines
    <3>2. /\ [requests EXCEPT ![i].idle = "due"] \in Seq(Request)
          /\ [requests EXCEPT ![i].wait = "due"] \in Seq(Request)
      BY <3>1, RequestRewrite
    <3>. QED
      BY <1>6, <3>2 DEF DeadlinePasses
  <2>. QED
    BY <1>6, <2>1 DEF DeadlinePasses, TypeOK, history, workRow, CursorsOK, WindowsOK, TurnsOK
<1>. QED
  BY <1>1, <1>2, <1>3, <1>4, <1>5, <1>6 DEF Pass

-----------------------------------------------------------------------------
(* The operator.                                                           *)

\* So do the operator's commands.
LEMMA OperateTypes == ASSUME TypeOK, Operate PROVE TypeOK'
<1>1. ASSUME ClaimUserExtraction PROVE TypeOK'
  BY <1>1 DEF ClaimUserExtraction, TypeOK, log, history, CursorsOK, WindowsOK, TurnsOK
<1>2. ASSUME ReleaseUserExtraction PROVE TypeOK'
  BY <1>2 DEF ReleaseUserExtraction, NoLease, TypeOK, log, history, CursorsOK, WindowsOK, TurnsOK
<1>3. ASSUME OperatorCrash PROVE TypeOK'
  BY <1>3 DEF OperatorCrash, TypeOK, log, history, workRow, CursorsOK, WindowsOK, TurnsOK
<1>4. ASSUME NEW k \in Kinds, RearmHeld(k) PROVE TypeOK'
  <2>. DEFINE c == [cursor[k] EXCEPT !.retry = "due"]
  <2>1. c \in Cursor /\ c.window = cursor[k].window
    BY ZenonT(40) DEF TypeOK, CursorsOK, Cursor
  <2>2. CursorsOK'
    BY <1>4, <2>1, CursorTypes DEF RearmHeld
  <2>. QED
    BY <1>4, <2>2 DEF RearmHeld, TypeOK, log, history, WindowsOK, TurnsOK
<1>5. ASSUME NEW k \in Kinds, RetireWindow(k) PROVE TypeOK'
  <2>. DEFINE i == cursor[k].window
              c == PassedBy(windows[i].end)
              r == [windows[i] EXCEPT !.state = "completed", !.derived = TRUE,
                                      !.saved = FALSE, !.manifest = {}]
  <2>1. i \in DOMAIN windows
    BY <1>5 DEF RetireWindow, Held, TypeOK, CursorsOK
  <2>2. windows[i] \in Window
    BY <2>1 DEF TypeOK, WindowsOK
  <2>3. r \in Window
    BY <2>2 DEF Window
  <2>4. WindowsOK' /\ DOMAIN windows' = DOMAIN windows
    BY <1>5, <2>1, <2>3, RowTypes DEF RetireWindow
  <2>5. c \in Cursor /\ c.window = NoWindow
    BY <2>2 DEF PassedBy, Window, Cursor
  <2>6. CursorsOK'
    BY <1>5, <2>4, <2>5, CursorTypes DEF RetireWindow
  <2>7. lastTurn' \in SUBSET (Kinds \X Kinds)
    BY <1>5, ServedTypes DEF RetireWindow
  <2>8. clock' \in {"off", "fresh", "aged", "parked"}
    BY <1>5 DEF RetireWindow, RestartClock, TypeOK
  <2>. QED
    BY <1>5, <2>4, <2>6, <2>7, <2>8 DEF RetireWindow, TypeOK, log, history, TurnsOK
<1>. QED
  BY <1>1, <1>2, <1>3, <1>4, <1>5 DEF Operate

-----------------------------------------------------------------------------
(* Workers: delivering effects, failing.                                   *)

\* So does the delivery of effects.
LEMMA DeliverTypes == ASSUME TypeOK, NEW w \in Workers, Deliver(w) PROVE TypeOK'
<1>. DEFINE i == turn[w].window
<1>. USE TurnRow, GotoTypes
<1>1. CASE Bill(w)
  <2>1. TurnsOK'
    BY <1>1 DEF Bill
  <2>. QED
    BY <1>1, <2>1 DEF Bill, TypeOK, log, workRow, CursorsOK, WindowsOK
<1>2. CASE LoadEffectInputs(w)
  <2>1. TurnsOK'
    BY <1>2 DEF LoadEffectInputs
  <2>. QED
    BY <1>2, <2>1 DEF LoadEffectInputs, TypeOK, log, workRow, history, CursorsOK, WindowsOK
<1>3. CASE ClaimExtractionDerived(w)
  <2>. DEFINE r == [windows[i] EXCEPT !.derived = TRUE]
  <2>1. windows[i] \in Window /\ i \in DOMAIN windows
    BY <1>3 DEF ClaimExtractionDerived, Row
  <2>2. r \in Window
    BY <2>1 DEF Window
  <2>3. WindowsOK' /\ DOMAIN windows' = DOMAIN windows
    BY <1>3, <2>1, <2>2, RowTypes DEF ClaimExtractionDerived
  <2>4. TurnsOK'
    BY <1>3, <2>1, <2>3 DEF ClaimExtractionDerived
  <2>. QED
    BY <1>3, <2>3, <2>4 DEF ClaimExtractionDerived, TypeOK, log, workRow, history, CursorsOK
<1>4. CASE EmitDerived(w)
  <2>1. TurnsOK'
    BY <1>4 DEF EmitDerived
  <2>2. emitted' \in [WindowIds -> Nat]
    BY <1>4 DEF EmitDerived, TypeOK
  <2>. QED
    BY <1>4, <2>1, <2>2 DEF EmitDerived, TypeOK, log, workRow, CursorsOK, WindowsOK
<1>5. CASE AckExtractionEffects(w)
  <2>. DEFINE r == [windows[i] EXCEPT !.owed = FALSE, !.saved = FALSE, !.manifest = {}]
  <2>1. windows[i] \in Window /\ i \in DOMAIN windows
    BY <1>5 DEF AckExtractionEffects, Row
  <2>2. r \in Window
    BY <2>1 DEF Window
  <2>3. WindowsOK' /\ DOMAIN windows' = DOMAIN windows
    BY <1>5, <2>1, <2>2, RowTypes DEF AckExtractionEffects
  <2>4. TurnsOK'
    BY <1>5, <2>3 DEF AckExtractionEffects
  <2>. QED
    BY <1>5, <2>3, <2>4 DEF AckExtractionEffects, TypeOK, log, workRow, history, CursorsOK
<1>6. CASE RetryEffects(w)
  <2>1. i \in DOMAIN windows
    BY <1>6 DEF RetryEffects
  <2>2. /\ WindowsOK' /\ DOMAIN windows' = DOMAIN windows
        /\ due' \in {"now", "later", "never"}
    BY <1>6, <2>1, PostponeTypes DEF RetryEffects
  <2>3. TurnsOK'
    BY <1>6, <2>2 DEF RetryEffects
  <2>. QED
    BY <1>6, <2>2, <2>3 DEF RetryEffects, TypeOK, log, history, CursorsOK
<1>. QED
  BY <1>1, <1>2, <1>3, <1>4, <1>5, <1>6 DEF Deliver

\* So does every failure path of a turn.
LEMMA FailTypes == ASSUME TypeOK, NEW w \in Workers, Fail(w) PROVE TypeOK'
<1>. DEFINE n == FailedAttempts(w)
            i == turn[w].window
<1>. USE TurnRow, GotoTypes
<1>0. /\ turn[w].phase \in Executing => n \in Nat
      /\ turn[w] \in Turn
      /\ spent \in [WindowIds -> Int] /\ WindowsOK
  BY FailedAttemptsIsNat DEF TypeOK, TurnsOK
<1>1. CASE RetryExtraction(w)
  <2>1. UNCHANGED windows /\ UNCHANGED spent /\ WindowsOK'
    BY <1>0, <1>1 DEF RetryExtraction, WindowsOK
  <2>2. Charge(w, n, "never", "exhausted") \/ Charge(w, n, "later", "failed")
    BY <1>1 DEF RetryExtraction
  <2>3. turn[w].phase \in Executing
    BY <1>1 DEF RetryExtraction
  <2>. QED
    BY <1>0, <2>1, <2>2, <2>3, ChargeTypes
<1>2. CASE WaitForProvider(w)
  <2>1. UNCHANGED windows /\ WindowsOK'
    BY <1>0, <1>2 DEF WaitForProvider, WindowsOK
  <2>2. spent' \in [WindowIds -> Int]
    BY <1>0, <1>2 DEF WaitForProvider
  <2>3. turn[w].attempts \in Nat /\ turn[w].phase \in Executing
    BY <1>0, <1>2 DEF WaitForProvider, Turn
  <2>. QED
    BY <1>2, <2>1, <2>2, <2>3, ChargeTypes DEF WaitForProvider
<1>3. CASE FailInputBudget(w)
  <2>1. UNCHANGED windows /\ UNCHANGED spent /\ WindowsOK'
    BY <1>0, <1>3 DEF FailInputBudget, WindowsOK
  <2>2. \E retry \in Retries, error \in Errors : Charge(w, n, retry, error)
    BY <1>3 DEF FailInputBudget
  <2>3. turn[w].phase \in Executing
    BY <1>3 DEF FailInputBudget
  <2>. QED
    BY <1>0, <2>1, <2>2, <2>3, ChargeTypes
<1>4. CASE DiscardComputation(w)
  <2>. DEFINE r == [windows[i] EXCEPT !.saved = FALSE]
  <2>1. windows[i] \in Window /\ i \in DOMAIN windows
    BY <1>4 DEF DiscardComputation, Row
  <2>2. r \in Window
    BY <2>1 DEF Window
  <2>3. WindowsOK' /\ DOMAIN windows' = DOMAIN windows
    BY <1>4, <2>1, <2>2, RowTypes DEF DiscardComputation
  <2>4. \E retry \in Retries, error \in Errors : Charge(w, n, retry, error)
    BY <1>4 DEF DiscardComputation
  <2>5. turn[w].phase \in Executing /\ spent' = spent
    BY <1>4 DEF DiscardComputation
  <2>. QED
    BY <1>0, <2>3, <2>4, <2>5, ChargeTypes
<1>5. CASE SuspendExtraction(w)
  <2>1. UNCHANGED windows /\ UNCHANGED spent /\ WindowsOK'
    BY <1>0, <1>5 DEF SuspendExtraction, WindowsOK
  <2>2. turn[w].phase \in Executing /\ Kind(w) \in Kinds
    BY <1>5 DEF SuspendExtraction
  <2>3. cursor[Kind(w)] \in Cursor
    BY <2>2 DEF TypeOK, CursorsOK
  <2>4. cursor[Kind(w)].attempts \in Nat /\ cursor[Kind(w)].error \in Errors
    BY <2>3, Zenon DEF Cursor
  <2>5. Charge(w, cursor[Kind(w)].attempts, "later", cursor[Kind(w)].error)
    BY <1>5 DEF SuspendExtraction
  <2>. QED
    BY <1>0, <2>1, <2>2, <2>4, <2>5, ChargeTypes
<1>6. CASE YieldTurn(w)
  <2>1. TurnsOK'
    BY <1>6, EndedTypes DEF YieldTurn
  <2>. QED
    BY <1>6, <2>1 DEF YieldTurn, FreeRow, NoLease, TypeOK, log, history, CursorsOK, WindowsOK
<1>7. CASE DeferSetup(w)
  <2>1. TurnsOK'
    BY <1>7 DEF DeferSetup
  <2>. QED
    BY <1>7, <2>1 DEF DeferSetup, TypeOK, log, history, CursorsOK, WindowsOK
<1>8. CASE FailStale(w)
  <2>1. i \in DOMAIN windows
    BY <1>8 DEF FailStale
  <2>2. /\ WindowsOK' /\ DOMAIN windows' = DOMAIN windows
        /\ due' \in {"now", "later", "never"}
    BY <1>8, <2>1, PostponeTypes DEF FailStale
  <2>3. TurnsOK'
    BY <1>8, <2>2 DEF FailStale
  <2>. QED
    BY <1>8, <2>2, <2>3 DEF FailStale, TypeOK, log, history, CursorsOK
<1>9. CASE LoseLease(w)
  <2>1. TurnsOK'
    BY <1>9 DEF LoseLease
  <2>. QED
    BY <1>9, <2>1 DEF LoseLease, TypeOK, log, workRow, history, CursorsOK, WindowsOK
<1>10. CASE Crash(w)
  <2>1. TurnsOK'
    BY <1>10, EndedTypes DEF Crash
  <2>. QED
    BY <1>10, <2>1 DEF Crash, TypeOK, log, workRow, history, CursorsOK, WindowsOK
<1>. QED
  BY <1>1, <1>2, <1>3, <1>4, <1>5, <1>6, <1>7, <1>8, <1>9, <1>10 DEF Fail

-----------------------------------------------------------------------------
(* Workers: taking, computing and publishing a window.                     *)

\* Handing a window to a turn keeps the turns typed.
LEMMA TakeTypes ==
  ASSUME TypeOK, NEW w \in Workers, NEW k \in Kinds, NEW i \in WindowIds,
         NEW saved \in BOOLEAN, Take(w, i, k, saved),
         DOMAIN windows \subseteq DOMAIN windows', i \in DOMAIN windows'
  PROVE  TurnsOK'
<1>. DEFINE t == [phase |-> "prepared", window |-> i, attempts |-> cursor[k].attempts,
                  saved |-> saved, reserved |-> FALSE]
<1>1. cursor[k].attempts \in Nat
  BY DEF TypeOK, CursorsOK, Cursor
<1>2. t \in Turn /\ t.window = i
  BY <1>1 DEF Turn
<1>3. turn' = [turn EXCEPT ![w] = t]
  BY DEF Take
<1>. QED
  BY <1>2, <1>3 DEF TypeOK, TurnsOK

\* So does cutting or resuming a window (prepare_extraction).
LEMMA PrepareTypes ==
  ASSUME TypeOK, NEW w \in Workers, PrepareWindow(w)
  PROVE  TypeOK'
<1>1. PICK k \in Kinds : ResumeWindow(w, k) \/ CutWindow(w, k)
  BY DEF PrepareWindow
<1>2. CASE ResumeWindow(w, k)
  <2>. DEFINE i == cursor[k].window
  <2>1. i \in DOMAIN windows /\ i \in WindowIds /\ windows[i] \in Window
    BY <1>2 DEF ResumeWindow, TypeOK, CursorsOK, WindowsOK
  <2>2. windows[i].saved \in BOOLEAN
    BY <2>1 DEF Window
  <2>3. TurnsOK'
    BY <1>2, <2>1, <2>2, TakeTypes DEF ResumeWindow
  <2>. QED
    BY <1>2, <2>3 DEF ResumeWindow, PrepareWindow, TypeOK, log, workRow, history, CursorsOK, WindowsOK
<1>3. CASE CutWindow(w, k)
  <2>. DEFINE id == CHOOSE i \in WindowIds \ DOMAIN windows : TRUE
              pos == cursor[k].completed
              man == Manifest(requests, live, k, pos, cursor[k].started)
              new == NewInputs(requests, live, k, pos, cursor[k].started)
  <2>1. id \in WindowIds /\ id \notin DOMAIN windows
    BY <1>3 DEF CutWindow
  <2>2. PICK end \in new :
          /\ windows' = [i \in DOMAIN windows \cup {id} |->
               IF i # id THEN windows[i]
               ELSE [kind |-> k, predecessor |-> pos, end |-> end, manifest |-> man,
                     state |-> "open", saved |-> FALSE, invalidated |-> FALSE,
                     owed |-> FALSE, effectsRetry |-> "due", derived |-> FALSE]]
          /\ cursor' = [cursor EXCEPT ![k].window = id]
          /\ Take(w, id, k, FALSE)
    BY <1>3, Zenon DEF CutWindow
  <2>. DEFINE r == [kind |-> k, predecessor |-> pos, end |-> end, manifest |-> man,
                     state |-> "open", saved |-> FALSE, invalidated |-> FALSE,
                     owed |-> FALSE, effectsRetry |-> "due", derived |-> FALSE]
  <2>3. new \in SUBSET Nat /\ man \in SUBSET Nat /\ pos \in Nat
    BY SelectionIsNat DEF TypeOK, CursorsOK, Cursor
  <2>. HIDE DEF man, new
  <2>4. r \in Window
    BY <2>2, <2>3 DEF Window
  <2>5. DOMAIN windows' = DOMAIN windows \cup {id}
    BY <2>2
  <2>6. WindowsOK'
    <3>1. \A i \in DOMAIN windows' : windows'[i] \in Window
      <4>. SUFFICES ASSUME NEW i \in DOMAIN windows'
                    PROVE  windows'[i] \in Window
        OBVIOUS
      <4>1. CASE i = id
        BY <2>2, <2>4, <2>5, <4>1
      <4>2. CASE i # id
        BY <2>2, <2>5, <4>2 DEF TypeOK, WindowsOK
      <4>. QED
        BY <4>1, <4>2
    <3>. QED
      BY <2>1, <2>2, <2>5, <3>1 DEF TypeOK, WindowsOK
  <2>7. TurnsOK'
    BY <2>1, <2>2, <2>5, TakeTypes
  <2>8. CursorsOK'
    <3>. DEFINE c == [cursor[k] EXCEPT !.window = id]
    <3>1. c \in Cursor /\ c.window = id
      BY <2>1 DEF TypeOK, CursorsOK, Cursor
    <3>. QED
      BY <2>1, <2>2, <2>5, <3>1 DEF TypeOK, CursorsOK
  <2>. QED
    BY <2>6, <2>7, <2>8 DEF PrepareWindow, TypeOK, log, workRow, history
<1>. QED
  BY <1>1, <1>2, <1>3

\* So does every other step of a turn.
LEMMA ExecuteTypes == ASSUME TypeOK, NEW w \in Workers, Execute(w) PROVE TypeOK'
<1>. DEFINE i == turn[w].window
            k == Kind(w)
<1>. USE TurnRow, GotoTypes
<1>1. CASE ClaimExtraction(w)
  <2>1. TurnsOK'
    BY <1>1 DEF ClaimExtraction
  <2>. QED
    BY <1>1, <2>1 DEF ClaimExtraction, TypeOK, log, history, CursorsOK, WindowsOK
<1>2. CASE PendingExtractionEffects(w)
  <2>1. TurnsOK'
    <3>1. CASE Goto(w, "selecting")
      BY <1>2, <3>1 DEF PendingExtractionEffects
    <3>2. ASSUME NEW j \in Owed,
                 turn' = [turn EXCEPT ![w] = [@ EXCEPT !.phase = "billing", !.window = j]]
          PROVE  TurnsOK'
      <4>. DEFINE t == [turn[w] EXCEPT !.phase = "billing", !.window = j]
      <4>1. j \in DOMAIN windows /\ j \in WindowIds
        BY DEF Owed, TypeOK, WindowsOK
      <4>2. turn[w] \in Turn
        BY DEF TypeOK, TurnsOK
      <4>3. t \in Turn /\ t.window = j
        BY <4>1, <4>2 DEF Turn
      <4>. QED
        BY <1>2, <3>2, <4>1, <4>3 DEF PendingExtractionEffects, TypeOK, TurnsOK
    <3>. QED
      BY <1>2, <3>1, <3>2 DEF PendingExtractionEffects
  <2>. QED
    BY <1>2, <2>1 DEF PendingExtractionEffects, TypeOK, log, workRow, history, CursorsOK, WindowsOK
<1>3. CASE PrepareWindow(w)
  BY <1>3, PrepareTypes
<1>4. CASE PrepareNothing(w)
  <2>1. TurnsOK'
    BY <1>4, EndedTypes DEF PrepareNothing
  <2>2. due' \in {"now", "later", "never"} /\ clock' \in {"off", "fresh", "aged", "parked"}
    BY <1>4 DEF PrepareNothing, NextDue, TypeOK
  <2>. QED
    BY <1>4, <2>1, <2>2 DEF PrepareNothing, NoLease, TypeOK, log, history, CursorsOK, WindowsOK
<1>5. CASE BeginExtractionAttempt(w)
  <2>. DEFINE n == turn[w].attempts + 1
              c == Debit(cursor[k], n)
              t == [turn[w] EXCEPT !.phase = "computing", !.reserved = TRUE]
  <2>1. k \in Kinds /\ turn[w] \in Turn /\ i \in DOMAIN windows
    BY <1>5 DEF BeginExtractionAttempt
  <2>2. cursor[k] \in Cursor /\ n \in Nat
    BY <2>1 DEF TypeOK, CursorsOK, Turn
  <2>3. c \in Cursor /\ c.window = cursor[k].window
    BY <2>2 DEF Debit, Cursor
  <2>4. CursorsOK'
    <3>1. cursor' = [cursor EXCEPT ![k] = c] /\ UNCHANGED windows
      BY <1>5 DEF BeginExtractionAttempt
    <3>. QED
      BY <2>1, <2>3, <3>1, CursorTypes
  <2>5. t \in Turn /\ t.window = i
    BY <2>1 DEF Turn
  <2>6. TurnsOK'
    BY <1>5, <2>1, <2>5 DEF BeginExtractionAttempt, TypeOK, TurnsOK
  <2>7. spent' \in [WindowIds -> Int]
    BY <1>5 DEF BeginExtractionAttempt, TypeOK
  <2>. QED
    BY <1>5, <2>4, <2>6, <2>7 DEF BeginExtractionAttempt, TypeOK, log, workRow, WindowsOK
<1>6. CASE BeginOverflowWindow(w)
  <2>1. TurnsOK'
    BY <1>6 DEF BeginOverflowWindow
  <2>. QED
    BY <1>6, <2>1 DEF BeginOverflowWindow, TypeOK, log, workRow, history, CursorsOK, WindowsOK
<1>7. CASE ComputeReturns(w)
  <2>1. TurnsOK'
    BY <1>7 DEF ComputeReturns
  <2>. QED
    BY <1>7, <2>1 DEF ComputeReturns, TypeOK, log, workRow, history, CursorsOK, WindowsOK
<1>8. CASE SaveExtractionOutcome(w)
  <2>. DEFINE r == [windows[i] EXCEPT !.saved = TRUE]
              c == [cursor[k] EXCEPT !.retry = "due", !.error = "admitted"]
  <2>1. k \in Kinds /\ i \in DOMAIN windows /\ windows[i] \in Window
    BY <1>8 DEF SaveExtractionOutcome, Row
  <2>2. r \in Window
    BY <2>1 DEF Window
  <2>3. WindowsOK' /\ DOMAIN windows' = DOMAIN windows
    BY <1>8, <2>1, <2>2, RowTypes DEF SaveExtractionOutcome
  <2>4. c \in Cursor /\ c.window = cursor[k].window
    BY <2>1, ZenonT(40) DEF TypeOK, CursorsOK, Cursor
  <2>5. CursorsOK'
    <3>1. CASE cursor' = cursor
      BY <2>3, <3>1 DEF TypeOK, CursorsOK
    <3>2. CASE cursor' = [cursor EXCEPT ![k] = c]
      BY <2>1, <2>3, <2>4, <3>2, CursorTypes
    <3>. QED
      BY <1>8, <3>1, <3>2 DEF SaveExtractionOutcome
  <2>6. TurnsOK'
    BY <1>8, <2>1, <2>3 DEF SaveExtractionOutcome
  <2>. QED
    BY <1>8, <2>3, <2>5, <2>6 DEF SaveExtractionOutcome, TypeOK, log, workRow, history
<1>9. CASE AdoptSavedOutcome(w)
  <2>1. TurnsOK'
    BY <1>9 DEF AdoptSavedOutcome
  <2>. QED
    BY <1>9, <2>1 DEF AdoptSavedOutcome, TypeOK, log, workRow, history, CursorsOK, WindowsOK
<1>10. CASE PublishWindow(w)
  <2>. DEFINE r == [windows[i] EXCEPT !.state = "completed", !.owed = TRUE]
              c == PassedBy(Row(w).end)
  <2>1. k \in Kinds /\ i \in DOMAIN windows /\ windows[i] \in Window
    BY <1>10 DEF PublishWindow, Row
  <2>2. r \in Window /\ Row(w).end \in Nat /\ Row(w).manifest \in SUBSET Nat
    BY <2>1 DEF Window, Row
  <2>3. WindowsOK' /\ DOMAIN windows' = DOMAIN windows
    BY <1>10, <2>1, <2>2, RowTypes DEF PublishWindow
  <2>4. c \in Cursor /\ c.window = NoWindow
    BY <2>2 DEF PassedBy, Cursor
  <2>5. CursorsOK'
    BY <1>10, <2>1, <2>3, <2>4, CursorTypes DEF PublishWindow
  <2>6. TurnsOK'
    BY <1>10, <2>1, <2>3 DEF PublishWindow
  <2>7. lastTurn' \in SUBSET (Kinds \X Kinds)
    BY <1>10, <2>1, ServedTypes DEF PublishWindow
  <2>8. clock' \in {"off", "fresh", "aged", "parked"}
    BY <1>10 DEF PublishWindow, RestartClock, TypeOK
  <2>9. published' \in [Kinds -> SUBSET Nat]
    BY <1>10, <2>1, <2>2 DEF PublishWindow, TypeOK
  <2>. QED
    BY <1>10, <2>3, <2>5, <2>6, <2>7, <2>8, <2>9
       DEF PublishWindow, FreeRow, NoLease, TypeOK, log
<1>11. CASE FinishCommitted(w)
  <2>1. TurnsOK'
    BY <1>11, EndedTypes DEF FinishCommitted
  <2>. QED
    BY <1>11, <2>1 DEF FinishCommitted, TypeOK, log, workRow, history, CursorsOK, WindowsOK
<1>12. CASE DiscoverErasure(w)
  <2>1. TurnsOK'
    BY <1>12 DEF DiscoverErasure
  <2>. QED
    BY <1>12, <2>1 DEF DiscoverErasure, TypeOK, log, workRow, history, CursorsOK, WindowsOK
<1>13. CASE InvalidateExtraction(w)
  <2>. DEFINE c == [cursor[k] EXCEPT !.window = IF @ = i THEN NoWindow ELSE @]
              r == [windows[i] EXCEPT !.state = IF @ = "open" THEN "erased" ELSE @]
  <2>1. k \in Kinds /\ i \in DOMAIN windows /\ windows[i] \in Window
    BY <1>13 DEF InvalidateExtraction, Row
  <2>2. r \in Window
    BY <2>1 DEF Window
  <2>3. WindowsOK' /\ DOMAIN windows' = DOMAIN windows
    BY <1>13, <2>1, <2>2, RowTypes DEF InvalidateExtraction
  <2>4. c \in Cursor /\ c.window \in {NoWindow, cursor[k].window}
    BY <2>1, ZenonT(40) DEF TypeOK, CursorsOK, Cursor
  <2>5. CursorsOK'
    BY <1>13, <2>1, <2>3, <2>4, CursorTypes DEF InvalidateExtraction
  <2>6. TurnsOK'
    BY <1>13, <2>3, EndedTypes DEF InvalidateExtraction
  <2>. QED
    BY <1>13, <2>3, <2>5, <2>6 DEF InvalidateExtraction, FreeRow, NoLease, TypeOK, log, history
<1>14. CASE ReleaseTurn(w)
  <2>1. TurnsOK'
    BY <1>14, EndedTypes DEF ReleaseTurn
  <2>. QED
    BY <1>14, <2>1 DEF ReleaseTurn, NoLease, TypeOK, log, history, CursorsOK, WindowsOK
<1>. QED
  BY <1>1, <1>2, <1>3, <1>4, <1>5, <1>6, <1>7, <1>8, <1>9, <1>10, <1>11, <1>12,
     <1>13, <1>14 DEF Execute

-----------------------------------------------------------------------------
\* The migrated, empty tables are typed.
LEMMA InitTypes == Init => TypeOK
<1>. SUFFICES ASSUME Init PROVE TypeOK
  OBVIOUS
<1>1. DOMAIN windows = {}
  BY DEF Init
<1>2. CursorsOK /\ WindowsOK /\ TurnsOK
  BY <1>1, StreamAssumption DEF Init, CursorsOK, WindowsOK, TurnsOK, Cursor, Turn, IdleTurn
<1>. QED
  BY <1>2, StreamAssumption DEF Init, TypeOK

\* Every step preserves the type invariant.
LEMMA NextTypes == TypeOK /\ [Next]_vars => TypeOK'
<1>. SUFFICES ASSUME TypeOK, [Next]_vars
              PROVE  TypeOK'
  OBVIOUS
<1>1. CASE UNCHANGED vars
  BY <1>1 DEF vars, TypeOK, CursorsOK, WindowsOK, TurnsOK
<1>2. CASE Next
  BY <1>2, ExecuteTypes, DeliverTypes, FailTypes, OperateTypes, ArriveTypes, PassTypes DEF Next
<1>. QED
  BY <1>1, <1>2

\* The tables and turns keep their shape, and every window a cursor or a
\* running turn names has a row, for any number of workers and inputs.
THEOREM TypeCorrect == Spec => []TypeOK
BY InitTypes, NextTypes, PTL DEF Spec

-----------------------------------------------------------------------------
(* The fence: a live lease owns the window it executes.                    *)

\* The inductive invariant: the lease discipline needs the cursors' windows open.
OwnInv == TypeOK /\ CursorNamesOpenWindow /\ HolderOwnsWindow

\* A step changes no cursor's position or window and no row's identity.
QuietTables ==
  /\ \A k \in Kinds : cursor'[k].window = cursor[k].window
                      /\ cursor'[k].completed = cursor[k].completed
  /\ \A i \in DOMAIN windows :
       /\ i \in DOMAIN windows'
       /\ windows'[i].kind = windows[i].kind
       /\ windows'[i].state = windows[i].state
       /\ windows'[i].predecessor = windows[i].predecessor

\* A step makes no turn an executing one under a live lease.
QuietTurns ==
  \A w \in Workers :
    Holds(w)' /\ turn'[w].phase \in Executing =>
      Holds(w) /\ turn[w].phase \in Executing /\ turn'[w].window = turn[w].window

\* A step that moves no cursor and no executing turn keeps the fence.
LEMMA QuietStep ==
  ASSUME OwnInv, QuietTables, QuietTurns
  PROVE  CursorNamesOpenWindow' /\ HolderOwnsWindow'
<1>1. CursorNamesOpenWindow'
  <2>. SUFFICES ASSUME NEW k \in Kinds, cursor'[k].window # NoWindow
                PROVE  /\ windows'[cursor'[k].window].kind = k
                       /\ windows'[cursor'[k].window].state = "open"
                       /\ windows'[cursor'[k].window].predecessor = cursor'[k].completed
    BY DEF CursorNamesOpenWindow
  <2>1. cursor'[k].window = cursor[k].window /\ cursor'[k].completed = cursor[k].completed
    BY DEF QuietTables
  <2>2. cursor[k].window \in DOMAIN windows
    BY <2>1 DEF OwnInv, TypeOK, CursorsOK
  <2>. QED
    BY <2>1, <2>2 DEF OwnInv, CursorNamesOpenWindow, QuietTables
<1>2. ASSUME NEW w \in Workers, Holds(w)', turn'[w].phase \in Executing
      PROVE  /\ cursor'[Kind(w)'].window = turn'[w].window
             /\ (Row(w)').state = "open"
             /\ (Row(w)').predecessor = cursor'[Kind(w)'].completed
  <2>1. Holds(w) /\ turn[w].phase \in Executing /\ turn'[w].window = turn[w].window
    BY <1>2 DEF QuietTurns
  <2>2. turn[w].window \in DOMAIN windows /\ Kind(w) \in Kinds
    BY <2>1, TurnRow DEF OwnInv
  <2>3. Kind(w)' = Kind(w) /\ (Row(w)').state = Row(w).state
        /\ (Row(w)').predecessor = Row(w).predecessor
    BY <2>1, <2>2 DEF QuietTables, Kind, Row
  <2>. QED
    BY <2>1, <2>2, <2>3 DEF OwnInv, HolderOwnsWindow, QuietTables
<1>. QED
  BY <1>1, <1>2 DEF HolderOwnsWindow

\* Turns that move to a phase outside execution, or within it, stay quiet.
LEMMA GotoQuiet ==
  ASSUME TypeOK, NEW w \in Workers, NEW p \in Phases, Goto(w, p), UNCHANGED lease,
         p \in Executing => turn[w].phase \in Executing
  PROVE  QuietTurns
<1>1. turn'[w].phase = p /\ turn'[w].window = turn[w].window
  BY DEF Goto, TypeOK, TurnsOK, Turn
<1>2. \A v \in Workers \ {w} : turn'[v] = turn[v]
  BY DEF Goto, TypeOK, TurnsOK
<1>. QED
  BY <1>1, <1>2 DEF QuietTurns, Holds

\* A turn that ends executes nothing.
LEMMA EndedQuiet ==
  ASSUME TypeOK, NEW w \in Workers, Ended(w),
         lease' = lease \/ ~lease'.live
  PROVE  QuietTurns
<1>1. turn'[w].phase = "idle" /\ \A v \in Workers \ {w} : turn'[v] = turn[v]
  BY DEF Ended, IdleTurn, TypeOK, TurnsOK
<1>. QED
  BY <1>1 DEF QuietTurns, Holds

\* When the step leaves no worker a live lease, nobody can violate the fence.
LEMMA UnheldQuiet ==
  ASSUME \A w \in Workers : ~Holds(w)'
  PROVE  HolderOwnsWindow'
BY DEF HolderOwnsWindow

\* Charging a failure to a cursor leaves its window in place (retry_extraction,
\* wait_for_provider, fail_input_budget).
LEMMA ChargeOwns ==
  ASSUME OwnInv, NEW w \in Workers, turn[w].phase \in Executing, NEW n, NEW retry, NEW error,
         Charge(w, n, retry, error),
         \A i \in DOMAIN windows :
           /\ i \in DOMAIN windows'
           /\ windows'[i].kind = windows[i].kind
           /\ windows'[i].state = windows[i].state
           /\ windows'[i].predecessor = windows[i].predecessor
  PROVE  CursorNamesOpenWindow' /\ HolderOwnsWindow'
<1>1. Kind(w) \in Kinds
  BY TurnRow DEF OwnInv
<1>2. \A k \in Kinds : cursor'[k].window = cursor[k].window
                       /\ cursor'[k].completed = cursor[k].completed
  BY <1>1 DEF Charge, OwnInv, TypeOK, CursorsOK, Cursor
<1>3. QuietTables
  BY <1>2 DEF QuietTables
<1>4. QuietTurns
  BY EndedQuiet DEF Charge, FreeRow, NoLease, OwnInv
<1>. QED
  BY <1>3, <1>4, QuietStep

\* Publications, session ends and erasures move no cursor.
LEMMA ArriveOwns ==
  ASSUME OwnInv, Arrive
  PROVE  CursorNamesOpenWindow' /\ HolderOwnsWindow'
<1>1. QuietTurns
  BY DEF Arrive, AdmitExtraction, FinalizeSession, EraseInput, QuietTurns, Holds
<1>2. QuietTables
  <2>1. CASE \E a \in Admissions : AdmitExtraction(a)
    BY <2>1 DEF AdmitExtraction, QuietTables
  <2>2. CASE \E s \in Sessions : FinalizeSession(s)
    BY <2>2 DEF FinalizeSession, QuietTables
  <2>3. ASSUME NEW s \in live, EraseInput(s)
        PROVE  QuietTables
    <3>1. cursor' = cursor /\ DOMAIN windows' = DOMAIN windows
      BY <2>3 DEF EraseInput
    <3>2. ASSUME NEW i \in DOMAIN windows
          PROVE  /\ windows'[i].kind = windows[i].kind
                 /\ windows'[i].state = windows[i].state
                 /\ windows'[i].predecessor = windows[i].predecessor
      <4>1. windows[i] \in Window
        BY DEF OwnInv, TypeOK, WindowsOK
      <4>2. \/ windows'[i] = windows[i]
            \/ windows'[i] = [windows[i] EXCEPT !.invalidated = TRUE, !.saved = FALSE]
        BY <2>3 DEF EraseInput
      <4>. QED
        BY <4>1, <4>2 DEF Window
    <3>. QED
      BY <3>1, <3>2 DEF QuietTables
  <2>. QED
    BY <2>1, <2>2, <2>3 DEF Arrive
<1>. QED
  BY <1>1, <1>2, QuietStep

\* Neither does time: an expiring lease only takes the right to write away.
LEMMA PassOwns ==
  ASSUME OwnInv, Pass
  PROVE  CursorNamesOpenWindow' /\ HolderOwnsWindow'
<1>1. QuietTurns
  BY DEF Pass, LeaseLapses, WorkDue, BacklogAges, RetryDue, EffectsDue, DeadlinePasses,
         workRow, QuietTurns, Holds, OwnInv, TypeOK
<1>2. QuietTables
  <2>1. CASE LeaseLapses \/ WorkDue \/ BacklogAges
    BY <2>1 DEF LeaseLapses, WorkDue, BacklogAges, QuietTables
  <2>2. ASSUME NEW k \in Kinds, RetryDue(k)
        PROVE  QuietTables
    BY <2>2 DEF RetryDue, QuietTables, OwnInv, TypeOK, CursorsOK, Cursor
  <2>3. ASSUME NEW i \in DOMAIN windows, EffectsDue(i)
        PROVE  QuietTables
    BY <2>3 DEF EffectsDue, QuietTables, OwnInv, TypeOK, WindowsOK, Window
  <2>4. ASSUME NEW i \in DOMAIN requests, DeadlinePasses(i)
        PROVE  QuietTables
    BY <2>4 DEF DeadlinePasses, QuietTables
  <2>. QED
    BY <2>1, <2>2, <2>3, <2>4 DEF Pass
<1>. QED
  BY <1>1, <1>2, QuietStep

\* An operator moves a cursor only while no worker passes the fence
\* (rearm_exhausted_extraction, retire_extraction_window).
LEMMA OperateOwns ==
  ASSUME OwnInv, Operate
  PROVE  CursorNamesOpenWindow' /\ HolderOwnsWindow'
<1>. USE DEF OwnInv
<1>1. CASE ClaimUserExtraction \/ ReleaseUserExtraction \/ OperatorCrash
  <2>1. QuietTables
    BY <1>1 DEF ClaimUserExtraction, ReleaseUserExtraction, OperatorCrash, QuietTables
  <2>2. QuietTurns
    BY <1>1, StreamAssumption
       DEF ClaimUserExtraction, ReleaseUserExtraction, OperatorCrash, workRow, NoLease,
           QuietTurns, Holds
  <2>. QED
    BY <2>1, <2>2, QuietStep
<1>2. ASSUME NEW k \in Kinds, RearmHeld(k)
      PROVE  CursorNamesOpenWindow' /\ HolderOwnsWindow'
  <2>1. QuietTables
    BY <1>2 DEF RearmHeld, QuietTables, TypeOK, CursorsOK, Cursor
  <2>2. QuietTurns
    BY <1>2 DEF RearmHeld, QuietTurns, Holds
  <2>. QED
    BY <2>1, <2>2, QuietStep
<1>3. ASSUME NEW k \in Kinds, RetireWindow(k)
      PROVE  CursorNamesOpenWindow' /\ HolderOwnsWindow'
  <2>. DEFINE i == cursor[k].window
  <2>1. \A w \in Workers : ~Holds(w)'
    BY <1>3, StreamAssumption DEF RetireWindow, Held, Holds
  <2>2. HolderOwnsWindow'
    BY <2>1, UnheldQuiet
  <2>3. i \in DOMAIN windows /\ windows[i].kind = k
    BY <1>3 DEF RetireWindow, Held, TypeOK, CursorsOK, CursorNamesOpenWindow
  <2>4. cursor'[k].window = NoWindow /\ \A j \in Kinds \ {k} : cursor'[j] = cursor[j]
    BY <1>3 DEF RetireWindow, PassedBy, TypeOK, CursorsOK
  <2>5. \A m \in DOMAIN windows \ {i} : windows'[m] = windows[m]
    BY <1>3 DEF RetireWindow, TypeOK, WindowsOK
  <2>6. ASSUME NEW j \in Kinds \ {k} PROVE cursor[j].window # i
    <3>1. i # NoWindow
      BY <1>3 DEF RetireWindow, Held
    <3>. QED
      BY <2>3, <3>1 DEF CursorNamesOpenWindow
  <2>7. CursorNamesOpenWindow'
    <3>. SUFFICES ASSUME NEW j \in Kinds, cursor'[j].window # NoWindow
                  PROVE  /\ windows'[cursor'[j].window].kind = j
                         /\ windows'[cursor'[j].window].state = "open"
                         /\ windows'[cursor'[j].window].predecessor = cursor'[j].completed
      BY DEF CursorNamesOpenWindow
    <3>1. j # k /\ cursor'[j] = cursor[j] /\ cursor[j].window \in DOMAIN windows \ {i}
      BY <2>4, <2>6 DEF TypeOK, CursorsOK
    <3>. QED
      BY <2>5, <3>1 DEF CursorNamesOpenWindow
  <2>. QED
    BY <2>2, <2>7
<1>. QED
  BY <1>1, <1>2, <1>3 DEF Operate

\* Delivery works on completed rows and moves no cursor.
LEMMA DeliverOwns ==
  ASSUME OwnInv, NEW w \in Workers, Deliver(w)
  PROVE  CursorNamesOpenWindow' /\ HolderOwnsWindow'
<1>. USE DEF OwnInv
<1>1. QuietTurns
  BY GotoQuiet DEF Deliver, Bill, LoadEffectInputs, ClaimExtractionDerived, EmitDerived,
                   AckExtractionEffects, RetryEffects, workRow
<1>2. QuietTables
  <2>1. CASE Bill(w) \/ LoadEffectInputs(w) \/ EmitDerived(w)
    BY <2>1 DEF Bill, LoadEffectInputs, EmitDerived, QuietTables
  <2>2. ASSUME NEW r,
               turn[w].window \in DOMAIN windows =>
                 /\ r.kind = Row(w).kind /\ r.state = Row(w).state
                 /\ r.predecessor = Row(w).predecessor,
               windows' = [windows EXCEPT ![turn[w].window] = r], cursor' = cursor
        PROVE  QuietTables
    BY <2>2 DEF QuietTables, Row, TypeOK, WindowsOK
  <2>3. CASE ClaimExtractionDerived(w)
    BY <2>3, <2>2, TurnRow DEF ClaimExtractionDerived, Row, Window
  <2>4. CASE AckExtractionEffects(w)
    BY <2>4, <2>2, TurnRow DEF AckExtractionEffects, Row, Window
  <2>5. CASE RetryEffects(w)
    BY <2>5, <2>2, TurnRow DEF RetryEffects, PostponeEffects, Row, Window
  <2>. QED
    BY <2>1, <2>3, <2>4, <2>5 DEF Deliver
<1>. QED
  BY <1>1, <1>2, QuietStep

\* Every failure path keeps the fence.
LEMMA FailOwns ==
  ASSUME OwnInv, NEW w \in Workers, Fail(w)
  PROVE  CursorNamesOpenWindow' /\ HolderOwnsWindow'
<1>. USE DEF OwnInv
<1>1. CASE RetryExtraction(w) \/ WaitForProvider(w) \/ FailInputBudget(w) \/ SuspendExtraction(w)
  <2>1. turn[w].phase \in Executing /\ windows' = windows
    BY <1>1 DEF RetryExtraction, WaitForProvider, FailInputBudget, SuspendExtraction
  <2>2. \E n, retry, error : Charge(w, n, retry, error)
    BY <1>1, Zenon DEF RetryExtraction, WaitForProvider, FailInputBudget, SuspendExtraction
  <2>. QED
    BY <2>1, <2>2, ChargeOwns
<1>2. CASE DiscardComputation(w)
  <2>1. turn[w].phase \in Executing
        /\ windows' = [windows EXCEPT ![turn[w].window].saved = FALSE]
    BY <1>2 DEF DiscardComputation
  <2>2. \E n, retry, error : Charge(w, n, retry, error)
    BY <1>2, Zenon DEF DiscardComputation
  <2>3. \A i \in DOMAIN windows :
           /\ i \in DOMAIN windows'
           /\ windows'[i].kind = windows[i].kind
           /\ windows'[i].state = windows[i].state
           /\ windows'[i].predecessor = windows[i].predecessor
    BY <2>1 DEF TypeOK, WindowsOK, Window
  <2>. QED
    BY <2>1, <2>2, <2>3, ChargeOwns
<1>3. CASE YieldTurn(w) \/ Crash(w)
  <2>1. QuietTables
    BY <1>3 DEF YieldTurn, Crash, QuietTables
  <2>2. QuietTurns
    BY <1>3, EndedQuiet DEF YieldTurn, Crash, FreeRow, NoLease, workRow
  <2>. QED
    BY <2>1, <2>2, QuietStep
<1>4. CASE DeferSetup(w) \/ FailStale(w) \/ LoseLease(w)
  <2>1. QuietTurns
    BY <1>4, GotoQuiet DEF DeferSetup, FailStale, LoseLease, workRow
  <2>2. QuietTables
    <3>1. CASE DeferSetup(w) \/ LoseLease(w)
      BY <3>1 DEF DeferSetup, LoseLease, QuietTables
    <3>2. CASE FailStale(w)
      BY <3>2 DEF FailStale, PostponeEffects, QuietTables, TypeOK, WindowsOK, Window
    <3>. QED
      BY <1>4, <3>1, <3>2
  <2>. QED
    BY <2>1, <2>2, QuietStep
<1>. QED
  BY <1>1, <1>2, <1>3, <1>4 DEF Fail

\* A window handed to a turn is the one its cursor names, and open
\* (prepare_extraction).
LEMMA PrepareOwns ==
  ASSUME OwnInv, NEW w \in Workers, PrepareWindow(w)
  PROVE  CursorNamesOpenWindow' /\ HolderOwnsWindow'
<1>. USE DEF OwnInv
<1>1. PICK k \in Kinds : ResumeWindow(w, k) \/ CutWindow(w, k)
  BY DEF PrepareWindow
<1>2. Holds(w) /\ lease' = lease
  BY DEF PrepareWindow, workRow
<1>3. \A v \in Workers \ {w} : ~Holds(v)'
  BY <1>2 DEF Holds
<1>4. CASE ResumeWindow(w, k)
  <2>. DEFINE i == cursor[k].window
  <2>1. turn'[w].window = i
    BY <1>4 DEF ResumeWindow, Take, TypeOK, TurnsOK
  <2>2. i \in DOMAIN windows /\ windows[i].kind = k /\ windows[i].state = "open"
        /\ windows[i].predecessor = cursor[k].completed
    BY <1>4 DEF ResumeWindow, CursorNamesOpenWindow, TypeOK, CursorsOK
  <2>3. CursorNamesOpenWindow'
    BY <1>4 DEF ResumeWindow, CursorNamesOpenWindow
  <2>4. HolderOwnsWindow'
    BY <1>3, <1>4, <2>1, <2>2 DEF ResumeWindow, HolderOwnsWindow, Kind, Row
  <2>. QED
    BY <2>3, <2>4
<1>5. CASE CutWindow(w, k)
  <2>. DEFINE id == CHOOSE i \in WindowIds \ DOMAIN windows : TRUE
  <2>1. id \in WindowIds /\ id \notin DOMAIN windows
    BY <1>5 DEF CutWindow
  <2>. DEFINE pos == cursor[k].completed
              man == Manifest(requests, live, k, pos, cursor[k].started)
              new == NewInputs(requests, live, k, pos, cursor[k].started)
  <2>2. PICK end \in new :
          /\ windows' = [i \in DOMAIN windows \cup {id} |->
               IF i # id THEN windows[i]
               ELSE [kind |-> k, predecessor |-> pos, end |-> end, manifest |-> man,
                     state |-> "open", saved |-> FALSE, invalidated |-> FALSE,
                     owed |-> FALSE, effectsRetry |-> "due", derived |-> FALSE]]
          /\ cursor' = [cursor EXCEPT ![k].window = id]
          /\ Take(w, id, k, FALSE)
    BY <1>5, Zenon DEF CutWindow
  <2>. HIDE DEF id, man, new
  <2>3. windows'[id].kind = k /\ windows'[id].state = "open"
        /\ windows'[id].predecessor = cursor[k].completed
    BY <2>2
  <2>4. \A i \in DOMAIN windows : windows'[i] = windows[i]
    BY <2>1, <2>2
  <2>5. cursor'[k].window = id /\ cursor'[k].completed = cursor[k].completed
        /\ \A j \in Kinds \ {k} : cursor'[j] = cursor[j]
    BY <2>2 DEF TypeOK, CursorsOK, Cursor
  <2>6. turn'[w].window = id
    BY <2>2 DEF Take, TypeOK, TurnsOK
  <2>7. CursorNamesOpenWindow'
    <3>. SUFFICES ASSUME NEW j \in Kinds, cursor'[j].window # NoWindow
                  PROVE  /\ windows'[cursor'[j].window].kind = j
                         /\ windows'[cursor'[j].window].state = "open"
                         /\ windows'[cursor'[j].window].predecessor = cursor'[j].completed
      BY DEF CursorNamesOpenWindow
    <3>1. CASE j = k
      BY <2>3, <2>5, <3>1
    <3>2. CASE j # k
      BY <2>4, <2>5, <3>2 DEF CursorNamesOpenWindow, TypeOK, CursorsOK
    <3>. QED
      BY <3>1, <3>2
  <2>8. HolderOwnsWindow'
    BY <1>3, <2>3, <2>5, <2>6 DEF HolderOwnsWindow, Kind, Row
  <2>. QED
    BY <2>7, <2>8
<1>. QED
  BY <1>1, <1>4, <1>5

\* A step that frees the row takes the fence from everyone, and a cursor that
\* lets go of the window i leaves the other cursors theirs.
LEMMA DropOwns ==
  ASSUME OwnInv, FreeRow, NEW i \in DOMAIN windows, NEW k \in Kinds, windows[i].kind = k,
         NEW c, cursor' = [cursor EXCEPT ![k] = c],
         \/ c.window = NoWindow
         \/ c.window = cursor[k].window /\ c.completed = cursor[k].completed /\ c.window # i,
         NEW r, windows' = [windows EXCEPT ![i] = r]
  PROVE  CursorNamesOpenWindow' /\ HolderOwnsWindow'
<1>. USE DEF OwnInv
<1>1. HolderOwnsWindow'
  BY UnheldQuiet DEF FreeRow, NoLease, Holds
<1>2. cursor'[k] = c /\ \A j \in Kinds \ {k} : cursor'[j] = cursor[j]
  BY DEF TypeOK, CursorsOK
<1>3. \A m \in DOMAIN windows \ {i} : windows'[m] = windows[m]
  OBVIOUS
<1>4. CursorNamesOpenWindow'
  <2>. SUFFICES ASSUME NEW j \in Kinds, cursor'[j].window # NoWindow
                PROVE  /\ windows'[cursor'[j].window].kind = j
                       /\ windows'[cursor'[j].window].state = "open"
                       /\ windows'[cursor'[j].window].predecessor = cursor'[j].completed
    BY DEF CursorNamesOpenWindow
  <2>1. /\ cursor'[j].window = cursor[j].window /\ cursor'[j].completed = cursor[j].completed
        /\ cursor[j].window # i
    <3>1. CASE j = k
      BY <1>2, <3>1
    <3>2. CASE j # k
      BY <1>2, <3>2 DEF CursorNamesOpenWindow
    <3>. QED
      BY <3>1, <3>2
  <2>2. cursor[j].window \in DOMAIN windows \ {i}
    BY <2>1 DEF TypeOK, CursorsOK
  <2>. QED
    BY <1>3, <2>1, <2>2 DEF CursorNamesOpenWindow
<1>. QED
  BY <1>1, <1>4

\* Every step of a turn, from the claim to the release, keeps the fence.
LEMMA ExecuteOwns ==
  ASSUME OwnInv, NEW w \in Workers, Execute(w)
  PROVE  CursorNamesOpenWindow' /\ HolderOwnsWindow'
<1>. DEFINE i == turn[w].window
            k == Kind(w)
<1>. USE DEF OwnInv
<1>1. CASE ClaimExtraction(w)
  <2>1. QuietTables
    BY <1>1 DEF ClaimExtraction, QuietTables
  <2>2. turn'[w].phase = "claimed" /\ \A v \in Workers \ {w} : ~Holds(v)'
    BY <1>1 DEF ClaimExtraction, Goto, Holds, TypeOK, TurnsOK, Turn
  <2>3. QuietTurns
    BY <2>2 DEF QuietTurns
  <2>. QED
    BY <2>1, <2>3, QuietStep
<1>2. CASE PendingExtractionEffects(w)
  <2>1. QuietTables
    BY <1>2 DEF PendingExtractionEffects, QuietTables
  <2>2. turn'[w].phase \in {"billing", "selecting"} /\ lease' = lease
        /\ \A v \in Workers \ {w} : turn'[v] = turn[v]
    <3>1. CASE Goto(w, "selecting")
      BY <1>2, <3>1 DEF PendingExtractionEffects, Goto, workRow, TypeOK, TurnsOK, Turn
    <3>2. ASSUME NEW j, turn' = [turn EXCEPT ![w] = [@ EXCEPT !.phase = "billing", !.window = j]]
          PROVE  turn'[w].phase = "billing" /\ \A v \in Workers \ {w} : turn'[v] = turn[v]
      BY <3>2 DEF TypeOK, TurnsOK, Turn
    <3>. QED
      BY <1>2, <3>1, <3>2 DEF PendingExtractionEffects, workRow
  <2>3. QuietTurns
    BY <2>2 DEF QuietTurns, Holds
  <2>. QED
    BY <2>1, <2>3, QuietStep
<1>3. CASE PrepareWindow(w)
  BY <1>3, PrepareOwns
<1>4. CASE PrepareNothing(w) \/ FinishCommitted(w) \/ ReleaseTurn(w)
  <2>1. QuietTables
    BY <1>4 DEF PrepareNothing, FinishCommitted, ReleaseTurn, QuietTables
  <2>2. QuietTurns
    BY <1>4, EndedQuiet DEF PrepareNothing, FinishCommitted, ReleaseTurn, NoLease, workRow
  <2>. QED
    BY <2>1, <2>2, QuietStep
<1>5. CASE BeginExtractionAttempt(w)
  <2>1. k \in Kinds /\ turn[w].phase = "prepared" /\ lease' = lease
    BY <1>5, TurnRow DEF BeginExtractionAttempt, workRow
  <2>2. turn'[w].window = i /\ \A v \in Workers \ {w} : turn'[v] = turn[v]
    BY <1>5 DEF BeginExtractionAttempt, TypeOK, TurnsOK, Turn
  <2>3. QuietTurns
    BY <2>1, <2>2 DEF QuietTurns, Holds
  <2>4. cursor[k] \in Cursor /\ \A j \in Kinds \ {k} : cursor'[j] = cursor[j]
    BY <1>5, <2>1 DEF BeginExtractionAttempt, TypeOK, CursorsOK
  <2>5. cursor'[k].window = cursor[k].window /\ cursor'[k].completed = cursor[k].completed
    BY <1>5, <2>1, <2>4 DEF BeginExtractionAttempt, Debit, TypeOK, CursorsOK, Cursor
  <2>6. windows' = windows
    BY <1>5 DEF BeginExtractionAttempt
  <2>7. QuietTables
    BY <2>4, <2>5, <2>6 DEF QuietTables
  <2>. QED
    BY <2>3, <2>7, QuietStep
<1>6. CASE BeginOverflowWindow(w) \/ ComputeReturns(w) \/ AdoptSavedOutcome(w) \/ DiscoverErasure(w)
  <2>1. QuietTables
    BY <1>6 DEF BeginOverflowWindow, ComputeReturns, AdoptSavedOutcome, DiscoverErasure,
                QuietTables
  <2>2. QuietTurns
    BY <1>6, GotoQuiet DEF BeginOverflowWindow, ComputeReturns, AdoptSavedOutcome,
                           DiscoverErasure, workRow
  <2>. QED
    BY <2>1, <2>2, QuietStep
<1>7. CASE SaveExtractionOutcome(w)
  <2>1. QuietTurns
    BY <1>7, GotoQuiet DEF SaveExtractionOutcome, workRow
  <2>2. k \in Kinds /\ i \in DOMAIN windows
    BY <1>7, TurnRow DEF SaveExtractionOutcome
  <2>3. \A j \in Kinds : cursor'[j].window = cursor[j].window
                         /\ cursor'[j].completed = cursor[j].completed
    BY <1>7, <2>2 DEF SaveExtractionOutcome, TypeOK, CursorsOK, Cursor
  <2>4. windows' = [windows EXCEPT ![i].saved = TRUE]
    BY <1>7 DEF SaveExtractionOutcome
  <2>5. QuietTables
    BY <2>3, <2>4 DEF QuietTables, TypeOK, WindowsOK, Window
  <2>. QED
    BY <2>1, <2>5, QuietStep
<1>8. CASE PublishWindow(w)
  <2>. DEFINE c == PassedBy(Row(w).end)
              r == [windows[i] EXCEPT !.state = "completed", !.owed = TRUE]
  <2>1. k \in Kinds /\ i \in DOMAIN windows /\ windows[i].kind = k
    BY <1>8, TurnRow DEF PublishWindow, Kind, Row
  <2>2. FreeRow /\ cursor' = [cursor EXCEPT ![k] = c] /\ windows' = [windows EXCEPT ![i] = r]
    BY <1>8 DEF PublishWindow
  <2>3. c.window = NoWindow
    BY DEF PassedBy
  <2>. QED
    BY <2>1, <2>2, <2>3, DropOwns
<1>9. CASE InvalidateExtraction(w)
  <2>. DEFINE c == [cursor[k] EXCEPT !.window = IF @ = i THEN NoWindow ELSE @]
              r == [windows[i] EXCEPT !.state = IF @ = "open" THEN "erased" ELSE @]
  <2>1. k \in Kinds /\ i \in DOMAIN windows /\ windows[i].kind = k
    BY <1>9, TurnRow DEF InvalidateExtraction, Kind, Row
  <2>2. FreeRow /\ cursor' = [cursor EXCEPT ![k] = c] /\ windows' = [windows EXCEPT ![i] = r]
    BY <1>9 DEF InvalidateExtraction
  <2>3. \/ c.window = NoWindow
        \/ c.window = cursor[k].window /\ c.completed = cursor[k].completed /\ c.window # i
    BY <2>1 DEF TypeOK, CursorsOK, Cursor
  <2>. QED
    BY <2>1, <2>2, <2>3, DropOwns
<1>. QED
  BY <1>1, <1>2, <1>3, <1>4, <1>5, <1>6, <1>7, <1>8, <1>9 DEF Execute

\* However turns, crashes, expiries, erasures and operators interleave, a turn
\* whose token passes the fence executes the open window of its cursor.
THEOREM FencedTurn == Spec => [](CursorNamesOpenWindow /\ HolderOwnsWindow)
<1>1. Init => OwnInv
  <2>. SUFFICES ASSUME Init PROVE OwnInv
    OBVIOUS
  <2>1. CursorNamesOpenWindow
    BY DEF Init, CursorNamesOpenWindow
  <2>2. HolderOwnsWindow
    BY DEF Init, HolderOwnsWindow, Holds
  <2>. QED
    BY <2>1, <2>2, InitTypes DEF OwnInv
<1>2. OwnInv /\ [Next]_vars => OwnInv'
  <2>. SUFFICES ASSUME OwnInv, [Next]_vars
                PROVE  OwnInv'
    OBVIOUS
  <2>1. TypeOK'
    BY NextTypes DEF OwnInv
  <2>2. CASE UNCHANGED vars
    BY <2>1, <2>2 DEF vars, OwnInv, CursorNamesOpenWindow, HolderOwnsWindow, Holds, Kind, Row
  <2>3. CASE Next
    <3>1. CursorNamesOpenWindow' /\ HolderOwnsWindow'
      BY <2>3, ExecuteOwns, DeliverOwns, FailOwns, OperateOwns, ArriveOwns, PassOwns DEF Next
    <3>. QED
      BY <2>1, <3>1 DEF OwnInv
  <2>. QED
    BY <2>2, <2>3
<1>3. OwnInv => CursorNamesOpenWindow /\ HolderOwnsWindow
  BY DEF OwnInv
<1>. QED
  BY <1>1, <1>2, <1>3, PTL DEF Spec

-----------------------------------------------------------------------------
(* Effects: the derived work of a window is handed off at most once.       *)

Emitting(w, i) == turn[w].phase = "emitting" /\ turn[w].window = i

\* A window without a claim has handed nothing off and nobody is about to; a
\* turn about to hand off is alone and the first; turns past billing billed.
HandoffInv ==
  /\ \A i \in WindowIds : i \notin DOMAIN windows => emitted[i] = 0
  /\ \A i \in DOMAIN windows :
       ~windows[i].derived => emitted[i] = 0 /\ \A w \in Workers : ~Emitting(w, i)
  /\ \A i \in WindowIds, w \in Workers :
       Emitting(w, i) => emitted[i] = 0 /\ \A v \in Workers \ {w} : ~Emitting(v, i)
  /\ \A w \in Workers :
       turn[w].phase \in {"loading", "claiming", "emitting", "acking"}
         => turn[w].window \in billed
  /\ DerivedHandoffAtMostOnce

\* Steps that hand nothing off, unclaim no window and start no delivery.
HandoffFrame ==
  /\ emitted' = emitted
  /\ billed \subseteq billed'
  /\ \A i \in DOMAIN windows : i \in DOMAIN windows' /\ (windows[i].derived => windows'[i].derived)
  /\ \A v \in Workers :
       turn'[v].phase \in {"loading", "claiming", "emitting", "acking"} =>
         /\ turn'[v].window = turn[v].window
         /\ turn[v].phase \in {"loading", "claiming", "emitting", "acking"}
              \/ turn[v].window \in billed'
         /\ turn'[v].phase = "emitting" => turn[v].phase = "emitting"

\* A step within the frame preserves the handoff invariant.
LEMMA FrameKeepsHandoff ==
  ASSUME TypeOK, TypeOK', HandoffInv, HandoffFrame
  PROVE  HandoffInv'
<1>1. \A w \in Workers, i \in WindowIds : Emitting(w, i)' => Emitting(w, i)
  BY DEF HandoffFrame, Emitting
<1>2. \A w \in Workers, i \in WindowIds : Emitting(w, i) => i \in DOMAIN windows
  BY DEF Emitting, TypeOK, TurnsOK
<1>3. \A i \in WindowIds : i \notin DOMAIN windows' => emitted'[i] = 0
  BY DEF HandoffFrame, HandoffInv
<1>4. ASSUME NEW i \in DOMAIN windows', ~windows'[i].derived
      PROVE  emitted'[i] = 0 /\ \A w \in Workers : ~Emitting(w, i)'
  <2>1. i \in WindowIds
    BY DEF TypeOK, WindowsOK
  <2>2. CASE i \in DOMAIN windows
    BY <1>1, <1>4, <2>1, <2>2 DEF HandoffFrame, HandoffInv
  <2>3. CASE i \notin DOMAIN windows
    BY <1>1, <1>2, <2>1, <2>3 DEF HandoffFrame, HandoffInv
  <2>. QED
    BY <2>2, <2>3
<1>5. \A i \in WindowIds, w \in Workers :
        Emitting(w, i)' => emitted'[i] = 0 /\ \A v \in Workers \ {w} : ~Emitting(v, i)'
  BY <1>1 DEF HandoffFrame, HandoffInv
<1>6. \A w \in Workers :
        turn'[w].phase \in {"loading", "claiming", "emitting", "acking"}
          => turn'[w].window \in billed'
  BY DEF HandoffFrame, HandoffInv
<1>7. DerivedHandoffAtMostOnce'
  BY DEF HandoffFrame, HandoffInv, DerivedHandoffAtMostOnce
<1>. QED
  BY <1>3, <1>4, <1>5, <1>6, <1>7 DEF HandoffInv

\* No turn enters delivery and no turn in delivery moves.
QuietDelivery ==
  \A v \in Workers :
    \/ turn'[v] = turn[v]
    \/ turn'[v].phase \notin {"loading", "claiming", "emitting", "acking"}

\* A step that keeps rows and deliveries quiet is within the frame.
LEMMA QuietFrame ==
  ASSUME TypeOK, QuietDelivery, UNCHANGED <<emitted, billed>>,
         \A i \in DOMAIN windows : i \in DOMAIN windows' /\ (windows[i].derived => windows'[i].derived)
  PROVE  HandoffFrame
BY DEF QuietDelivery, HandoffFrame

\* A turn that moves to a phase outside delivery leaves the others alone.
LEMMA GotoDelivery ==
  ASSUME TypeOK, NEW w \in Workers, NEW p \in Phases, Goto(w, p)
  PROVE  /\ turn'[w].phase = p /\ turn'[w].window = turn[w].window
         /\ \A v \in Workers \ {w} : turn'[v] = turn[v]
         /\ p \notin {"loading", "claiming", "emitting", "acking"} => QuietDelivery
BY DEF Goto, QuietDelivery, TypeOK, TurnsOK, Turn

\* So does a turn that ends.
LEMMA EndedDelivery ==
  ASSUME TypeOK, NEW w \in Workers, Ended(w)
  PROVE  QuietDelivery
BY DEF Ended, IdleTurn, QuietDelivery, TypeOK, TurnsOK

\* Rewriting rows without clearing a claim.
LEMMA RowKeepsClaim ==
  ASSUME TypeOK, NEW i, NEW r, i \in DOMAIN windows => (windows[i].derived => r.derived),
         windows' = [windows EXCEPT ![i] = r]
  PROVE  \A j \in DOMAIN windows :
           j \in DOMAIN windows' /\ (windows[j].derived => windows'[j].derived)
BY DEF TypeOK, WindowsOK

\* No step of claiming, selecting, computing or publishing hands derived work off
\* or clears a window's claim (prepare_extraction, complete_extraction, ...).
LEMMA ExecuteFrame ==
  ASSUME TypeOK, NEW w \in Workers, Execute(w)
  PROVE  HandoffFrame
<1>. DEFINE i == turn[w].window
            Kept == \A j \in DOMAIN windows :
                      j \in DOMAIN windows' /\ (windows[j].derived => windows'[j].derived)
<1>1. UNCHANGED <<emitted, billed>>
  BY DEF Execute, ClaimExtraction, PendingExtractionEffects, PrepareWindow,
     PrepareNothing, BeginExtractionAttempt, BeginOverflowWindow, ComputeReturns,
     SaveExtractionOutcome, AdoptSavedOutcome, PublishWindow, FinishCommitted,
     DiscoverErasure, InvalidateExtraction, ReleaseTurn, history
<1>2. QuietDelivery
  <2>1. CASE \E p \in Phases \ {"loading", "claiming", "emitting", "acking"} : Goto(w, p)
    BY <2>1, GotoDelivery
  <2>2. CASE Ended(w)
    BY <2>2, EndedDelivery
  <2>3. CASE PendingExtractionEffects(w)
    <3>1. CASE \E j : turn' = [turn EXCEPT ![w] = [@ EXCEPT !.phase = "billing", !.window = j]]
      BY <3>1 DEF QuietDelivery, TypeOK, TurnsOK, Turn
    <3>. QED
      BY <2>1, <2>3, <3>1 DEF PendingExtractionEffects
  <2>4. CASE \E j, k, saved : Take(w, j, k, saved)
    BY <2>4 DEF Take, QuietDelivery, TypeOK, TurnsOK
  <2>5. CASE BeginExtractionAttempt(w)
    BY <2>5 DEF BeginExtractionAttempt, QuietDelivery, TypeOK, TurnsOK, Turn
  <2>6. PrepareWindow(w) => \E j, k, saved : Take(w, j, k, saved)
    BY Zenon DEF PrepareWindow, ResumeWindow, CutWindow
  <2>. QED
    BY <2>1, <2>2, <2>3, <2>4, <2>5, <2>6 DEF Execute, ClaimExtraction,
       PrepareNothing, BeginOverflowWindow, ComputeReturns,
       SaveExtractionOutcome, AdoptSavedOutcome, PublishWindow, FinishCommitted,
       DiscoverErasure, InvalidateExtraction, ReleaseTurn
<1>3. Kept
  <2>1. CASE UNCHANGED windows
    BY <2>1
  <2>2. CASE SaveExtractionOutcome(w)
    BY <2>2, RowKeepsClaim, TurnRow DEF SaveExtractionOutcome, Row, Window
  <2>3. CASE PublishWindow(w)
    BY <2>3, RowKeepsClaim, TurnRow DEF PublishWindow, Row, Window
  <2>4. CASE InvalidateExtraction(w)
    BY <2>4, RowKeepsClaim, TurnRow DEF InvalidateExtraction, Row, Window
  <2>5. ASSUME NEW k \in Kinds, CutWindow(w, k)
        PROVE  Kept
    <3>. DEFINE id == CHOOSE j \in WindowIds \ DOMAIN windows : TRUE
    <3>1. id \notin DOMAIN windows /\ DOMAIN windows' = DOMAIN windows \cup {id}
          /\ \A j \in DOMAIN windows \cup {id} : j # id => windows'[j] = windows[j]
      BY <2>5 DEF CutWindow
    <3>. QED
      BY <3>1
  <2>. QED
    BY <2>1, <2>2, <2>3, <2>4, <2>5 DEF Execute, ClaimExtraction, PendingExtractionEffects,
       PrepareWindow, ResumeWindow, PrepareNothing, BeginExtractionAttempt,
       BeginOverflowWindow, ComputeReturns, AdoptSavedOutcome, FinishCommitted,
       DiscoverErasure, ReleaseTurn
<1>. QED
  BY <1>1, <1>2, <1>3, QuietFrame

\* No failure path hands off or unclaims (_handle_window_failure, RetryExtraction).
LEMMA FailFrame ==
  ASSUME TypeOK, NEW w \in Workers, Fail(w)
  PROVE  HandoffFrame
<1>. DEFINE Kept == \A j \in DOMAIN windows :
                      j \in DOMAIN windows' /\ (windows[j].derived => windows'[j].derived)
<1>1. UNCHANGED <<emitted, billed>>
  BY DEF Fail, Charge, RetryExtraction, WaitForProvider, FailInputBudget, DiscardComputation,
     SuspendExtraction, YieldTurn, DeferSetup, FailStale, LoseLease, Crash, history
<1>2. Ended(w) \/ Goto(w, "ending")
  BY DEF Fail, Charge, RetryExtraction, WaitForProvider, FailInputBudget, DiscardComputation,
     SuspendExtraction, YieldTurn, DeferSetup, FailStale, LoseLease, Crash
<1>3. QuietDelivery
  BY <1>2, EndedDelivery, GotoDelivery
<1>4. Kept
  <2>1. CASE UNCHANGED windows
    BY <2>1
  <2>2. CASE DiscardComputation(w)
    BY <2>2, RowKeepsClaim, TurnRow DEF DiscardComputation, Row, Window
  <2>3. CASE FailStale(w)
    BY <2>3, RowKeepsClaim, TurnRow DEF FailStale, PostponeEffects, Row, Window
  <2>. QED
    BY <2>1, <2>2, <2>3 DEF Fail, RetryExtraction, WaitForProvider, FailInputBudget,
       SuspendExtraction, YieldTurn, DeferSetup, LoseLease, Crash
<1>. QED
  BY <1>1, <1>3, <1>4, QuietFrame

\* Neither do publications, erasures, operator commands or the passage of time.
LEMMA OthersFrame ==
  ASSUME TypeOK, Operate \/ Arrive \/ Pass
  PROVE  HandoffFrame
<1>. DEFINE Kept == \A j \in DOMAIN windows :
                      j \in DOMAIN windows' /\ (windows[j].derived => windows'[j].derived)
<1>1. UNCHANGED <<emitted, billed, turn>>
  BY DEF Operate, Arrive, Pass, ClaimUserExtraction, ReleaseUserExtraction, OperatorCrash,
     RearmHeld, RetireWindow, AdmitExtraction, FinalizeSession, EraseInput, LeaseLapses,
     WorkDue, BacklogAges, RetryDue, EffectsDue, DeadlinePasses, history
<1>2. Kept
  <2>1. CASE UNCHANGED windows
    BY <2>1
  <2>2. ASSUME NEW k \in Kinds, RetireWindow(k)
        PROVE  Kept
    <3>1. cursor[k].window \in DOMAIN windows
      BY <2>2 DEF RetireWindow, Held, TypeOK, CursorsOK
    <3>2. windows[cursor[k].window] \in Window
      BY <3>1 DEF TypeOK, WindowsOK
    <3>. QED
      BY <2>2, <3>2, RowKeepsClaim DEF RetireWindow, Window
  <2>3. ASSUME NEW s \in live, EraseInput(s)
        PROVE  Kept
    <3>. SUFFICES ASSUME NEW j \in DOMAIN windows
                  PROVE  j \in DOMAIN windows' /\ windows'[j].derived = windows[j].derived
      OBVIOUS
    <3>1. windows[j] \in Window
      BY DEF TypeOK, WindowsOK
    <3>2. /\ j \in DOMAIN windows'
          /\ \/ windows'[j] = windows[j]
             \/ windows'[j] = [windows[j] EXCEPT !.invalidated = TRUE, !.saved = FALSE]
      BY <2>3 DEF EraseInput
    <3>. QED
      BY <3>1, <3>2 DEF Window
  <2>4. ASSUME NEW j \in DOMAIN windows, EffectsDue(j)
        PROVE  Kept
    <3>1. windows[j] \in Window
      BY DEF TypeOK, WindowsOK
    <3>. QED
      BY <2>4, <3>1, RowKeepsClaim DEF EffectsDue, Window
  <2>. QED
    BY <2>1, <2>2, <2>3, <2>4 DEF Operate, Arrive, Pass, ClaimUserExtraction,
       ReleaseUserExtraction, OperatorCrash, RearmHeld, AdmitExtraction, FinalizeSession,
       LeaseLapses, WorkDue, BacklogAges, RetryDue, DeadlinePasses, workRow
<1>. QED
  BY <1>1, <1>2, QuietFrame DEF QuietDelivery

\* Each step of deliver keeps the handoff invariant: the claim written by
\* claim_extraction_derived separates the one turn that emits from all others.
LEMMA DeliverHandoff ==
  ASSUME TypeOK, TypeOK', HandoffInv, NEW w \in Workers, Deliver(w)
  PROVE  HandoffInv'
<1>. DEFINE i == turn[w].window
<1>1. CASE Bill(w)
  <2>1. HandoffFrame
    BY <1>1, GotoDelivery DEF Bill, HandoffFrame
  <2>. QED
    BY <2>1, FrameKeepsHandoff
<1>2. CASE LoadEffectInputs(w)
  <2>1. HandoffFrame
    BY <1>2, GotoDelivery DEF LoadEffectInputs, HandoffFrame, history
  <2>. QED
    BY <2>1, FrameKeepsHandoff
<1>3. CASE ClaimExtractionDerived(w) /\ Row(w).derived
  <2>1. \A j \in DOMAIN windows :
          j \in DOMAIN windows' /\ (windows[j].derived => windows'[j].derived)
    BY <1>3, TurnRow DEF ClaimExtractionDerived, TypeOK, WindowsOK, Window
  <2>2. HandoffFrame
    BY <1>3, <2>1, GotoDelivery DEF ClaimExtractionDerived, HandoffFrame, history
  <2>. QED
    BY <2>2, FrameKeepsHandoff
<1>4. CASE ClaimExtractionDerived(w) /\ ~Row(w).derived
  <2>1. i \in DOMAIN windows /\ i \in WindowIds /\ windows[i] \in Window /\ ~windows[i].derived
    BY <1>4, TurnRow DEF ClaimExtractionDerived, Row
  <2>2. emitted[i] = 0 /\ \A v \in Workers : ~Emitting(v, i)
    BY <2>1 DEF HandoffInv
  <2>3. /\ turn'[w].phase = "emitting" /\ turn'[w].window = i
        /\ \A v \in Workers \ {w} : turn'[v] = turn[v]
    BY <1>4, GotoDelivery DEF ClaimExtractionDerived
  <2>4. /\ DOMAIN windows' = DOMAIN windows /\ windows'[i].derived
        /\ \A j \in DOMAIN windows \ {i} : windows'[j] = windows[j]
    BY <1>4, <2>1 DEF ClaimExtractionDerived, TypeOK, WindowsOK, Window
  <2>5. emitted' = emitted /\ billed' = billed /\ i \in billed
    BY <1>4 DEF ClaimExtractionDerived, history, HandoffInv
  <2>6. \A v \in Workers, j \in WindowIds :
          Emitting(v, j)' => (v = w /\ j = i) \/ (v # w /\ j # i /\ Emitting(v, j))
    BY <2>2, <2>3 DEF Emitting
  <2>7. ASSUME NEW j \in DOMAIN windows', ~windows'[j].derived
        PROVE  emitted'[j] = 0 /\ \A v \in Workers : ~Emitting(v, j)'
    BY <2>4, <2>5, <2>6, <2>7 DEF HandoffInv, TypeOK, WindowsOK
  <2>8. \A j \in WindowIds, v \in Workers :
          Emitting(v, j)' => emitted'[j] = 0 /\ \A u \in Workers \ {v} : ~Emitting(u, j)'
    BY <2>2, <2>5, <2>6 DEF HandoffInv
  <2>9. \A v \in Workers :
          turn'[v].phase \in {"loading", "claiming", "emitting", "acking"}
            => turn'[v].window \in billed'
    BY <2>3, <2>5 DEF HandoffInv
  <2>. QED
    BY <2>4, <2>5, <2>7, <2>8, <2>9 DEF HandoffInv, DerivedHandoffAtMostOnce
<1>5. CASE EmitDerived(w)
  <2>1. i \in WindowIds /\ i \in DOMAIN windows /\ Emitting(w, i) /\ i \in billed
    BY <1>5, TurnRow DEF EmitDerived, Emitting, HandoffInv
  <2>2. emitted[i] = 0 /\ \A v \in Workers \ {w} : ~Emitting(v, i)
    BY <2>1 DEF HandoffInv
  <2>3. /\ turn'[w].phase = "acking" /\ turn'[w].window = i
        /\ \A v \in Workers \ {w} : turn'[v] = turn[v]
    BY <1>5, GotoDelivery DEF EmitDerived
  <2>4. /\ emitted'[i] = 1 /\ \A j \in WindowIds \ {i} : emitted'[j] = emitted[j]
    BY <1>5, <2>1, <2>2 DEF EmitDerived, TypeOK
  <2>5. windows' = windows /\ billed' = billed
    BY <1>5 DEF EmitDerived
  <2>6. windows[i].derived
    BY <2>1 DEF HandoffInv
  <2>7. \A v \in Workers, j \in WindowIds : Emitting(v, j)' => j # i /\ Emitting(v, j)
    BY <2>2, <2>3 DEF Emitting
  <2>8. ASSUME NEW j \in DOMAIN windows', ~windows'[j].derived
        PROVE  emitted'[j] = 0 /\ \A v \in Workers : ~Emitting(v, j)'
    BY <2>4, <2>5, <2>6, <2>7, <2>8 DEF HandoffInv, TypeOK, WindowsOK
  <2>9. \A j \in WindowIds, v \in Workers :
          Emitting(v, j)' => emitted'[j] = 0 /\ \A u \in Workers \ {v} : ~Emitting(u, j)'
    BY <2>4, <2>7 DEF HandoffInv
  <2>10. \A j \in WindowIds : j \notin DOMAIN windows' => emitted'[j] = 0
    BY <2>1, <2>4, <2>5 DEF HandoffInv
  <2>11. \A v \in Workers :
          turn'[v].phase \in {"loading", "claiming", "emitting", "acking"}
            => turn'[v].window \in billed'
    BY <2>1, <2>3, <2>5 DEF HandoffInv
  <2>12. DerivedHandoffAtMostOnce'
    BY <2>1, <2>4, <2>5 DEF HandoffInv, DerivedHandoffAtMostOnce
  <2>. QED
    BY <2>8, <2>9, <2>10, <2>11, <2>12 DEF HandoffInv
<1>6. CASE AckExtractionEffects(w)
  <2>1. QuietDelivery
    BY <1>6, GotoDelivery DEF AckExtractionEffects
  <2>2. \A j \in DOMAIN windows :
          j \in DOMAIN windows' /\ (windows[j].derived => windows'[j].derived)
    BY <1>6, RowKeepsClaim, TurnRow DEF AckExtractionEffects, Row, Window
  <2>. QED
    BY <1>6, <2>1, <2>2, QuietFrame, FrameKeepsHandoff DEF AckExtractionEffects, history
<1>7. CASE RetryEffects(w)
  <2>1. QuietDelivery
    BY <1>7, GotoDelivery DEF RetryEffects
  <2>2. \A j \in DOMAIN windows :
          j \in DOMAIN windows' /\ (windows[j].derived => windows'[j].derived)
    BY <1>7, RowKeepsClaim, TurnRow DEF RetryEffects, PostponeEffects, Row, Window
  <2>. QED
    BY <1>7, <2>1, <2>2, QuietFrame, FrameKeepsHandoff DEF RetryEffects, history
<1>. QED
  BY <1>1, <1>2, <1>3, <1>4, <1>5, <1>6, <1>7 DEF Deliver

\* Derived work is handed off at most once and only for billed windows, for
\* any number of workers taking delivery over from one another.
THEOREM HandedOffOnce == Spec => []DerivedHandoffAtMostOnce
<1>1. Init => HandoffInv
  BY DEF Init, HandoffInv, Emitting, IdleTurn, DerivedHandoffAtMostOnce
<1>2. TypeOK /\ TypeOK' /\ HandoffInv /\ [Next]_vars => HandoffInv'
  <2>. SUFFICES ASSUME TypeOK, TypeOK', HandoffInv, [Next]_vars
                PROVE  HandoffInv'
    OBVIOUS
  <2>1. CASE UNCHANGED vars
    BY <2>1 DEF vars, HandoffInv, Emitting, DerivedHandoffAtMostOnce
  <2>2. CASE Next
    <3>1. HandoffFrame => HandoffInv'
      BY FrameKeepsHandoff
    <3>. QED
      BY <2>2, <3>1, ExecuteFrame, FailFrame, OthersFrame, DeliverHandoff DEF Next
  <2>. QED
    BY <2>1, <2>2
<1>3. HandoffInv => DerivedHandoffAtMostOnce
  BY DEF HandoffInv
<1>. QED
  BY <1>1, <1>2, <1>3, TypeCorrect, PTL DEF Spec
=============================================================================
