---------------------- MODULE ExtractionCoverage_proofs ----------------------
(***************************************************************************)
(* What ExtractionStream consumes and publishes: a window takes the first  *)
(* pending inputs without a gap, so publishing it implements one step of   *)
(* the abstract log and nothing eligible is skipped, and a row that is     *)
(* parked for ever has nothing to wake up for.                             *)
(***************************************************************************)
EXTENDS ExtractionStream_proofs

USE DEF Executing, Delivering, Phases, Retries, Errors

-----------------------------------------------------------------------------
(* The log and the windows cut from it.                                    *)

\* Every accepted input of a kind, erased or not.
Wanted(k) ==
  UNION {SeqsOf(requests[i]) : i \in {j \in DOMAIN requests : k \in requests[j].eligible}}

\* Accepted inputs are numbered from one without reuse, and no cursor is ahead.
LogOrdered ==
  /\ Highwater \in 0..MaxSeq
  /\ \A i \in DOMAIN requests : 1 <= requests[i].first /\ requests[i].last <= Highwater
  /\ Sliding(requests)
  /\ live \subseteq 1..Highwater
  /\ \A k \in Kinds : cursor[k].completed <= Highwater

\* An open window holds, behind its predecessor and up to its end, exactly the
\* inputs of its kind that still exist, and possibly some erased since.
Covers(row) ==
  /\ row.end \in row.manifest
  /\ row.predecessor < row.end /\ row.end <= Highwater
  /\ \A s \in row.manifest : s > row.predecessor => s <= row.end /\ s \in Wanted(row.kind)
  /\ \A s \in Wanted(row.kind) \cap live :
       row.predecessor < s /\ s <= row.end => s \in row.manifest
OpenWindowsCover == \A i \in DOMAIN windows : windows[i].state = "open" => Covers(windows[i])

\* Only completed or erased windows have their effects delivered.
DeliveredIsClosed ==
  \A w \in Workers : turn[w].phase \in Delivering => Row(w).state # "open"

\* The inductive invariant of the coverage of the log.
CoverInv == OwnInv /\ LogOrdered /\ OpenWindowsCover /\ DeliveredIsClosed

\* A step leaves every admission its range, its kinds and its window shape.
RequestsKept ==
  /\ Len(requests') = Len(requests)
  /\ \A i \in DOMAIN requests :
       /\ requests'[i].first = requests[i].first /\ requests'[i].last = requests[i].last
       /\ requests'[i].eligible = requests[i].eligible
       /\ requests'[i].width = requests[i].width /\ requests'[i].stride = requests[i].stride

\* A step opens no window and leaves the open ones their inputs.
RowsKept ==
  \A i \in DOMAIN windows' :
    windows'[i].state = "open" =>
      /\ i \in DOMAIN windows /\ windows[i].state = "open"
      /\ windows'[i].kind = windows[i].kind
      /\ windows'[i].predecessor = windows[i].predecessor
      /\ windows'[i].end = windows[i].end
      /\ windows'[i].manifest = windows[i].manifest

\* A step starts the delivery of closed windows only.
DeliveriesKept ==
  \A w \in Workers :
    turn'[w].phase \in Delivering =>
      \/ turn[w].phase \in Delivering /\ turn'[w].window = turn[w].window
      \/ turn'[w].window \in DOMAIN windows /\ windows[turn'[w].window].state # "open"

\* A step that neither accepts nor passes an input.
LogStutters ==
  /\ RequestsKept
  /\ UNCHANGED <<live, published>>
  /\ \A k \in Kinds : cursor'[k].completed = cursor[k].completed

\* Kept admissions keep the numbering and what each kind is to see.
LEMMA KeptRequests ==
  ASSUME TypeOK, TypeOK', RequestsKept
  PROVE  /\ Highwater' = Highwater
         /\ \A k : Wanted(k)' = Wanted(k)
         /\ DOMAIN requests' = DOMAIN requests
<1>1. requests \in Seq(Request) /\ requests' \in Seq(Request)
  BY DEF TypeOK
<1>2. DOMAIN requests' = DOMAIN requests
  BY <1>1 DEF RequestsKept
<1>3. requests' = <<>> <=> requests = <<>>
  BY <1>1, EmptySeq DEF RequestsKept
<1>4. Highwater' = Highwater
  <2>1. CASE requests = <<>>
    BY <1>3, <2>1 DEF Highwater
  <2>2. CASE requests # <<>>
    <3>1. Len(requests) \in DOMAIN requests
      BY <1>1, <2>2, EmptySeq
    <3>. QED
      BY <1>3, <2>2, <3>1 DEF Highwater, RequestsKept
  <2>. QED
    BY <2>1, <2>2
<1>5. \A i \in DOMAIN requests : SeqsOf(requests[i])' = SeqsOf(requests[i])
  BY DEF RequestsKept, SeqsOf
<1>6. \A k : Wanted(k)' = Wanted(k)
  <2>. TAKE k
  <2>. DEFINE J == {j \in DOMAIN requests : k \in requests[j].eligible}
  <2>1. J' = J
    BY <1>2 DEF RequestsKept
  <2>2. Wanted(k)' = UNION {SeqsOf(requests[i])' : i \in J}
    BY <2>1 DEF Wanted
  <2>3. \A i \in J : SeqsOf(requests[i])' = SeqsOf(requests[i])
    BY <1>5
  <2>. QED
    BY <2>2, <2>3 DEF Wanted
<1>. QED
  BY <1>2, <1>4, <1>6

\* A step that keeps the admissions, the open windows and the deliveries keeps
\* the coverage, whatever it erases.
LEMMA FrameCovers ==
  ASSUME CoverInv, OwnInv', RequestsKept, live' \subseteq live, RowsKept, DeliveriesKept,
         \A k \in Kinds : cursor'[k].completed <= Highwater
  PROVE  CoverInv'
<1>. USE DEF CoverInv
<1>1. /\ Highwater' = Highwater /\ DOMAIN requests' = DOMAIN requests
      /\ \A k : Wanted(k)' = Wanted(k)
  BY KeptRequests DEF OwnInv
<1>2. LogOrdered'
  BY <1>1 DEF LogOrdered, RequestsKept, Sliding
<1>3. OpenWindowsCover'
  <2>. SUFFICES ASSUME NEW i \in DOMAIN windows', windows'[i].state = "open"
                PROVE  Covers(windows[i])'
    BY DEF OpenWindowsCover
  <2>1. Covers(windows[i])
    BY DEF RowsKept, OpenWindowsCover
  <2>. QED
    BY <1>1, <2>1 DEF RowsKept, Covers
<1>4. DeliveredIsClosed'
  <2>. SUFFICES ASSUME NEW w \in Workers, turn'[w].phase \in Delivering,
                       (Row(w)').state = "open"
                PROVE  FALSE
    BY DEF DeliveredIsClosed
  <2>1. turn'[w].window \in DOMAIN windows'
    BY DEF OwnInv, TypeOK, TurnsOK
  <2>2. windows[turn'[w].window].state = "open"
    BY <2>1 DEF RowsKept, Row
  <2>. QED
    BY <2>2 DEF DeliveriesKept, DeliveredIsClosed, Row
<1>. QED
  BY <1>2, <1>3, <1>4

\* A step that accepts and passes nothing keeps the coverage.
LEMMA StutterCovers ==
  ASSUME CoverInv, OwnInv', LogStutters, RowsKept, DeliveriesKept
  PROVE  CoverInv'
<1>1. \A k \in Kinds : cursor'[k].completed <= Highwater
  BY DEF CoverInv, LogOrdered, LogStutters
<1>. QED
  BY <1>1, FrameCovers DEF LogStutters

\* Unchanged admissions are kept.
LEMMA SameRequests == ASSUME UNCHANGED requests PROVE RequestsKept
BY DEF RequestsKept

\* Rewriting an admission's deadlines or its session's end keeps the admissions.
LEMMA RequestKept ==
  ASSUME TypeOK, NEW i \in DOMAIN requests, NEW r,
         requests' = [requests EXCEPT ![i] = r],
         r.first = requests[i].first, r.last = requests[i].last,
         r.eligible = requests[i].eligible,
         r.width = requests[i].width, r.stride = requests[i].stride
  PROVE  RequestsKept
<1>1. requests \in Seq(Request)
  BY DEF TypeOK
<1>2. Len(requests') = Len(requests)
  BY <1>1
<1>. QED
  BY <1>1, <1>2 DEF RequestsKept

\* Rewriting one row without opening it or changing its inputs keeps the rows.
LEMMA RowKept ==
  ASSUME TypeOK, NEW i, NEW r, windows' = [windows EXCEPT ![i] = r],
         i \in DOMAIN windows /\ r.state = "open" =>
           /\ windows[i].state = "open"
           /\ r.kind = windows[i].kind /\ r.end = windows[i].end
           /\ r.predecessor = windows[i].predecessor
           /\ r.manifest = windows[i].manifest
  PROVE  RowsKept
BY DEF RowsKept, TypeOK, WindowsOK

\* Moving a turn outside delivery, or within it, starts no delivery.
LEMMA GotoDelivers ==
  ASSUME TypeOK, NEW w \in Workers, NEW p \in Phases, Goto(w, p),
         p \in Delivering => turn[w].phase \in Delivering
  PROVE  DeliveriesKept
<1>1. turn'[w].phase = p /\ turn'[w].window = turn[w].window
      /\ \A v \in Workers \ {w} : turn'[v] = turn[v]
  BY DEF Goto, TypeOK, TurnsOK, Turn
<1>. QED
  BY <1>1 DEF DeliveriesKept

\* Ending a turn starts none either.
LEMMA EndedDelivers ==
  ASSUME TypeOK, NEW w \in Workers, Ended(w)
  PROVE  DeliveriesKept
<1>1. turn'[w].phase = "idle" /\ \A v \in Workers \ {w} : turn'[v] = turn[v]
  BY DEF Ended, IdleTurn, TypeOK, TurnsOK
<1>. QED
  BY <1>1 DEF DeliveriesKept

\* Postponing effects (retry_extraction_effects) touches no input.
LEMMA PostponeKept ==
  ASSUME TypeOK, NEW i, PostponeEffects(i)
  PROVE  RowsKept
<1>. DEFINE r == [windows[i] EXCEPT !.effectsRetry = "later"]
<1>1. windows' = [windows EXCEPT ![i] = r]
  BY DEF PostponeEffects
<1>2. i \in DOMAIN windows => windows[i] \in Window
  BY DEF TypeOK, WindowsOK
<1>3. i \in DOMAIN windows =>
        /\ r.state = windows[i].state /\ r.kind = windows[i].kind /\ r.end = windows[i].end
        /\ r.predecessor = windows[i].predecessor /\ r.manifest = windows[i].manifest
  BY <1>2 DEF Window
<1>. HIDE DEF r
<1>. QED
  BY <1>1, <1>3, RowKept

\* Delivery passes nothing and rewrites closed windows only (ack_extraction_effects).
LEMMA DeliverCovers ==
  ASSUME OwnInv, DeliveredIsClosed, NEW w \in Workers, Deliver(w)
  PROVE  LogStutters /\ RowsKept /\ DeliveriesKept
<1>. USE DEF OwnInv
<1>1. LogStutters
  BY SameRequests DEF Deliver, Bill, LoadEffectInputs, ClaimExtractionDerived, EmitDerived,
     AckExtractionEffects, RetryEffects, log, history, LogStutters
<1>2. DeliveriesKept
  BY GotoDelivers DEF Deliver, Bill, LoadEffectInputs, ClaimExtractionDerived, EmitDerived,
     AckExtractionEffects, RetryEffects
<1>3. RowsKept
  <2>1. CASE Bill(w) \/ LoadEffectInputs(w) \/ EmitDerived(w)
    BY <2>1 DEF Bill, LoadEffectInputs, EmitDerived, RowsKept
  <2>2. CASE ClaimExtractionDerived(w)
    <3>. DEFINE r == [Row(w) EXCEPT !.derived = TRUE]
    <3>1. Row(w) \in Window
      BY <2>2, TurnRow DEF ClaimExtractionDerived
    <3>2. r.state = Row(w).state /\ r.kind = Row(w).kind /\ r.end = Row(w).end
          /\ r.predecessor = Row(w).predecessor /\ r.manifest = Row(w).manifest
      BY <3>1 DEF Window
    <3>3. windows' = [windows EXCEPT ![turn[w].window] = r]
      BY <2>2 DEF ClaimExtractionDerived, Row
    <3>. HIDE DEF r
    <3>. QED
      BY <3>2, <3>3, RowKept DEF Row
  <2>3. CASE AckExtractionEffects(w)
    <3>. DEFINE r == [Row(w) EXCEPT !.owed = FALSE, !.saved = FALSE, !.manifest = {}]
    <3>1. Row(w) \in Window /\ Row(w).state # "open"
      BY <2>3, TurnRow DEF AckExtractionEffects, DeliveredIsClosed
    <3>2. r.state = Row(w).state
      BY <3>1 DEF Window
    <3>3. windows' = [windows EXCEPT ![turn[w].window] = r]
      BY <2>3 DEF AckExtractionEffects, Row
    <3>. HIDE DEF r
    <3>. QED
      BY <3>1, <3>2, <3>3, RowKept
  <2>4. CASE RetryEffects(w)
    BY <2>4, PostponeKept DEF RetryEffects
  <2>. QED
    BY <2>1, <2>2, <2>3, <2>4 DEF Deliver
<1>. QED
  BY <1>1, <1>2, <1>3

\* Charging a failure passes nothing.
LEMMA ChargeCovers ==
  ASSUME OwnInv, NEW w \in Workers, turn[w].phase \in Executing,
         NEW n, NEW retry, NEW error, Charge(w, n, retry, error)
  PROVE  LogStutters /\ DeliveriesKept
<1>1. Kind(w) \in Kinds
  BY TurnRow DEF OwnInv
<1>2. \A k \in Kinds : cursor'[k].completed = cursor[k].completed
  BY <1>1 DEF Charge, OwnInv, TypeOK, CursorsOK, Cursor
<1>3. LogStutters
  BY <1>2, SameRequests DEF Charge, log, LogStutters
<1>4. DeliveriesKept
  BY EndedDelivers DEF Charge, OwnInv
<1>. QED
  BY <1>3, <1>4

\* No failure passes an input or touches a window's inputs.
LEMMA FailCovers ==
  ASSUME OwnInv, NEW w \in Workers, Fail(w)
  PROVE  LogStutters /\ RowsKept /\ DeliveriesKept
<1>. USE DEF OwnInv
<1>1. CASE RetryExtraction(w) \/ WaitForProvider(w) \/ FailInputBudget(w) \/ SuspendExtraction(w)
  <2>1. turn[w].phase \in Executing /\ windows' = windows
    BY <1>1 DEF RetryExtraction, WaitForProvider, FailInputBudget, SuspendExtraction
  <2>2. \E n, retry, error : Charge(w, n, retry, error)
    BY <1>1, Zenon DEF RetryExtraction, WaitForProvider, FailInputBudget, SuspendExtraction
  <2>3. RowsKept
    BY <2>1 DEF RowsKept
  <2>. QED
    BY <2>1, <2>2, <2>3, ChargeCovers
<1>2. CASE DiscardComputation(w)
  <2>. DEFINE r == [Row(w) EXCEPT !.saved = FALSE]
  <2>1. turn[w].phase \in Executing /\ windows' = [windows EXCEPT ![turn[w].window] = r]
    BY <1>2 DEF DiscardComputation, Row
  <2>2. \E n, retry, error : Charge(w, n, retry, error)
    BY <1>2, Zenon DEF DiscardComputation
  <2>3. Row(w) \in Window
    BY <2>1, TurnRow
  <2>4. r.state = Row(w).state /\ r.kind = Row(w).kind /\ r.end = Row(w).end
        /\ r.predecessor = Row(w).predecessor /\ r.manifest = Row(w).manifest
    BY <2>3 DEF Window
  <2>. HIDE DEF r
  <2>5. RowsKept
    BY <2>1, <2>4, RowKept DEF Row
  <2>. QED
    BY <2>1, <2>2, <2>5, ChargeCovers
<1>3. CASE YieldTurn(w) \/ Crash(w)
  <2>1. LogStutters
    BY <1>3, SameRequests DEF YieldTurn, Crash, log, history, LogStutters
  <2>2. RowsKept
    BY <1>3 DEF YieldTurn, Crash, RowsKept
  <2>3. DeliveriesKept
    BY <1>3, EndedDelivers DEF YieldTurn, Crash
  <2>. QED
    BY <2>1, <2>2, <2>3
<1>4. CASE DeferSetup(w) \/ FailStale(w) \/ LoseLease(w)
  <2>1. LogStutters
    BY <1>4, SameRequests DEF DeferSetup, FailStale, LoseLease, log, history, LogStutters
  <2>2. RowsKept
    BY <1>4, PostponeKept DEF DeferSetup, FailStale, LoseLease, RowsKept
  <2>3. DeliveriesKept
    BY <1>4, GotoDelivers DEF DeferSetup, FailStale, LoseLease
  <2>. QED
    BY <2>1, <2>2, <2>3
<1>. QED
  BY <1>1, <1>2, <1>3, <1>4 DEF Fail

\* Time passes no input.
LEMMA PassCovers ==
  ASSUME OwnInv, Pass
  PROVE  LogStutters /\ RowsKept /\ DeliveriesKept
<1>. USE DEF OwnInv
<1>1. DeliveriesKept
  BY DEF Pass, LeaseLapses, WorkDue, BacklogAges, RetryDue, EffectsDue, DeadlinePasses,
         DeliveriesKept
<1>2. CASE LeaseLapses \/ WorkDue \/ BacklogAges
  <2>1. LogStutters
    BY <1>2, SameRequests DEF LeaseLapses, WorkDue, BacklogAges, log, history, LogStutters
  <2>2. RowsKept
    BY <1>2 DEF LeaseLapses, WorkDue, BacklogAges, RowsKept
  <2>. QED
    BY <1>1, <2>1, <2>2
<1>3. ASSUME NEW k \in Kinds, RetryDue(k)
      PROVE  LogStutters /\ RowsKept
  <2>1. \A j \in Kinds : cursor'[j].completed = cursor[j].completed
    BY <1>3 DEF RetryDue, TypeOK, CursorsOK, Cursor
  <2>. QED
    BY <1>3, <2>1, SameRequests DEF RetryDue, log, history, LogStutters, RowsKept
<1>4. ASSUME NEW i \in DOMAIN windows, EffectsDue(i)
      PROVE  LogStutters /\ RowsKept
  <2>. DEFINE r == [windows[i] EXCEPT !.effectsRetry = "due"]
  <2>1. windows' = [windows EXCEPT ![i] = r]
    BY <1>4 DEF EffectsDue
  <2>2. windows[i] \in Window
    BY DEF TypeOK, WindowsOK
  <2>3. r.state = windows[i].state /\ r.kind = windows[i].kind /\ r.end = windows[i].end
        /\ r.predecessor = windows[i].predecessor /\ r.manifest = windows[i].manifest
    BY <2>2 DEF Window
  <2>4. LogStutters
    BY <1>4, SameRequests DEF EffectsDue, log, history, LogStutters
  <2>. HIDE DEF r
  <2>. QED
    BY <2>1, <2>3, <2>4, RowKept
<1>5. ASSUME NEW i \in DOMAIN requests, DeadlinePasses(i)
      PROVE  LogStutters /\ RowsKept
  <2>2. \/ requests' = [requests EXCEPT ![i].idle = "due"]
        \/ requests' = [requests EXCEPT ![i].wait = "due"]
    BY <1>5 DEF DeadlinePasses
  <2>. DEFINE q == [requests[i] EXCEPT !.idle = "due"]
              r == [requests[i] EXCEPT !.wait = "due"]
  <2>3. requests[i] \in Request
    BY DEF TypeOK
  <2>4. /\ q.first = requests[i].first /\ q.last = requests[i].last
        /\ q.eligible = requests[i].eligible
        /\ q.width = requests[i].width /\ q.stride = requests[i].stride
    BY <2>3 DEF Request
  <2>5. /\ r.first = requests[i].first /\ r.last = requests[i].last
        /\ r.eligible = requests[i].eligible
        /\ r.width = requests[i].width /\ r.stride = requests[i].stride
    BY <2>3 DEF Request
  <2>6. requests' = [requests EXCEPT ![i] = q] \/ requests' = [requests EXCEPT ![i] = r]
    BY <2>2
  <2>. HIDE DEF q, r
  <2>7. RequestsKept
    BY <2>4, <2>5, <2>6, RequestKept
  <2>. QED
    BY <1>5, <2>7 DEF DeadlinePasses, history, LogStutters, RowsKept
<1>. QED
  BY <1>1, <1>2, <1>3, <1>4, <1>5 DEF Pass

\* The steps of a turn that neither cut nor publish a window.
QuietExecute(w) ==
  \/ ClaimExtraction(w) \/ PendingExtractionEffects(w) \/ PrepareNothing(w)
  \/ BeginExtractionAttempt(w) \/ BeginOverflowWindow(w) \/ ComputeReturns(w)
  \/ SaveExtractionOutcome(w) \/ AdoptSavedOutcome(w) \/ FinishCommitted(w)
  \/ DiscoverErasure(w) \/ InvalidateExtraction(w) \/ ReleaseTurn(w)

\* They pass no input (begin_extraction_attempt, save_extraction_outcome,
\* invalidate_extraction).
LEMMA ExecuteCovers ==
  ASSUME OwnInv, NEW w \in Workers, QuietExecute(w)
  PROVE  LogStutters /\ RowsKept /\ DeliveriesKept
<1>. DEFINE i == turn[w].window
            k == Kind(w)
<1>. USE DEF OwnInv
<1>1. CASE ClaimExtraction(w) \/ BeginOverflowWindow(w) \/ ComputeReturns(w)
           \/ AdoptSavedOutcome(w) \/ DiscoverErasure(w)
  <2>1. LogStutters
    BY <1>1, SameRequests DEF ClaimExtraction, BeginOverflowWindow, ComputeReturns,
       AdoptSavedOutcome, DiscoverErasure, log, history, LogStutters
  <2>2. RowsKept
    BY <1>1 DEF ClaimExtraction, BeginOverflowWindow, ComputeReturns, AdoptSavedOutcome,
       DiscoverErasure, RowsKept
  <2>3. DeliveriesKept
    BY <1>1, GotoDelivers DEF ClaimExtraction, BeginOverflowWindow, ComputeReturns,
       AdoptSavedOutcome, DiscoverErasure
  <2>. QED
    BY <2>1, <2>2, <2>3
<1>2. CASE PendingExtractionEffects(w)
  <2>1. LogStutters /\ RowsKept
    BY <1>2, SameRequests DEF PendingExtractionEffects, log, history, LogStutters, RowsKept
  <2>2. CASE Goto(w, "selecting")
    BY <2>1, <2>2, GotoDelivers
  <2>3. ASSUME NEW j \in Owed,
               turn' = [turn EXCEPT ![w] = [@ EXCEPT !.phase = "billing", !.window = j]]
        PROVE  DeliveriesKept
    <3>1. turn'[w].window = j /\ \A v \in Workers \ {w} : turn'[v] = turn[v]
      BY <2>3 DEF TypeOK, TurnsOK, Turn
    <3>2. j \in DOMAIN windows /\ windows[j].state # "open"
      BY DEF Owed
    <3>. QED
      BY <3>1, <3>2 DEF DeliveriesKept
  <2>. QED
    BY <1>2, <2>1, <2>2, <2>3 DEF PendingExtractionEffects
<1>3. CASE PrepareNothing(w) \/ FinishCommitted(w) \/ ReleaseTurn(w)
  <2>1. LogStutters
    BY <1>3, SameRequests DEF PrepareNothing, FinishCommitted, ReleaseTurn, log, history,
       LogStutters
  <2>2. RowsKept
    BY <1>3 DEF PrepareNothing, FinishCommitted, ReleaseTurn, RowsKept
  <2>3. DeliveriesKept
    BY <1>3, EndedDelivers DEF PrepareNothing, FinishCommitted, ReleaseTurn
  <2>. QED
    BY <2>1, <2>2, <2>3
<1>4. CASE BeginExtractionAttempt(w)
  <2>1. k \in Kinds /\ turn[w] \in Turn
    BY <1>4, TurnRow DEF BeginExtractionAttempt
  <2>. DEFINE c == Debit(cursor[k], turn[w].attempts + 1)
  <2>2. cursor' = [cursor EXCEPT ![k] = c]
    BY <1>4 DEF BeginExtractionAttempt
  <2>3. cursor[k] \in Cursor /\ cursor \in [Kinds -> Cursor]
    BY <2>1 DEF TypeOK, CursorsOK
  <2>4. c.completed = cursor[k].completed
    BY <2>3 DEF Debit, Cursor
  <2>. HIDE DEF c
  <2>5. \A j \in Kinds : cursor'[j].completed = cursor[j].completed
    BY <2>2, <2>3, <2>4
  <2>6. LogStutters /\ RowsKept
    BY <1>4, <2>5, SameRequests DEF BeginExtractionAttempt, log, LogStutters, RowsKept
  <2>7. turn'[w].phase = "computing" /\ \A v \in Workers \ {w} : turn'[v] = turn[v]
    BY <1>4, <2>1 DEF BeginExtractionAttempt, TypeOK, TurnsOK, Turn
  <2>. QED
    BY <2>6, <2>7 DEF DeliveriesKept
<1>5. CASE SaveExtractionOutcome(w)
  <2>1. k \in Kinds /\ Row(w) \in Window
    BY <1>5, TurnRow DEF SaveExtractionOutcome
  <2>. DEFINE r == [Row(w) EXCEPT !.saved = TRUE]
  <2>2. \A j \in Kinds : cursor'[j].completed = cursor[j].completed
    BY <1>5, <2>1 DEF SaveExtractionOutcome, TypeOK, CursorsOK, Cursor
  <2>3. LogStutters
    BY <1>5, <2>2, SameRequests DEF SaveExtractionOutcome, log, history, LogStutters
  <2>4. r.state = Row(w).state /\ r.kind = Row(w).kind /\ r.end = Row(w).end
        /\ r.predecessor = Row(w).predecessor /\ r.manifest = Row(w).manifest
    BY <2>1 DEF Window
  <2>5. windows' = [windows EXCEPT ![i] = r]
    BY <1>5 DEF SaveExtractionOutcome, Row
  <2>. HIDE DEF r
  <2>6. RowsKept
    BY <2>4, <2>5, RowKept DEF Row
  <2>7. DeliveriesKept
    BY <1>5, GotoDelivers DEF SaveExtractionOutcome
  <2>. QED
    BY <2>3, <2>6, <2>7
<1>6. CASE InvalidateExtraction(w)
  <2>1. k \in Kinds /\ Row(w) \in Window
    BY <1>6, TurnRow DEF InvalidateExtraction
  <2>. DEFINE r == [Row(w) EXCEPT !.state = IF @ = "open" THEN "erased" ELSE @]
  <2>2. \A j \in Kinds : cursor'[j].completed = cursor[j].completed
    BY <1>6, <2>1 DEF InvalidateExtraction, TypeOK, CursorsOK, Cursor
  <2>3. LogStutters
    BY <1>6, <2>2, SameRequests DEF InvalidateExtraction, log, history, LogStutters
  <2>4. r.state # "open"
    BY <2>1 DEF Window
  <2>5. windows' = [windows EXCEPT ![i] = r]
    BY <1>6 DEF InvalidateExtraction, Row
  <2>. HIDE DEF r
  <2>6. RowsKept
    BY <2>4, <2>5, RowKept DEF Row
  <2>7. DeliveriesKept
    BY <1>6, EndedDelivers DEF InvalidateExtraction
  <2>. QED
    BY <2>3, <2>6, <2>7
<1>. QED
  BY <1>1, <1>2, <1>3, <1>4, <1>5, <1>6 DEF QuietExecute

\* Taking, freeing and re-arming by an operator pass no input.
LEMMA OperateCovers ==
  ASSUME OwnInv,
         \/ ClaimUserExtraction \/ ReleaseUserExtraction \/ OperatorCrash
         \/ \E k \in Kinds : RearmHeld(k)
  PROVE  LogStutters /\ RowsKept /\ DeliveriesKept
<1>. USE DEF OwnInv
<1>1. UNCHANGED <<requests, live, windows, turn, published>>
  BY DEF ClaimUserExtraction, ReleaseUserExtraction, OperatorCrash, RearmHeld, log, history
<1>2. \A j \in Kinds : cursor'[j].completed = cursor[j].completed
  <2>1. CASE ClaimUserExtraction \/ ReleaseUserExtraction \/ OperatorCrash
    BY <2>1 DEF ClaimUserExtraction, ReleaseUserExtraction, OperatorCrash, log
  <2>2. ASSUME NEW k \in Kinds, RearmHeld(k)
        PROVE  \A j \in Kinds : cursor'[j].completed = cursor[j].completed
    BY <2>2 DEF RearmHeld, TypeOK, CursorsOK, Cursor
  <2>. QED
    BY <2>1, <2>2
<1>. QED
  BY <1>1, <1>2, SameRequests DEF LogStutters, RowsKept, DeliveriesKept

\* The end of a session passes no input (finalize_session).
LEMMA FinalizeCovers ==
  ASSUME OwnInv, NEW s \in Sessions, FinalizeSession(s)
  PROVE  LogStutters /\ RowsKept /\ DeliveriesKept
<1>. USE DEF OwnInv
<1>1. PICK i \in LatestOfSession(requests, s) :
        requests' = [requests EXCEPT ![i].finished = TRUE]
  BY DEF FinalizeSession
<1>. DEFINE r == [requests[i] EXCEPT !.finished = TRUE]
<1>2. i \in DOMAIN requests
  BY DEF LatestOfSession
<1>3. requests[i] \in Request
  BY <1>2 DEF TypeOK
<1>4. /\ r.first = requests[i].first /\ r.last = requests[i].last
      /\ r.eligible = requests[i].eligible
      /\ r.width = requests[i].width /\ r.stride = requests[i].stride
  BY <1>3 DEF Request
<1>5. requests' = [requests EXCEPT ![i] = r]
  BY <1>1
<1>. HIDE DEF r
<1>6. RequestsKept
  BY <1>2, <1>4, <1>5, RequestKept
<1>. QED
  BY <1>6 DEF FinalizeSession, history, LogStutters, RowsKept, DeliveriesKept

\* An erasure takes one input from the log and no input from a window
\* (trigger invalidate_extraction_input).
LEMMA EraseCovers ==
  ASSUME OwnInv, NEW s \in live, EraseInput(s)
  PROVE  RowsKept /\ DeliveriesKept /\ RequestsKept
<1>. USE DEF OwnInv
<1>1. ASSUME NEW i \in DOMAIN windows
      PROVE  /\ windows'[i].state = windows[i].state /\ windows'[i].kind = windows[i].kind
             /\ windows'[i].predecessor = windows[i].predecessor
             /\ windows'[i].end = windows[i].end /\ windows'[i].manifest = windows[i].manifest
  <2>1. windows[i] \in Window
    BY DEF TypeOK, WindowsOK
  <2>2. \/ windows'[i] = windows[i]
        \/ windows'[i] = [windows[i] EXCEPT !.invalidated = TRUE, !.saved = FALSE]
    BY DEF EraseInput
  <2>. QED
    BY <2>1, <2>2 DEF Window
<1>2. DOMAIN windows' = DOMAIN windows
  BY DEF EraseInput
<1>3. RowsKept
  BY <1>1, <1>2 DEF RowsKept
<1>. QED
  BY <1>3, SameRequests DEF EraseInput, DeliveriesKept

\* What a kind is to see lies within the numbering.
LEMMA WantedIsNumbered ==
  ASSUME TypeOK, LogOrdered
  PROVE  \A k : Wanted(k) \subseteq 1..Highwater
<1>. SUFFICES ASSUME NEW k, NEW i \in DOMAIN requests, NEW s \in SeqsOf(requests[i])
              PROVE  s \in 1..Highwater
  BY DEF Wanted
<1>1. requests[i] \in Request
  BY DEF TypeOK
<1>2. 1 <= requests[i].first /\ requests[i].last <= Highwater /\ Highwater \in Nat
  BY DEF LogOrdered
<1>. QED
  BY <1>1, <1>2 DEF SeqsOf, Request

\* The inputs _select looks at are the accepted ones that survive.
LEMMA InputsAreWanted ==
  \A k : Inputs(requests, live, k) = Wanted(k) \cap live
BY DEF Inputs, Wanted

\* A publication gives its inputs the next numbers and makes them visible to
\* the kinds it is eligible for (admit_extraction).
LEMMA AdmitAppends ==
  ASSUME CoverInv, NEW a \in Admissions, AdmitExtraction(a)
  PROVE  LET first == Highwater + 1
             last  == Highwater + a.size
         IN  /\ first \in 1..MaxSeq /\ last \in first..MaxSeq
             /\ Highwater' = last
             /\ live' = live \cup first..last
             /\ \A k : Wanted(k)' =
                  IF k \in a.eligible THEN Wanted(k) \cup first..last ELSE Wanted(k)
             /\ \A i \in DOMAIN requests' :
                  \/ i \in DOMAIN requests /\ requests'[i] = requests[i]
                  \/ /\ requests'[i].first = first /\ requests'[i].last = last
                     /\ requests'[i].stride <= requests'[i].width
<1>. DEFINE first == Highwater + 1
            last  == Highwater + a.size
            r == [first |-> first, last |-> last, session |-> a.session,
                  eligible |-> a.eligible, force |-> a.force, finished |-> FALSE,
                  width |-> a.width, stride |-> a.stride, idle |-> a.idle, wait |-> a.wait]
            n == Len(requests)
<1>1. requests \in Seq(Request) /\ Highwater \in Nat
  BY HighwaterIsNat DEF CoverInv, OwnInv, TypeOK
<1>2. a.size \in Nat \ {0} /\ a.stride \in 1..a.width /\ a.width \in 1..MaxWidth
  BY StreamAssumption
<1>3. requests' = Append(requests, r) /\ last <= MaxSeq /\ live' = live \cup first..last
  BY DEF AdmitExtraction
<1>4. r.first = first /\ r.last = last /\ r.eligible = a.eligible /\ r.stride <= r.width
  BY <1>2, MaxWidthAssumption
<1>. HIDE DEF r
<1>5. /\ n \in Nat /\ DOMAIN requests = 1..n /\ DOMAIN requests' = 1..(n + 1)
      /\ Len(requests') = n + 1 /\ requests'[n + 1] = r
      /\ \A i \in 1..n : requests'[i] = requests[i]
  BY <1>1, <1>3
<1>6. requests' # <<>>
  BY <1>5
<1>7. Highwater' = last
  BY <1>4, <1>5, <1>6 DEF Highwater
<1>8. ASSUME NEW k
      PROVE  Wanted(k)' = IF k \in a.eligible THEN Wanted(k) \cup first..last ELSE Wanted(k)
  <2>1. \A s : s \in Wanted(k) <=>
          \E j \in 1..n : k \in requests[j].eligible /\ s \in SeqsOf(requests[j])
    BY <1>5 DEF Wanted
  <2>2. \A s : s \in Wanted(k)' <=>
          \E j \in 1..(n + 1) : k \in requests'[j].eligible /\ s \in SeqsOf(requests'[j])
    BY <1>5 DEF Wanted, SeqsOf
  <2>3. SeqsOf(requests'[n + 1]) = first..last /\ requests'[n + 1].eligible = a.eligible
    BY <1>4, <1>5 DEF SeqsOf
  <2>4. 1..(n + 1) = 1..n \cup {n + 1}
    BY <1>5
  <2>. HIDE DEF first, last
  <2>5. \A s : s \in Wanted(k)' <=>
          \/ \E j \in 1..n : k \in requests'[j].eligible /\ s \in SeqsOf(requests'[j])
          \/ k \in requests'[n + 1].eligible /\ s \in SeqsOf(requests'[n + 1])
    BY <2>2, <2>4, Zenon
  <2>6. \A s : s \in Wanted(k)' <=> s \in Wanted(k) \/ (k \in a.eligible /\ s \in first..last)
    BY <1>5, <2>1, <2>3, <2>5
  <2>. QED
    BY <2>6
<1>9. ASSUME NEW i \in DOMAIN requests'
      PROVE  \/ i \in DOMAIN requests /\ requests'[i] = requests[i]
             \/ /\ requests'[i].first = first /\ requests'[i].last = last
                /\ requests'[i].stride <= requests'[i].width
  BY <1>4, <1>5
<1>10. first \in 1..MaxSeq /\ last \in first..MaxSeq
  BY <1>1, <1>2, <1>3, StreamAssumption
<1>. QED
  BY <1>3, <1>7, <1>8, <1>9, <1>10

\* Publications keep the coverage: what they add lies behind every window.
LEMMA AdmitCovers ==
  ASSUME CoverInv, OwnInv', NEW a \in Admissions, AdmitExtraction(a)
  PROVE  CoverInv'
<1>. DEFINE first == Highwater + 1
            last  == Highwater + a.size
<1>1. /\ first \in 1..MaxSeq /\ last \in first..MaxSeq
      /\ Highwater' = last
      /\ live' = live \cup first..last
      /\ \A k : Wanted(k)' =
           IF k \in a.eligible THEN Wanted(k) \cup first..last ELSE Wanted(k)
      /\ \A i \in DOMAIN requests' :
           \/ i \in DOMAIN requests /\ requests'[i] = requests[i]
           \/ /\ requests'[i].first = first /\ requests'[i].last = last
              /\ requests'[i].stride <= requests'[i].width
  BY AdmitAppends
<1>2. UNCHANGED <<cursor, windows, turn>>
  BY DEF AdmitExtraction
<1>3. Highwater \in Nat /\ MaxSeq \in Nat /\ live \subseteq 1..Highwater
  BY StreamAssumption DEF CoverInv, LogOrdered
<1>4. LogOrdered'
  <2>1. Highwater' \in 0..MaxSeq
    <3>1. first \in Nat /\ MaxSeq \in Nat /\ last \in first..MaxSeq /\ Highwater' = last
      BY <1>1, <1>3
    <3>. HIDE DEF first, last
    <3>. QED
      BY <3>1
  <2>2. ASSUME NEW i \in DOMAIN requests'
        PROVE  1 <= requests'[i].first /\ requests'[i].last <= Highwater'
    <3>1. i \in DOMAIN requests => requests[i] \in Request
      BY DEF CoverInv, OwnInv, TypeOK
    <3>. QED
      BY <1>1, <1>3, <3>1 DEF CoverInv, LogOrdered, Request
  <2>3. Sliding(requests)'
    BY <1>1 DEF CoverInv, LogOrdered, Sliding
  <2>4. live' \subseteq 1..Highwater'
    <3>. SUFFICES ASSUME NEW s \in live' PROVE s \in 1..last
      BY <1>1
    <3>1. s \in 1..Highwater \/ s \in first..last
      BY <1>1, <1>3
    <3>2. first \in Nat /\ last \in Nat /\ 1 <= first /\ Highwater < first /\ first <= last
      BY <1>1, <1>3
    <3>. HIDE DEF first, last
    <3>. QED
      BY <1>3, <3>1, <3>2
  <2>5. \A k \in Kinds : cursor'[k].completed <= Highwater'
    <3>. SUFFICES ASSUME NEW k \in Kinds PROVE cursor[k].completed <= last
      BY <1>1, <1>2
    <3>1. cursor[k].completed \in Nat /\ cursor[k].completed <= Highwater
      BY DEF CoverInv, OwnInv, TypeOK, CursorsOK, Cursor, LogOrdered
    <3>. QED
      BY <1>1, <1>3, <3>1
  <2>. QED
    BY <2>1, <2>2, <2>3, <2>4, <2>5 DEF LogOrdered
<1>5. OpenWindowsCover'
  <2>. SUFFICES ASSUME NEW i \in DOMAIN windows, windows[i].state = "open"
                PROVE  Covers(windows[i])'
    BY <1>2 DEF OpenWindowsCover
  <2>0. PICK row, k : row = windows[i] /\ k = row.kind
    OBVIOUS
  <2>1. Covers(row)
    BY <2>0 DEF CoverInv, OpenWindowsCover
  <2>2. row.end \in Nat /\ row.predecessor \in Nat /\ windows'[i] = row
    BY <1>2, <2>0 DEF CoverInv, OwnInv, TypeOK, WindowsOK, Window
  <2>3. row.end <= last
    BY <1>1, <1>3, <2>1, <2>2 DEF Covers
  <2>. HIDE DEF first, last
  <2>4. \A s \in row.manifest : s > row.predecessor => s <= row.end /\ s \in Wanted(k)'
    BY <1>1, <2>0, <2>1 DEF Covers
  <2>5. ASSUME NEW s \in Wanted(k)' \cap live', row.predecessor < s, s <= row.end
        PROVE  s \in row.manifest
    <3>1. s \notin first..last
      BY <1>1, <1>3, <2>1, <2>2, <2>5 DEF Covers, first, last
    <3>2. s \in Wanted(k) \cap live
      BY <1>1, <2>5, <3>1
    <3>. QED
      BY <2>0, <2>1, <2>5, <3>2 DEF Covers
  <2>6. Covers(row)'
    BY <1>1, <2>0, <2>1, <2>3, <2>4, <2>5 DEF Covers
  <2>. QED
    BY <2>2, <2>6 DEF Covers
<1>6. DeliveredIsClosed'
  BY <1>2 DEF CoverInv, DeliveredIsClosed, Row
<1>. QED
  BY <1>4, <1>5, <1>6 DEF CoverInv

\* A window is cut as a gapless batch of its kind (prepare_extraction).
LEMMA PrepareCovers ==
  ASSUME CoverInv, OwnInv', NEW w \in Workers, PrepareWindow(w)
  PROVE  CoverInv' /\ LogStutters
<1>. USE DEF CoverInv, OwnInv
<1>1. PICK k \in Kinds : ResumeWindow(w, k) \/ CutWindow(w, k)
  BY DEF PrepareWindow
<1>2. UNCHANGED <<requests, live, published>>
  BY DEF PrepareWindow, log, history
<1>3. RequestsKept
  BY <1>2, SameRequests
<1>4. ASSUME NEW i, NEW saved, Take(w, i, k, saved) PROVE DeliveriesKept
  <2>1. turn'[w].phase = "prepared" /\ \A v \in Workers \ {w} : turn'[v] = turn[v]
    BY <1>4 DEF Take, TypeOK, TurnsOK
  <2>. QED
    BY <2>1 DEF DeliveriesKept
<1>5. CASE ResumeWindow(w, k)
  <2>1. LogStutters /\ RowsKept /\ DeliveriesKept
    BY <1>2, <1>3, <1>4, <1>5 DEF ResumeWindow, LogStutters, RowsKept
  <2>. QED
    BY <2>1, StutterCovers
<1>6. CASE CutWindow(w, k)
  <2>. DEFINE id == CHOOSE i \in WindowIds \ DOMAIN windows : TRUE
              pos == cursor[k].completed
              begun == cursor[k].started
              man == Manifest(requests, live, k, pos, begun)
              new == NewInputs(requests, live, k, pos, begun)
  <2>1. id \in WindowIds /\ id \notin DOMAIN windows
    BY <1>6 DEF CutWindow
  <2>2. PICK end \in new :
          /\ IsGreatest(end, new)
          /\ windows' = [i \in DOMAIN windows \cup {id} |->
               IF i # id THEN windows[i]
               ELSE [kind |-> k, predecessor |-> pos, end |-> end, manifest |-> man,
                     state |-> "open", saved |-> FALSE, invalidated |-> FALSE,
                     owed |-> FALSE, effectsRetry |-> "due", derived |-> FALSE]]
          /\ cursor' = [cursor EXCEPT ![k].window = id]
          /\ Take(w, id, k, FALSE)
    BY <1>6, Zenon DEF CutWindow
  <2>3. requests \in Seq(Request) /\ live \in SUBSET Nat /\ pos \in Nat /\ begun \in BOOLEAN
    BY DEF TypeOK, CursorsOK, Cursor
  <2>4. /\ new \subseteq Pending(requests, live, k, pos) /\ end \in new
        /\ \A s \in Pending(requests, live, k, pos) : s <= end => s \in new
        /\ new \subseteq man
        /\ \A s \in man : s > pos => s \in new
        /\ man \subseteq Inputs(requests, live, k)
    BY <2>2, <2>3, SelectionHasNoGap DEF LogOrdered
  <2>5. Inputs(requests, live, k) = Wanted(k) \cap live
    BY InputsAreWanted
  <2>6. Pending(requests, live, k, pos) = {s \in Wanted(k) \cap live : s > pos}
    BY <2>5 DEF Pending
  <2>. HIDE DEF id, man, new, pos, begun
  <2>7. /\ DOMAIN windows' = DOMAIN windows \cup {id}
        /\ \A i \in DOMAIN windows : windows'[i] = windows[i]
    BY <2>1, <2>2
  <2>8. \A j \in Kinds : cursor'[j].completed = cursor[j].completed
    BY <2>2 DEF TypeOK, CursorsOK, Cursor
  <2>9. LogStutters
    BY <1>2, <1>3, <2>8 DEF LogStutters
  <2>10. /\ Highwater' = Highwater /\ DOMAIN requests' = DOMAIN requests
         /\ \A j : Wanted(j)' = Wanted(j)
    BY <1>3, KeptRequests
  <2>11. LogOrdered'
    BY <1>2, <2>8, <2>10 DEF LogOrdered, Sliding
  <2>12. OpenWindowsCover'
    <3>. SUFFICES ASSUME NEW i \in DOMAIN windows', windows'[i].state = "open"
                  PROVE  Covers(windows[i])'
      BY DEF OpenWindowsCover
    <3>1. CASE i \in DOMAIN windows
      <4>1. windows'[i] = windows[i] /\ Covers(windows[i])
        BY <2>7, <3>1 DEF OpenWindowsCover
      <4>. QED
        BY <1>2, <2>10, <4>1 DEF Covers
    <3>2. CASE i = id
      <4>1. /\ windows'[i].kind = k /\ windows'[i].predecessor = pos
            /\ windows'[i].end = end /\ windows'[i].manifest = man
        BY <2>2, <3>2
      <4>2. end \in Nat /\ Highwater \in Nat /\ end \in live /\ live \subseteq 1..Highwater
        <5>1. end \in live
          BY <2>4, <2>6
        <5>2. live \subseteq 1..Highwater /\ Highwater \in Nat
          BY DEF LogOrdered
        <5>. QED
          BY <5>1, <5>2
      <4>3. end \in man /\ pos < end /\ end <= Highwater
        BY <2>3, <2>4, <2>6, <4>2
      <4>4. \A s \in man : s > pos => s <= end /\ s \in Wanted(k)
        BY <2>2, <2>4, <2>5 DEF IsGreatest
      <4>5. \A s \in Wanted(k) \cap live : pos < s /\ s <= end => s \in man
        <5>1. \A s \in Wanted(k) \cap live : s \in Nat
          BY <2>3
        <5>. QED
          BY <2>3, <2>4, <2>6, <5>1
      <4>. QED
        BY <1>2, <2>10, <4>1, <4>3, <4>4, <4>5 DEF Covers
    <3>. QED
      BY <2>7, <3>1, <3>2
  <2>13. DeliveredIsClosed'
    <3>. SUFFICES ASSUME NEW v \in Workers, turn'[v].phase \in Delivering
                  PROVE  windows'[turn'[v].window].state # "open"
      BY DEF DeliveredIsClosed, Row
    <3>1. turn'[v] = turn[v]
      BY <2>2 DEF Take, TypeOK, TurnsOK
    <3>2. turn[v].window \in DOMAIN windows
      BY <3>1 DEF TypeOK, TurnsOK
    <3>. QED
      BY <2>7, <3>1, <3>2 DEF DeliveredIsClosed, Row
  <2>. QED
    BY <2>9, <2>11, <2>12, <2>13
<1>. QED
  BY <1>1, <1>5, <1>6

\* Publishing a window passes exactly the surviving inputs up to its end, all
\* of which it publishes (complete_extraction).
LEMMA PublishCovers ==
  ASSUME CoverInv, OwnInv', NEW w \in Workers, PublishWindow(w)
  PROVE  LET k == Kind(w)
             row == Row(w)
             batch == {s \in Wanted(k) \cap live : cursor[k].completed < s /\ s <= row.end}
         IN  /\ CoverInv' /\ RequestsKept /\ UNCHANGED live
             /\ k \in Kinds
             /\ row.end \in batch
             /\ published' = [published EXCEPT ![k] = @ \cup batch]
             /\ \A j \in Kinds : cursor'[j].completed =
                  IF j = k THEN row.end ELSE cursor[j].completed
<1>. USE DEF CoverInv, OwnInv
<1>. DEFINE k == Kind(w)
            row == Row(w)
            i == turn[w].window
            batch == {s \in Wanted(k) \cap live : cursor[k].completed < s /\ s <= row.end}
            r == [row EXCEPT !.state = "completed", !.owed = TRUE]
            c == PassedBy(row.end)
<1>1. k \in Kinds /\ row \in Window /\ i \in DOMAIN windows /\ row = windows[i] /\ row.kind = k
  BY TurnRow DEF PublishWindow, Row, Kind
<1>2. row.state = "open" /\ row.predecessor = cursor[k].completed
  BY DEF PublishWindow, HolderOwnsWindow
<1>3. Covers(row)
  BY <1>1, <1>2 DEF OpenWindowsCover
<1>4. /\ row.manifest \subseteq live
      /\ cursor' = [cursor EXCEPT ![k] = c] /\ windows' = [windows EXCEPT ![i] = r]
      /\ published' = [published EXCEPT ![k] = @ \cup {s \in row.manifest : s > row.predecessor}]
      /\ Goto(w, "committed") /\ UNCHANGED <<requests, live>>
  BY DEF PublishWindow, InputsSurvive, Row, log
<1>5. c.completed = row.end
  BY DEF PassedBy
<1>6. r.state # "open"
  BY <1>1 DEF Window
<1>7. cursor \in [Kinds -> Cursor]
  BY DEF TypeOK, CursorsOK
<1>. HIDE DEF c, r
<1>8. \A j \in Kinds : cursor'[j].completed = IF j = k THEN row.end ELSE cursor[j].completed
  BY <1>1, <1>4, <1>5, <1>7
<1>9. row.predecessor \in Nat /\ row.end \in Nat /\ row.manifest \in SUBSET Nat
  BY <1>1 DEF Window
<1>10. {s \in row.manifest : s > row.predecessor} = batch
  <2>1. ASSUME NEW s \in row.manifest, s > row.predecessor PROVE s \in batch
    BY <1>1, <1>2, <1>3, <1>4, <1>9, <2>1 DEF Covers
  <2>2. ASSUME NEW s \in batch PROVE s \in row.manifest /\ s > row.predecessor
    <3>1. s \in Nat
      BY DEF TypeOK
    <3>. QED
      BY <1>1, <1>2, <1>3, <1>9, <3>1 DEF Covers
  <2>. QED
    BY <2>1, <2>2
<1>11. row.end \in batch
  BY <1>3, <1>9, <1>10 DEF Covers
<1>12. RowsKept
  BY <1>4, <1>6, RowKept
<1>13. RequestsKept /\ DeliveriesKept
  BY <1>4, SameRequests, GotoDelivers
<1>14. \A j \in Kinds : cursor'[j].completed <= Highwater
  BY <1>3, <1>8 DEF Covers, LogOrdered
<1>15. CoverInv'
  BY <1>4, <1>12, <1>13, <1>14, FrameCovers
<1>. HIDE DEF k, row, batch
<1>. QED
  BY <1>1, <1>4, <1>8, <1>10, <1>11, <1>13, <1>15 DEF k, row, batch

\* Retiring a window passes its inputs and publishes nothing
\* (retire_extraction_window).
LEMMA RetireCovers ==
  ASSUME CoverInv, OwnInv', NEW k \in Kinds, RetireWindow(k)
  PROVE  LET end == windows[cursor[k].window].end
         IN  /\ CoverInv' /\ RequestsKept /\ UNCHANGED <<live, published>>
             /\ end \in Wanted(k) /\ cursor[k].completed < end
             /\ \A j \in Kinds : cursor'[j].completed =
                  IF j = k THEN end ELSE cursor[j].completed
<1>. USE DEF CoverInv, OwnInv
<1>. DEFINE i == cursor[k].window
            row == windows[i]
            r == [row EXCEPT !.state = "completed", !.derived = TRUE, !.saved = FALSE,
                             !.manifest = {}]
            c == PassedBy(row.end)
<1>1. i \in DOMAIN windows /\ row.state = "open" /\ row.kind = k
      /\ row.predecessor = cursor[k].completed
  BY DEF RetireWindow, Held, CursorNamesOpenWindow, TypeOK, CursorsOK
<1>2. row \in Window
  BY <1>1 DEF TypeOK, WindowsOK
<1>3. Covers(row)
  BY <1>1 DEF OpenWindowsCover
<1>4. /\ cursor' = [cursor EXCEPT ![k] = c] /\ windows' = [windows EXCEPT ![i] = r]
      /\ UNCHANGED <<requests, live, published, turn>>
  BY DEF RetireWindow, log, history
<1>5. c.completed = row.end
  BY DEF PassedBy
<1>6. r.state # "open"
  BY <1>2 DEF Window
<1>7. cursor \in [Kinds -> Cursor]
  BY DEF TypeOK, CursorsOK
<1>. HIDE DEF c, r
<1>8. \A j \in Kinds : cursor'[j].completed = IF j = k THEN row.end ELSE cursor[j].completed
  BY <1>4, <1>5, <1>7
<1>9. row.predecessor \in Nat /\ row.end \in Nat /\ row.manifest \in SUBSET Nat
  BY <1>2 DEF Window
<1>10. RowsKept
  BY <1>4, <1>6, RowKept
<1>11. RequestsKept /\ DeliveriesKept
  BY <1>4, SameRequests DEF DeliveriesKept
<1>12. \A j \in Kinds : cursor'[j].completed <= Highwater
  BY <1>3, <1>8 DEF Covers, LogOrdered
<1>13. CoverInv'
  BY <1>4, <1>10, <1>11, <1>12, FrameCovers
<1>14. row.end \in Wanted(k) /\ cursor[k].completed < row.end
  BY <1>1, <1>3, <1>9 DEF Covers
<1>. QED
  BY <1>4, <1>8, <1>11, <1>13, <1>14

-----------------------------------------------------------------------------
(* The stream implements the abstract log.                                 *)

seen   == [k \in Kinds |-> Wanted(k)]
passed == [k \in Kinds |-> cursor[k].completed]

\* The state functions the abstract log is instantiated with.
LEMMA LogMapping ==
  /\ [k \in Kinds |-> UNION {SeqsOf(requests[i]) :
        i \in {j \in DOMAIN requests : k \in requests[j].eligible}}] = seen
  /\ [k \in Kinds |-> cursor[k].completed] = passed
BY DEF seen, passed, Wanted

\* A step that accepts and passes nothing is no step of the abstract log.
LEMMA StutterStep ==
  ASSUME TypeOK, TypeOK', LogStutters
  PROVE  UNCHANGED Log!logVars
<1>1. \A k : Wanted(k)' = Wanted(k)
  BY KeptRequests DEF LogStutters
<1>2. seen' = seen /\ passed' = passed /\ UNCHANGED <<live, published>>
  BY <1>1 DEF seen, passed, LogStutters
<1>. QED
  BY <1>2, LogMapping DEF Log!logVars, seen, passed, Wanted

\* The disjuncts of the abstract next-state relation.
LEMMA AcceptIsNext ==
  ASSUME NEW new \in (SUBSET (1..MaxSeq)) \ {{}}, NEW for \in SUBSET Kinds,
         Log!Accept(new, for)
  PROVE  Log!Next
BY DEF Log!Next

\* A published or a retired range is a step of the abstract log.
LEMMA PassIsNext ==
  ASSUME NEW k \in Kinds, NEW end \in 1..MaxSeq, Log!Publish(k, end) \/ Log!Retire(k, end)
  PROVE  Log!Next
BY DEF Log!Next

\* A publication is an abstract acceptance: its inputs come after everything
\* accepted or passed so far.
LEMMA AcceptStep ==
  ASSUME CoverInv, NEW a \in Admissions, AdmitExtraction(a)
  PROVE  Log!Next
<1>. DEFINE first == Highwater + 1
            last  == Highwater + a.size
<1>0. PICK new : new = first..last
  OBVIOUS
<1>1. /\ first \in 1..MaxSeq /\ last \in first..MaxSeq
      /\ live' = live \cup new
      /\ \A k : Wanted(k)' =
           IF k \in a.eligible THEN Wanted(k) \cup new ELSE Wanted(k)
  BY <1>0, AdmitAppends
<1>2. Highwater \in Nat /\ MaxSeq \in Nat /\ a.eligible \in SUBSET Kinds
  BY StreamAssumption DEF CoverInv, LogOrdered
<1>3. new \in SUBSET (1..MaxSeq) /\ new # {} /\ \A s \in new : s \in Nat /\ Highwater < s
  <2>1. first \in new
    BY <1>0, <1>1, <1>2
  <2>2. ASSUME NEW s \in new PROVE s \in 1..MaxSeq /\ s \in Nat /\ Highwater < s
    BY <1>0, <1>1, <1>2
  <2>. QED
    BY <2>1, <2>2
<1>4. \A t \in live : t \in Nat /\ t <= Highwater
  BY <1>2 DEF CoverInv, LogOrdered
<1>5. \A k \in Kinds : \A t \in seen[k] : t \in Nat /\ t <= Highwater
  BY <1>2, WantedIsNumbered DEF CoverInv, OwnInv, seen
<1>6. \A k \in Kinds : passed[k] \in Nat /\ passed[k] <= Highwater
  BY DEF CoverInv, OwnInv, TypeOK, CursorsOK, Cursor, LogOrdered, passed
<1>. HIDE DEF first, last
<1>. DEFINE all == (UNION {seen[k] : k \in Kinds}) \cup live
<1>7. Log!Accepted = all
  BY LogMapping DEF Log!Accepted
<1>8. ASSUME NEW t \in all PROVE t \in Nat /\ t <= Highwater
  <2>1. t \in live \/ \E k \in Kinds : t \in seen[k]
    OBVIOUS
  <2>. QED
    BY <1>4, <1>5, <2>1
<1>. HIDE DEF all
<1>9. \A s \in new, t \in Log!Accepted : t < s
  BY <1>2, <1>3, <1>7, <1>8
<1>10. new \cap Log!Accepted = {}
  BY <1>2, <1>3, <1>7, <1>8
<1>11. \A s \in new, k \in Kinds : passed[k] < s
  BY <1>2, <1>3, <1>6
<1>12. seen' = [k \in Kinds |-> IF k \in a.eligible THEN seen[k] \cup new ELSE seen[k]]
  BY <1>1 DEF seen
<1>13. UNCHANGED <<passed, published>>
  BY DEF AdmitExtraction, history, passed
<1>14. Log!Accept(new, a.eligible)
  BY <1>1, <1>9, <1>10, <1>11, <1>12, <1>13, LogMapping DEF Log!Accept, seen, passed, Wanted
<1>15. new \in (SUBSET (1..MaxSeq)) \ {{}}
  BY <1>3
<1>. QED
  BY <1>2, <1>14, <1>15, AcceptIsNext

\* An erasure is an abstract erasure.
LEMMA EraseStep ==
  ASSUME CoverInv, TypeOK', NEW s \in live, EraseInput(s)
  PROVE  Log!Next
<1>1. s \in 1..MaxSeq
  <2>1. Highwater \in 0..MaxSeq /\ s \in 1..Highwater
    BY DEF CoverInv, LogOrdered
  <2>2. MaxSeq \in Nat
    BY StreamAssumption
  <2>. QED
    BY <2>1, <2>2
<1>2. UNCHANGED <<requests, cursor, published>> /\ live' = live \ {s}
  BY DEF EraseInput, history
<1>3. Log!Erase(s)
  BY <1>2 DEF Log!Erase
<1>. QED
  BY <1>1, <1>3 DEF Log!Next

\* A published window is an abstract batch, published once and completely.
LEMMA PublishStep ==
  ASSUME CoverInv, OwnInv', NEW w \in Workers, PublishWindow(w)
  PROVE  Log!Next
<1>0. PICK k, end : k = Kind(w) /\ end = Row(w).end
  OBVIOUS
<1>. DEFINE batch == {s \in Wanted(k) \cap live : cursor[k].completed < s /\ s <= end}
<1>1. /\ RequestsKept /\ UNCHANGED live /\ k \in Kinds
      /\ end \in batch
      /\ published' = [published EXCEPT ![k] = @ \cup batch]
      /\ \A j \in Kinds : cursor'[j].completed = IF j = k THEN end ELSE cursor[j].completed
  BY <1>0, PublishCovers
<1>2. end \in 1..MaxSeq
  <2>1. end \in live
    BY <1>1
  <2>2. Highwater \in 0..MaxSeq /\ live \subseteq 1..Highwater /\ MaxSeq \in Nat
    BY StreamAssumption DEF CoverInv, LogOrdered
  <2>. QED
    BY <2>1, <2>2
<1>3. \A j : Wanted(j)' = Wanted(j)
  BY <1>1, KeptRequests DEF CoverInv, OwnInv
<1>4. seen' = seen
  BY <1>3 DEF seen
<1>5. passed' = [passed EXCEPT ![k] = end]
  BY <1>1 DEF passed
<1>6. batch = {s \in seen[k] \cap live : passed[k] < s /\ s <= end}
  BY <1>1 DEF seen, passed
<1>. HIDE DEF batch
<1>7. Log!Batch(k, end) = batch
  BY <1>6, LogMapping DEF Log!Batch
<1>8. Log!Publish(k, end)
  BY <1>1, <1>4, <1>5, <1>7, LogMapping DEF Log!Publish, seen, passed, Wanted
<1>. QED
  BY <1>1, <1>2, <1>8, PassIsNext

\* A retired window is an abstract retirement.
LEMMA RetireStep ==
  ASSUME CoverInv, OwnInv', NEW k \in Kinds, RetireWindow(k)
  PROVE  Log!Next
<1>0. PICK end : end = windows[cursor[k].window].end
  OBVIOUS
<1>1. /\ RequestsKept /\ UNCHANGED <<live, published>>
      /\ end \in Wanted(k) /\ cursor[k].completed < end
      /\ \A j \in Kinds : cursor'[j].completed = IF j = k THEN end ELSE cursor[j].completed
  BY <1>0, RetireCovers
<1>2. end \in 1..MaxSeq
  BY <1>1, WantedIsNumbered, StreamAssumption DEF CoverInv, OwnInv, LogOrdered
<1>3. \A j : Wanted(j)' = Wanted(j)
  BY <1>1, KeptRequests DEF CoverInv, OwnInv
<1>4. seen' = seen /\ passed' = [passed EXCEPT ![k] = end]
  BY <1>1, <1>3 DEF seen, passed
<1>5. passed[k] < end /\ end \in seen[k]
  BY <1>1 DEF seen, passed
<1>6. Log!Retire(k, end)
  BY <1>1, <1>4, <1>5, LogMapping DEF Log!Retire, seen, passed, Wanted
<1>. QED
  BY <1>2, <1>6, PassIsNext

\* Every step keeps the coverage and is a step of the abstract log or none.
LEMMA CoverStep ==
  ASSUME CoverInv, OwnInv', Next
  PROVE  CoverInv' /\ (Log!Next \/ UNCHANGED Log!logVars)
<1>. DEFINE Goal == CoverInv' /\ (Log!Next \/ UNCHANGED Log!logVars)
<1>0. TypeOK /\ TypeOK' /\ OwnInv /\ DeliveredIsClosed
  BY DEF CoverInv, OwnInv
<1>1. ASSUME LogStutters, RowsKept, DeliveriesKept PROVE Goal
  BY <1>0, <1>1, StutterCovers, StutterStep
<1>2. ASSUME NEW w \in Workers, Execute(w) PROVE Goal
  <2>1. CASE QuietExecute(w)
    BY <1>0, <1>1, <2>1, ExecuteCovers
  <2>2. CASE PrepareWindow(w)
    BY <1>0, <2>2, PrepareCovers, StutterStep
  <2>3. CASE PublishWindow(w)
    <3>1. CoverInv'
      BY <2>3, PublishCovers
    <3>. QED
      BY <2>3, <3>1, PublishStep
  <2>. QED
    BY <1>2, <2>1, <2>2, <2>3 DEF Execute, QuietExecute
<1>3. ASSUME NEW w \in Workers, Deliver(w) PROVE Goal
  BY <1>0, <1>1, <1>3, DeliverCovers
<1>4. ASSUME NEW w \in Workers, Fail(w) PROVE Goal
  BY <1>0, <1>1, <1>4, FailCovers
<1>5. ASSUME Operate PROVE Goal
  <2>1. CASE \E k \in Kinds : RetireWindow(k)
    <3>1. PICK k \in Kinds : RetireWindow(k)
      BY <2>1
    <3>2. CoverInv'
      BY <3>1, RetireCovers
    <3>. QED
      BY <3>1, <3>2, RetireStep
  <2>2. CASE ~ \E k \in Kinds : RetireWindow(k)
    BY <1>0, <1>1, <1>5, <2>2, OperateCovers DEF Operate
  <2>. QED
    BY <2>1, <2>2
<1>6. ASSUME Arrive PROVE Goal
  <2>1. ASSUME NEW a \in Admissions, AdmitExtraction(a) PROVE Goal
    BY <2>1, AdmitCovers, AcceptStep
  <2>2. ASSUME NEW s \in Sessions, FinalizeSession(s) PROVE Goal
    BY <1>0, <1>1, <2>2, FinalizeCovers
  <2>3. ASSUME NEW s \in live, EraseInput(s) PROVE Goal
    <3>1. live' \subseteq live /\ cursor' = cursor
      BY <2>3 DEF EraseInput
    <3>2. \A k \in Kinds : cursor'[k].completed <= Highwater
      BY <3>1 DEF CoverInv, LogOrdered
    <3>3. CoverInv'
      BY <1>0, <2>3, <3>1, <3>2, EraseCovers, FrameCovers
    <3>. QED
      BY <1>0, <2>3, <3>3, EraseStep
  <2>. QED
    BY <1>6, <2>1, <2>2, <2>3 DEF Arrive
<1>7. ASSUME Pass PROVE Goal
  BY <1>0, <1>1, <1>7, PassCovers
<1>. HIDE DEF Goal
<1>8. Goal
  BY <1>2, <1>3, <1>4, <1>5, <1>6, <1>7 DEF Next
<1>. QED
  BY <1>8 DEF Goal

\* In the beginning nothing is accepted, passed or cut.
LEMMA InitCovers == ASSUME Init, OwnInv PROVE CoverInv /\ Log!Init
<1>1. requests = <<>> /\ DOMAIN requests = {} /\ Highwater = 0
  BY DEF Init, Highwater
<1>2. LogOrdered
  BY <1>1, StreamAssumption DEF Init, LogOrdered, Sliding
<1>3. OpenWindowsCover /\ DeliveredIsClosed
  BY DEF Init, OpenWindowsCover, DeliveredIsClosed, IdleTurn
<1>4. seen = [k \in Kinds |-> {}] /\ passed = [k \in Kinds |-> 0]
  BY <1>1 DEF Init, seen, passed, Wanted
<1>5. live = {} /\ published = [k \in Kinds |-> {}]
  BY DEF Init
<1>6. Log!Init
  BY <1>4, <1>5, LogMapping DEF Log!Init
<1>. QED
  BY <1>2, <1>3, <1>6 DEF CoverInv

\* The lease discipline holds in every state.
LEMMA Owned == Spec => []OwnInv
<1>1. TypeOK /\ CursorNamesOpenWindow /\ HolderOwnsWindow => OwnInv
  BY DEF OwnInv
<1>. QED
  BY <1>1, TypeCorrect, FencedTurn, PTL

\* The durable stream implements the abstract log, for any number of workers,
\* kinds, windows and any admissions, failures, crashes, erasures and operator
\* commands: whatever a turn does is either invisible, or one whole batch of
\* the surviving inputs, in order, published completely and once.
THEOREM StreamImplementsLog == Spec => ImplementsLog
<1>1. Init /\ OwnInv => CoverInv /\ Log!Init
  BY InitCovers
<1>2. CoverInv /\ OwnInv' /\ [Next]_vars => CoverInv' /\ [Log!Next]_Log!logVars
  <2>1. CASE Next
    BY <2>1, CoverStep
  <2>2. ASSUME CoverInv, OwnInv', UNCHANGED vars
        PROVE  CoverInv' /\ UNCHANGED Log!logVars
    <3>1. LogStutters /\ RowsKept /\ DeliveriesKept
      BY <2>2, SameRequests DEF vars, LogStutters, RowsKept, DeliveriesKept
    <3>. QED
      BY <2>2, <3>1, StutterCovers, StutterStep DEF CoverInv, OwnInv
  <2>. QED
    BY <2>1, <2>2
<1>. QED
  BY <1>1, <1>2, Owned, PTL DEF Spec, ImplementsLog, Log!Spec

-----------------------------------------------------------------------------
(* What was passed was published, and only what survived.                  *)

\* The steps that accept, erase or pass inputs are the publications, the
\* erasures, the commits and the retirements.
LEMMA LogSteps ==
  ASSUME CoverInv, OwnInv', Next
  PROVE  \/ LogStutters
         \/ \E a \in Admissions : AdmitExtraction(a)
         \/ \E s \in live : EraseInput(s)
         \/ \E w \in Workers : PublishWindow(w)
         \/ \E k \in Kinds : RetireWindow(k)
<1>0. OwnInv /\ DeliveredIsClosed
  BY DEF CoverInv
<1>1. ASSUME NEW w \in Workers, Execute(w) PROVE LogStutters \/ PublishWindow(w)
  BY <1>0, <1>1, ExecuteCovers, PrepareCovers DEF Execute, QuietExecute
<1>2. ASSUME NEW w \in Workers, Deliver(w) \/ Fail(w) PROVE LogStutters
  BY <1>0, <1>2, DeliverCovers, FailCovers
<1>3. ASSUME Operate PROVE LogStutters \/ \E k \in Kinds : RetireWindow(k)
  BY <1>0, <1>3, OperateCovers DEF Operate
<1>4. ASSUME Arrive
      PROVE  \/ LogStutters
             \/ \E a \in Admissions : AdmitExtraction(a)
             \/ \E s \in live : EraseInput(s)
  BY <1>0, <1>4, FinalizeCovers DEF Arrive
<1>5. ASSUME Pass PROVE LogStutters
  BY <1>0, <1>5, PassCovers
<1>. QED
  BY <1>1, <1>2, <1>3, <1>4, <1>5 DEF Next

\* Unless an operator retires, a step keeps everything behind the cursors published.
LEMMA PassedStep ==
  ASSUME CoverInv, OwnInv', Next, PassedMeansPublished, "retire" \notin Commands
  PROVE  PassedMeansPublished'
<1>. SUFFICES ASSUME NEW k \in Kinds, NEW s, s \in Wanted(k)', s \in live',
                     s <= cursor'[k].completed
              PROVE  s \in published'[k]
  BY DEF PassedMeansPublished, Inputs, Wanted
<1>0. TypeOK /\ TypeOK' /\ published[k] \subseteq Nat
  BY DEF CoverInv, OwnInv, TypeOK
<1>1. ASSUME s \in Wanted(k), s \in live, s <= cursor[k].completed PROVE s \in published[k]
  BY <1>1, InputsAreWanted DEF PassedMeansPublished
<1>2. CASE LogStutters
  <2>1. Wanted(k)' = Wanted(k)
    BY <1>0, <1>2, KeptRequests DEF LogStutters
  <2>. QED
    BY <1>1, <1>2, <2>1 DEF LogStutters
<1>3. ASSUME NEW a \in Admissions, AdmitExtraction(a) PROVE s \in published'[k]
  <2>. DEFINE first == Highwater + 1
              last  == Highwater + a.size
  <2>1. /\ live' = live \cup first..last
        /\ Wanted(k)' = IF k \in a.eligible THEN Wanted(k) \cup first..last ELSE Wanted(k)
    BY <1>3, AdmitAppends
  <2>2. UNCHANGED <<cursor, published>>
    BY <1>3 DEF AdmitExtraction, history
  <2>3. cursor[k].completed \in Nat /\ cursor[k].completed <= Highwater /\ Highwater \in Nat
    BY HighwaterIsNat DEF CoverInv, OwnInv, TypeOK, CursorsOK, Cursor, LogOrdered
  <2>4. s \notin first..last
    BY <2>2, <2>3
  <2>. HIDE DEF first, last
  <2>. QED
    BY <1>1, <2>1, <2>2, <2>4
<1>4. ASSUME NEW t \in live, EraseInput(t) PROVE s \in published'[k]
  <2>1. UNCHANGED <<requests, cursor, published>> /\ live' \subseteq live
    BY <1>4 DEF EraseInput, history
  <2>2. Wanted(k)' = Wanted(k)
    BY <2>1 DEF Wanted
  <2>. QED
    BY <1>1, <2>1, <2>2
<1>5. ASSUME NEW w \in Workers, PublishWindow(w) PROVE s \in published'[k]
  <2>0. PICK j, end : j = Kind(w) /\ end = Row(w).end
    OBVIOUS
  <2>. DEFINE batch == {t \in Wanted(j) \cap live : cursor[j].completed < t /\ t <= end}
  <2>1. /\ RequestsKept /\ UNCHANGED live /\ j \in Kinds
        /\ published' = [published EXCEPT ![j] = @ \cup batch]
        /\ \A m \in Kinds : cursor'[m].completed = IF m = j THEN end ELSE cursor[m].completed
    BY <1>5, <2>0, PublishCovers
  <2>2. Wanted(k)' = Wanted(k)
    BY <1>0, <2>1, KeptRequests
  <2>3. published \in [Kinds -> SUBSET Nat] /\ cursor[k].completed \in Nat /\ s \in Nat
    BY <1>0, <2>1 DEF TypeOK, CursorsOK, Cursor
  <2>. HIDE DEF batch
  <2>4. CASE k # j
    BY <1>1, <2>1, <2>2, <2>3, <2>4
  <2>5. CASE k = j
    <3>1. s <= end /\ published'[k] = published[k] \cup batch
      BY <2>1, <2>3, <2>5
    <3>2. s <= cursor[k].completed \/ s \in batch
      BY <2>1, <2>2, <2>3, <2>5, <3>1 DEF batch
    <3>. QED
      BY <1>1, <2>1, <2>2, <3>1, <3>2
  <2>. QED
    BY <2>4, <2>5
<1>6. ~ \E j \in Kinds : RetireWindow(j)
  BY DEF RetireWindow
<1>. QED
  BY <1>2, <1>3, <1>4, <1>5, <1>6, LogSteps

\* Whatever is erased, crashed, retried or taken over: where no operator
\* retires windows, every surviving input a cursor has passed was published
\* for its kind.
THEOREM PassedIsPublished == "retire" \notin Commands => (Spec => []PassedMeansPublished)
<1>. SUFFICES ASSUME "retire" \notin Commands
              PROVE  Spec => []PassedMeansPublished
  OBVIOUS
<1>. DEFINE Inv == CoverInv /\ PassedMeansPublished
<1>1. Init /\ OwnInv => Inv
  <2>1. Init => PassedMeansPublished
    BY DEF Init, PassedMeansPublished, Inputs
  <2>. QED
    BY <2>1, InitCovers
<1>2. Inv /\ OwnInv' /\ [Next]_vars => Inv'
  <2>1. ASSUME Inv, OwnInv', Next PROVE Inv'
    BY <2>1, CoverStep, PassedStep
  <2>2. ASSUME Inv, OwnInv', UNCHANGED vars PROVE Inv'
    <3>1. LogStutters /\ RowsKept /\ DeliveriesKept
      BY <2>2, SameRequests DEF vars, LogStutters, RowsKept, DeliveriesKept
    <3>2. CoverInv'
      BY <2>2, <3>1, StutterCovers
    <3>. QED
      BY <2>2, <3>2 DEF vars, PassedMeansPublished
  <2>. QED
    BY <2>1, <2>2
<1>3. Inv => PassedMeansPublished
  OBVIOUS
<1>. HIDE DEF Inv
<1>. QED
  BY <1>1, <1>2, <1>3, Owned, PTL DEF Spec

\* The coverage of the log is an invariant.
LEMMA Covered == Spec => []CoverInv
<1>1. Init /\ OwnInv => CoverInv
  BY InitCovers
<1>2. CoverInv /\ OwnInv' /\ [Next]_vars => CoverInv'
  <2>1. ASSUME CoverInv, OwnInv', Next PROVE CoverInv'
    BY <2>1, CoverStep
  <2>2. ASSUME CoverInv, OwnInv', UNCHANGED vars PROVE CoverInv'
    BY <2>2, SameRequests, StutterCovers DEF vars, LogStutters, RowsKept, DeliveriesKept
  <2>. QED
    BY <2>1, <2>2
<1>. QED
  BY <1>1, <1>2, Owned, PTL DEF Spec

-----------------------------------------------------------------------------
(* A row parked for ever misses nothing.                                   *)

\* Every request a kind is eligible for arrives under one window policy.
OnePolicy ==
  \A a, b \in Admissions :
    a.eligible \cap b.eligible # {} => a.width = b.width /\ a.stride = b.stride

\* Requests keep the kinds and the policy they were admitted with.
AsAdmitted ==
  \A i \in DOMAIN requests : \E a \in Admissions :
    /\ requests[i].eligible = a.eligible
    /\ requests[i].width = a.width /\ requests[i].stride = a.stride

\* Nothing is owed, nothing is backed off, and every kind that may run rests.
Asleep ==
  /\ Owed = {}
  /\ \A k \in Kinds :
       /\ cursor[k].retry # "later"
       /\ cursor[k].retry = "due" =>
            /\ cursor[k].window = NoWindow
            /\ Rests(requests, live, k, cursor[k].completed, cursor[k].started)

\* The inductive invariant: while nothing is due no worker has the lease.
WakeInv ==
  /\ Ordered(requests) /\ AsAdmitted
  /\ due = "never" => Asleep /\ lease.holder \notin Workers

\* Asleep is what NoLostWakeup promises of a row parked for ever.
LEMMA AsleepIff ==
  ASSUME CoverInv, Ordered(requests)
  PROVE  Asleep <=>
           /\ Owed = {}
           /\ \A k \in Kinds :
                /\ cursor[k].retry # "later"
                /\ ~Runnable(k)
                /\ cursor[k].retry = "due" =>
                     ~Awaits(requests, live, k, cursor[k].completed, cursor[k].started)
<1>1. requests \in Seq(Request) /\ Sliding(requests) /\ Highwater \in Nat
  BY HighwaterIsNat DEF CoverInv, OwnInv, TypeOK, LogOrdered
<1>2. live \in SUBSET (0..Highwater)
  BY <1>1 DEF CoverInv, LogOrdered
<1>3. ASSUME NEW k \in Kinds
      PROVE  Rests(requests, live, k, cursor[k].completed, cursor[k].started) <=>
               /\ ~CanSelect(k)
               /\ ~Awaits(requests, live, k, cursor[k].completed, cursor[k].started)
  <2>1. cursor[k].completed \in Nat /\ cursor[k].started \in BOOLEAN
    BY DEF CoverInv, OwnInv, TypeOK, CursorsOK, Cursor
  <2>. QED
    BY <1>1, <1>2, <2>1, RestsIff DEF CanSelect
<1>. QED
  BY <1>3, Zenon DEF Asleep, Runnable

\* Kept admissions keep their order and their policies.
LEMMA KeptInOrder ==
  ASSUME TypeOK, TypeOK', RequestsKept, Ordered(requests), AsAdmitted
  PROVE  Ordered(requests') /\ AsAdmitted'
<1>1. DOMAIN requests' = DOMAIN requests
  BY KeptRequests
<1>. QED
  BY <1>1 DEF RequestsKept, Ordered, AsAdmitted

\* A publication takes its place behind all others (admit_extraction).
LEMMA AdmitInOrder ==
  ASSUME CoverInv, Ordered(requests), AsAdmitted, NEW a \in Admissions, AdmitExtraction(a)
  PROVE  Ordered(requests') /\ AsAdmitted'
<1>. DEFINE first == Highwater + 1
            last  == Highwater + a.size
            r == [first |-> first, last |-> last, session |-> a.session,
                  eligible |-> a.eligible, force |-> a.force, finished |-> FALSE,
                  width |-> a.width, stride |-> a.stride, idle |-> a.idle, wait |-> a.wait]
            n == Len(requests)
<1>1. requests \in Seq(Request) /\ Highwater \in Nat /\ a.size \in Nat \ {0}
  BY HighwaterIsNat, StreamAssumption DEF CoverInv, OwnInv, TypeOK
<1>2. requests' = Append(requests, r)
  BY DEF AdmitExtraction
<1>3. /\ r.first = first /\ r.last = last /\ r.eligible = a.eligible
      /\ r.width = a.width /\ r.stride = a.stride
  OBVIOUS
<1>4. first \in Nat /\ last \in Nat /\ first <= last /\ Highwater < first
  BY <1>1
<1>. HIDE DEF r, first, last
<1>5. /\ n \in Nat /\ DOMAIN requests = 1..n /\ DOMAIN requests' = 1..(n + 1)
      /\ requests'[n + 1] = r /\ \A i \in 1..n : requests'[i] = requests[i]
  BY <1>1, <1>2
<1>6. \A i \in 1..n : requests[i].last \in Nat /\ requests[i].last < first
  <2>. TAKE i \in 1..n
  <2>1. requests[i] \in Request /\ requests[i].last <= Highwater
    BY <1>1, <1>5 DEF CoverInv, LogOrdered
  <2>2. requests[i].last \in Nat
    BY <2>1 DEF Request
  <2>. QED
    BY <1>1, <1>4, <2>1, <2>2
<1>7. \A i \in 1..(n + 1) : i \in 1..n \/ i = n + 1
  BY <1>5
<1>. HIDE DEF n
<1>8. \A i \in DOMAIN requests' : requests'[i].first <= requests'[i].last
  BY <1>3, <1>4, <1>5, <1>7 DEF Ordered
<1>9. ASSUME NEW i \in DOMAIN requests', NEW j \in DOMAIN requests', i < j
      PROVE  requests'[i].last < requests'[j].first
  <2>1. CASE j \in 1..n
    <3>1. i \in 1..n
      BY <1>5, <1>9, <2>1
    <3>. QED
      BY <1>5, <1>9, <2>1, <3>1 DEF Ordered
  <2>2. CASE j = n + 1
    <3>1. i \in 1..n
      BY <1>5, <1>9, <2>2
    <3>. QED
      BY <1>3, <1>5, <1>6, <2>2, <3>1
  <2>. QED
    BY <1>5, <1>7, <2>1, <2>2
<1>10. AsAdmitted'
  BY <1>3, <1>5, <1>7 DEF AsAdmitted
<1>. QED
  BY <1>8, <1>9, <1>10 DEF Ordered

\* The order and the policies of the admissions are kept by every step.
LEMMA StepInOrder ==
  ASSUME CoverInv, CoverInv', Ordered(requests), AsAdmitted, Next
  PROVE  Ordered(requests') /\ AsAdmitted'
<1>0. TypeOK /\ TypeOK' /\ OwnInv /\ OwnInv'
  BY DEF CoverInv, OwnInv
<1>1. ASSUME NEW w \in Workers, PublishWindow(w) PROVE RequestsKept
  BY <1>1, SameRequests DEF PublishWindow, log
<1>2. ASSUME NEW k \in Kinds, RetireWindow(k) PROVE RequestsKept
  BY <1>2, SameRequests DEF RetireWindow, log
<1>3. ASSUME NEW s \in live, EraseInput(s) PROVE RequestsKept
  BY <1>3, SameRequests DEF EraseInput
<1>4. RequestsKept \/ \E a \in Admissions : AdmitExtraction(a)
  BY <1>0, <1>1, <1>2, <1>3, LogSteps DEF LogStutters
<1>. QED
  BY <1>0, <1>4, KeptInOrder, AdmitInOrder

\* A step that leaves the log and the cursors alone and owes nothing new lets
\* a sleeping row sleep.
LEMMA SleepsOn ==
  ASSUME Asleep, UNCHANGED <<requests, live, cursor>>, Owed' \subseteq Owed
  PROVE  Asleep'
BY DEF Asleep

\* While nothing is due no turn passes the fence, so no turn wakes or alters
\* anything but the row that parks itself (prepare_extraction).
LEMMA TurnSleeps ==
  ASSUME CoverInv, CoverInv', WakeInv, Ordered(requests'), NEW w \in Workers,
         Execute(w) \/ Deliver(w) \/ Fail(w), due' = "never"
  PROVE  Asleep' /\ lease'.holder \notin Workers
<1>0. TypeOK /\ turn \in [Workers -> Turn]
  BY DEF CoverInv, OwnInv, TypeOK, TurnsOK
<1>1. CASE PrepareNothing(w)
  <2>1. lease'.holder \notin Workers
    BY <1>1, StreamAssumption DEF PrepareNothing, NoLease
  <2>2. NextDue = "never" /\ UNCHANGED <<requests, live, cursor, windows>>
    BY <1>1 DEF PrepareNothing, log
  <2>3. Asleep
    <3>1. Owed = {} /\ ~Retrying /\ ~Timed
      BY <2>2 DEF NextDue
    <3>2. \A k \in Kinds : ~Runnable(k)
      BY <1>1 DEF PrepareNothing
    <3>. QED
      BY <3>1, <3>2, AsleepIff DEF WakeInv, Retrying, Timed
  <2>. QED
    BY <2>1, <2>2, <2>3, SleepsOn DEF Owed
<1>2. ASSUME due = "never"
      PROVE  ~Holds(w) /\ Asleep /\ lease.holder \notin Workers
  BY <1>2 DEF WakeInv, Holds
<1>3. CASE BeginOverflowWindow(w) \/ ComputeReturns(w) \/ AdoptSavedOutcome(w)
           \/ FinishCommitted(w) \/ DiscoverErasure(w) \/ ReleaseTurn(w)
           \/ Bill(w) \/ LoadEffectInputs(w) \/ EmitDerived(w)
           \/ DeferSetup(w) \/ LoseLease(w) \/ Crash(w)
  <2>1. due = "never"
    BY <1>3 DEF BeginOverflowWindow, ComputeReturns, AdoptSavedOutcome, FinishCommitted,
       DiscoverErasure, ReleaseTurn, Bill, LoadEffectInputs, EmitDerived, DeferSetup,
       LoseLease, Crash, workRow
  <2>2. UNCHANGED <<requests, live, cursor, windows>>
    BY <1>3 DEF BeginOverflowWindow, ComputeReturns, AdoptSavedOutcome, FinishCommitted,
       DiscoverErasure, ReleaseTurn, Bill, LoadEffectInputs, EmitDerived, DeferSetup,
       LoseLease, Crash, log
  <2>3. lease' = lease \/ lease' = NoLease
    BY <1>3 DEF BeginOverflowWindow, ComputeReturns, AdoptSavedOutcome, FinishCommitted,
       DiscoverErasure, ReleaseTurn, Bill, LoadEffectInputs, EmitDerived, DeferSetup,
       LoseLease, Crash, workRow
  <2>. QED
    BY <1>2, <2>1, <2>2, <2>3, SleepsOn, StreamAssumption DEF Owed, NoLease
<1>4. CASE ClaimExtraction(w) \/ PendingExtractionEffects(w) \/ PrepareWindow(w)
           \/ BeginExtractionAttempt(w) \/ SaveExtractionOutcome(w)
           \/ ClaimExtractionDerived(w) \/ AckExtractionEffects(w)
  BY <1>2, <1>4 DEF ClaimExtraction, PendingExtractionEffects, PrepareWindow,
     BeginExtractionAttempt, SaveExtractionOutcome, ClaimExtractionDerived,
     AckExtractionEffects, workRow
<1>5. CASE PublishWindow(w) \/ InvalidateExtraction(w) \/ YieldTurn(w)
  BY <1>5 DEF PublishWindow, InvalidateExtraction, YieldTurn, FreeRow
<1>6. CASE RetryExtraction(w) \/ WaitForProvider(w) \/ FailInputBudget(w)
           \/ DiscardComputation(w) \/ SuspendExtraction(w)
  <2>1. \E n, retry, error : Charge(w, n, retry, error)
    BY <1>6 DEF RetryExtraction, WaitForProvider, FailInputBudget, DiscardComputation,
       SuspendExtraction
  <2>. QED
    BY <2>1 DEF Charge, FreeRow
<1>7. CASE RetryEffects(w) \/ FailStale(w)
  BY <1>7 DEF RetryEffects, FailStale, PostponeEffects
<1>. QED
  BY <1>1, <1>3, <1>4, <1>5, <1>6, <1>7 DEF Execute, Deliver, Fail

\* Neither does an operator, whose commands make the row due
\* (rearm_exhausted_extraction, retire_extraction_window).
LEMMA OperatorSleeps ==
  ASSUME WakeInv, Operate, due' = "never"
  PROVE  Asleep' /\ lease'.holder \notin Workers
<1>1. CASE ClaimUserExtraction \/ ReleaseUserExtraction \/ OperatorCrash
  <2>1. due = "never" /\ UNCHANGED <<requests, live, cursor, windows>>
    BY <1>1 DEF ClaimUserExtraction, ReleaseUserExtraction, OperatorCrash, log, workRow
  <2>2. lease' = lease \/ lease' = NoLease \/ lease'.holder = Operator
    BY <1>1 DEF ClaimUserExtraction, ReleaseUserExtraction, OperatorCrash, workRow
  <2>. QED
    BY <2>1, <2>2, SleepsOn, StreamAssumption DEF WakeInv, Owed, NoLease
<1>2. CASE \E k \in Kinds : RearmHeld(k) \/ RetireWindow(k)
  BY <1>2 DEF RearmHeld, RetireWindow
<1>. QED
  BY <1>1, <1>2 DEF Operate

\* An erasure under one policy wakes no kind (trigger invalidate_extraction_input).
LEMMA ErasureSleeps ==
  ASSUME CoverInv, WakeInv, OnePolicy, NEW s \in live, EraseInput(s), due' = "never"
  PROVE  Asleep' /\ lease'.holder \notin Workers
<1>1. due = "never" /\ Asleep /\ lease'.holder \notin Workers
  BY DEF EraseInput, WakeInv
<1>2. UNCHANGED <<requests, cursor>> /\ live' \in SUBSET live
  BY DEF EraseInput
<1>3. Owed' \subseteq Owed
  <2>1. \A i \in DOMAIN windows : windows[i] \in Window
    BY DEF CoverInv, OwnInv, TypeOK, WindowsOK
  <2>2. ASSUME NEW i \in DOMAIN windows
        PROVE  windows'[i].state = windows[i].state /\ windows'[i].owed = windows[i].owed
    <3>1. \/ windows'[i] = windows[i]
          \/ windows'[i] = [windows[i] EXCEPT !.invalidated = TRUE, !.saved = FALSE]
      BY DEF EraseInput
    <3>. QED
      BY <2>1, <3>1 DEF Window
  <2>3. DOMAIN windows' = DOMAIN windows
    BY DEF EraseInput
  <2>. QED
    BY <2>2, <2>3 DEF Owed
<1>4. requests \in Seq(Request) /\ Sliding(requests) /\ Ordered(requests) /\ Highwater \in Nat
  BY HighwaterIsNat DEF CoverInv, OwnInv, TypeOK, LogOrdered, WakeInv
<1>5. live \in SUBSET (0..Highwater)
  BY <1>4 DEF CoverInv, LogOrdered
<1>6. ASSUME NEW k \in Kinds, cursor[k].retry = "due"
      PROVE  Rests(requests, live', k, cursor[k].completed, cursor[k].started)
  <2>1. cursor[k].completed \in Nat /\ cursor[k].started \in BOOLEAN
    BY DEF CoverInv, OwnInv, TypeOK, CursorsOK, Cursor
  <2>2. SamePolicy(requests, k)
    BY DEF SamePolicy, OnePolicy, WakeInv, AsAdmitted
  <2>3. Rests(requests, live, k, cursor[k].completed, cursor[k].started)
    BY <1>1, <1>6 DEF Asleep
  <2>4. PICK pos \in Nat, begun \in BOOLEAN, fewer \in SUBSET live :
          pos = cursor[k].completed /\ begun = cursor[k].started /\ fewer = live'
    BY <1>2, <2>1
  <2>5. Rests(requests, live, k, pos, begun)
    BY <2>3, <2>4
  <2>6. Rests(requests, fewer, k, pos, begun)
    <3>1. PICK b \in Nat : live \in SUBSET (0..b)
      BY <1>4, <1>5
    <3>. QED
      BY <1>4, <2>2, <2>5, <3>1, ErasureLetsRest, ZenonT(40)
  <2>. QED
    BY <2>4, <2>6
<1>. QED
  BY <1>1, <1>2, <1>3, <1>6 DEF Asleep

\* Publications and session ends make the row due (admit_extraction,
\* finalize_session); erasures wake no kind.
LEMMA ArrivalSleeps ==
  ASSUME CoverInv, WakeInv, OnePolicy \/ "erase" \notin Environment, Arrive, due' = "never"
  PROVE  Asleep' /\ lease'.holder \notin Workers
<1>1. PICK s \in live : EraseInput(s)
  BY DEF Arrive, AdmitExtraction, FinalizeSession
<1>2. OnePolicy
  BY <1>1 DEF EraseInput
<1>. QED
  BY <1>1, <1>2, ErasureSleeps

\* A deadline that passes wakes only a kind that awaited it.
LEMMA DeadlineSleeps ==
  ASSUME CoverInv, CoverInv', WakeInv, NEW i \in DOMAIN requests, DeadlinePasses(i),
         due' = "never"
  PROVE  Asleep' /\ lease'.holder \notin Workers
<1>1. due = "never" /\ Asleep /\ lease'.holder \notin Workers
  BY DEF DeadlinePasses, workRow, WakeInv
<1>2. UNCHANGED <<live, cursor, windows>>
  BY DEF DeadlinePasses
<1>3. requests \in Seq(Request) /\ requests' \in Seq(Request) /\ Sliding(requests)
      /\ Ordered(requests) /\ live \in SUBSET Nat
  BY DEF CoverInv, OwnInv, TypeOK, LogOrdered, WakeInv
<1>4. DeadlinesMoved(requests, requests')
  <2>1. \A j \in DOMAIN requests : requests[j] \in Request
    BY <1>3
  <2>2. DOMAIN requests' = DOMAIN requests
        /\ \A j \in DOMAIN requests \ {i} : requests'[j] = requests[j]
    BY <1>3 DEF DeadlinePasses
  <2>3. \/ requests[i].idle = "later" /\ requests'[i] = [requests[i] EXCEPT !.idle = "due"]
        \/ requests[i].wait = "later" /\ requests'[i] = [requests[i] EXCEPT !.wait = "due"]
    BY <1>3 DEF DeadlinePasses
  <2>4. /\ requests'[i].first = requests[i].first /\ requests'[i].last = requests[i].last
        /\ requests'[i].session = requests[i].session
        /\ requests'[i].eligible = requests[i].eligible
        /\ requests'[i].force = requests[i].force
        /\ requests'[i].finished = requests[i].finished
        /\ requests'[i].width = requests[i].width /\ requests'[i].stride = requests[i].stride
        /\ requests[i].wait = "none" => requests'[i].wait = "none"
        /\ requests[i].idle = "none" => requests'[i].idle = "none"
    BY <2>1, <2>3 DEF Request
  <2>. QED
    BY <2>2, <2>4 DEF DeadlinesMoved
<1>5. ASSUME NEW k \in Kinds, cursor[k].retry = "due"
      PROVE  Rests(requests', live, k, cursor[k].completed, cursor[k].started)
  <2>1. cursor[k].completed \in Nat /\ cursor[k].started \in BOOLEAN
    BY DEF CoverInv, OwnInv, TypeOK, CursorsOK, Cursor
  <2>2. Rests(requests, live, k, cursor[k].completed, cursor[k].started)
    BY <1>1, <1>5 DEF Asleep
  <2>. QED
    BY <1>3, <1>4, <2>1, <2>2, DeadlineLetsRest
<1>. QED
  BY <1>1, <1>2, <1>5 DEF Asleep, Owed

\* Time wakes nobody who waits for nothing.
LEMMA TimeSleeps ==
  ASSUME CoverInv, CoverInv', WakeInv, Pass, due' = "never"
  PROVE  Asleep' /\ lease'.holder \notin Workers
<1>1. CASE LeaseLapses \/ BacklogAges
  <2>1. due = "never" /\ UNCHANGED <<requests, live, cursor, windows>>
    BY <1>1 DEF LeaseLapses, BacklogAges, log
  <2>2. lease'.holder = lease.holder
    BY <1>1 DEF LeaseLapses, BacklogAges, CoverInv, OwnInv, TypeOK
  <2>. QED
    BY <2>1, <2>2, SleepsOn DEF WakeInv, Owed
<1>2. CASE WorkDue
  BY <1>2 DEF WorkDue
<1>3. ASSUME NEW k \in Kinds, RetryDue(k) PROVE FALSE
  BY <1>3 DEF RetryDue, workRow, WakeInv, Asleep
<1>4. ASSUME NEW i \in DOMAIN windows, EffectsDue(i)
      PROVE  Asleep' /\ lease'.holder \notin Workers
  <2>1. due = "never" /\ UNCHANGED <<requests, live, cursor, lease>>
    BY <1>4 DEF EffectsDue, log, workRow
  <2>2. windows[i] \in Window
    BY DEF CoverInv, OwnInv, TypeOK, WindowsOK
  <2>3. Owed' \subseteq Owed
    BY <1>4, <2>2 DEF EffectsDue, Owed, Window
  <2>. QED
    BY <2>1, <2>3, SleepsOn DEF WakeInv
<1>5. ASSUME NEW i \in DOMAIN requests, DeadlinePasses(i)
      PROVE  Asleep' /\ lease'.holder \notin Workers
  BY <1>5, DeadlineSleeps
<1>. QED
  BY <1>1, <1>2, <1>3, <1>4, <1>5 DEF Pass

\* Where the requests of a kind share their window policy, or nothing is
\* erased, a work row that is parked for ever has nothing to wake up for,
\* whatever lapses, crashes, fails or is commanded while turns are under way:
\* no runnable cursor, no retry or deadline to come, no effects to deliver.
THEOREM NothingIsMissed ==
  OnePolicy \/ "erase" \notin Environment => (Spec => []NoLostWakeup)
<1>. SUFFICES ASSUME OnePolicy \/ "erase" \notin Environment
              PROVE  Spec => []NoLostWakeup
  OBVIOUS
<1>1. Init => WakeInv
  <2>1. ASSUME Init PROVE WakeInv
    <3>1. DOMAIN requests = {} /\ DOMAIN windows = {}
      BY <2>1 DEF Init
    <3>2. Ordered(requests) /\ AsAdmitted /\ Owed = {}
      BY <3>1 DEF Ordered, AsAdmitted, Owed
    <3>3. \A k, pos : Pending(requests, live, k, pos) = {}
      BY <3>1 DEF Pending, Inputs
    <3>4. \A k \in Kinds : cursor[k].retry = "due" /\ cursor[k].window = NoWindow
      BY <2>1 DEF Init
    <3>5. lease.holder \notin Workers
      BY <2>1, StreamAssumption DEF Init
    <3>. QED
      BY <3>2, <3>3, <3>4, <3>5 DEF WakeInv, Asleep, Rests
  <2>. QED
    BY <2>1
<1>2. CoverInv /\ CoverInv' /\ WakeInv /\ [Next]_vars => WakeInv'
  <2>1. ASSUME CoverInv, CoverInv', WakeInv, Next PROVE WakeInv'
    <3>1. Ordered(requests') /\ AsAdmitted'
      BY <2>1, StepInOrder DEF WakeInv
    <3>2. due' = "never" => Asleep' /\ lease'.holder \notin Workers
      BY <2>1, <3>1, TurnSleeps, OperatorSleeps, ArrivalSleeps, TimeSleeps DEF Next
    <3>. QED
      BY <3>1, <3>2 DEF WakeInv
  <2>2. ASSUME WakeInv, UNCHANGED vars PROVE WakeInv'
    BY <2>2 DEF vars, WakeInv, Asleep, AsAdmitted, Owed
  <2>. QED
    BY <2>1, <2>2
<1>3. CoverInv /\ WakeInv => NoLostWakeup
  BY AsleepIff DEF WakeInv, NoLostWakeup
<1>. QED
  BY <1>1, <1>2, <1>3, Covered, PTL DEF Spec

-----------------------------------------------------------------------------
(* What a turn cuts.                                                       *)

\* The admissions stay in order.
LEMMA InOrder == Spec => [](Ordered(requests) /\ AsAdmitted)
<1>1. Init => Ordered(requests) /\ AsAdmitted
  BY DEF Init, Ordered, AsAdmitted
<1>2. CoverInv /\ CoverInv' /\ Ordered(requests) /\ AsAdmitted /\ [Next]_vars
        => Ordered(requests)' /\ AsAdmitted'
  <2>1. ASSUME CoverInv, CoverInv', Ordered(requests), AsAdmitted, Next
        PROVE  Ordered(requests)' /\ AsAdmitted'
    BY <2>1, StepInOrder DEF Ordered
  <2>2. ASSUME Ordered(requests), AsAdmitted, UNCHANGED vars
        PROVE  Ordered(requests)' /\ AsAdmitted'
    BY <2>2 DEF vars, Ordered, AsAdmitted
  <2>. QED
    BY <2>1, <2>2
<1>. QED
  BY <1>1, <1>2, Covered, PTL DEF Spec

\* What the row cut for a kind holds: exactly what a full batch asks for, or,
\* where a barrier ends the batch sooner, everything pending up to it.
CutIsExact(k) ==
  LET pos   == cursor[k].completed
      begun == cursor[k].started
      need  == Needed(requests, live, k, pos, begun)
      bars  == Barriers(requests, live, k, pos, begun)
      man   == windows'[cursor'[k].window].manifest
      new   == {s \in man : s > pos}
  IN  /\ new # {} /\ Cardinality(new) <= need
      /\ \A s \in new, bar \in bars : s <= bar
      /\ \/ Cardinality(new) = need
         \/ bars # {} /\ \A s \in Pending(requests, live, k, pos) :
                           (\A bar \in bars : s <= bar) => s \in new
      /\ Cardinality(man) <= Policy(requests, live, k, pos).width

\* Whenever a turn cuts a window, the window is not empty, fits the window size
\* of its policy, crosses no barrier, and is as full as the barriers allow
\* (prepare_extraction).
THEOREM CutsAreExact ==
  Spec => [][\A w \in Workers, k \in Kinds :
               PrepareWindow(w) /\ cursor[k].window = NoWindow /\ cursor'[k].window # NoWindow
                 => CutIsExact(k)]_vars
<1>. DEFINE P == \A w \in Workers, k \in Kinds :
               PrepareWindow(w) /\ cursor[k].window = NoWindow /\ cursor'[k].window # NoWindow
                 => CutIsExact(k)
<1>1. ASSUME CoverInv, Ordered(requests), NEW w \in Workers, NEW k \in Kinds, PrepareWindow(w),
             cursor[k].window = NoWindow, cursor'[k].window # NoWindow
      PROVE  CutIsExact(k)
  <2>. USE <1>1 DEF CoverInv, OwnInv
  <2>1. PICK j \in Kinds : ResumeWindow(w, j) \/ CutWindow(w, j)
    BY DEF PrepareWindow
  <2>2. CutWindow(w, k)
    <3>1. CutWindow(w, j) /\ j = k
      BY <2>1 DEF ResumeWindow, CutWindow, TypeOK, CursorsOK, Cursor
    <3>. QED
      BY <3>1
  <2>. DEFINE id == CHOOSE i \in WindowIds \ DOMAIN windows : TRUE
              pos == cursor[k].completed
              begun == cursor[k].started
              man == Manifest(requests, live, k, pos, begun)
              new == NewInputs(requests, live, k, pos, begun)
              bars == Barriers(requests, live, k, pos, begun)
              need == Needed(requests, live, k, pos, begun)
              width == Policy(requests, live, k, pos).width
  <2>3. PICK end \in new :
          /\ IsGreatest(end, new)
          /\ windows' = [i \in DOMAIN windows \cup {id} |->
               IF i # id THEN windows[i]
               ELSE [kind |-> k, predecessor |-> pos, end |-> end, manifest |-> man,
                     state |-> "open", saved |-> FALSE, invalidated |-> FALSE,
                     owed |-> FALSE, effectsRetry |-> "due", derived |-> FALSE]]
          /\ cursor' = [cursor EXCEPT ![k].window = id]
          /\ Take(w, id, k, FALSE)
    BY <2>2, Zenon DEF CutWindow
  <2>4. requests \in Seq(Request) /\ live \in SUBSET Nat /\ pos \in Nat /\ begun \in BOOLEAN
        /\ Sliding(requests) /\ Highwater \in Nat
    BY HighwaterIsNat DEF TypeOK, CursorsOK, Cursor, LogOrdered
  <2>5. live \in SUBSET (0..Highwater)
    BY <2>4 DEF LogOrdered
  <2>6. /\ new \subseteq Pending(requests, live, k, pos)
        /\ new \subseteq man /\ \A s \in man : s > pos => s \in new
    BY <2>3, <2>4, SelectionHasNoGap
  <2>7. Selectable(requests, live, k, pos, begun)
    BY <2>3 DEF Selectable
  <2>8. /\ Cardinality(new) <= need
        /\ \A s \in new, bar \in bars : s <= bar
        /\ \/ Cardinality(new) = need
           \/ bars # {} /\ \A s \in Pending(requests, live, k, pos) :
                             (\A bar \in bars : s <= bar) => s \in new
        /\ Cardinality(man) <= width
    BY <2>4, <2>5, <2>7, SelectionIsExact
  <2>9. \A s \in new : s > pos
    BY <2>6 DEF Pending
  <2>10. windows'[cursor'[k].window].manifest = man
    <3>1. cursor'[k].window = id
      BY <2>3 DEF TypeOK, CursorsOK, Cursor
    <3>. HIDE DEF id, man
    <3>. QED
      BY <2>3, <3>1
  <2>. HIDE DEF man, new, bars, need, width
  <2>11. {s \in man : s > pos} = new
    BY <2>6, <2>9
  <2>. QED
    BY <2>3, <2>8, <2>10, <2>11 DEF CutIsExact, bars, need, width
<1>2. ASSUME CoverInv, Ordered(requests) PROVE P
  BY <1>1, <1>2
<1>. HIDE DEF P
<1>3. CoverInv /\ Ordered(requests) => P
  BY <1>2
<1>4. CoverInv /\ Ordered(requests) /\ [Next]_vars => [P]_vars
  BY <1>3
<1>. QED
  BY <1>4, Covered, InOrder, PTL DEF Spec, P
=============================================================================
