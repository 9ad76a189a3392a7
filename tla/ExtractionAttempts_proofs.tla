---------------------- MODULE ExtractionAttempts_proofs ----------------------
(***************************************************************************)
(* What ExtractionStream charges to a window: computations are debited     *)
(* before they are dispatched, so neither crashes nor takeovers make any   *)
(* of them free, a held cursor can be released by an operator, and no      *)
(* outcome computed from erased inputs stays retained.                     *)
(***************************************************************************)
EXTENDS ExtractionCoverage_proofs

USE DEF Executing, Delivering, Phases, Retries, Errors

-----------------------------------------------------------------------------
(* The inductive invariant and its frame.                                  *)

\* A window that may be computed again has not used up the ceiling.
Chargeable(k) ==
  /\ cursor[k].window # NoWindow /\ cursor[k].retry # "never"
  /\ ~windows[cursor[k].window].saved /\ ~windows[cursor[k].window].invalidated
ChargeableIsBelowCeiling ==
  \A k \in Kinds : Chargeable(k) => spent[cursor[k].window] < MaxAttempts + rearms

\* Nothing is charged before the window exists.
UncutIsFree == \A i \in WindowIds : i \notin DOMAIN windows => spent[i] = 0

ChargeInv ==
  /\ UncutIsFree /\ TurnsKnowTheirCharge /\ ChargeableIsBelowCeiling
  /\ DebitsAreKept /\ CeilingHolds

\* A step after which every turn that passes the fence is the one it was.
HoldersKept ==
  \A w \in Workers :
    Holds(w)' /\ turn'[w].phase \in Executing =>
      /\ Holds(w) /\ turn[w].phase \in Executing
      /\ turn'[w].window = turn[w].window /\ turn'[w].attempts = turn[w].attempts
      /\ turn'[w].reserved = turn[w].reserved

\* A step in which cursors only become due.
CursorsKept ==
  \A k \in Kinds :
    \/ cursor'[k] = cursor[k]
    \/ cursor[k].retry = "later" /\ cursor'[k] = [cursor[k] EXCEPT !.retry = "due"]

\* A step that deletes no retained outcome of an open window, unless it
\* invalidates the window.
OutcomesKept ==
  /\ DOMAIN windows' = DOMAIN windows
  /\ \A i \in DOMAIN windows :
       /\ windows'[i].kind = windows[i].kind
       /\ windows[i].state = "open" /\ (windows[i].saved \/ windows[i].invalidated)
            => windows'[i].saved \/ windows'[i].invalidated

ChargeFrame == HoldersKept /\ CursorsKept /\ OutcomesKept /\ UNCHANGED <<spent, rearms>>

\* Such steps keep the charges.
LEMMA FrameKeepsCharge ==
  ASSUME OwnInv, OwnInv', ChargeInv, ChargeFrame
  PROVE  ChargeInv'
<1>. USE DEF OwnInv
<1>1. /\ HoldersKept /\ CursorsKept /\ OutcomesKept /\ spent' = spent /\ rearms' = rearms
      /\ DOMAIN windows' = DOMAIN windows
  BY DEF ChargeFrame, OutcomesKept
<1>2. ASSUME NEW k \in Kinds
      PROVE  /\ cursor'[k].window = cursor[k].window
             /\ cursor'[k].attempts = cursor[k].attempts
             /\ cursor'[k].retry = "never" <=> cursor[k].retry = "never"
  <2>1. cursor[k] \in Cursor
    BY DEF TypeOK, CursorsOK
  <2>. QED
    BY <1>1, <2>1 DEF CursorsKept, Cursor
<1>3. UncutIsFree'
  BY <1>1 DEF ChargeInv, UncutIsFree
<1>4. TurnsKnowTheirCharge'
  <2>. SUFFICES ASSUME NEW w \in Workers, Holds(w)', turn'[w].phase \in Executing
                PROVE  /\ cursor'[Kind(w)'].attempts = turn'[w].attempts + Debited(w)'
                       /\ ~turn'[w].reserved => cursor'[Kind(w)'].retry # "never"
                       /\ turn'[w].reserved => Kind(w)' \notin OverflowKinds
    BY DEF TurnsKnowTheirCharge
  <2>1. /\ Holds(w) /\ turn[w].phase \in Executing
        /\ turn'[w].window = turn[w].window /\ turn'[w].attempts = turn[w].attempts
        /\ turn'[w].reserved = turn[w].reserved
    BY <1>1 DEF HoldersKept
  <2>2. turn[w].window \in DOMAIN windows /\ Kind(w) \in Kinds
    BY <2>1, TurnRow
  <2>3. Kind(w)' = Kind(w)
    BY <1>1, <2>1, <2>2 DEF OutcomesKept, Kind, Row
  <2>4. Debited(w)' = Debited(w)
    BY <2>1 DEF Debited
  <2>. QED
    BY <1>2, <2>1, <2>2, <2>3, <2>4 DEF ChargeInv, TurnsKnowTheirCharge
<1>5. ChargeableIsBelowCeiling'
  <2>. SUFFICES ASSUME NEW k \in Kinds, Chargeable(k)'
                PROVE  spent[cursor[k].window] < MaxAttempts + rearms
    BY <1>1, <1>2 DEF ChargeableIsBelowCeiling
  <2>1. cursor[k].window # NoWindow /\ cursor[k].retry # "never"
    BY <1>2 DEF Chargeable
  <2>2. cursor[k].window \in DOMAIN windows /\ windows[cursor[k].window].state = "open"
    BY <2>1 DEF CursorNamesOpenWindow, TypeOK, CursorsOK
  <2>3. Chargeable(k)
    BY <1>1, <1>2, <2>1, <2>2 DEF Chargeable, OutcomesKept
  <2>. QED
    BY <2>3 DEF ChargeInv, ChargeableIsBelowCeiling
<1>6. DebitsAreKept' /\ CeilingHolds'
  BY <1>1, <1>2 DEF ChargeInv, DebitsAreKept, CeilingHolds
<1>. QED
  BY <1>3, <1>4, <1>5, <1>6 DEF ChargeInv

\* A step about one kind: only its cursor, its windows and their charges move.
LEMMA OneKindCharged ==
  ASSUME OwnInv, OwnInv', ChargeInv, NEW k \in Kinds,
         \A j \in Kinds \ {k} : cursor'[j] = cursor[j],
         \A i \in DOMAIN windows :
           /\ i \in DOMAIN windows'
           /\ windows[i].kind # k => windows'[i] = windows[i],
         \A i \in WindowIds :
           (i \in DOMAIN windows /\ windows[i].kind = k) \/ spent'[i] = spent[i],
         rearms' = rearms \/ rearms' = rearms + 1,
         TurnsKnowTheirCharge',
         cursor'[k].window # NoWindow =>
           /\ spent'[cursor'[k].window] <= cursor'[k].attempts
           /\ Chargeable(k)' => spent'[cursor'[k].window] < MaxAttempts + rearms',
         \A i \in WindowIds : spent'[i] <= MaxAttempts + rearms'
  PROVE  ChargeInv'
<1>. USE DEF OwnInv
<1>1. UncutIsFree'
  BY DEF ChargeInv, UncutIsFree
<1>2. ASSUME NEW j \in Kinds \ {k}, cursor[j].window # NoWindow
      PROVE  /\ cursor'[j] = cursor[j] /\ cursor[j].window \in DOMAIN windows
             /\ windows'[cursor[j].window] = windows[cursor[j].window]
             /\ spent'[cursor[j].window] = spent[cursor[j].window]
  <2>1. cursor[j].window \in DOMAIN windows /\ windows[cursor[j].window].kind = j
    BY <1>2 DEF CursorNamesOpenWindow, TypeOK, CursorsOK
  <2>2. cursor[j].window \in WindowIds
    BY <2>1 DEF TypeOK, WindowsOK
  <2>. QED
    BY <2>1, <2>2
<1>3. DebitsAreKept'
  BY <1>2 DEF ChargeInv, DebitsAreKept
<1>4. rearms \in Nat /\ MaxAttempts \in Nat /\ spent \in [WindowIds -> Int]
  BY StreamAssumption DEF TypeOK
<1>5. ChargeableIsBelowCeiling'
  <2>. SUFFICES ASSUME NEW j \in Kinds, Chargeable(j)'
                PROVE  spent'[cursor'[j].window] < MaxAttempts + rearms'
    BY DEF ChargeableIsBelowCeiling
  <2>1. CASE j = k
    BY <2>1 DEF Chargeable
  <2>2. CASE j # k
    <3>1. cursor'[j] = cursor[j] /\ cursor[j].window # NoWindow
      BY <2>2 DEF Chargeable
    <3>2. /\ cursor[j].window \in DOMAIN windows
          /\ windows'[cursor[j].window] = windows[cursor[j].window]
          /\ spent'[cursor[j].window] = spent[cursor[j].window]
      BY <1>2, <2>2, <3>1
    <3>3. Chargeable(j)
      BY <3>1, <3>2 DEF Chargeable
    <3>4. spent[cursor[j].window] < MaxAttempts + rearms
      BY <3>3 DEF ChargeInv, ChargeableIsBelowCeiling
    <3>5. cursor[j].window \in WindowIds
      BY <3>2 DEF TypeOK, WindowsOK
    <3>. QED
      BY <1>4, <3>1, <3>2, <3>4, <3>5
  <2>. QED
    BY <2>1, <2>2
<1>6. CeilingHolds'
  BY DEF CeilingHolds
<1>. QED
  BY <1>1, <1>3, <1>5, <1>6 DEF ChargeInv

\* When nobody passes the fence, no turn needs to know its charge.
LEMMA UnheldKnow ==
  ASSUME \A w \in Workers : ~Holds(w)'
  PROVE  TurnsKnowTheirCharge'
BY DEF TurnsKnowTheirCharge

\* Turns that move to another phase keep what they know.
LEMMA GotoHolders ==
  ASSUME TypeOK, NEW w \in Workers, NEW p \in Phases, Goto(w, p), UNCHANGED lease,
         p \in Executing => turn[w].phase \in Executing
  PROVE  HoldersKept
<1>1. /\ turn'[w].phase = p /\ turn'[w].window = turn[w].window
      /\ turn'[w].attempts = turn[w].attempts /\ turn'[w].reserved = turn[w].reserved
  BY DEF Goto, TypeOK, TurnsOK, Turn
<1>2. \A v \in Workers \ {w} : turn'[v] = turn[v]
  BY DEF Goto, TypeOK, TurnsOK
<1>. QED
  BY <1>1, <1>2 DEF HoldersKept, Holds

\* Turns that end know nothing.
LEMMA EndedHolders ==
  ASSUME TypeOK, NEW w \in Workers, Ended(w), lease' = lease \/ ~lease'.live
  PROVE  HoldersKept
<1>1. turn'[w].phase = "idle" /\ \A v \in Workers \ {w} : turn'[v] = turn[v]
  BY DEF Ended, IdleTurn, TypeOK, TurnsOK
<1>. QED
  BY <1>1 DEF HoldersKept, Holds

\* Rewriting one row without touching its kind or, while it is open, its outcome.
LEMMA OutcomeKept ==
  ASSUME TypeOK, NEW i, NEW r, windows' = [windows EXCEPT ![i] = r],
         i \in DOMAIN windows =>
           /\ r.kind = windows[i].kind
           /\ windows[i].state = "open" =>
                r.saved = windows[i].saved /\ r.invalidated = windows[i].invalidated
  PROVE  OutcomesKept
BY DEF OutcomesKept, TypeOK, WindowsOK

\* A row of extraction_windows whose delivery is postponed keeps its outcome.
LEMMA PostponedOutcome ==
  ASSUME TypeOK, NEW i \in DOMAIN windows, PostponeEffects(i)
  PROVE  OutcomesKept
<1>. DEFINE r == [windows[i] EXCEPT !.effectsRetry = "later"]
<1>1. windows[i] \in Window
  BY DEF TypeOK, WindowsOK
<1>2. r.kind = windows[i].kind /\ r.saved = windows[i].saved /\ r.invalidated = windows[i].invalidated
  BY <1>1 DEF Window
<1>3. windows' = [windows EXCEPT ![i] = r]
  BY DEF PostponeEffects
<1>. HIDE DEF r
<1>. QED
  BY <1>2, <1>3, OutcomeKept

\* A step that leaves cursors, rows and charges alone is quiet when its turns are.
LEMMA QuietCharge ==
  ASSUME HoldersKept, UNCHANGED <<cursor, windows, spent, rearms>>
  PROVE  ChargeFrame
BY DEF ChargeFrame, CursorsKept, OutcomesKept

-----------------------------------------------------------------------------
(* Steps that charge nothing.                                              *)

QuietTurn(w) ==
  \/ ClaimExtraction(w) \/ PendingExtractionEffects(w) \/ PrepareNothing(w)
  \/ BeginOverflowWindow(w) \/ ComputeReturns(w) \/ AdoptSavedOutcome(w)
  \/ FinishCommitted(w) \/ DiscoverErasure(w) \/ ReleaseTurn(w)

\* Turns begin, compute and end without a charge of their own.
LEMMA QuietTurnCharges ==
  ASSUME TypeOK, NEW w \in Workers, QuietTurn(w)
  PROVE  ChargeFrame
<1>1. CASE ClaimExtraction(w)
  <2>1. turn'[w].phase = "claimed" /\ lease'.holder = w
    BY <1>1 DEF ClaimExtraction, Goto, TypeOK, TurnsOK, Turn
  <2>2. HoldersKept
    BY <2>1 DEF HoldersKept, Holds
  <2>. QED
    BY <1>1, <2>2, QuietCharge DEF ClaimExtraction, history
<1>2. CASE PendingExtractionEffects(w)
  <2>1. turn'[w].phase \in {"billing", "selecting"}
    <3>1. CASE Goto(w, "selecting")
      BY <3>1 DEF Goto, TypeOK, TurnsOK, Turn
    <3>2. ASSUME NEW j, turn' = [turn EXCEPT ![w] = [@ EXCEPT !.phase = "billing", !.window = j]]
          PROVE  turn'[w].phase = "billing"
      BY <3>2 DEF TypeOK, TurnsOK, Turn
    <3>. QED
      BY <1>2, <3>1, <3>2 DEF PendingExtractionEffects
  <2>2. \A v \in Workers \ {w} : turn'[v] = turn[v]
    BY <1>2 DEF PendingExtractionEffects, Goto, TypeOK, TurnsOK
  <2>3. HoldersKept
    BY <1>2, <2>1, <2>2 DEF HoldersKept, Holds, PendingExtractionEffects, workRow
  <2>. QED
    BY <1>2, <2>3, QuietCharge DEF PendingExtractionEffects, history
<1>3. CASE PrepareNothing(w)
  <2>1. HoldersKept
    BY <1>3, EndedHolders DEF PrepareNothing, NoLease
  <2>. QED
    BY <1>3, <2>1, QuietCharge DEF PrepareNothing, history
<1>4. CASE \/ BeginOverflowWindow(w) \/ ComputeReturns(w) \/ AdoptSavedOutcome(w)
  <2>1. PICK p \in Executing : Goto(w, p)
    BY <1>4 DEF BeginOverflowWindow, ComputeReturns, AdoptSavedOutcome
  <2>2. turn[w].phase \in Executing /\ UNCHANGED <<lease, cursor, windows, spent, rearms>>
    BY <1>4 DEF BeginOverflowWindow, ComputeReturns, AdoptSavedOutcome, workRow, history
  <2>3. HoldersKept
    BY <2>1, <2>2, GotoHolders
  <2>. QED
    BY <2>2, <2>3, QuietCharge
<1>5. CASE FinishCommitted(w)
  <2>1. HoldersKept
    BY <1>5, EndedHolders DEF FinishCommitted, workRow
  <2>. QED
    BY <1>5, <2>1, QuietCharge DEF FinishCommitted, history
<1>6. CASE DiscoverErasure(w)
  <2>1. HoldersKept
    BY <1>6, GotoHolders DEF DiscoverErasure, workRow
  <2>. QED
    BY <1>6, <2>1, QuietCharge DEF DiscoverErasure, history
<1>7. CASE ReleaseTurn(w)
  <2>1. HoldersKept
    BY <1>7, EndedHolders DEF ReleaseTurn, NoLease
  <2>. QED
    BY <1>7, <2>1, QuietCharge DEF ReleaseTurn, history
<1>. QED
  BY <1>1, <1>2, <1>3, <1>4, <1>5, <1>6, <1>7 DEF QuietTurn

\* Delivery drops the outcomes of completed windows only.
LEMMA DeliverCharges ==
  ASSUME TypeOK, DeliveredIsClosed, NEW w \in Workers, Deliver(w)
  PROVE  ChargeFrame
<1>. DEFINE i == turn[w].window
<1>1. PICK p \in Phases \ Executing : Goto(w, p)
  BY DEF Deliver, Bill, LoadEffectInputs, ClaimExtractionDerived, EmitDerived,
         AckExtractionEffects, RetryEffects
<1>2. UNCHANGED <<lease, cursor, spent, rearms>>
  BY DEF Deliver, Bill, LoadEffectInputs, ClaimExtractionDerived, EmitDerived,
         AckExtractionEffects, RetryEffects, workRow, history
<1>3. HoldersKept
  BY <1>1, <1>2, GotoHolders
<1>4. turn[w].phase \in Delivering
  BY DEF Deliver, Bill, LoadEffectInputs, ClaimExtractionDerived, EmitDerived,
         AckExtractionEffects, RetryEffects
<1>5. i \in DOMAIN windows /\ windows[i] \in Window
  BY <1>4, TurnRow DEF Row
<1>6. CASE Bill(w) \/ LoadEffectInputs(w) \/ EmitDerived(w)
  BY <1>2, <1>3, <1>6, QuietCharge DEF Bill, LoadEffectInputs, EmitDerived
<1>7. CASE ClaimExtractionDerived(w)
  <2>. DEFINE r == [windows[i] EXCEPT !.derived = TRUE]
  <2>1. r.kind = windows[i].kind /\ r.saved = windows[i].saved
        /\ r.invalidated = windows[i].invalidated
    BY <1>5 DEF Window
  <2>2. windows' = [windows EXCEPT ![i] = r]
    BY <1>7 DEF ClaimExtractionDerived
  <2>. HIDE DEF r
  <2>3. OutcomesKept
    BY <2>1, <2>2, OutcomeKept
  <2>. QED
    BY <1>2, <1>3, <2>3 DEF ChargeFrame, CursorsKept
<1>8. CASE AckExtractionEffects(w)
  <2>. DEFINE r == [windows[i] EXCEPT !.owed = FALSE, !.saved = FALSE, !.manifest = {}]
  <2>1. r.kind = windows[i].kind /\ windows[i].state # "open"
    BY <1>4, <1>5 DEF Window, DeliveredIsClosed, Row
  <2>2. windows' = [windows EXCEPT ![i] = r]
    BY <1>8 DEF AckExtractionEffects
  <2>. HIDE DEF r
  <2>3. OutcomesKept
    BY <2>1, <2>2, OutcomeKept
  <2>. QED
    BY <1>2, <1>3, <2>3 DEF ChargeFrame, CursorsKept
<1>9. CASE RetryEffects(w)
  <2>1. OutcomesKept
    BY <1>5, <1>9, PostponedOutcome DEF RetryEffects
  <2>. QED
    BY <1>2, <1>3, <2>1 DEF ChargeFrame, CursorsKept
<1>. QED
  BY <1>6, <1>7, <1>8, <1>9 DEF Deliver

QuietFail(w) ==
  YieldTurn(w) \/ Crash(w) \/ DeferSetup(w) \/ FailStale(w) \/ LoseLease(w)

\* Neither do free yields, crashes and turns that lost their lease.
LEMMA QuietFailCharges ==
  ASSUME TypeOK, NEW w \in Workers, QuietFail(w)
  PROVE  ChargeFrame
<1>1. CASE YieldTurn(w)
  <2>1. HoldersKept
    BY <1>1, EndedHolders DEF YieldTurn, FreeRow, NoLease
  <2>. QED
    BY <1>1, <2>1, QuietCharge DEF YieldTurn, history
<1>2. CASE Crash(w)
  <2>1. HoldersKept
    BY <1>2, EndedHolders DEF Crash, workRow
  <2>. QED
    BY <1>2, <2>1, QuietCharge DEF Crash, history
<1>3. CASE DeferSetup(w) \/ LoseLease(w)
  <2>1. Goto(w, "ending") /\ UNCHANGED <<lease, cursor, windows, spent, rearms>>
    BY <1>3 DEF DeferSetup, LoseLease, workRow, history
  <2>2. HoldersKept
    BY <2>1, GotoHolders
  <2>. QED
    BY <2>1, <2>2, QuietCharge
<1>4. CASE FailStale(w)
  <2>1. Goto(w, "ending") /\ UNCHANGED <<lease, cursor, spent, rearms>>
    BY <1>4 DEF FailStale, history
  <2>2. HoldersKept
    BY <2>1, GotoHolders
  <2>3. OutcomesKept
    BY <1>4, TurnRow, PostponedOutcome DEF FailStale
  <2>. QED
    BY <2>1, <2>2, <2>3 DEF ChargeFrame, CursorsKept
<1>. QED
  BY <1>1, <1>2, <1>3, <1>4 DEF QuietFail

QuietOperate == ClaimUserExtraction \/ ReleaseUserExtraction \/ OperatorCrash

\* Nor an explicit caller that takes, releases or abandons the user lease.
LEMMA QuietOperateCharges ==
  ASSUME TypeOK, QuietOperate
  PROVE  ChargeFrame
<1>1. UNCHANGED <<cursor, windows, spent, rearms, turn>>
  BY DEF QuietOperate, ClaimUserExtraction, ReleaseUserExtraction, OperatorCrash, history
<1>2. \/ lease'.holder = Operator \/ ~lease'.live \/ lease' = lease
  BY DEF QuietOperate, ClaimUserExtraction, ReleaseUserExtraction, OperatorCrash, workRow, NoLease
<1>3. HoldersKept
  BY <1>1, <1>2, StreamAssumption DEF HoldersKept, Holds
<1>. QED
  BY <1>1, <1>3, QuietCharge

\* Publications, session ends and erasures charge nothing.
LEMMA ArriveCharges ==
  ASSUME TypeOK, Arrive
  PROVE  ChargeFrame
<1>1. UNCHANGED <<cursor, spent, rearms, turn, lease>>
  BY DEF Arrive, AdmitExtraction, FinalizeSession, EraseInput, history
<1>2. HoldersKept /\ CursorsKept
  BY <1>1 DEF HoldersKept, Holds, CursorsKept
<1>3. ASSUME NEW s \in live, EraseInput(s) PROVE OutcomesKept
  <2>1. DOMAIN windows' = DOMAIN windows
    BY <1>3 DEF EraseInput
  <2>2. ASSUME NEW i \in DOMAIN windows
        PROVE  /\ windows'[i].kind = windows[i].kind
               /\ windows'[i].invalidated \/ windows'[i] = windows[i]
    <3>1. windows[i] \in Window
      BY DEF TypeOK, WindowsOK
    <3>2. \/ windows'[i] = windows[i]
          \/ windows'[i] = [windows[i] EXCEPT !.invalidated = TRUE, !.saved = FALSE]
      BY <1>3 DEF EraseInput
    <3>. QED
      BY <3>1, <3>2 DEF Window
  <2>. QED
    BY <2>1, <2>2 DEF OutcomesKept
<1>4. (\A s \in live : ~EraseInput(s)) => UNCHANGED windows
  BY DEF Arrive, AdmitExtraction, FinalizeSession
<1>5. OutcomesKept
  BY <1>3, <1>4 DEF OutcomesKept
<1>. QED
  BY <1>1, <1>2, <1>5 DEF ChargeFrame

\* Time charges nothing: a backed off cursor becomes due with its attempts.
LEMMA PassCharges ==
  ASSUME TypeOK, Pass
  PROVE  ChargeFrame
<1>1. UNCHANGED <<spent, rearms, turn>> /\ (lease' = lease \/ ~lease'.live)
  BY DEF Pass, LeaseLapses, WorkDue, BacklogAges, RetryDue, EffectsDue, DeadlinePasses,
         workRow, history, TypeOK
<1>2. HoldersKept
  BY <1>1 DEF HoldersKept, Holds
<1>3. ASSUME NEW k \in Kinds, RetryDue(k) PROVE ChargeFrame
  <2>1. CursorsKept /\ OutcomesKept
    BY <1>3 DEF RetryDue, CursorsKept, OutcomesKept, TypeOK, CursorsOK
  <2>. QED
    BY <1>1, <1>2, <2>1 DEF ChargeFrame
<1>4. ASSUME NEW i \in DOMAIN windows, EffectsDue(i) PROVE ChargeFrame
  <2>. DEFINE r == [windows[i] EXCEPT !.effectsRetry = "due"]
  <2>1. windows[i] \in Window
    BY DEF TypeOK, WindowsOK
  <2>2. r.kind = windows[i].kind /\ r.saved = windows[i].saved
        /\ r.invalidated = windows[i].invalidated
    BY <2>1 DEF Window
  <2>3. windows' = [windows EXCEPT ![i] = r] /\ UNCHANGED cursor
    BY <1>4 DEF EffectsDue
  <2>. HIDE DEF r
  <2>4. OutcomesKept
    BY <2>2, <2>3, OutcomeKept
  <2>. QED
    BY <1>1, <1>2, <2>3, <2>4 DEF ChargeFrame, CursorsKept
<1>5. CASE \/ LeaseLapses \/ WorkDue \/ BacklogAges
           \/ \E i \in DOMAIN requests : DeadlinePasses(i)
  <2>1. UNCHANGED <<cursor, windows>>
    BY <1>5 DEF LeaseLapses, WorkDue, BacklogAges, DeadlinePasses
  <2>. QED
    BY <1>1, <1>2, <2>1, QuietCharge
<1>. QED
  BY <1>3, <1>4, <1>5 DEF Pass

-----------------------------------------------------------------------------
(* Failures that charge the cursor.                                        *)

\* The turn that passes the fence works on the window its cursor names.
LEMMA HolderRow ==
  ASSUME OwnInv, NEW w \in Workers, Holds(w), turn[w].phase \in Executing
  PROVE  /\ Kind(w) \in Kinds /\ turn[w].window \in DOMAIN windows
         /\ turn[w].window \in WindowIds /\ turn[w].window # NoWindow
         /\ windows[turn[w].window] = Row(w) /\ Row(w).kind = Kind(w) /\ Row(w) \in Window
         /\ cursor[Kind(w)].window = turn[w].window
         /\ cursor[Kind(w)] \in Cursor /\ turn[w] \in Turn
         /\ Row(w).state = "open"
<1>1. /\ Kind(w) \in Kinds /\ turn[w].window \in DOMAIN windows
      /\ turn[w].window \in WindowIds /\ Row(w) \in Window /\ turn[w] \in Turn
  BY TurnRow DEF OwnInv
<1>2. cursor[Kind(w)].window = turn[w].window /\ Row(w).state = "open"
  BY DEF OwnInv, HolderOwnsWindow
<1>3. turn[w].window # NoWindow
  BY <1>1, StreamAssumption
<1>4. cursor[Kind(w)] \in Cursor
  BY <1>1 DEF OwnInv, TypeOK, CursorsOK
<1>. QED
  BY <1>1, <1>2, <1>3, <1>4 DEF Row, Kind

\* A charge keeps the debits if it leaves no more on the window than on the
\* cursor, and holds the cursor or stays below the ceiling.
LEMMA ChargedKeepsCharge ==
  ASSUME OwnInv, OwnInv', ChargeInv, NEW w \in Workers, Holds(w), turn[w].phase \in Executing,
         NEW n, NEW retry, NEW error, Charge(w, n, retry, error),
         DOMAIN windows' = DOMAIN windows,
         \A i \in DOMAIN windows \ {turn[w].window} : windows'[i] = windows[i],
         \A i \in WindowIds \ {turn[w].window} : spent'[i] = spent[i],
         spent'[turn[w].window] <= spent[turn[w].window],
         spent'[turn[w].window] <= n,
         (retry # "never" /\ ~windows'[turn[w].window].saved
            /\ ~windows'[turn[w].window].invalidated)
           => spent'[turn[w].window] < MaxAttempts + rearms
  PROVE  ChargeInv'
<1>. PICK k, i : k = Kind(w) /\ i = turn[w].window
  OBVIOUS
<1>1. /\ k \in Kinds /\ i \in DOMAIN windows /\ i \in WindowIds /\ i # NoWindow
      /\ windows[i].kind = k /\ cursor[k].window = i /\ cursor[k] \in Cursor
  BY HolderRow
<1>2. /\ cursor'[k].window = i /\ cursor'[k].attempts = n /\ cursor'[k].retry = retry
      /\ \A j \in Kinds \ {k} : cursor'[j] = cursor[j]
  BY <1>1 DEF Charge, OwnInv, TypeOK, CursorsOK, Cursor
<1>3. rearms' = rearms /\ ~lease'.live
  BY DEF Charge, FreeRow, NoLease
<1>4. TurnsKnowTheirCharge'
  BY <1>3, UnheldKnow DEF Holds
<1>5. \A j \in DOMAIN windows : windows[j].kind # k => windows'[j] = windows[j]
  BY <1>1
<1>6. \A j \in WindowIds : (j \in DOMAIN windows /\ windows[j].kind = k) \/ spent'[j] = spent[j]
  BY <1>1
<1>7. Chargeable(k)' => retry # "never" /\ ~windows'[i].saved /\ ~windows'[i].invalidated
  BY <1>2 DEF Chargeable
<1>8. spent' \in [WindowIds -> Int] /\ spent \in [WindowIds -> Int] /\ MaxAttempts \in Nat /\ rearms \in Nat
  BY StreamAssumption DEF OwnInv, TypeOK
<1>9. \A j \in WindowIds : spent'[j] <= MaxAttempts + rearms'
  <2>. SUFFICES ASSUME NEW j \in WindowIds PROVE spent'[j] <= MaxAttempts + rearms
    BY <1>3
  <2>1. spent[j] <= MaxAttempts + rearms /\ spent[j] \in Int /\ spent'[j] \in Int
    BY <1>8 DEF ChargeInv, CeilingHolds
  <2>2. spent'[j] <= spent[j]
    BY <1>8
  <2>. QED
    BY <1>8, <2>1, <2>2
<1>10. ASSUME cursor'[k].window # NoWindow
       PROVE  /\ spent'[cursor'[k].window] <= cursor'[k].attempts
              /\ Chargeable(k)' => spent'[cursor'[k].window] < MaxAttempts + rearms'
  BY <1>2, <1>3, <1>7
<1>11. \A j \in DOMAIN windows :
           /\ j \in DOMAIN windows'
           /\ windows[j].kind # k => windows'[j] = windows[j]
  BY <1>5
<1>. QED
  BY <1>1, <1>2, <1>3, <1>4, <1>6, <1>9, <1>10, <1>11, OneKindCharged

\* The count a failure leaves on the cursor is at least the one it found.
LEMMA FailedAttemptsGrow ==
  ASSUME OwnInv, NEW w \in Workers, turn[w].phase \in Executing
  PROVE  FailedAttempts(w) \in Nat /\ cursor[Kind(w)].attempts <= FailedAttempts(w)
<1>1. Kind(w) \in Kinds
  BY TurnRow DEF OwnInv
<1>. QED
  BY <1>1 DEF FailedAttempts, OwnInv, TypeOK, CursorsOK, Cursor

\* A failure that is charged after its debit keeps the debits.
LEMMA FailureCharges ==
  ASSUME OwnInv, OwnInv', ChargeInv, NEW w \in Workers, Holds(w), turn[w].phase \in Executing,
         NEW retry, NEW error, Charge(w, FailedAttempts(w), retry, error),
         retry # "never" => FailedAttempts(w) < MaxAttempts,
         DOMAIN windows' = DOMAIN windows,
         \A i \in DOMAIN windows \ {turn[w].window} : windows'[i] = windows[i],
         UNCHANGED spent
  PROVE  ChargeInv'
<1>. PICK n, i : n = FailedAttempts(w) /\ i = turn[w].window
  OBVIOUS
<1>1. Kind(w) \in Kinds /\ i \in WindowIds /\ i # NoWindow /\ cursor[Kind(w)].window = i
  BY HolderRow
<1>2. n \in Nat /\ cursor[Kind(w)].attempts <= n /\ cursor[Kind(w)].attempts \in Nat
  BY <1>1, FailedAttemptsGrow DEF OwnInv, TypeOK, CursorsOK, Cursor
<1>3. spent[i] <= cursor[Kind(w)].attempts /\ spent[i] \in Int
  BY <1>1 DEF ChargeInv, DebitsAreKept, OwnInv, TypeOK
<1>4. spent[i] <= n
  BY <1>2, <1>3
<1>5. retry # "never" => spent[i] < MaxAttempts + rearms
  BY <1>2, <1>3, StreamAssumption DEF OwnInv, TypeOK
<1>6. Charge(w, n, retry, error) /\ spent'[i] <= n /\ spent'[i] <= spent[i]
  BY <1>3, <1>4
<1>7. /\ spent'[turn[w].window] <= n /\ spent'[turn[w].window] <= spent[turn[w].window]
      /\ (retry # "never" /\ ~windows'[turn[w].window].saved
            /\ ~windows'[turn[w].window].invalidated)
           => spent'[turn[w].window] < MaxAttempts + rearms
      /\ \A j \in WindowIds \ {turn[w].window} : spent'[j] = spent[j]
  BY <1>5, <1>6
<1>. QED
  BY <1>6, <1>7, ChargedKeepsCharge

ChargedFail(w) ==
  \/ RetryExtraction(w) \/ WaitForProvider(w) \/ FailInputBudget(w)
  \/ DiscardComputation(w) \/ SuspendExtraction(w)

\* Every class of failure keeps the debits: the counted ones leave the debit on
\* the cursor, a provider wait gives back what it refunds, a suspension belongs
\* to a kind whose turns debit nothing.
LEMMA FailCharges ==
  ASSUME OwnInv, OwnInv', ChargeInv, NEW w \in Workers, ChargedFail(w)
  PROVE  ChargeInv'
<1>1. Holds(w) /\ turn[w].phase \in Executing
  BY DEF ChargedFail, RetryExtraction, WaitForProvider, FailInputBudget, DiscardComputation,
         SuspendExtraction
<1>2. /\ Kind(w) \in Kinds /\ turn[w].window \in DOMAIN windows
      /\ turn[w].window \in WindowIds /\ turn[w].window # NoWindow
      /\ windows[turn[w].window] = Row(w) /\ Row(w) \in Window
      /\ cursor[Kind(w)].window = turn[w].window
      /\ cursor[Kind(w)] \in Cursor /\ turn[w] \in Turn
  BY <1>1, HolderRow
<1>. PICK k, i : k = Kind(w) /\ i = turn[w].window
  OBVIOUS
<1>3. FailedAttempts(w) \in Nat /\ MaxAttempts \in Nat /\ rearms \in Nat /\ spent \in [WindowIds -> Int]
  BY <1>1, FailedAttemptsGrow, StreamAssumption DEF OwnInv, TypeOK
<1>4. /\ cursor[k].attempts = turn[w].attempts + Debited(w)
      /\ ~turn[w].reserved => cursor[k].retry # "never"
      /\ turn[w].reserved => k \notin OverflowKinds
      /\ cursor[k].attempts \in Nat /\ turn[w].attempts \in Nat /\ turn[w].reserved \in BOOLEAN
  BY <1>1, <1>2 DEF ChargeInv, TurnsKnowTheirCharge, Cursor, Turn
<1>5. spent[i] <= cursor[k].attempts /\ spent[i] <= MaxAttempts + rearms /\ spent[i] \in Int
  BY <1>2, <1>3 DEF ChargeInv, DebitsAreKept, CeilingHolds
<1>6. ~turn[w].reserved /\ ~windows[i].saved /\ ~windows[i].invalidated
        => spent[i] < MaxAttempts + rearms
  BY <1>2, <1>4 DEF ChargeInv, ChargeableIsBelowCeiling, Chargeable
<1>12. ~(FailedAttempts(w) >= MaxAttempts) => FailedAttempts(w) < MaxAttempts
  BY <1>3
<1>7. CASE RetryExtraction(w)
  <2>1. PICK retry, error : /\ Charge(w, FailedAttempts(w), retry, error)
                            /\ retry # "never" => FailedAttempts(w) < MaxAttempts
    BY <1>7, <1>12, Zenon DEF RetryExtraction
  <2>. QED
    BY <1>1, <1>7, <2>1, FailureCharges DEF RetryExtraction
<1>8. CASE FailInputBudget(w)
  <2>1. PICK retry, error : /\ Charge(w, FailedAttempts(w), retry, error)
                            /\ retry # "never" => FailedAttempts(w) < MaxAttempts
    BY <1>3, <1>8, Zenon DEF FailInputBudget
  <2>. QED
    BY <1>1, <1>8, <2>1, FailureCharges DEF FailInputBudget
<1>9. CASE DiscardComputation(w)
  <2>1. PICK retry, error : /\ Charge(w, FailedAttempts(w), retry, error)
                            /\ retry # "never" => FailedAttempts(w) < MaxAttempts
    BY <1>9, <1>12, Zenon DEF DiscardComputation
  <2>2. /\ DOMAIN windows' = DOMAIN windows
        /\ \A j \in DOMAIN windows \ {turn[w].window} : windows'[j] = windows[j]
        /\ UNCHANGED spent
    BY <1>9 DEF DiscardComputation, OwnInv, TypeOK, WindowsOK
  <2>. QED
    BY <1>1, <2>1, <2>2, FailureCharges
<1>10. CASE WaitForProvider(w)
  <2>. PICK n : n = turn[w].attempts
    OBVIOUS
  <2>1. Charge(w, n, "later", "providerWait") /\ UNCHANGED windows
    BY <1>10 DEF WaitForProvider
  <2>2. spent'[i] = spent[i] - Debited(w) /\ \A j \in WindowIds \ {i} : spent'[j] = spent[j]
    BY <1>2, <1>3, <1>10 DEF WaitForProvider, Debited
  <2>3. spent'[i] <= n /\ spent'[i] <= spent[i]
    BY <1>4, <1>5, <2>2 DEF Debited
  <2>4. ~windows[i].saved /\ ~windows[i].invalidated => spent'[i] < MaxAttempts + rearms
    BY <1>3, <1>4, <1>5, <1>6, <2>2 DEF Debited
  <2>. QED
    BY <1>1, <2>1, <2>2, <2>3, <2>4, ChargedKeepsCharge
<1>11. CASE SuspendExtraction(w)
  <2>. PICK n, error : n = cursor[k].attempts /\ error = cursor[k].error
    OBVIOUS
  <2>1. Charge(w, n, "later", error) /\ UNCHANGED <<windows, spent>> /\ k \in OverflowKinds
    BY <1>11 DEF SuspendExtraction
  <2>2. spent[i] <= n /\ ~turn[w].reserved
    BY <1>4, <1>5, <2>1
  <2>3. spent'[i] <= n /\ spent'[i] <= spent[i]
    BY <1>5, <2>1, <2>2
  <2>. QED
    BY <1>1, <1>6, <2>1, <2>2, <2>3, ChargedKeepsCharge
<1>. QED
  BY <1>7, <1>8, <1>9, <1>10, <1>11 DEF ChargedFail

-----------------------------------------------------------------------------
(* Steps of the holder that charge, retain or pass a window.               *)

\* Only the holder's own turn has to know its charge.
LEMMA HolderKnows ==
  ASSUME NEW w \in Workers, lease'.holder = w,
         turn'[w].phase \in Executing =>
           /\ cursor'[Kind(w)'].attempts = turn'[w].attempts + Debited(w)'
           /\ ~turn'[w].reserved => cursor'[Kind(w)'].retry # "never"
           /\ turn'[w].reserved => Kind(w)' \notin OverflowKinds
  PROVE  TurnsKnowTheirCharge'
<1>. SUFFICES ASSUME NEW v \in Workers, Holds(v)', turn'[v].phase \in Executing
              PROVE  /\ cursor'[Kind(v)'].attempts = turn'[v].attempts + Debited(v)'
                     /\ ~turn'[v].reserved => cursor'[Kind(v)'].retry # "never"
                     /\ turn'[v].reserved => Kind(v)' \notin OverflowKinds
  BY DEF TurnsKnowTheirCharge
<1>1. v = w
  BY DEF Holds
<1>. QED
  BY <1>1

\* The debit is taken before the dispatch and only below the ceiling
\* (begin_extraction_attempt).
LEMMA BeginCharges ==
  ASSUME OwnInv, OwnInv', ChargeInv, NEW w \in Workers, BeginExtractionAttempt(w)
  PROVE  ChargeInv'
<1>1. Holds(w) /\ turn[w].phase \in Executing
  BY DEF BeginExtractionAttempt
<1>2. /\ Kind(w) \in Kinds /\ turn[w].window \in DOMAIN windows
      /\ turn[w].window \in WindowIds /\ turn[w].window # NoWindow
      /\ windows[turn[w].window] = Row(w) /\ Row(w).kind = Kind(w)
      /\ cursor[Kind(w)].window = turn[w].window
      /\ cursor[Kind(w)] \in Cursor /\ turn[w] \in Turn
  BY <1>1, HolderRow
<1>. PICK k, i, a : k = Kind(w) /\ i = turn[w].window /\ a = turn[w].attempts
  OBVIOUS
<1>3. /\ k \notin OverflowKinds /\ ~windows[i].saved /\ ~windows[i].invalidated
      /\ cursor[k].attempts = a /\ cursor[k].retry = "due" /\ a \in Nat
      /\ cursor' = [cursor EXCEPT ![k] = Debit(@, a + 1)]
      /\ turn' = [turn EXCEPT ![w] = [@ EXCEPT !.phase = "computing", !.reserved = TRUE]]
      /\ spent' = [spent EXCEPT ![i] = @ + 1]
      /\ UNCHANGED <<windows, lease, rearms>>
  BY <1>2 DEF BeginExtractionAttempt, workRow, Turn
<1>4. MaxAttempts \in Nat /\ rearms \in Nat /\ spent \in [WindowIds -> Int]
  BY StreamAssumption DEF OwnInv, TypeOK
<1>. DEFINE c == Debit(cursor[k], a + 1)
<1>5. c.window = i /\ c.attempts = a + 1 /\ (c.retry # "never" => a + 1 < MaxAttempts)
  BY <1>2, <1>3, <1>4 DEF Debit, Cursor
<1>6. cursor' = [cursor EXCEPT ![k] = c]
  BY <1>3
<1>. HIDE DEF c
<1>7. cursor'[k] = c /\ \A j \in Kinds \ {k} : cursor'[j] = cursor[j]
  BY <1>2, <1>6 DEF OwnInv, TypeOK, CursorsOK
<1>8. spent[i] <= a /\ spent[i] < MaxAttempts + rearms /\ spent[i] \in Int
  BY <1>2, <1>3, <1>4 DEF ChargeInv, DebitsAreKept, ChargeableIsBelowCeiling, Chargeable
<1>9. spent'[i] = spent[i] + 1 /\ \A j \in WindowIds \ {i} : spent'[j] = spent[j]
  BY <1>2, <1>3, <1>4
<1>10. TurnsKnowTheirCharge'
  <2>1. turn'[w].window = i /\ turn'[w].attempts = a /\ turn'[w].reserved = TRUE
    BY <1>2, <1>3 DEF OwnInv, TypeOK, TurnsOK, Turn
  <2>2. Kind(w)' = k /\ Debited(w)' = 1
    BY <1>2, <1>3, <2>1 DEF Kind, Row, Debited
  <2>3. lease'.holder = w
    BY <1>1, <1>3 DEF Holds
  <2>4. /\ cursor'[Kind(w)'].attempts = turn'[w].attempts + Debited(w)'
        /\ turn'[w].reserved => Kind(w)' \notin OverflowKinds
    BY <1>3, <1>5, <1>7, <2>1, <2>2
  <2>. QED
    BY <2>1, <2>3, <2>4, HolderKnows
<1>11. \A j \in WindowIds : spent'[j] <= MaxAttempts + rearms'
  <2>. SUFFICES ASSUME NEW j \in WindowIds PROVE spent'[j] <= MaxAttempts + rearms
    BY <1>3
  <2>1. CASE j = i
    BY <1>4, <1>8, <1>9, <2>1
  <2>2. CASE j # i
    BY <1>9, <2>2 DEF ChargeInv, CeilingHolds
  <2>. QED
    BY <2>1, <2>2
<1>12. spent'[cursor'[k].window] <= cursor'[k].attempts
  BY <1>3, <1>5, <1>7, <1>8, <1>9
<1>13. Chargeable(k)' => spent'[cursor'[k].window] < MaxAttempts + rearms'
  <2>. SUFFICES ASSUME Chargeable(k)' PROVE spent'[i] < MaxAttempts + rearms
    BY <1>3, <1>5, <1>7
  <2>1. a + 1 < MaxAttempts
    BY <1>5, <1>7 DEF Chargeable
  <2>. QED
    BY <1>3, <1>4, <1>8, <1>9, <2>1
<1>. QED
  BY <1>2, <1>3, <1>7, <1>9, <1>10, <1>11, <1>12, <1>13, OneKindCharged, SMTT(20)

\* Retaining the outcome releases the hold and asks for no further computation
\* (save_extraction_outcome).
LEMMA SaveCharges ==
  ASSUME OwnInv, OwnInv', ChargeInv, NEW w \in Workers, SaveExtractionOutcome(w)
  PROVE  ChargeInv'
<1>1. Holds(w) /\ turn[w].phase \in Executing
  BY DEF SaveExtractionOutcome
<1>2. /\ Kind(w) \in Kinds /\ turn[w].window \in DOMAIN windows
      /\ turn[w].window \in WindowIds /\ turn[w].window # NoWindow
      /\ windows[turn[w].window] = Row(w) /\ Row(w).kind = Kind(w) /\ Row(w) \in Window
      /\ cursor[Kind(w)].window = turn[w].window
      /\ cursor[Kind(w)] \in Cursor /\ turn[w] \in Turn
  BY <1>1, HolderRow
<1>. PICK k, i : k = Kind(w) /\ i = turn[w].window
  OBVIOUS
<1>3. /\ windows' = [windows EXCEPT ![i].saved = TRUE]
      /\ \/ cursor' = [cursor EXCEPT ![k] = [@ EXCEPT !.retry = "due", !.error = "admitted"]]
         \/ cursor' = cursor
      /\ Goto(w, "saved") /\ UNCHANGED <<lease, spent, rearms>>
  BY DEF SaveExtractionOutcome, workRow, history
<1>4. /\ cursor'[k].window = i /\ cursor'[k].attempts = cursor[k].attempts
      /\ cursor[k].retry # "never" => cursor'[k].retry # "never"
      /\ \A j \in Kinds \ {k} : cursor'[j] = cursor[j]
  <2>. DEFINE c == [cursor[k] EXCEPT !.retry = "due", !.error = "admitted"]
  <2>1. c.window = i /\ c.attempts = cursor[k].attempts /\ c.retry # "never"
    BY <1>2 DEF Cursor
  <2>2. cursor' = [cursor EXCEPT ![k] = c] \/ cursor' = cursor
    BY <1>3
  <2>. HIDE DEF c
  <2>. QED
    BY <1>2, <2>1, <2>2 DEF OwnInv, TypeOK, CursorsOK
<1>5. /\ DOMAIN windows' = DOMAIN windows
      /\ \A j \in DOMAIN windows \ {i} : windows'[j] = windows[j]
      /\ windows'[i].saved /\ windows'[i].kind = k
  BY <1>2, <1>3 DEF Window, OwnInv, TypeOK, WindowsOK
<1>6. TurnsKnowTheirCharge'
  <2>1. turn'[w].window = i /\ turn'[w].attempts = turn[w].attempts
        /\ turn'[w].reserved = turn[w].reserved
    BY <1>2, <1>3 DEF Goto, OwnInv, TypeOK, TurnsOK, Turn
  <2>2. Kind(w)' = k /\ Debited(w)' = Debited(w)
    BY <1>5, <2>1 DEF Kind, Row, Debited
  <2>3. lease'.holder = w
    BY <1>1, <1>3 DEF Holds
  <2>4. /\ cursor[k].attempts = turn[w].attempts + Debited(w)
        /\ ~turn[w].reserved => cursor[k].retry # "never"
        /\ turn[w].reserved => k \notin OverflowKinds
    BY <1>1 DEF ChargeInv, TurnsKnowTheirCharge
  <2>5. /\ cursor'[Kind(w)'].attempts = turn'[w].attempts + Debited(w)'
        /\ ~turn'[w].reserved => cursor'[Kind(w)'].retry # "never"
        /\ turn'[w].reserved => Kind(w)' \notin OverflowKinds
    BY <1>4, <2>1, <2>2, <2>4
  <2>. QED
    BY <2>3, <2>5, HolderKnows
<1>7. ~Chargeable(k)'
  BY <1>4, <1>5 DEF Chargeable
<1>8. spent'[cursor'[k].window] <= cursor'[k].attempts
  BY <1>2, <1>3, <1>4 DEF ChargeInv, DebitsAreKept
<1>9. \A j \in WindowIds : spent'[j] <= MaxAttempts + rearms'
  BY <1>3 DEF ChargeInv, CeilingHolds
<1>10. \A j \in DOMAIN windows :
           /\ j \in DOMAIN windows'
           /\ windows[j].kind # k => windows'[j] = windows[j]
  BY <1>2, <1>5
<1>. QED
  BY <1>2, <1>3, <1>4, <1>6, <1>7, <1>8, <1>9, <1>10, OneKindCharged

\* A window handed out again has not used up its charges; a new one has none
\* (prepare_extraction).
LEMMA PrepareCharges ==
  ASSUME OwnInv, OwnInv', ChargeInv, NEW w \in Workers, PrepareWindow(w)
  PROVE  ChargeInv'
<1>. USE DEF OwnInv
<1>1. PICK k \in Kinds : Runnable(k) /\ (ResumeWindow(w, k) \/ CutWindow(w, k))
  BY DEF PrepareWindow
<1>2. cursor[k] \in Cursor /\ cursor[k].retry = "due"
  BY <1>1 DEF TypeOK, CursorsOK, Runnable
<1>3. lease.holder = w /\ UNCHANGED <<lease, spent, rearms>>
  BY DEF PrepareWindow, Holds, workRow, history
<1>4. ASSUME NEW i, NEW saved, Take(w, i, k, saved), windows'[i].kind = k,
             cursor'[k].attempts = cursor[k].attempts, cursor'[k].retry = cursor[k].retry
      PROVE  TurnsKnowTheirCharge'
  <2>1. /\ turn'[w].window = i /\ turn'[w].attempts = cursor[k].attempts
        /\ turn'[w].reserved = FALSE
    BY <1>4 DEF Take, TypeOK, TurnsOK
  <2>2. Kind(w)' = k /\ Debited(w)' = 0
    BY <1>4, <2>1 DEF Kind, Row, Debited
  <2>3. cursor'[Kind(w)'].attempts = turn'[w].attempts + Debited(w)'
    BY <1>2, <1>4, <2>1, <2>2 DEF Cursor
  <2>4. /\ ~turn'[w].reserved => cursor'[Kind(w)'].retry # "never"
        /\ turn'[w].reserved => Kind(w)' \notin OverflowKinds
    BY <1>2, <1>4, <2>1, <2>2
  <2>. QED
    BY <1>3, <2>3, <2>4, HolderKnows
<1>5. MaxAttempts \in Nat \ {0} /\ rearms \in Nat
  BY StreamAssumption DEF TypeOK
<1>6. CASE ResumeWindow(w, k)
  <2>1. cursor[k].window \in DOMAIN windows /\ windows[cursor[k].window].kind = k
        /\ UNCHANGED <<cursor, windows>>
    BY <1>6 DEF ResumeWindow, CursorNamesOpenWindow, TypeOK, CursorsOK
  <2>2. TurnsKnowTheirCharge'
    BY <1>4, <1>6, <2>1 DEF ResumeWindow
  <2>. QED
    BY <1>3, <2>1, <2>2 DEF ChargeInv, UncutIsFree, ChargeableIsBelowCeiling, Chargeable,
       DebitsAreKept, CeilingHolds
<1>7. CASE CutWindow(w, k)
  <2>. DEFINE id == CHOOSE i \in WindowIds \ DOMAIN windows : TRUE
  <2>1. id \in WindowIds /\ id \notin DOMAIN windows
    BY <1>7 DEF CutWindow
  <2>2. PICK r : /\ r.kind = k
                 /\ windows' = [i \in DOMAIN windows \cup {id} |-> IF i # id THEN windows[i] ELSE r]
                 /\ cursor' = [cursor EXCEPT ![k].window = id]
                 /\ Take(w, id, k, FALSE)
    <3>. DEFINE pos == cursor[k].completed
                man == Manifest(requests, live, k, pos, cursor[k].started)
    <3>1. PICK end :
            /\ windows' = [i \in DOMAIN windows \cup {id} |->
                 IF i # id THEN windows[i]
                 ELSE [kind |-> k, predecessor |-> pos, end |-> end, manifest |-> man,
                       state |-> "open", saved |-> FALSE, invalidated |-> FALSE,
                       owed |-> FALSE, effectsRetry |-> "due", derived |-> FALSE]]
            /\ cursor' = [cursor EXCEPT ![k].window = id]
            /\ Take(w, id, k, FALSE)
      BY <1>7, Zenon DEF CutWindow
    <3>. DEFINE s == [kind |-> k, predecessor |-> pos, end |-> end, manifest |-> man,
                      state |-> "open", saved |-> FALSE, invalidated |-> FALSE,
                      owed |-> FALSE, effectsRetry |-> "due", derived |-> FALSE]
    <3>2. s.kind = k
      OBVIOUS
    <3>3. windows' = [i \in DOMAIN windows \cup {id} |-> IF i # id THEN windows[i] ELSE s]
      BY <3>1, Zenon
    <3>. HIDE DEF s
    <3>. QED
      BY <3>1, <3>2, <3>3
  <2>. HIDE DEF id
  <2>3. /\ \A i \in DOMAIN windows : i \in DOMAIN windows' /\ windows'[i] = windows[i]
        /\ windows'[id].kind = k
    BY <2>1, <2>2
  <2>4. /\ cursor'[k].window = id /\ cursor'[k].attempts = cursor[k].attempts
        /\ cursor'[k].retry = cursor[k].retry
        /\ \A j \in Kinds \ {k} : cursor'[j] = cursor[j]
    BY <1>2, <2>2 DEF TypeOK, CursorsOK, Cursor
  <2>5. TurnsKnowTheirCharge'
    BY <1>4, <2>2, <2>3, <2>4
  <2>6. spent'[id] = 0
    BY <1>3, <2>1 DEF ChargeInv, UncutIsFree
  <2>7. spent'[id] <= cursor'[k].attempts /\ spent'[id] < MaxAttempts + rearms'
    BY <1>2, <1>3, <1>5, <2>4, <2>6 DEF Cursor
  <2>8. \A j \in WindowIds : spent'[j] <= MaxAttempts + rearms'
    BY <1>3 DEF ChargeInv, CeilingHolds
  <2>. QED
    BY <1>3, <2>3, <2>4, <2>5, <2>7, <2>8, OneKindCharged
<1>. QED
  BY <1>1, <1>6, <1>7

\* A cursor that lets go of its window leaves its charges behind.
LEMMA PassedCharges ==
  ASSUME OwnInv, OwnInv', ChargeInv, NEW k \in Kinds, NEW i \in DOMAIN windows,
         windows[i].kind = k, NEW c, NEW r, c.window = NoWindow,
         cursor' = [cursor EXCEPT ![k] = c], windows' = [windows EXCEPT ![i] = r],
         UNCHANGED <<spent, rearms>>, TurnsKnowTheirCharge'
  PROVE  ChargeInv'
<1>1. cursor'[k] = c /\ \A j \in Kinds \ {k} : cursor'[j] = cursor[j]
  BY DEF OwnInv, TypeOK, CursorsOK
<1>2. /\ DOMAIN windows' = DOMAIN windows
      /\ \A j \in DOMAIN windows \ {i} : windows'[j] = windows[j]
  BY DEF OwnInv, TypeOK, WindowsOK
<1>3. \A j \in DOMAIN windows :
           /\ j \in DOMAIN windows'
           /\ windows[j].kind # k => windows'[j] = windows[j]
  BY <1>2
<1>4. cursor'[k].window = NoWindow /\ \A j \in WindowIds : spent'[j] = spent[j]
  BY <1>1
<1>5. rearms' = rearms /\ \A j \in WindowIds : spent'[j] <= MaxAttempts + rearms'
  BY DEF ChargeInv, CeilingHolds
<1>. QED
  BY <1>1, <1>3, <1>4, <1>5, OneKindCharged

\* Publication (complete_extraction) resets the cursor behind the window.
LEMMA PublishCharges ==
  ASSUME OwnInv, OwnInv', ChargeInv, NEW w \in Workers, PublishWindow(w)
  PROVE  ChargeInv'
<1>1. Kind(w) \in Kinds /\ turn[w].window \in DOMAIN windows
      /\ windows[turn[w].window].kind = Kind(w)
  BY TurnRow DEF PublishWindow, OwnInv, Row, Kind
<1>. PICK k, i, c, r : /\ k = Kind(w) /\ i = turn[w].window /\ c = PassedBy(Row(w).end)
                       /\ r = [windows[i] EXCEPT !.state = "completed", !.owed = TRUE]
  OBVIOUS
<1>2. c.window = NoWindow
  BY DEF PassedBy
<1>3. /\ cursor' = [cursor EXCEPT ![k] = c] /\ windows' = [windows EXCEPT ![i] = r]
      /\ UNCHANGED <<spent, rearms>> /\ ~lease'.live
  BY DEF PublishWindow, FreeRow, NoLease
<1>4. TurnsKnowTheirCharge'
  BY <1>3, UnheldKnow DEF Holds
<1>. QED
  BY <1>1, <1>2, <1>3, <1>4, PassedCharges

\* A retirement does the same without output (retire_extraction_window).
LEMMA RetireCharges ==
  ASSUME OwnInv, OwnInv', ChargeInv, NEW k \in Kinds, RetireWindow(k)
  PROVE  ChargeInv'
<1>1. cursor[k].window \in DOMAIN windows /\ windows[cursor[k].window].kind = k
  BY DEF RetireWindow, Held, CursorNamesOpenWindow, OwnInv, TypeOK, CursorsOK
<1>. PICK i, c, r : /\ i = cursor[k].window /\ c = PassedBy(windows[i].end)
                    /\ r = [windows[i] EXCEPT !.state = "completed", !.derived = TRUE,
                                              !.saved = FALSE, !.manifest = {}]
  OBVIOUS
<1>2. c.window = NoWindow
  BY DEF PassedBy
<1>3. /\ cursor' = [cursor EXCEPT ![k] = c] /\ windows' = [windows EXCEPT ![i] = r]
      /\ UNCHANGED <<spent, rearms, lease, turn>> /\ lease.holder = Operator
  BY DEF RetireWindow, Held, Holds, history
<1>4. TurnsKnowTheirCharge'
  BY <1>3, StreamAssumption, UnheldKnow DEF Holds
<1>. QED
  BY <1>1, <1>2, <1>3, <1>4, PassedCharges

\* Dropping an erased window frees the cursor that named it, or moves none
\* (invalidate_extraction).
LEMMA DropCharges ==
  ASSUME OwnInv, OwnInv', ChargeInv, NEW w \in Workers, InvalidateExtraction(w)
  PROVE  ChargeInv'
<1>1. Kind(w) \in Kinds /\ turn[w].window \in DOMAIN windows
      /\ windows[turn[w].window].kind = Kind(w) /\ Row(w) \in Window
      /\ windows[turn[w].window] = Row(w)
  BY TurnRow DEF InvalidateExtraction, OwnInv, Row, Kind
<1>. PICK k, i, state : /\ k = Kind(w) /\ i = turn[w].window
                        /\ state = (IF Row(w).state = "open" THEN "erased" ELSE Row(w).state)
  OBVIOUS
<1>2. /\ cursor' = [cursor EXCEPT ![k].window = IF @ = i THEN NoWindow ELSE @]
      /\ windows' = [windows EXCEPT ![i] = [windows[i] EXCEPT !.state = state]]
      /\ UNCHANGED <<spent, rearms>> /\ ~lease'.live
  BY <1>1 DEF InvalidateExtraction, FreeRow, NoLease, history
<1>3. TurnsKnowTheirCharge'
  BY <1>2, UnheldKnow DEF Holds
<1>4. cursor[k] \in Cursor
  BY <1>1 DEF OwnInv, TypeOK, CursorsOK
<1>5. CASE cursor[k].window = i
  <2>. PICK c, r : c = [cursor[k] EXCEPT !.window = NoWindow] /\ r = [windows[i] EXCEPT !.state = state]
    OBVIOUS
  <2>1. c.window = NoWindow
    BY <1>4 DEF Cursor
  <2>2. cursor' = [cursor EXCEPT ![k] = c] /\ windows' = [windows EXCEPT ![i] = r]
    BY <1>2, <1>5
  <2>3. k \in Kinds /\ i \in DOMAIN windows /\ windows[i].kind = k /\ UNCHANGED <<spent, rearms>>
    BY <1>1, <1>2
  <2>. QED
    BY <1>3, <2>1, <2>2, <2>3, PassedCharges
<1>6. CASE cursor[k].window # i
  <2>1. cursor' = cursor
    BY <1>1, <1>2, <1>4, <1>6 DEF OwnInv, TypeOK, CursorsOK, Cursor
  <2>2. /\ DOMAIN windows' = DOMAIN windows
        /\ \A j \in DOMAIN windows \ {i} : windows'[j] = windows[j]
    BY <1>2 DEF OwnInv, TypeOK, WindowsOK
  <2>3. \A j \in DOMAIN windows :
           /\ j \in DOMAIN windows'
           /\ windows[j].kind # k => windows'[j] = windows[j]
    BY <1>1, <2>2
  <2>4. ASSUME cursor'[k].window # NoWindow
        PROVE  /\ spent'[cursor'[k].window] <= cursor'[k].attempts
               /\ Chargeable(k)' => spent'[cursor'[k].window] < MaxAttempts + rearms'
    <3>1. cursor[k].window \in DOMAIN windows /\ cursor[k].window # i
      BY <1>1, <1>6, <2>1, <2>4 DEF OwnInv, TypeOK, CursorsOK
    <3>2. Chargeable(k)' => Chargeable(k)
      BY <2>1, <2>2, <3>1 DEF Chargeable
    <3>. QED
      BY <1>1, <1>2, <2>1, <2>4, <3>2 DEF ChargeInv, DebitsAreKept, ChargeableIsBelowCeiling
  <2>5. rearms' = rearms /\ \A j \in WindowIds : spent'[j] <= MaxAttempts + rearms'
    BY <1>2 DEF ChargeInv, CeilingHolds
  <2>. QED
    BY <1>1, <1>2, <1>3, <2>1, <2>3, <2>4, <2>5, OneKindCharged
<1>. QED
  BY <1>5, <1>6

\* A re-arm allows one computation more (rearm_exhausted_extraction).
LEMMA RearmCharges ==
  ASSUME OwnInv, OwnInv', ChargeInv, NEW k \in Kinds, RearmHeld(k)
  PROVE  ChargeInv'
<1>1. /\ cursor' = [cursor EXCEPT ![k].retry = "due"] /\ rearms' = rearms + 1
      /\ UNCHANGED <<windows, spent, lease, turn>> /\ lease.holder = Operator
  BY DEF RearmHeld, Held, Holds, history
<1>2. /\ cursor'[k].window = cursor[k].window /\ cursor'[k].attempts = cursor[k].attempts
      /\ \A j \in Kinds \ {k} : cursor'[j] = cursor[j]
  BY <1>1 DEF OwnInv, TypeOK, CursorsOK, Cursor
<1>3. TurnsKnowTheirCharge'
  BY <1>1, StreamAssumption, UnheldKnow DEF Holds
<1>4. \A j \in WindowIds : spent'[j] < MaxAttempts + rearms'
  BY <1>1, StreamAssumption DEF ChargeInv, CeilingHolds, OwnInv, TypeOK
<1>5. \A j \in WindowIds : spent'[j] <= MaxAttempts + rearms'
  BY <1>1, StreamAssumption DEF ChargeInv, CeilingHolds, OwnInv, TypeOK
<1>6. cursor[k].window # NoWindow => cursor[k].window \in WindowIds
  BY DEF OwnInv, TypeOK, CursorsOK, WindowsOK
<1>7. cursor'[k].window # NoWindow =>
        /\ spent'[cursor'[k].window] <= cursor'[k].attempts
        /\ spent'[cursor'[k].window] < MaxAttempts + rearms'
  BY <1>1, <1>2, <1>4, <1>6 DEF ChargeInv, DebitsAreKept
<1>. QED
  BY <1>1, <1>2, <1>3, <1>5, <1>7, OneKindCharged

-----------------------------------------------------------------------------
(* The theorems.                                                           *)

\* Every step keeps the charges.
LEMMA ChargeStep ==
  ASSUME CoverInv, OwnInv', ChargeInv, [Next]_vars
  PROVE  ChargeInv'
<1>1. OwnInv /\ TypeOK /\ DeliveredIsClosed
  BY DEF CoverInv, OwnInv
<1>2. ASSUME NEW w \in Workers, Execute(w) PROVE ChargeInv'
  <2>1. CASE QuietTurn(w)
    BY <1>1, <2>1, QuietTurnCharges, FrameKeepsCharge
  <2>. QED
    BY <1>1, <1>2, <2>1, PrepareCharges, BeginCharges, SaveCharges, PublishCharges, DropCharges
       DEF Execute, QuietTurn
<1>3. ASSUME NEW w \in Workers, Deliver(w) PROVE ChargeInv'
  BY <1>1, <1>3, DeliverCharges, FrameKeepsCharge
<1>4. ASSUME NEW w \in Workers, Fail(w) PROVE ChargeInv'
  <2>1. QuietFail(w) \/ ChargedFail(w)
    BY <1>4 DEF Fail, QuietFail, ChargedFail
  <2>. QED
    BY <1>1, <2>1, QuietFailCharges, FailCharges, FrameKeepsCharge
<1>5. ASSUME Operate PROVE ChargeInv'
  <2>1. CASE QuietOperate
    BY <1>1, <2>1, QuietOperateCharges, FrameKeepsCharge
  <2>. QED
    BY <1>1, <1>5, <2>1, RearmCharges, RetireCharges DEF Operate, QuietOperate
<1>6. ASSUME Arrive PROVE ChargeInv'
  BY <1>1, <1>6, ArriveCharges, FrameKeepsCharge
<1>7. ASSUME Pass PROVE ChargeInv'
  BY <1>1, <1>7, PassCharges, FrameKeepsCharge
<1>8. CASE UNCHANGED vars
  <2>1. ChargeFrame
    BY <1>8, QuietCharge DEF vars, HoldersKept, Holds
  <2>. QED
    BY <1>1, <2>1, FrameKeepsCharge
<1>. QED
  BY <1>2, <1>3, <1>4, <1>5, <1>6, <1>7, <1>8 DEF Next

\* Nothing is charged in an empty stream.
LEMMA InitCharges == ASSUME Init PROVE ChargeInv
<1>1. \A k \in Kinds : cursor[k].window = NoWindow
  BY DEF Init
<1>2. \A w \in Workers : turn[w].phase = "idle"
  BY DEF Init, IdleTurn
<1>3. \A i \in WindowIds : spent[i] = 0
  BY DEF Init
<1>4. MaxAttempts + rearms \in Nat
  BY StreamAssumption DEF Init
<1>. QED
  BY <1>1, <1>2, <1>3, <1>4 DEF ChargeInv, UncutIsFree, TurnsKnowTheirCharge,
     ChargeableIsBelowCeiling, Chargeable, DebitsAreKept, CeilingHolds

\* Charges are always kept.
LEMMA Charged == Spec => []ChargeInv
<1>1. CoverInv /\ OwnInv' /\ ChargeInv /\ [Next]_vars => ChargeInv'
  BY ChargeStep
<1>2. Init => ChargeInv
  BY InitCharges
<1>. QED
  BY <1>1, <1>2, Owned, Covered, PTL DEF Spec

\* Whatever crashes, expires or is taken over, the computations charged to a
\* window and not refunded stay on its cursor (begin_extraction_attempt debits
\* before the dispatch; no failure path forgets a debit).
THEOREM DebitsKept == Spec => []DebitsAreKept
<1>1. ChargeInv => DebitsAreKept
  BY DEF ChargeInv
<1>. QED
  BY <1>1, Charged, PTL

\* A turn whose token still passes the fence writes correct attempts, although
\* it computes them from what it read before the model call (a refund in
\* retry_extraction writes window.attempts, save_extraction_outcome compares with
\* window.attempts + 1): nobody charged, refunded, held or released the cursor
\* behind its back.
THEOREM TurnsKnow == Spec => []TurnsKnowTheirCharge
<1>1. ChargeInv => TurnsKnowTheirCharge
  BY DEF ChargeInv
<1>. QED
  BY <1>1, Charged, PTL

\* No window is computed more often than MAX_EXTRACTION_WINDOW_ATTEMPTS and the
\* operator's re-arms allow: the last admission pre-arms the hold, and only an
\* outcome that is retained, or the operator, releases it.
THEOREM CeilingKept == Spec => []CeilingHolds
<1>1. ChargeInv => CeilingHolds
  BY DEF ChargeInv
<1>. QED
  BY <1>1, Charged, PTL

-----------------------------------------------------------------------------
(* A held cursor can be released.                                          *)

HoldErrors == {"exhausted", "exhaustedAdmitted", "budget", "config"}

Invalid(i) == i \in DOMAIN windows /\ windows[i].invalidated

\* An erasure has struck a window that begins where the cursor still stands.
Erased(k) ==
  \E i \in DOMAIN windows :
    /\ windows[i].kind = k /\ windows[i].invalidated
    /\ windows[i].predecessor = cursor[k].completed

\* What rearm_exhausted_extraction and recover_extraction_input_budget ask of a hold.
Releasable(k) ==
  /\ cursor[k].window # NoWindow
  /\ windows[cursor[k].window].state = "open"
  /\ ~windows[cursor[k].window].invalidated
  /\ cursor[k].error \in HoldErrors

Named(c) == c.window # NoWindow /\ c.error \in HoldErrors

\* An open window that no erasure has struck keeps its inputs, a turn that passes
\* the fence gives up only a window that one has, and a hold names its window and
\* its reason unless one has where the cursor stands.
HoldInv ==
  /\ \A i \in DOMAIN windows :
       /\ windows[i].invalidated => "erase" \in Environment
       /\ windows[i].invalidated \/ windows[i].state # "open" \/ windows[i].manifest \subseteq live
  /\ \A w \in Workers : Holds(w) /\ turn[w].phase = "invalidating" => Invalid(turn[w].window)
  /\ \A k \in Kinds : cursor[k].retry = "never" => Named(cursor[k]) \/ Erased(k)

\* Rewriting a row that stays in its place, as valid as it was, and, while open,
\* keeps its inputs.
RowRewritten ==
  \E i \in DOMAIN windows : \E r :
    /\ windows' = [windows EXCEPT ![i] = r]
    /\ r.kind = windows[i].kind /\ r.predecessor = windows[i].predecessor
    /\ r.invalidated = windows[i].invalidated
    /\ r.state = "open" => windows[i].state = "open" /\ r.manifest = windows[i].manifest

\* A row is rewritten so.
LEMMA RowSo ==
  ASSUME NEW i \in DOMAIN windows, NEW r, windows' = [windows EXCEPT ![i] = r],
         r.kind = windows[i].kind, r.predecessor = windows[i].predecessor,
         r.invalidated = windows[i].invalidated,
         r.state = "open" => windows[i].state = "open" /\ r.manifest = windows[i].manifest
  PROVE  RowRewritten
BY DEF RowRewritten

\* Whoever passes the fence gives up what it was giving up already, or a window
\* that an erasure has struck.
NobodyGivesUp ==
  \A v \in Workers :
    Holds(v)' /\ turn'[v].phase = "invalidating" =>
      \/ Holds(v) /\ turn[v].phase = "invalidating" /\ turn'[v].window = turn[v].window
      \/ Invalid(turn'[v].window)

HoldsAreNamed ==
  \A k \in Kinds : cursor'[k].retry = "never" => cursor'[k] = cursor[k] \/ Named(cursor'[k])

HoldFrame ==
  /\ live \subseteq live' /\ (UNCHANGED windows \/ RowRewritten)
  /\ NobodyGivesUp /\ HoldsAreNamed

\* In such steps no window moves, becomes valid or ceases to be.
LEMMA RowsStay ==
  ASSUME TypeOK, UNCHANGED windows \/ RowRewritten, NEW i \in DOMAIN windows
  PROVE  /\ i \in DOMAIN windows'
         /\ windows'[i].kind = windows[i].kind
         /\ windows'[i].predecessor = windows[i].predecessor
         /\ windows'[i].invalidated = windows[i].invalidated
BY DEF RowRewritten, TypeOK, WindowsOK

\* An erasure stays where it struck, and so does a cursor that is held on.
LEMMA StillErased ==
  ASSUME NEW k \in Kinds, Erased(k), cursor'[k].completed = cursor[k].completed,
         \A i \in DOMAIN windows :
           /\ i \in DOMAIN windows'
           /\ windows'[i].kind = windows[i].kind
           /\ windows'[i].predecessor = windows[i].predecessor
           /\ windows[i].invalidated => windows'[i].invalidated
  PROVE  Erased(k)'
<1>. PICK i \in DOMAIN windows :
       /\ windows[i].kind = k /\ windows[i].invalidated
       /\ windows[i].predecessor = cursor[k].completed
  BY DEF Erased
<1>. QED
  BY DEF Erased

\* Such steps lose no hold.
LEMMA FrameKeepsHolds ==
  ASSUME TypeOK, HoldInv, HoldFrame
  PROVE  HoldInv'
<1>1. ASSUME NEW i \in DOMAIN windows'
      PROVE  /\ windows'[i].invalidated => "erase" \in Environment
             /\ \/ windows'[i].invalidated \/ windows'[i].state # "open"
                \/ windows'[i].manifest \subseteq live'
  <2>1. CASE UNCHANGED windows
    BY <2>1 DEF HoldInv, HoldFrame
  <2>2. CASE RowRewritten
    BY <2>2 DEF RowRewritten, HoldInv, HoldFrame, TypeOK, WindowsOK
  <2>. QED
    BY <2>1, <2>2 DEF HoldFrame
<1>2. ASSUME NEW i, Invalid(i) PROVE Invalid(i)'
  BY <1>2, RowsStay DEF Invalid, HoldFrame
<1>3. \A w \in Workers : Holds(w)' /\ turn'[w].phase = "invalidating" => Invalid(turn[w].window)'
  BY <1>2 DEF HoldInv, HoldFrame, NobodyGivesUp
<1>4. ASSUME NEW k \in Kinds, cursor'[k].retry = "never"
      PROVE  Named(cursor'[k]) \/ Erased(k)'
  <2>1. CASE cursor'[k] = cursor[k]
    <3>1. Named(cursor[k]) \/ Erased(k)
      BY <1>4, <2>1 DEF HoldInv
    <3>2. ASSUME Erased(k) PROVE Erased(k)'
      BY <2>1, <3>2, RowsStay, StillErased DEF HoldFrame
    <3>. QED
      BY <2>1, <3>1, <3>2
  <2>. QED
    BY <1>4, <2>1 DEF HoldFrame, HoldsAreNamed
<1>. QED
  BY <1>1, <1>3, <1>4 DEF HoldInv

\* A turn that moves anywhere but to the invalidation gives nothing up.
LEMMA TurnMoves ==
  ASSUME TypeOK, NEW w \in Workers, NEW t, turn' = [turn EXCEPT ![w] = t],
         t.phase # "invalidating",
         lease' = lease \/ ~lease'.live \/ lease'.holder = w
  PROVE  NobodyGivesUp
BY DEF NobodyGivesUp, Holds, TypeOK, TurnsOK

\* A turn that goes on within its own lease gives up nobody's clock.
LEMMA GotoMoves ==
  ASSUME TypeOK, NEW w \in Workers, NEW p, Goto(w, p), p # "invalidating",
         lease' = lease \/ ~lease'.live \/ lease'.holder = w
  PROVE  NobodyGivesUp
<1>. PICK t : t = [turn[w] EXCEPT !.phase = p]
  OBVIOUS
<1>1. t.phase = p
  BY DEF TypeOK, TurnsOK, Turn
<1>2. turn' = [turn EXCEPT ![w] = t]
  BY DEF Goto
<1>. QED
  BY <1>1, <1>2, TurnMoves

\* Neither does a turn that ends.
LEMMA EndedMoves ==
  ASSUME TypeOK, NEW w \in Workers, Ended(w), lease' = lease \/ ~lease'.live
  PROVE  NobodyGivesUp
<1>1. IdleTurn.phase # "invalidating"
  BY DEF IdleTurn
<1>. QED
  BY <1>1, TurnMoves DEF Ended

\* A cursor that is rewritten without a hold, or with a reason for it.
LEMMA CursorNamed ==
  ASSUME TypeOK, NEW k \in Kinds, NEW c, cursor' = [cursor EXCEPT ![k] = c],
         c.retry = "never" => Named(c)
  PROVE  HoldsAreNamed
BY DEF HoldsAreNamed, TypeOK, CursorsOK

\* Postponing effects rewrites one row so.
LEMMA PostponedRow ==
  ASSUME TypeOK, NEW i \in DOMAIN windows, PostponeEffects(i)
  PROVE  RowRewritten
<1>. PICK r : r = [windows[i] EXCEPT !.effectsRetry = "later"]
  OBVIOUS
<1>1. windows[i] \in Window
  BY DEF TypeOK, WindowsOK
<1>2. /\ r.kind = windows[i].kind /\ r.predecessor = windows[i].predecessor
      /\ r.invalidated = windows[i].invalidated /\ r.state = windows[i].state
      /\ r.manifest = windows[i].manifest
  BY <1>1 DEF Window
<1>3. windows' = [windows EXCEPT ![i] = r]
  BY DEF PostponeEffects
<1>. QED
  BY <1>2, <1>3, RowSo

\* A delivery touches no cursor and no open window.
LEMMA DeliverHolds ==
  ASSUME TypeOK, DeliveredIsClosed, NEW w \in Workers, Deliver(w)
  PROVE  HoldFrame
<1>1. PICK p : Goto(w, p) /\ p # "invalidating"
  BY DEF Deliver, Bill, LoadEffectInputs, ClaimExtractionDerived, EmitDerived,
         AckExtractionEffects, RetryEffects
<1>2. UNCHANGED <<lease, cursor, live>>
  BY DEF Deliver, Bill, LoadEffectInputs, ClaimExtractionDerived, EmitDerived,
         AckExtractionEffects, RetryEffects, workRow, log
<1>3. NobodyGivesUp /\ HoldsAreNamed
  BY <1>1, <1>2, GotoMoves DEF HoldsAreNamed
<1>. PICK i : i = turn[w].window
  OBVIOUS
<1>4. i \in DOMAIN windows /\ windows[i] \in Window
  BY TurnRow DEF Deliver, Bill, LoadEffectInputs, ClaimExtractionDerived, EmitDerived,
         AckExtractionEffects, RetryEffects, Row
<1>5. CASE Bill(w) \/ LoadEffectInputs(w) \/ EmitDerived(w)
  BY <1>2, <1>3, <1>5 DEF HoldFrame, Bill, LoadEffectInputs, EmitDerived
<1>6. CASE ClaimExtractionDerived(w)
  <2>. PICK r : r = [windows[i] EXCEPT !.derived = TRUE]
    OBVIOUS
  <2>1. /\ r.kind = windows[i].kind /\ r.predecessor = windows[i].predecessor
        /\ r.invalidated = windows[i].invalidated /\ r.state = windows[i].state
        /\ r.manifest = windows[i].manifest
    BY <1>4 DEF Window
  <2>2. windows' = [windows EXCEPT ![i] = r]
    BY <1>6 DEF ClaimExtractionDerived
  <2>3. RowRewritten
    BY <1>4, <2>1, <2>2, RowSo
  <2>. QED
    BY <1>2, <1>3, <2>3 DEF HoldFrame
<1>7. CASE AckExtractionEffects(w)
  <2>. PICK r : r = [windows[i] EXCEPT !.owed = FALSE, !.saved = FALSE, !.manifest = {}]
    OBVIOUS
  <2>1. /\ r.kind = windows[i].kind /\ r.predecessor = windows[i].predecessor
        /\ r.invalidated = windows[i].invalidated /\ r.state # "open"
    BY <1>4, <1>7 DEF Window, AckExtractionEffects, DeliveredIsClosed, Row
  <2>2. windows' = [windows EXCEPT ![i] = r]
    BY <1>7 DEF AckExtractionEffects
  <2>3. RowRewritten
    BY <1>4, <2>1, <2>2, RowSo
  <2>. QED
    BY <1>2, <1>3, <2>3 DEF HoldFrame
<1>8. CASE RetryEffects(w)
  BY <1>2, <1>3, <1>4, <1>8, PostponedRow DEF HoldFrame, RetryEffects
<1>. QED
  BY <1>5, <1>6, <1>7, <1>8 DEF Deliver

\* The window of a turn that passes the fence has all its inputs, unless an
\* erasure has struck it.
LEMMA HolderSurvives ==
  ASSUME CoverInv, HoldInv, NEW w \in Workers, Holds(w), turn[w].phase \in Executing
  PROVE  InputsSurvive(Row(w)) \/ Row(w).invalidated
<1>1. turn[w].window \in DOMAIN windows /\ windows[turn[w].window] = Row(w) /\ Row(w).state = "open"
  BY HolderRow DEF CoverInv
<1>2. Row(w).end \in Row(w).manifest
  BY <1>1 DEF CoverInv, OpenWindowsCover, Covers
<1>3. Row(w).manifest \subseteq live \/ Row(w).invalidated
  BY <1>1 DEF HoldInv
<1>. QED
  BY <1>2, <1>3 DEF InputsSurvive

\* A failure holds its cursor for a reason only, and the cursor keeps its window.
LEMMA FailHolds ==
  ASSUME OwnInv, NEW w \in Workers, Fail(w)
  PROVE  HoldFrame
<1>. USE DEF OwnInv
<1>. PICK i : i = turn[w].window
  OBVIOUS
<1>1. CASE YieldTurn(w) \/ Crash(w)
  <2>1. Ended(w) /\ (lease' = lease \/ ~lease'.live) /\ UNCHANGED <<live, cursor, windows>>
    BY <1>1 DEF YieldTurn, Crash, FreeRow, NoLease, log, workRow
  <2>2. NobodyGivesUp
    BY <2>1, EndedMoves
  <2>. QED
    BY <2>1, <2>2 DEF HoldFrame, HoldsAreNamed
<1>2. CASE DeferSetup(w) \/ LoseLease(w)
  <2>1. Goto(w, "ending") /\ UNCHANGED <<lease, live, cursor, windows>>
    BY <1>2 DEF DeferSetup, LoseLease, log, workRow
  <2>2. NobodyGivesUp
    BY <2>1, GotoMoves
  <2>. QED
    BY <2>1, <2>2 DEF HoldFrame, HoldsAreNamed
<1>3. CASE FailStale(w)
  <2>1. Goto(w, "ending") /\ UNCHANGED <<lease, live, cursor>>
    BY <1>3 DEF FailStale, log
  <2>2. NobodyGivesUp
    BY <2>1, GotoMoves
  <2>3. RowRewritten
    BY <1>3, TurnRow, PostponedRow DEF FailStale
  <2>. QED
    BY <2>1, <2>2, <2>3 DEF HoldFrame, HoldsAreNamed
<1>4. CASE ChargedFail(w)
  <2>1. Holds(w) /\ turn[w].phase \in Executing
    BY <1>4 DEF ChargedFail, RetryExtraction, WaitForProvider, FailInputBudget,
       DiscardComputation, SuspendExtraction
  <2>2. /\ Kind(w) \in Kinds /\ i \in DOMAIN windows /\ windows[i] \in Window
        /\ cursor[Kind(w)].window # NoWindow /\ cursor[Kind(w)] \in Cursor
    BY <2>1, HolderRow
  <2>3. PICK n, retry, error : /\ Charge(w, n, retry, error)
                               /\ retry = "never" => error \in HoldErrors
    <3>1. CASE RetryExtraction(w)
      <4>1. "later" # "never" /\ "exhausted" \in HoldErrors
        BY DEF HoldErrors
      <4>. QED
        BY <3>1, <4>1, Zenon DEF RetryExtraction
    <3>2. CASE FailInputBudget(w)
      <4>1. /\ "later" # "never" /\ "exhausted" \in HoldErrors
            /\ "budget" \in HoldErrors /\ "config" \in HoldErrors
        BY DEF HoldErrors
      <4>. QED
        BY <3>2, <4>1, Zenon DEF FailInputBudget
    <3>3. CASE DiscardComputation(w)
      <4>1. "later" # "never" /\ "exhausted" \in HoldErrors
        BY DEF HoldErrors
      <4>. QED
        BY <3>3, <4>1, Zenon DEF DiscardComputation
    <3>4. CASE WaitForProvider(w) \/ SuspendExtraction(w)
      <4>1. "later" # "never"
        OBVIOUS
      <4>. QED
        BY <3>4, <4>1, Zenon DEF WaitForProvider, SuspendExtraction
    <3>. QED
      BY <1>4, <3>1, <3>2, <3>3, <3>4 DEF ChargedFail
  <2>4. HoldsAreNamed
    <3>. PICK k, c : k = Kind(w) /\ c = [cursor[Kind(w)] EXCEPT !.attempts = n, !.retry = retry, !.error = error]
      OBVIOUS
    <3>1. c.retry = retry /\ c.error = error /\ c.window = cursor[k].window
      BY <2>2 DEF Cursor
    <3>2. cursor' = [cursor EXCEPT ![k] = c]
      BY <2>3 DEF Charge
    <3>. QED
      BY <2>2, <2>3, <3>1, <3>2, CursorNamed DEF Named
  <2>5. NobodyGivesUp /\ live' = live
    BY <2>3, EndedMoves DEF Charge, FreeRow, NoLease, log
  <2>6. UNCHANGED windows \/ RowRewritten
    <3>1. CASE DiscardComputation(w)
      <4>. PICK r : r = [windows[i] EXCEPT !.saved = FALSE]
        OBVIOUS
      <4>1. /\ r.kind = windows[i].kind /\ r.predecessor = windows[i].predecessor
            /\ r.invalidated = windows[i].invalidated /\ r.state = windows[i].state
            /\ r.manifest = windows[i].manifest
        BY <2>2 DEF Window
      <4>2. windows' = [windows EXCEPT ![i] = r]
        BY <3>1 DEF DiscardComputation
      <4>. QED
        BY <2>2, <4>1, <4>2, RowSo
    <3>. QED
      BY <1>4, <3>1 DEF ChargedFail, RetryExtraction, WaitForProvider, FailInputBudget,
         SuspendExtraction
  <2>. QED
    BY <2>4, <2>5, <2>6 DEF HoldFrame
<1>. QED
  BY <1>1, <1>2, <1>3, <1>4 DEF Fail, ChargedFail

\* The operator's commands release holds and make none.
LEMMA OperateHolds ==
  ASSUME OwnInv, Operate
  PROVE  HoldFrame
<1>. USE DEF OwnInv
<1>1. UNCHANGED <<live, turn>>
  BY DEF Operate, ClaimUserExtraction, ReleaseUserExtraction, OperatorCrash, RearmHeld,
         RetireWindow, log
<1>2. lease' = lease \/ ~lease'.live \/ lease'.holder = Operator
  <2>1. CASE ClaimUserExtraction \/ ReleaseUserExtraction \/ OperatorCrash
    BY <2>1 DEF ClaimUserExtraction, ReleaseUserExtraction, OperatorCrash, NoLease, workRow
  <2>2. CASE \E k \in Kinds : RearmHeld(k) \/ RetireWindow(k)
    BY <2>2 DEF RearmHeld, RetireWindow
  <2>. QED
    BY <2>1, <2>2 DEF Operate
<1>3. NobodyGivesUp
  BY <1>1, <1>2, StreamAssumption DEF NobodyGivesUp, Holds
<1>4. CASE ClaimUserExtraction \/ ReleaseUserExtraction \/ OperatorCrash
  BY <1>1, <1>3, <1>4 DEF HoldFrame, HoldsAreNamed, ClaimUserExtraction,
     ReleaseUserExtraction, OperatorCrash
<1>5. ASSUME NEW k \in Kinds, RearmHeld(k) PROVE HoldFrame
  <2>1. cursor'[k].retry = "due" /\ (\A j \in Kinds \ {k} : cursor'[j] = cursor[j])
        /\ UNCHANGED windows
    BY <1>5 DEF RearmHeld, TypeOK, CursorsOK, Cursor
  <2>. QED
    BY <1>1, <1>3, <2>1 DEF HoldFrame, HoldsAreNamed
<1>6. ASSUME NEW k \in Kinds, RetireWindow(k) PROVE HoldFrame
  <2>. PICK i, c, r : /\ i = cursor[k].window /\ c = PassedBy(windows[i].end)
                      /\ r = [windows[i] EXCEPT !.state = "completed", !.derived = TRUE,
                                                !.saved = FALSE, !.manifest = {}]
    OBVIOUS
  <2>1. cursor' = [cursor EXCEPT ![k] = c] /\ windows' = [windows EXCEPT ![i] = r]
    BY <1>6 DEF RetireWindow
  <2>2. i \in DOMAIN windows
    BY <1>6 DEF RetireWindow, Held, TypeOK, CursorsOK
  <2>3. windows[i] \in Window
    BY <2>2 DEF TypeOK, WindowsOK
  <2>4. /\ r.kind = windows[i].kind /\ r.predecessor = windows[i].predecessor
        /\ r.invalidated = windows[i].invalidated /\ r.state # "open"
    BY <2>3 DEF Window
  <2>5. c.retry # "never"
    BY DEF PassedBy
  <2>6. RowRewritten
    BY <2>1, <2>2, <2>4, RowSo
  <2>7. HoldsAreNamed
    BY <2>1, <2>5, CursorNamed
  <2>. QED
    BY <1>1, <1>3, <2>6, <2>7 DEF HoldFrame
<1>. QED
  BY <1>4, <1>5, <1>6 DEF Operate

\* So do publications and session ends.
LEMMA ArriveHolds ==
  ASSUME (\E a \in Admissions : AdmitExtraction(a)) \/ \E s \in Sessions : FinalizeSession(s)
  PROVE  HoldFrame
<1>1. UNCHANGED <<cursor, windows, turn, lease>> /\ live \subseteq live'
  BY DEF AdmitExtraction, FinalizeSession
<1>. QED
  BY <1>1 DEF HoldFrame, NobodyGivesUp, Holds, HoldsAreNamed

\* And time.
LEMMA PassHolds ==
  ASSUME TypeOK, Pass
  PROVE  HoldFrame
<1>1. UNCHANGED <<turn, live>> /\ (lease' = lease \/ ~lease'.live)
  BY DEF Pass, LeaseLapses, WorkDue, BacklogAges, RetryDue, EffectsDue, DeadlinePasses,
         workRow, log, TypeOK
<1>2. NobodyGivesUp
  BY <1>1 DEF NobodyGivesUp, Holds
<1>3. ASSUME NEW k \in Kinds, RetryDue(k) PROVE HoldFrame
  <2>1. cursor'[k].retry = "due" /\ (\A j \in Kinds \ {k} : cursor'[j] = cursor[j])
        /\ UNCHANGED windows
    BY <1>3 DEF RetryDue, TypeOK, CursorsOK, Cursor
  <2>. QED
    BY <1>1, <1>2, <2>1 DEF HoldFrame, HoldsAreNamed
<1>4. ASSUME NEW i \in DOMAIN windows, EffectsDue(i) PROVE HoldFrame
  <2>. PICK r : r = [windows[i] EXCEPT !.effectsRetry = "due"]
    OBVIOUS
  <2>1. windows[i] \in Window
    BY DEF TypeOK, WindowsOK
  <2>2. /\ r.kind = windows[i].kind /\ r.predecessor = windows[i].predecessor
        /\ r.invalidated = windows[i].invalidated /\ r.state = windows[i].state
        /\ r.manifest = windows[i].manifest
    BY <2>1 DEF Window
  <2>3. windows' = [windows EXCEPT ![i] = r] /\ UNCHANGED cursor
    BY <1>4 DEF EffectsDue
  <2>4. RowRewritten
    BY <2>2, <2>3, RowSo
  <2>. QED
    BY <1>1, <1>2, <2>3, <2>4 DEF HoldFrame, HoldsAreNamed
<1>5. CASE \/ LeaseLapses \/ WorkDue \/ BacklogAges
           \/ \E i \in DOMAIN requests : DeadlinePasses(i)
  <2>1. UNCHANGED <<cursor, windows>>
    BY <1>5 DEF LeaseLapses, WorkDue, BacklogAges, DeadlinePasses
  <2>. QED
    BY <1>1, <1>2, <2>1 DEF HoldFrame, HoldsAreNamed
<1>. QED
  BY <1>3, <1>4, <1>5 DEF Pass

\* A turn gives its window up only for an erasure, and its debit names the hold
\* it arms.
LEMMA ExecuteHolds ==
  ASSUME CoverInv, HoldInv, NEW w \in Workers, Execute(w), ~PrepareWindow(w),
         ~InvalidateExtraction(w)
  PROVE  HoldFrame
<1>. USE DEF CoverInv, OwnInv
<1>. PICK i : i = turn[w].window
  OBVIOUS
<1>1. CASE ClaimExtraction(w)
  <2>1. NobodyGivesUp
    BY <1>1, GotoMoves DEF ClaimExtraction
  <2>. QED
    BY <1>1, <2>1 DEF ClaimExtraction, log, HoldFrame, HoldsAreNamed
<1>2. CASE PendingExtractionEffects(w)
  <2>1. PICK t : turn' = [turn EXCEPT ![w] = t] /\ t.phase # "invalidating"
    <3>1. CASE Goto(w, "selecting")
      <4>. PICK t : t = [turn[w] EXCEPT !.phase = "selecting"]
        OBVIOUS
      <4>1. t.phase # "invalidating" /\ turn' = [turn EXCEPT ![w] = t]
        BY <3>1 DEF Goto, TypeOK, TurnsOK, Turn
      <4>. QED
        BY <4>1
    <3>2. ASSUME NEW j, turn' = [turn EXCEPT ![w] = [@ EXCEPT !.phase = "billing", !.window = j]]
          PROVE  \E t : turn' = [turn EXCEPT ![w] = t] /\ t.phase # "invalidating"
      <4>. PICK t : t = [turn[w] EXCEPT !.phase = "billing", !.window = j]
        OBVIOUS
      <4>1. t.phase # "invalidating" /\ turn' = [turn EXCEPT ![w] = t]
        BY <3>2 DEF TypeOK, TurnsOK, Turn
      <4>. QED
        BY <4>1
    <3>. QED
      BY <1>2, <3>1, <3>2 DEF PendingExtractionEffects
  <2>2. NobodyGivesUp
    BY <1>2, <2>1, TurnMoves DEF PendingExtractionEffects, workRow
  <2>. QED
    BY <1>2, <2>2 DEF PendingExtractionEffects, log, HoldFrame, HoldsAreNamed
<1>3. CASE PrepareNothing(w) \/ FinishCommitted(w) \/ ReleaseTurn(w)
  <2>1. Ended(w) /\ (lease' = lease \/ ~lease'.live) /\ UNCHANGED <<live, cursor, windows>>
    BY <1>3 DEF PrepareNothing, FinishCommitted, ReleaseTurn, NoLease, log, workRow
  <2>2. NobodyGivesUp
    BY <2>1, EndedMoves
  <2>. QED
    BY <2>1, <2>2 DEF HoldFrame, HoldsAreNamed
<1>4. CASE BeginOverflowWindow(w) \/ ComputeReturns(w) \/ AdoptSavedOutcome(w)
  <2>1. PICK p : Goto(w, p) /\ p # "invalidating"
    BY <1>4 DEF BeginOverflowWindow, ComputeReturns, AdoptSavedOutcome
  <2>2. UNCHANGED <<lease, live, cursor, windows>>
    BY <1>4 DEF BeginOverflowWindow, ComputeReturns, AdoptSavedOutcome, log, workRow
  <2>3. NobodyGivesUp
    BY <2>1, <2>2, GotoMoves
  <2>. QED
    BY <2>2, <2>3 DEF HoldFrame, HoldsAreNamed
<1>5. CASE BeginExtractionAttempt(w)
  <2>1. Holds(w) /\ turn[w].phase \in Executing
    BY <1>5 DEF BeginExtractionAttempt
  <2>2. Kind(w) \in Kinds /\ cursor[Kind(w)].window # NoWindow /\ cursor[Kind(w)] \in Cursor
    BY <2>1, HolderRow
  <2>. PICK k, c : k = Kind(w) /\ c = Debit(cursor[Kind(w)], turn[w].attempts + 1)
    OBVIOUS
  <2>3. c.retry = "never" => Named(c)
    <3>1. cursor[k].retry = "due"
      BY <1>5 DEF BeginExtractionAttempt
    <3>. QED
      BY <2>2, <3>1 DEF Debit, Cursor, HoldErrors, Named
  <2>4. cursor' = [cursor EXCEPT ![k] = c]
    BY <1>5 DEF BeginExtractionAttempt
  <2>5. HoldsAreNamed
    BY <2>2, <2>3, <2>4, CursorNamed
  <2>6. NobodyGivesUp
    <3>. PICK t : t = [turn[w] EXCEPT !.phase = "computing", !.reserved = TRUE]
      OBVIOUS
    <3>1. t.phase # "invalidating"
      BY DEF TypeOK, TurnsOK, Turn
    <3>2. turn' = [turn EXCEPT ![w] = t] /\ lease' = lease
      BY <1>5 DEF BeginExtractionAttempt, workRow
    <3>. QED
      BY <3>1, <3>2, TurnMoves
  <2>. QED
    BY <1>5, <2>5, <2>6 DEF BeginExtractionAttempt, log, HoldFrame
<1>6. CASE SaveExtractionOutcome(w)
  <2>1. Kind(w) \in Kinds /\ i \in DOMAIN windows /\ windows[i] \in Window
    BY <1>6, TurnRow DEF SaveExtractionOutcome, Row
  <2>. PICK k, c, r : /\ k = Kind(w)
                      /\ c = [cursor[Kind(w)] EXCEPT !.retry = "due", !.error = "admitted"]
                      /\ r = [windows[i] EXCEPT !.saved = TRUE]
    OBVIOUS
  <2>2. c.retry # "never"
    BY <2>1 DEF TypeOK, CursorsOK, Cursor
  <2>3. /\ cursor' = [cursor EXCEPT ![k] = c] \/ cursor' = cursor
        /\ windows' = [windows EXCEPT ![i] = r]
        /\ Goto(w, "saved") /\ UNCHANGED <<lease, live>>
    BY <1>6 DEF SaveExtractionOutcome, log, workRow
  <2>4. /\ r.kind = windows[i].kind /\ r.predecessor = windows[i].predecessor
        /\ r.invalidated = windows[i].invalidated /\ r.state = windows[i].state
        /\ r.manifest = windows[i].manifest
    BY <2>1 DEF Window
  <2>5. RowRewritten
    BY <2>1, <2>3, <2>4, RowSo
  <2>6. HoldsAreNamed
    <3>1. CASE cursor' = [cursor EXCEPT ![k] = c]
      BY <2>1, <2>2, <3>1, CursorNamed
    <3>. QED
      BY <2>3, <3>1 DEF HoldsAreNamed
  <2>7. NobodyGivesUp
    BY <2>3, GotoMoves
  <2>. QED
    BY <2>3, <2>5, <2>6, <2>7 DEF HoldFrame
<1>7. CASE PublishWindow(w)
  <2>1. Kind(w) \in Kinds /\ i \in DOMAIN windows /\ windows[i] \in Window
    BY <1>7, TurnRow DEF PublishWindow, Row
  <2>. PICK k, c, r : /\ k = Kind(w) /\ c = PassedBy(Row(w).end)
                      /\ r = [windows[i] EXCEPT !.state = "completed", !.owed = TRUE]
    OBVIOUS
  <2>2. c.retry # "never"
    BY DEF PassedBy
  <2>3. /\ cursor' = [cursor EXCEPT ![k] = c] /\ windows' = [windows EXCEPT ![i] = r]
        /\ Goto(w, "committed") /\ ~lease'.live /\ UNCHANGED live
    BY <1>7 DEF PublishWindow, FreeRow, NoLease, log
  <2>4. /\ r.kind = windows[i].kind /\ r.predecessor = windows[i].predecessor
        /\ r.invalidated = windows[i].invalidated /\ r.state # "open"
    BY <2>1 DEF Window
  <2>5. RowRewritten
    BY <2>1, <2>3, <2>4, RowSo
  <2>6. HoldsAreNamed
    BY <2>1, <2>2, <2>3, CursorNamed
  <2>7. NobodyGivesUp
    BY <2>3, GotoMoves
  <2>. QED
    BY <2>3, <2>5, <2>6, <2>7 DEF HoldFrame
<1>8. CASE DiscoverErasure(w)
  <2>1. turn'[w].window = i /\ \A v \in Workers \ {w} : turn'[v] = turn[v]
    BY <1>8 DEF DiscoverErasure, Goto, TypeOK, TurnsOK, Turn
  <2>2. UNCHANGED <<lease, live, cursor, windows>>
    BY <1>8 DEF DiscoverErasure, log, workRow
  <2>3. turn[w].phase \in Executing /\ i \in DOMAIN windows
    BY <1>8, TurnRow DEF DiscoverErasure
  <2>4. Holds(w) => Invalid(i)
    BY <1>8, <2>3, HolderSurvives DEF DiscoverErasure, Invalid, Row
  <2>5. NobodyGivesUp
    BY <2>1, <2>2, <2>4 DEF NobodyGivesUp, Holds, Invalid
  <2>. QED
    BY <2>2, <2>5 DEF HoldFrame, HoldsAreNamed
<1>. QED
  BY <1>1, <1>2, <1>3, <1>4, <1>5, <1>6, <1>7, <1>8 DEF Execute

\* A turn that gives its window up leaves the cursor where the erasure struck.
LEMMA InvalidationHolds ==
  ASSUME CoverInv, HoldInv, NEW w \in Workers, InvalidateExtraction(w)
  PROVE  HoldInv'
<1>. USE DEF CoverInv, OwnInv
<1>. PICK i, k, c, r : /\ i = turn[w].window /\ k = Kind(w)
                       /\ c = [cursor[Kind(w)] EXCEPT
                                 !.window = IF @ = turn[w].window THEN NoWindow ELSE @]
                       /\ r = [windows[turn[w].window] EXCEPT
                                 !.state = IF @ = "open" THEN "erased" ELSE @]
  OBVIOUS
<1>1. Invalid(i) /\ i \in DOMAIN windows /\ windows[i] \in Window /\ k = windows[i].kind
      /\ k \in Kinds /\ cursor[k] \in Cursor
  <2>1. Invalid(i)
    BY DEF InvalidateExtraction, HoldInv
  <2>2. i \in DOMAIN windows /\ windows[i] \in Window
    BY <2>1 DEF Invalid, TypeOK, WindowsOK
  <2>. QED
    BY <2>1, <2>2 DEF Kind, Row, Window, TypeOK, CursorsOK
<1>2. /\ cursor' = [cursor EXCEPT ![k] = c] /\ windows' = [windows EXCEPT ![i] = r]
      /\ ~lease'.live /\ UNCHANGED live
  BY DEF InvalidateExtraction, FreeRow, NoLease, log
<1>3. /\ r.kind = windows[i].kind /\ r.predecessor = windows[i].predecessor
      /\ r.invalidated = windows[i].invalidated
  BY <1>1 DEF Window
<1>4. RowRewritten
  <2>1. r.state # "open"
    BY <1>1 DEF Window
  <2>. QED
    BY <1>1, <1>2, <1>3, <2>1, RowSo
<1>5. ASSUME NEW j \in Kinds, Erased(j) PROVE Erased(j)'
  <2>1. cursor'[j].completed = cursor[j].completed
    BY <1>1, <1>2 DEF TypeOK, CursorsOK, Cursor
  <2>. QED
    BY <1>4, <1>5, <2>1, RowsStay, StillErased
<1>6. ASSUME NEW j \in Kinds, cursor'[j].retry = "never"
      PROVE  Named(cursor'[j]) \/ Erased(j)'
  <2>1. CASE j = k /\ cursor[k].window = i
    <3>1. windows[i].predecessor = cursor[k].completed
      BY <1>1, <2>1, StreamAssumption DEF CursorNamesOpenWindow, TypeOK, WindowsOK
    <3>2. Erased(k)
      BY <1>1, <3>1 DEF Erased, Invalid
    <3>. QED
      BY <1>5, <2>1, <3>2
  <2>2. CASE ~(j = k /\ cursor[k].window = i)
    <3>1. cursor'[j] = cursor[j]
      BY <1>1, <1>2, <2>2 DEF TypeOK, CursorsOK, Cursor
    <3>2. Named(cursor[j]) \/ Erased(j)
      BY <1>6, <3>1 DEF HoldInv
    <3>. QED
      BY <1>5, <3>1, <3>2
  <2>. QED
    BY <2>1, <2>2
<1>7. ASSUME NEW m \in DOMAIN windows'
      PROVE  /\ windows'[m].invalidated => "erase" \in Environment
             /\ \/ windows'[m].invalidated \/ windows'[m].state # "open"
                \/ windows'[m].manifest \subseteq live'
  <2>1. m \in DOMAIN windows
    BY <1>1, <1>2 DEF TypeOK, WindowsOK
  <2>2. CASE m = i
    <3>1. windows'[m] = r /\ r.state # "open"
      BY <1>1, <1>2, <2>2 DEF TypeOK, WindowsOK, Window
    <3>. QED
      BY <1>3, <2>1, <2>2, <3>1 DEF HoldInv
  <2>3. CASE m # i
    <3>1. windows'[m] = windows[m]
      BY <1>2, <2>1, <2>3 DEF TypeOK, WindowsOK
    <3>. QED
      BY <1>2, <2>1, <3>1 DEF HoldInv
  <2>. QED
    BY <2>2, <2>3
<1>. QED
  BY <1>2, <1>6, <1>7 DEF HoldInv, Holds

\* An erasure strikes every open window it takes an input from.
LEMMA ErasureHolds ==
  ASSUME TypeOK, HoldInv, NEW s \in live, EraseInput(s)
  PROVE  HoldInv'
<1>1. /\ UNCHANGED <<cursor, turn, lease>> /\ live' = live \ {s} /\ "erase" \in Environment
      /\ DOMAIN windows' = DOMAIN windows
  BY DEF EraseInput
<1>2. ASSUME NEW i \in DOMAIN windows
      PROVE  /\ windows'[i].kind = windows[i].kind
             /\ windows'[i].predecessor = windows[i].predecessor
             /\ windows[i].invalidated => windows'[i].invalidated
             /\ \/ windows'[i].invalidated \/ windows'[i].state # "open"
                \/ windows'[i].manifest \subseteq live'
  <2>1. windows[i] \in Window
    BY DEF TypeOK, WindowsOK
  <2>2. CASE s \in windows[i].manifest
             /\ (windows[i].state = "open" \/ (windows[i].state = "completed" /\ windows[i].owed))
    <3>1. windows'[i] = [windows[i] EXCEPT !.invalidated = TRUE, !.saved = FALSE]
      BY <2>2 DEF EraseInput
    <3>. QED
      BY <2>1, <3>1 DEF Window
  <2>3. CASE ~(s \in windows[i].manifest
               /\ (windows[i].state = "open" \/ (windows[i].state = "completed" /\ windows[i].owed)))
    <3>1. windows'[i] = windows[i]
      BY <2>3 DEF EraseInput
    <3>. QED
      BY <1>1, <2>1, <2>3, <3>1 DEF HoldInv
  <2>. QED
    BY <2>2, <2>3
<1>3. \A w \in Workers : Holds(w)' /\ turn'[w].phase = "invalidating" => Invalid(turn[w].window)'
  BY <1>1, <1>2 DEF HoldInv, Holds, Invalid
<1>4. ASSUME NEW k \in Kinds, Erased(k) PROVE Erased(k)'
  BY <1>1, <1>2, <1>4, StillErased
<1>. QED
  BY <1>1, <1>2, <1>3, <1>4 DEF HoldInv

\* A new window starts with surviving inputs, and its cursor is due.
LEMMA PrepareHolds ==
  ASSUME CoverInv, HoldInv, NEW w \in Workers, PrepareWindow(w)
  PROVE  HoldInv'
<1>. USE DEF CoverInv, OwnInv
<1>1. PICK k \in Kinds : Runnable(k) /\ (ResumeWindow(w, k) \/ CutWindow(w, k))
  BY DEF PrepareWindow
<1>2. cursor[k] \in Cursor /\ cursor[k].retry = "due"
  BY <1>1 DEF TypeOK, CursorsOK, Runnable
<1>3. UNCHANGED <<lease, live>>
  BY DEF PrepareWindow, workRow, log
<1>4. ASSUME NEW i, NEW saved, Take(w, i, k, saved)
      PROVE  NobodyGivesUp
  <2>1. turn'[w].phase = "prepared" /\ \A v \in Workers \ {w} : turn'[v] = turn[v]
    BY <1>4 DEF Take, TypeOK, TurnsOK
  <2>. QED
    BY <1>3, <2>1 DEF NobodyGivesUp, Holds
<1>5. CASE ResumeWindow(w, k)
  <2>1. HoldFrame
    BY <1>3, <1>4, <1>5 DEF ResumeWindow, HoldFrame, HoldsAreNamed
  <2>. QED
    BY <2>1, FrameKeepsHolds
<1>6. CASE CutWindow(w, k)
  <2>. DEFINE id == CHOOSE i \in WindowIds \ DOMAIN windows : TRUE
              pos == cursor[k].completed
              man == Manifest(requests, live, k, pos, cursor[k].started)
  <2>1. PICK end \in NewInputs(requests, live, k, pos, cursor[k].started) :
          /\ IsGreatest(end, NewInputs(requests, live, k, pos, cursor[k].started))
          /\ windows' = [i \in DOMAIN windows \cup {id} |->
               IF i # id THEN windows[i]
               ELSE [kind |-> k, predecessor |-> pos, end |-> end, manifest |-> man,
                     state |-> "open", saved |-> FALSE, invalidated |-> FALSE,
                     owed |-> FALSE, effectsRetry |-> "due", derived |-> FALSE]]
          /\ cursor' = [cursor EXCEPT ![k].window = id]
          /\ Take(w, id, k, FALSE)
    BY <1>6, Zenon DEF CutWindow
  <2>2. man \subseteq live
    <3>1. requests \in Seq(Request) /\ live \in SUBSET Nat /\ pos \in Nat
          /\ cursor[k].started \in BOOLEAN
      BY <1>2 DEF TypeOK, Cursor
    <3>2. man \subseteq Inputs(requests, live, k)
      BY <2>1, <3>1, SelectionHasNoGap DEF LogOrdered
    <3>. QED
      BY <3>2 DEF Inputs
  <2>. HIDE DEF id, man
  <2>3. \A i \in DOMAIN windows' : \/ i \in DOMAIN windows /\ windows'[i] = windows[i]
                                   \/ ~windows'[i].invalidated /\ windows'[i].manifest = man
    BY <2>1
  <2>4. cursor'[k].retry = "due" /\ \A j \in Kinds \ {k} : cursor'[j] = cursor[j]
    BY <1>2, <2>1 DEF TypeOK, CursorsOK, Cursor
  <2>5. NobodyGivesUp
    BY <1>4, <2>1
  <2>6. \A i \in DOMAIN windows' :
          /\ windows'[i].invalidated => "erase" \in Environment
          /\ \/ windows'[i].invalidated \/ windows'[i].state # "open"
             \/ windows'[i].manifest \subseteq live'
    BY <1>3, <2>2, <2>3 DEF HoldInv
  <2>7. \A i \in DOMAIN windows : i \in DOMAIN windows' /\ windows'[i] = windows[i]
    <3>1. id \notin DOMAIN windows
      BY <1>6 DEF CutWindow, id
    <3>. QED
      BY <2>1, <3>1
  <2>8. \A v \in Workers : Holds(v)' /\ turn'[v].phase = "invalidating" => Invalid(turn[v].window)'
    BY <2>5, <2>7 DEF HoldInv, NobodyGivesUp, Invalid
  <2>9. ASSUME NEW j \in Kinds, cursor'[j].retry = "never"
        PROVE  Named(cursor'[j]) \/ Erased(j)'
    <3>1. cursor'[j] = cursor[j]
      BY <2>4, <2>9
    <3>2. ASSUME Erased(j) PROVE Erased(j)'
      BY <2>7, <3>1, <3>2, StillErased
    <3>. QED
      BY <2>9, <3>1, <3>2 DEF HoldInv
  <2>. QED
    BY <2>6, <2>8, <2>9 DEF HoldInv
<1>. QED
  BY <1>1, <1>5, <1>6

\* Every step keeps the holds recoverable or struck by an erasure.
LEMMA HoldStep ==
  ASSUME CoverInv, HoldInv, [Next]_vars
  PROVE  HoldInv'
<1>1. OwnInv /\ TypeOK /\ DeliveredIsClosed
  BY DEF CoverInv, OwnInv
<1>2. ASSUME NEW w \in Workers, PrepareWindow(w) \/ InvalidateExtraction(w) PROVE HoldInv'
  BY <1>2, PrepareHolds, InvalidationHolds
<1>3. ASSUME NEW w \in Workers, Execute(w), ~PrepareWindow(w), ~InvalidateExtraction(w)
      PROVE  HoldFrame
  BY <1>3, ExecuteHolds
<1>4. ASSUME NEW w \in Workers, Deliver(w) \/ Fail(w) PROVE HoldFrame
  BY <1>1, <1>4, DeliverHolds, FailHolds
<1>5. ASSUME NEW s \in live, EraseInput(s) PROVE HoldInv'
  BY <1>1, <1>5, ErasureHolds
<1>6. ASSUME Operate \/ Arrive \/ Pass, ~\E s \in live : EraseInput(s) PROVE HoldFrame
  BY <1>1, <1>6, OperateHolds, ArriveHolds, PassHolds DEF Arrive
<1>7. ASSUME UNCHANGED vars PROVE HoldFrame
  BY <1>7 DEF vars, HoldFrame, NobodyGivesUp, Holds, HoldsAreNamed
<1>. QED
  BY <1>1, <1>2, <1>3, <1>4, <1>5, <1>6, <1>7, FrameKeepsHolds DEF Next

\* The cursors of an empty stream are due.
LEMMA InitHolds == ASSUME Init PROVE HoldInv
BY DEF Init, HoldInv, NoLease, Holds

\* The invariant of the holds.
LEMMA HoldsKept == Spec => [](CoverInv /\ HoldInv)
<1>1. CoverInv /\ HoldInv /\ [Next]_vars => HoldInv'
  BY HoldStep
<1>2. Init => HoldInv
  BY InitHolds
<1>. QED
  BY <1>1, <1>2, Covered, PTL DEF Spec

\* A hold that no erasure has reached is one the operator can release.
LEMMA ReleasableHold ==
  ASSUME CoverInv, HoldInv, NEW k \in Kinds, cursor[k].retry = "never"
  PROVE  Releasable(k) \/ Erased(k)
<1>. USE DEF CoverInv, OwnInv
<1>1. SUFFICES ASSUME Named(cursor[k]), ~Erased(k) PROVE Releasable(k)
  BY DEF HoldInv
<1>2. /\ cursor[k].window \in DOMAIN windows
      /\ windows[cursor[k].window].state = "open" /\ windows[cursor[k].window].kind = k
      /\ windows[cursor[k].window].predecessor = cursor[k].completed
  BY <1>1 DEF Named, CursorNamesOpenWindow, TypeOK, CursorsOK
<1>. QED
  BY <1>1, <1>2 DEF Erased, Named, Releasable

\* A held cursor names an open, valid window and carries a reason that
\* rearm_exhausted_extraction or recover_extraction_input_budget accepts, unless
\* invalidate_extraction_input has struck a window cut at the very place where
\* the cursor stands: nothing but an erasure puts a hold beyond the operator.
THEOREM OnlyErasureStrandsHold ==
  Spec => [](\A k \in Kinds : cursor[k].retry = "never" => Releasable(k) \/ Erased(k))
<1>1. CoverInv /\ HoldInv =>
        \A k \in Kinds : cursor[k].retry = "never" => Releasable(k) \/ Erased(k)
  BY ReleasableHold
<1>. QED
  BY <1>1, HoldsKept, PTL

\* As long as nobody erases inputs, no hold is beyond the operator.
\* With erasures the hold outlives the window (run ErasureKeepsHold).
THEOREM HoldsRecoverable == "erase" \notin Environment => (Spec => []HeldIsRecoverable)
<1>. SUFFICES ASSUME "erase" \notin Environment PROVE Spec => []HeldIsRecoverable
  OBVIOUS
<1>1. CoverInv /\ HoldInv => HeldIsRecoverable
  <2>. SUFFICES ASSUME CoverInv, HoldInv, NEW k \in Kinds, cursor[k].retry = "never"
                PROVE  Releasable(k)
    BY DEF HeldIsRecoverable, Releasable, HoldErrors
  <2>1. ~Erased(k)
    BY DEF Erased, HoldInv
  <2>. QED
    BY <2>1, ReleasableHold
<1>. QED
  BY <1>1, HoldsKept, PTL

-----------------------------------------------------------------------------
(* Retained outcomes.                                                      *)

\* A row whose outcome may be retained: no erasure has struck it, its inputs
\* all exist, and the trigger still watches them.
Retainable(row) ==
  /\ ~row.invalidated /\ row.manifest \subseteq live
  /\ row.state = "open" \/ (row.state = "completed" /\ row.owed)

RetainInv == \A i \in DOMAIN windows : windows[i].saved => Retainable(windows[i])

\* Writing one row keeps the invariant if that row may retain what it retains.
LEMMA RowRetains ==
  ASSUME TypeOK, RetainInv, NEW i \in DOMAIN windows, NEW r,
         windows' = [windows EXCEPT ![i] = r], live \subseteq live',
         r.saved => Retainable(r)
  PROVE  RetainInv'
<1>1. DOMAIN windows' = DOMAIN windows /\ windows'[i] = r
      /\ \A j \in DOMAIN windows \ {i} : windows'[j] = windows[j]
  BY DEF TypeOK, WindowsOK
<1>. QED
  BY <1>1 DEF RetainInv, Retainable

\* So does a step that writes none.
LEMMA NoRowRetains ==
  ASSUME RetainInv, UNCHANGED windows, live \subseteq live'
  PROVE  RetainInv'
BY DEF RetainInv, Retainable

\* So does postponing effects.
LEMMA PostponeRetains ==
  ASSUME TypeOK, RetainInv, NEW i \in DOMAIN windows, PostponeEffects(i), UNCHANGED live
  PROVE  RetainInv'
<1>. PICK r : r = [windows[i] EXCEPT !.effectsRetry = "later"]
  OBVIOUS
<1>1. windows[i] \in Window
  BY DEF TypeOK, WindowsOK
<1>2. /\ r.saved = windows[i].saved /\ r.invalidated = windows[i].invalidated
      /\ r.manifest = windows[i].manifest /\ r.state = windows[i].state
      /\ r.owed = windows[i].owed
  BY <1>1 DEF Window
<1>3. windows' = [windows EXCEPT ![i] = r]
  BY DEF PostponeEffects
<1>4. r.saved => Retainable(r)
  BY <1>2 DEF RetainInv, Retainable
<1>. QED
  BY <1>3, <1>4, RowRetains

\* A delivery releases the outcome with the acknowledgement.
LEMMA DeliverRetains ==
  ASSUME TypeOK, RetainInv, NEW w \in Workers, Deliver(w)
  PROVE  RetainInv'
<1>. PICK i : i = turn[w].window
  OBVIOUS
<1>1. i \in DOMAIN windows /\ windows[i] \in Window
  BY TurnRow DEF Deliver, Bill, LoadEffectInputs, ClaimExtractionDerived, EmitDerived,
         AckExtractionEffects, RetryEffects, Row
<1>2. UNCHANGED live
  BY DEF Deliver, Bill, LoadEffectInputs, ClaimExtractionDerived, EmitDerived,
         AckExtractionEffects, RetryEffects, log
<1>3. CASE Bill(w) \/ LoadEffectInputs(w) \/ EmitDerived(w)
  BY <1>2, <1>3, NoRowRetains DEF Bill, LoadEffectInputs, EmitDerived
<1>4. CASE ClaimExtractionDerived(w)
  <2>. PICK r : r = [windows[i] EXCEPT !.derived = TRUE]
    OBVIOUS
  <2>1. /\ r.saved = windows[i].saved /\ r.invalidated = windows[i].invalidated
        /\ r.manifest = windows[i].manifest /\ r.state = windows[i].state
        /\ r.owed = windows[i].owed
    BY <1>1 DEF Window
  <2>2. windows' = [windows EXCEPT ![i] = r]
    BY <1>4 DEF ClaimExtractionDerived
  <2>3. r.saved => Retainable(r)
    BY <1>1, <2>1 DEF RetainInv, Retainable
  <2>. QED
    BY <1>1, <1>2, <2>2, <2>3, RowRetains
<1>5. CASE AckExtractionEffects(w)
  <2>. PICK r : r = [windows[i] EXCEPT !.owed = FALSE, !.saved = FALSE, !.manifest = {}]
    OBVIOUS
  <2>1. ~r.saved
    BY <1>1 DEF Window
  <2>2. windows' = [windows EXCEPT ![i] = r]
    BY <1>5 DEF AckExtractionEffects
  <2>. QED
    BY <1>1, <1>2, <2>1, <2>2, RowRetains
<1>6. CASE RetryEffects(w)
  BY <1>1, <1>2, <1>6, PostponeRetains DEF RetryEffects
<1>. QED
  BY <1>3, <1>4, <1>5, <1>6 DEF Deliver

\* A failure retains nothing new.
LEMMA FailRetains ==
  ASSUME OwnInv, RetainInv, NEW w \in Workers, Fail(w)
  PROVE  RetainInv'
<1>. USE DEF OwnInv
<1>. PICK i : i = turn[w].window
  OBVIOUS
<1>1. UNCHANGED live
  BY DEF Fail, RetryExtraction, WaitForProvider, FailInputBudget, DiscardComputation,
         SuspendExtraction, YieldTurn, DeferSetup, FailStale, LoseLease, Crash, Charge, log
<1>2. CASE FailStale(w)
  BY <1>1, <1>2, TurnRow, PostponeRetains DEF FailStale
<1>3. CASE DiscardComputation(w)
  <2>1. i \in DOMAIN windows /\ windows[i] \in Window
    BY <1>3, TurnRow DEF DiscardComputation, Row
  <2>. PICK r : r = [windows[i] EXCEPT !.saved = FALSE]
    OBVIOUS
  <2>2. ~r.saved
    BY <2>1 DEF Window
  <2>3. windows' = [windows EXCEPT ![i] = r]
    BY <1>3 DEF DiscardComputation
  <2>. QED
    BY <1>1, <2>1, <2>2, <2>3, RowRetains
<1>4. CASE ~FailStale(w) /\ ~DiscardComputation(w)
  <2>1. UNCHANGED windows
    BY <1>4 DEF Fail, RetryExtraction, WaitForProvider, FailInputBudget,
       SuspendExtraction, YieldTurn, DeferSetup, LoseLease, Crash
  <2>. QED
    BY <1>1, <2>1, NoRowRetains
<1>. QED
  BY <1>2, <1>3, <1>4

\* An outcome is saved and published only for a window that no erasure has
\* struck, and a window is given up only after one has.
LEMMA ExecuteRetains ==
  ASSUME CoverInv, HoldInv, RetainInv, NEW w \in Workers, Execute(w)
  PROVE  RetainInv'
<1>. USE DEF CoverInv, OwnInv
<1>. PICK i : i = turn[w].window
  OBVIOUS
<1>1. UNCHANGED live
  BY DEF Execute, ClaimExtraction, PendingExtractionEffects, PrepareWindow,
     PrepareNothing, BeginExtractionAttempt, BeginOverflowWindow, ComputeReturns,
     SaveExtractionOutcome, AdoptSavedOutcome, PublishWindow, FinishCommitted,
     DiscoverErasure, InvalidateExtraction, ReleaseTurn, log
<1>2. CASE PrepareWindow(w)
  <2>1. PICK k \in Kinds : ResumeWindow(w, k) \/ CutWindow(w, k)
    BY <1>2 DEF PrepareWindow
  <2>2. CASE ResumeWindow(w, k)
    BY <1>1, <2>2, NoRowRetains DEF ResumeWindow
  <2>3. CASE CutWindow(w, k)
    <3>1. \A j \in DOMAIN windows' :
            (j \in DOMAIN windows /\ windows'[j] = windows[j]) \/ ~windows'[j].saved
      BY <2>3 DEF CutWindow
    <3>. QED
      BY <1>1, <3>1 DEF RetainInv, Retainable
  <2>. QED
    BY <2>1, <2>2, <2>3
<1>3. CASE SaveExtractionOutcome(w)
  <2>1. /\ i \in DOMAIN windows /\ windows[i] \in Window
        /\ windows[i].state = "open" /\ ~windows[i].invalidated
    BY <1>3, TurnRow DEF SaveExtractionOutcome, Row, HolderOwnsWindow
  <2>2. windows[i].manifest \subseteq live
    BY <2>1 DEF HoldInv
  <2>. PICK r : r = [windows[i] EXCEPT !.saved = TRUE]
    OBVIOUS
  <2>3. Retainable(r)
    BY <2>1, <2>2 DEF Window, Retainable
  <2>4. windows' = [windows EXCEPT ![i] = r]
    BY <1>3 DEF SaveExtractionOutcome
  <2>. QED
    BY <1>1, <2>1, <2>3, <2>4, RowRetains
<1>4. CASE PublishWindow(w)
  <2>1. i \in DOMAIN windows /\ windows[i] \in Window
    BY <1>4, TurnRow DEF PublishWindow, Row
  <2>. PICK r : r = [windows[i] EXCEPT !.state = "completed", !.owed = TRUE]
    OBVIOUS
  <2>2. /\ r.saved = windows[i].saved /\ r.invalidated = windows[i].invalidated
        /\ r.manifest = windows[i].manifest /\ r.state = "completed" /\ r.owed
    BY <2>1 DEF Window
  <2>3. windows' = [windows EXCEPT ![i] = r]
    BY <1>4 DEF PublishWindow
  <2>4. r.saved => Retainable(r)
    BY <2>1, <2>2 DEF RetainInv, Retainable
  <2>. QED
    BY <1>1, <2>1, <2>3, <2>4, RowRetains
<1>5. CASE InvalidateExtraction(w)
  <2>1. i \in DOMAIN windows /\ windows[i] \in Window /\ windows[i].invalidated
    BY <1>5, TurnRow DEF InvalidateExtraction, Row, HoldInv, Invalid
  <2>. PICK r : r = [windows[i] EXCEPT !.state = IF @ = "open" THEN "erased" ELSE @]
    OBVIOUS
  <2>2. ~r.saved
    BY <2>1 DEF Window, RetainInv, Retainable
  <2>3. windows' = [windows EXCEPT ![i] = r]
    BY <1>5 DEF InvalidateExtraction
  <2>. QED
    BY <1>1, <2>1, <2>2, <2>3, RowRetains
<1>6. CASE ~PrepareWindow(w) /\ ~SaveExtractionOutcome(w)
             /\ ~PublishWindow(w) /\ ~InvalidateExtraction(w)
  <2>1. UNCHANGED windows
    BY <1>6 DEF Execute, ClaimExtraction, PendingExtractionEffects, PrepareNothing,
       BeginExtractionAttempt, BeginOverflowWindow, ComputeReturns, AdoptSavedOutcome,
       FinishCommitted, DiscoverErasure, ReleaseTurn
  <2>. QED
    BY <1>1, <2>1, NoRowRetains
<1>. QED
  BY <1>2, <1>3, <1>4, <1>5, <1>6

\* An erasure drops every outcome that used the input.
LEMMA ErasureRetains ==
  ASSUME TypeOK, RetainInv, NEW s \in live, EraseInput(s)
  PROVE  RetainInv'
<1>1. live' = live \ {s} /\ DOMAIN windows' = DOMAIN windows
  BY DEF EraseInput
<1>2. ASSUME NEW i \in DOMAIN windows, windows'[i].saved
      PROVE  Retainable(windows[i]) /\ windows'[i] = windows[i] /\ s \notin windows[i].manifest
  <2>1. windows[i] \in Window
    BY DEF TypeOK, WindowsOK
  <2>2. ~(s \in windows[i].manifest
          /\ (windows[i].state = "open" \/ (windows[i].state = "completed" /\ windows[i].owed)))
    <3>. SUFFICES ASSUME s \in windows[i].manifest,
                         windows[i].state = "open" \/ (windows[i].state = "completed" /\ windows[i].owed)
                  PROVE  FALSE
      OBVIOUS
    <3>1. windows'[i] = [windows[i] EXCEPT !.invalidated = TRUE, !.saved = FALSE]
      BY DEF EraseInput
    <3>. QED
      BY <1>2, <2>1, <3>1 DEF Window
  <2>3. windows'[i] = windows[i]
    BY <2>2 DEF EraseInput
  <2>. QED
    BY <1>2, <2>2, <2>3 DEF RetainInv, Retainable
<1>. QED
  BY <1>1, <1>2 DEF RetainInv, Retainable

\* Nobody else retains an outcome: a retirement drops it.
LEMMA OthersRetain ==
  ASSUME OwnInv, RetainInv, Operate \/ Arrive \/ Pass
  PROVE  RetainInv'
<1>. USE DEF OwnInv
<1>1. ASSUME NEW k \in Kinds, RetireWindow(k) PROVE RetainInv'
  <2>. PICK i : i = cursor[k].window
    OBVIOUS
  <2>1. i \in DOMAIN windows /\ windows[i] \in Window
    BY <1>1 DEF RetireWindow, Held, TypeOK, CursorsOK, WindowsOK
  <2>. PICK r : r = [windows[i] EXCEPT !.state = "completed", !.derived = TRUE,
                                       !.saved = FALSE, !.manifest = {}]
    OBVIOUS
  <2>2. ~r.saved
    BY <2>1 DEF Window
  <2>3. windows' = [windows EXCEPT ![i] = r] /\ UNCHANGED live
    BY <1>1 DEF RetireWindow, log
  <2>. QED
    BY <2>1, <2>2, <2>3, RowRetains
<1>2. CASE Operate /\ ~\E k \in Kinds : RetireWindow(k)
  BY <1>2, NoRowRetains DEF Operate, ClaimUserExtraction, ReleaseUserExtraction,
     OperatorCrash, RearmHeld, log
<1>3. CASE Arrive
  <2>1. ASSUME NEW a \in Admissions, AdmitExtraction(a) PROVE RetainInv'
    BY <2>1, NoRowRetains DEF AdmitExtraction
  <2>2. ASSUME NEW s \in Sessions, FinalizeSession(s) PROVE RetainInv'
    BY <2>2, NoRowRetains DEF FinalizeSession
  <2>. QED
    BY <1>3, <2>1, <2>2, ErasureRetains DEF Arrive
<1>4. CASE Pass
  <2>1. ASSUME NEW i \in DOMAIN windows, EffectsDue(i) PROVE RetainInv'
    <3>. PICK r : r = [windows[i] EXCEPT !.effectsRetry = "due"]
      OBVIOUS
    <3>1. windows[i] \in Window
      BY DEF TypeOK, WindowsOK
    <3>2. /\ r.saved = windows[i].saved /\ r.invalidated = windows[i].invalidated
          /\ r.manifest = windows[i].manifest /\ r.state = windows[i].state
          /\ r.owed = windows[i].owed
      BY <3>1 DEF Window
    <3>3. windows' = [windows EXCEPT ![i] = r] /\ UNCHANGED live
      BY <2>1 DEF EffectsDue, log
    <3>4. r.saved => Retainable(r)
      BY <3>2 DEF RetainInv, Retainable
    <3>. QED
      BY <3>3, <3>4, RowRetains
  <2>2. CASE ~\E i \in DOMAIN windows : EffectsDue(i)
    BY <1>4, <2>2, NoRowRetains DEF Pass, LeaseLapses, WorkDue, BacklogAges, RetryDue,
       DeadlinePasses, log
  <2>. QED
    BY <2>1, <2>2
<1>. QED
  BY <1>1, <1>2, <1>3, <1>4

\* Every step retains only what may be retained.
LEMMA RetainStep ==
  ASSUME CoverInv, HoldInv, RetainInv, [Next]_vars
  PROVE  RetainInv'
<1>1. OwnInv /\ TypeOK
  BY DEF CoverInv, OwnInv
<1>2. ASSUME UNCHANGED vars PROVE RetainInv'
  BY <1>2, NoRowRetains DEF vars
<1>. QED
  BY <1>1, <1>2, ExecuteRetains, DeliverRetains, FailRetains, OthersRetain DEF Next

\* An erasure leaves no outcome behind that was computed from what it erased,
\* wherever the turn, the retry or the delivery of that outcome stands:
\* invalidate_extraction_input drops what is stored, save_extraction_outcome
\* refuses what comes later, and every window that retains one is still watched.
THEOREM ErasureLeavesNoOutcome == Spec => []RetainedOutcomesSurvive
<1>1. Init => RetainInv
  BY DEF Init, RetainInv
<1>2. CoverInv /\ HoldInv /\ RetainInv /\ [Next]_vars => RetainInv'
  BY RetainStep
<1>3. RetainInv => RetainedOutcomesSurvive
  BY DEF RetainInv, Retainable, RetainedOutcomesSurvive
<1>. QED
  BY <1>1, <1>2, <1>3, HoldsKept, PTL DEF Spec

-----------------------------------------------------------------------------
(* The backlog clock.                                                      *)

\* What a worker leaves of the clock: it restarts only on a publication that no
\* waiting sibling forbids, and is parked only when nobody waits.
LEMMA WorkerKeepsAging ==
  ASSUME TypeOK, NEW w \in Workers, Execute(w) \/ Deliver(w) \/ Fail(w), clock = "aged",
         NEW j \in Kinds, Ailing(j), Ailing(j)'
  PROVE  clock' = "aged"
<1>1. CASE PrepareNothing(w)
  <2>1. ~Runnable(j) /\ cursor[j].window # NoWindow /\ cursor[j].retry # "never"
    BY <1>1 DEF PrepareNothing, Ailing
  <2>2. cursor[j].retry = "later"
    BY <2>1 DEF Runnable, TypeOK, CursorsOK, Cursor
  <2>3. Retrying /\ \E k \in Kinds : cursor[k].retry # "due"
    BY <2>2 DEF Retrying
  <2>4. NextDue # "never"
    BY <2>3 DEF NextDue
  <2>. QED
    BY <1>1, <2>3, <2>4 DEF PrepareNothing
<1>2. CASE PublishWindow(w)
  <2>. PICK k, c : k = Kind(w) /\ c = PassedBy(Row(w).end)
    OBVIOUS
  <2>1. cursor' = [cursor EXCEPT ![k] = c] /\ RestartClock(k, Waiting) /\ k \in Kinds
    BY <1>2, TurnRow DEF PublishWindow
  <2>2. cursor'[k].window = NoWindow
    BY <2>1 DEF PassedBy, TypeOK, CursorsOK
  <2>3. j # k /\ j \in Waiting
    BY <2>2 DEF Ailing
  <2>. QED
    BY <2>1, <2>3 DEF RestartClock
<1>3. CASE Execute(w) /\ ~PrepareNothing(w) /\ ~PublishWindow(w)
  BY <1>3 DEF Execute, ClaimExtraction, PendingExtractionEffects, PrepareWindow,
     BeginExtractionAttempt, BeginOverflowWindow, ComputeReturns, SaveExtractionOutcome,
     AdoptSavedOutcome, FinishCommitted, DiscoverErasure, InvalidateExtraction, ReleaseTurn, workRow
<1>4. CASE Deliver(w)
  BY <1>4 DEF Deliver, Bill, LoadEffectInputs, ClaimExtractionDerived, EmitDerived,
     AckExtractionEffects, RetryEffects, workRow
<1>5. CASE Fail(w)
  <2>1. CASE ChargedFail(w)
    <3>1. \E n, retry, error : Charge(w, n, retry, error)
      BY <2>1, Zenon DEF ChargedFail, RetryExtraction, WaitForProvider, FailInputBudget,
         DiscardComputation, SuspendExtraction
    <3>. QED
      BY <3>1 DEF Charge
  <2>2. CASE QuietFail(w)
    BY <2>2 DEF QuietFail, YieldTurn, DeferSetup, FailStale, LoseLease, Crash, workRow
  <2>. QED
    BY <1>5, <2>1, <2>2 DEF Fail, ChargedFail, QuietFail
<1>. QED
  BY <1>1, <1>2, <1>3, <1>4, <1>5

\* As long as no operator retires windows, a backlog clock that has aged is not
\* turned back while some cursor keeps waiting on its failures, whatever its
\* sibling publishes and however often the user's row is parked.  A retirement
\* asks for failed siblings only and not for those that wait for a provider.
THEOREM FailuresKeepAging == "retire" \notin Commands => (Spec => FailureKeepsAging)
<1>. SUFFICES ASSUME "retire" \notin Commands PROVE Spec => FailureKeepsAging
  OBVIOUS
<1>1. TypeOK /\ [Next]_vars =>
        [clock = "aged" /\ (\E k \in Kinds : Ailing(k) /\ Ailing(k)') => clock' = "aged"]_vars
  <2>. SUFFICES ASSUME TypeOK, [Next]_vars, clock = "aged",
                       NEW k \in Kinds, Ailing(k), Ailing(k)'
                PROVE  clock' = "aged"
    OBVIOUS
  <2>1. ASSUME NEW w \in Workers, Execute(w) \/ Deliver(w) \/ Fail(w) PROVE clock' = "aged"
    BY <2>1, WorkerKeepsAging
  <2>2. CASE Operate
    BY <2>2 DEF Operate, ClaimUserExtraction, ReleaseUserExtraction, OperatorCrash,
       RearmHeld, RetireWindow, workRow
  <2>3. CASE Arrive
    BY <2>3 DEF Arrive, AdmitExtraction, FinalizeSession, EraseInput
  <2>4. CASE Pass
    BY <2>4 DEF Pass, LeaseLapses, WorkDue, BacklogAges, RetryDue, EffectsDue, DeadlinePasses,
       workRow
  <2>5. CASE UNCHANGED vars
    BY <2>5 DEF vars
  <2>. QED
    BY <2>1, <2>2, <2>3, <2>4, <2>5 DEF Next
<1>. QED
  BY <1>1, TypeCorrect, PTL DEF Spec, FailureKeepsAging
=============================================================================
