------------------------- MODULE ResumableRun_proofs -------------------------
(***************************************************************************)
(* Resumed extraction runs: every computation and preparation is paid for, *)
(* no output is overwritten, an answer is consumed only by an output made  *)
(* from it, and no run is parked on an answer.                             *)
(***************************************************************************)
EXTENDS ResumableRun, TLAPS

USE RunAssumption

-----------------------------------------------------------------------------
(* Attempts and outputs.                                                   *)

\* A run may only be resumed, or wait to be, with its last output published, or
\* left by a delivery.
Resumable == Parked \cup {"resume_ready", "resuming"}

\* Each computation is an attempt, and each preparation begun is an attempt or
\* the one that is noted; a run that has had its last attempt has failed.
RunInv(R, P, computations, preparations) ==
  /\ computations = R.attempts /\ R.attempts <= MaxResume
  /\ preparations <= R.fin + (IF P.entry = "none" THEN 0 ELSE 1)
  /\ R.fin <= MaxFinalize
  /\ R.status # "failed" \/ P.entry # "none" => R.fin < MaxFinalize
  /\ R.status \in Resumable => R.published # "no"

\* What a turn that still has the lease knows of its run, whatever callbacks
\* have made of the run's status.
HandInv(x, R, P) ==
  /\ x.phase = "loaded" => R.attempts < MaxResume
  /\ x.phase = "computing" => R.attempts > 0
  /\ x.phase = "failed" => R.published # "no" /\ R.fin < MaxFinalize
  /\ x.phase = "checked" => P.entry = "none"
  /\ x.phase = "preparing" => P.entry = "mine"

\* The lease is w's, and has not lapsed.
Live(w) == lease = [holder |-> w, live |-> TRUE]

\* The inductive invariant of the counters and of the committed output.
AttemptInv ==
  /\ TypeOK
  /\ lease.live => lease.holder \in Workers
  /\ \A r \in Runs : RunInv(run[r], prep[r], spent[r], wasted[r])
  /\ \A w \in Workers : Live(w) => HandInv(turn[w], run[turn[w].run], prep[turn[w].run])

\* A worker without a run has the shape of a turn and nothing captured.
LEMMA Idle == IdleTurn \in Turn /\ IdleTurn.phase = "idle" /\ IdleTurn.deps = {}
<1>1. (CHOOSE r \in Runs : TRUE) \in Runs
  OBVIOUS
<1>2. NoVersions \in Versions
  BY DEF NoVersions, Versions
<1>. QED
  BY <1>1, <1>2 DEF IdleTurn, Turn, Phases

\* A worker without a run has nothing in hand that a row must match.
LEMMA IdleHand == \A R, P : HandInv(IdleTurn, R, P)
BY Idle DEF HandInv

\* The rows a turn works on.
LEMMA InHand ==
  ASSUME AttemptInv, NEW w \in Workers
  PROVE  /\ turn[w] \in Turn /\ turn[w].run \in Runs
         /\ \A r \in Runs : /\ run[r] \in Run /\ prep[r] \in Prep
                           /\ spent[r] \in Int /\ wasted[r] \in Int
                           /\ RunInv(run[r], prep[r], spent[r], wasted[r])
         /\ Live(w) => HandInv(turn[w], run[turn[w].run], prep[turn[w].run])
BY DEF AttemptInv, TypeOK, Turn

\* The status a turn at some phases finds its run in.
LEMMA Found ==
  ASSUME NEW w \in Workers, NEW S, At(w, S)
  PROVE  /\ Live(w) /\ turn[w].phase \in S
         /\ S \subseteq Resuming => run[turn[w].run].status = "resuming"
         /\ S = {"failed"} => run[turn[w].run].status = "failed"
         /\ S = {"completed"} => run[turn[w].run].status = "agent_completed"
         /\ S \subseteq Finalizing => run[turn[w].run].status = "finalizing"
BY DEF At, Owns, Expected, Live, Resuming, Finalizing

\* A step of the one turn that has the lease, or that takes it, on run r.
LEMMA Acted ==
  ASSUME AttemptInv, NEW w \in Workers, NEW r \in Runs, NEW R \in Run, NEW P \in Prep,
         NEW x \in Turn, NEW computations \in Int, NEW preparations \in Int,
         run' = [run EXCEPT ![r] = R], prep' = [prep EXCEPT ![r] = P],
         turn' = [turn EXCEPT ![w] = x], spent' = [spent EXCEPT ![r] = computations],
         wasted' = [wasted EXCEPT ![r] = preparations],
         call' \in [Calls -> Call], dep' \in [Runs -> [Calls -> Dep]],
         used' \subseteq Runs \X Calls \X (1..MaxVersion),
         lease' \in [holder: Workers \cup {NoOne}, live: BOOLEAN],
         lease'.live => lease'.holder = w,
         RunInv(R, P, computations, preparations),
         lease'.live => x.run = r /\ HandInv(x, R, P)
  PROVE  AttemptInv'
<1>1. /\ run'[r] = R /\ prep'[r] = P /\ spent'[r] = computations /\ wasted'[r] = preparations
      /\ turn'[w] = x
  BY DEF AttemptInv, TypeOK
<1>2. ASSUME NEW q \in Runs \ {r}
      PROVE  /\ run'[q] = run[q] /\ prep'[q] = prep[q]
             /\ spent'[q] = spent[q] /\ wasted'[q] = wasted[q]
  BY DEF AttemptInv, TypeOK
<1>3. TypeOK'
  BY DEF AttemptInv, TypeOK
<1>4. \A q \in Runs : RunInv(run'[q], prep'[q], spent'[q], wasted'[q])
  BY <1>1, <1>2 DEF AttemptInv
<1>5. ASSUME NEW v \in Workers, Live(v)'
      PROVE  HandInv(turn'[v], run'[turn'[v].run], prep'[turn'[v].run])
  BY <1>1, <1>5 DEF Live
<1>. QED
  BY <1>3, <1>4, <1>5 DEF AttemptInv

\* A turn without the lease ends, or one that has it gives it up.
LEMMA Dropped ==
  ASSUME AttemptInv, NEW w \in Workers, turn' = [turn EXCEPT ![w] = IdleTurn],
         lease' \in {lease, NoLease}, UNCHANGED <<call, dep, run, prep, history>>
  PROVE  AttemptInv'
<1>1. TypeOK'
  <2>1. turn' \in [Workers -> Turn]
    BY Idle DEF AttemptInv, TypeOK
  <2>2. lease' \in [holder: Workers \cup {NoOne}, live: BOOLEAN]
    <3>1. NoLease \in [holder: Workers \cup {NoOne}, live: BOOLEAN]
      BY DEF NoLease
    <3>. QED
      BY <3>1 DEF AttemptInv, TypeOK
  <2>. QED
    BY <2>1, <2>2 DEF AttemptInv, TypeOK, history
<1>2. ASSUME NEW v \in Workers, Live(v)'
      PROVE  HandInv(turn'[v], run'[turn'[v].run], prep'[turn'[v].run])
  <2>1. Live(v) \/ lease' = NoLease
    BY <1>2 DEF Live
  <2>2. turn'[v] = turn[v] \/ turn'[v] = IdleTurn
    BY DEF AttemptInv, TypeOK
  <2>. QED
    BY <1>2, <2>1, <2>2, IdleHand DEF AttemptInv, Live, NoLease
<1>3. lease'.live => lease'.holder \in Workers
  BY DEF AttemptInv, NoLease
<1>. QED
  BY <1>1, <1>2, <1>3 DEF AttemptInv, history

\* A status is written and the turn goes on or ends.
LEMMA Written ==
  ASSUME AttemptInv, NEW w \in Workers, Live(w), NEW s \in Statuses, NEW p \in Phases,
         Outcome(w, s) \/ (run' = run /\ s = run[turn[w].run].status),
         EndTurn(w) \/ (Advance(w, p) /\ HandInv([turn[w] EXCEPT !.phase = p],
                            run[turn[w].run], prep[turn[w].run])),
         UNCHANGED <<call, dep, prep, history>>,
         s # "failed" => run[turn[w].run].fin < MaxFinalize,
         s \in Resumable => run[turn[w].run].published # "no"
  PROVE  AttemptInv'
<1>. DEFINE r == turn[w].run
            R == [run[r] EXCEPT !.status = s]
            x == IF EndTurn(w) THEN IdleTurn ELSE [turn[w] EXCEPT !.phase = p]
<1>1. r \in Runs /\ run[r] \in Run /\ turn[w] \in Turn /\ prep[r] \in Prep
      /\ spent[r] \in Int /\ wasted[r] \in Int
  BY InHand
<1>2. /\ R \in Run /\ R.status = s /\ R.fin = run[r].fin /\ R.attempts = run[r].attempts
      /\ R.published = run[r].published /\ run' = [run EXCEPT ![r] = R]
  <2>1. /\ R \in Run /\ R.status = s /\ R.fin = run[r].fin
        /\ R.attempts = run[r].attempts /\ R.published = run[r].published
    BY <1>1 DEF Run
  <2>2. s = run[r].status => R = run[r]
    BY <1>1 DEF Run
  <2>3. run' = run /\ R = run[r] => run' = [run EXCEPT ![r] = R]
    BY <1>1 DEF AttemptInv, TypeOK
  <2>. QED
    BY <2>1, <2>2, <2>3 DEF Outcome
<1>3. RunInv(R, prep[r], spent[r], wasted[r])
  BY <1>2, InHand DEF RunInv
<1>4. /\ prep' = [prep EXCEPT ![r] = prep[r]] /\ spent' = [spent EXCEPT ![r] = spent[r]]
      /\ wasted' = [wasted EXCEPT ![r] = wasted[r]]
  BY DEF history, AttemptInv, TypeOK
<1>5. /\ call' \in [Calls -> Call] /\ dep' \in [Runs -> [Calls -> Dep]]
      /\ used' \subseteq Runs \X Calls \X (1..MaxVersion)
  BY DEF history, AttemptInv, TypeOK
<1>6. CASE EndTurn(w)
  <2>1. turn' = [turn EXCEPT ![w] = IdleTurn] /\ lease' = NoLease
    BY <1>6 DEF EndTurn, Live
  <2>2. lease' \in [holder: Workers \cup {NoOne}, live: BOOLEAN] /\ ~lease'.live
    BY <2>1 DEF NoLease
  <2>. HIDE DEF R, r
  <2>. QED
    BY <1>1, <1>2, <1>3, <1>4, <1>5, <2>1, <2>2, Acted, Idle, ZenonT(40)
<1>7. CASE Advance(w, p) /\ HandInv([turn[w] EXCEPT !.phase = p], run[r], prep[r])
  <2>. DEFINE y == [turn[w] EXCEPT !.phase = p]
  <2>1. turn' = [turn EXCEPT ![w] = y] /\ y \in Turn /\ y.run = r /\ y.phase = p
    BY <1>1, <1>7 DEF Advance, Turn
  <2>2. /\ lease' \in [holder: Workers \cup {NoOne}, live: BOOLEAN]
        /\ lease'.live => lease'.holder = w
    BY <1>7 DEF Advance, Live
  <2>3. HandInv(y, R, prep[r])
    BY <1>2, <1>7, <2>1 DEF HandInv
  <2>. HIDE DEF R, r, y
  <2>. QED
    BY <1>1, <1>2, <1>3, <1>4, <1>5, <2>1, <2>2, <2>3, Acted
<1>. QED
  BY <1>6, <1>7

\* Selection: the run is adopted under a fresh lease.
LEMMA SelectKeeps ==
  ASSUME AttemptInv, NEW w \in Workers, NEW r \in Runs, Select(w, r)
  PROVE  AttemptInv'
<1>1. PICK s \in {"resuming", "finalizing"}, p \in {"adopted", "selected"} :
        /\ Adopt(w, r, s, p) /\ run[r].status # "failed"
        /\ s = "resuming" => run[r].status \in Resumable
  BY DEF Select, SelectContinuation, SelectFinalization, Resumable
<1>. DEFINE R == [run[r] EXCEPT !.status = s, !.claimant = w]
            P == [prep[r] EXCEPT !.entry = IF @ = "mine" THEN "orphaned" ELSE @]
            x == [IdleTurn EXCEPT !.phase = p, !.run = r]
<1>2. /\ run[r] \in Run /\ prep[r] \in Prep /\ spent[r] \in Int /\ wasted[r] \in Int
      /\ RunInv(run[r], prep[r], spent[r], wasted[r])
  BY InHand
<1>3. /\ R \in Run /\ R.status = s /\ R.fin = run[r].fin /\ R.attempts = run[r].attempts
      /\ R.published = run[r].published
  BY <1>2 DEF Run, Statuses
<1>4. P \in Prep /\ (P.entry = "none" <=> prep[r].entry = "none")
  BY <1>2 DEF Prep
<1>5. x \in Turn /\ x.run = r /\ x.phase = p
  BY Idle DEF Turn, Phases, Resuming, Finalizing
<1>6. RunInv(R, P, spent[r], wasted[r]) /\ HandInv(x, R, P)
  BY <1>1, <1>2, <1>3, <1>4, <1>5 DEF RunInv, HandInv, Resumable, Parked
<1>7. /\ run' = [run EXCEPT ![r] = R] /\ prep' = [prep EXCEPT ![r] = P]
      /\ turn' = [turn EXCEPT ![w] = x] /\ lease' = [holder |-> w, live |-> TRUE]
      /\ spent' = [spent EXCEPT ![r] = spent[r]] /\ wasted' = [wasted EXCEPT ![r] = wasted[r]]
  BY <1>1 DEF Adopt, history, AttemptInv, TypeOK
<1>8. /\ call' \in [Calls -> Call] /\ dep' \in [Runs -> [Calls -> Dep]]
      /\ used' \subseteq Runs \X Calls \X (1..MaxVersion)
  BY <1>1 DEF Adopt, history, AttemptInv, TypeOK
<1>. HIDE DEF R, P, x
<1>. QED
  BY <1>2, <1>3, <1>4, <1>5, <1>6, <1>7, <1>8, Acted

\* An ordinary failure before the output is committed.
LEMMA RetryKeeps ==
  ASSUME AttemptInv, NEW w \in Workers, Live(w), Retry(w),
         run[turn[w].run].fin < MaxFinalize, run[turn[w].run].published # "no"
  PROVE  AttemptInv'
<1>. DEFINE s == IF run[turn[w].run].attempts >= MaxResume THEN "failed" ELSE "resume_ready"
<1>1. s \in Statuses /\ Outcome(w, s) /\ EndTurn(w) /\ UNCHANGED <<call, dep, prep, history>>
  BY DEF Retry, Statuses
<1>2. "idle" \in Phases
  BY DEF Phases
<1>. HIDE DEF s
<1>. QED
  BY <1>1, <1>2, Written

\* begin_extraction_resume, admitted or refused, keeps the charges.
LEMMA PrepareKeeps ==
  ASSUME AttemptInv, NEW w \in Workers, Prepare(w)
  PROVE  AttemptInv'
<1>. DEFINE r == turn[w].run
<1>1. /\ r \in Runs /\ run[r] \in Run /\ turn[w] \in Turn /\ prep[r] \in Prep
      /\ spent[r] \in Int /\ wasted[r] \in Int /\ RunInv(run[r], prep[r], spent[r], wasted[r])
      /\ Live(w) => HandInv(turn[w], run[r], prep[r])
  BY InHand
<1>2. {"cancelled", "failed", "resume_ready"} \subseteq Statuses /\ {"idle", "loaded"} \subseteq Phases
  BY DEF Statuses, Phases, Resuming
<1>3. ASSUME NEW S, S \in {{"adopted"}, {"loaded"}}, At(w, S)
      PROVE  Live(w) /\ run[r].fin < MaxFinalize /\ run[r].published # "no"
  <2>1. Live(w) /\ run[r].status = "resuming"
    BY <1>3, Found DEF Resuming
  <2>. QED
    BY <1>1, <2>1 DEF RunInv, Resumable
<1>4. CASE CancelErased(w)
  <2>1. Live(w) /\ run[r].status \in {"resuming", "finalizing"}
    BY <1>4 DEF CancelErased, At, Owns, Expected, Live, Resuming
  <2>2. run[r].fin < MaxFinalize /\ "cancelled" \notin Resumable
    BY <1>1, <2>1 DEF RunInv, Resumable, Parked
  <2>. QED
    BY <1>2, <1>4, <2>1, <2>2, Written DEF CancelErased
<1>5. CASE RefuseSpent(w)
  <2>1. Live(w) /\ "failed" \notin Resumable
    BY <1>3, <1>5 DEF RefuseSpent, Resumable, Parked
  <2>. QED
    BY <1>2, <1>5, <2>1, Written DEF RefuseSpent
<1>6. CASE Load(w)
  <2>. DEFINE x == [turn[w] EXCEPT !.phase = "loaded", !.deps = Loaded(r),
                      !.uses = [c \in Calls |-> IF c \in Loaded(r) THEN call[c].version ELSE 0]]
  <2>1. Live(w) /\ run[r].attempts < MaxResume
    BY <1>3, <1>6 DEF Load
  <2>2. [c \in Calls |-> IF c \in Loaded(r) THEN call[c].version ELSE 0] \in Versions
    BY DEF Versions, AttemptInv, TypeOK, Call
  <2>3. Loaded(r) \subseteq Calls
    BY DEF Loaded
  <2>4. x \in Turn /\ x.run = r /\ x.phase = "loaded"
    BY <1>1, <1>2, <2>2, <2>3 DEF Turn
  <2>5. HandInv(x, run[r], prep[r])
    BY <2>1, <2>4 DEF HandInv
  <2>6. turn' = [turn EXCEPT ![w] = x]
    BY <1>6 DEF Load
  <2>. HIDE DEF x
  <2>7. TypeOK'
    BY <1>6, <2>4, <2>6 DEF Load, AttemptInv, TypeOK, history
  <2>8. ASSUME NEW v \in Workers, Live(v)'
        PROVE  HandInv(turn'[v], run'[turn'[v].run], prep'[turn'[v].run])
    <3>1. v = w
      BY <1>6, <2>1, <2>8 DEF Load, Live
    <3>2. turn'[v] = x
      BY <2>6, <3>1 DEF AttemptInv, TypeOK
    <3>. QED
      BY <1>6, <2>4, <2>5, <3>2 DEF Load
  <2>. QED
    BY <1>6, <2>7, <2>8 DEF Load, AttemptInv, history
<1>7. CASE FindNoAnswer(w)
  BY <1>3, <1>7, RetryKeeps DEF FindNoAnswer
<1>8. CASE RefuseStale(w)
  BY <1>3, <1>8, RetryKeeps DEF RefuseStale
<1>9. CASE Charge(w)
  <2>. DEFINE R == [run[r] EXCEPT !.attempts = @ + 1]
              x == [turn[w] EXCEPT !.phase = "computing"]
  <2>1. Live(w) /\ turn[w].phase = "loaded"
    BY <1>9, Found DEF Charge, Resuming
  <2>2. run[r].attempts < MaxResume /\ run[r].attempts \in Nat
    BY <1>1, <2>1 DEF HandInv, Run
  <2>3. /\ R \in Run /\ R.status = run[r].status /\ R.fin = run[r].fin
        /\ R.attempts = run[r].attempts + 1 /\ R.published = run[r].published
    BY <1>1, <2>2 DEF Run
  <2>4. x \in Turn /\ x.run = r /\ x.phase = "computing"
    BY <1>1 DEF Turn, Phases, Resuming
  <2>5. RunInv(R, prep[r], spent[r] + 1, wasted[r])
    BY <1>1, <2>2, <2>3 DEF RunInv
  <2>6. HandInv(x, R, prep[r])
    BY <2>2, <2>3, <2>4 DEF HandInv
  <2>7. /\ run' = [run EXCEPT ![r] = R] /\ prep' = [prep EXCEPT ![r] = prep[r]]
        /\ turn' = [turn EXCEPT ![w] = x] /\ lease' = lease
        /\ spent' = [spent EXCEPT ![r] = spent[r] + 1]
        /\ wasted' = [wasted EXCEPT ![r] = wasted[r]]
    BY <1>9 DEF Charge, Advance, AttemptInv, TypeOK
  <2>8. /\ call' \in [Calls -> Call] /\ dep' \in [Runs -> [Calls -> Dep]]
        /\ used' \subseteq Runs \X Calls \X (1..MaxVersion)
        /\ lease' \in [holder: Workers \cup {NoOne}, live: BOOLEAN]
    BY <1>9 DEF Charge, Advance, AttemptInv, TypeOK
  <2>9. lease'.live => lease'.holder = w /\ x.run = r /\ HandInv(x, R, prep[r])
    BY <2>1, <2>4, <2>6, <2>7 DEF Live
  <2>10. spent[r] + 1 \in Int
    BY <1>1
  <2>. HIDE DEF R, x, r
  <2>. QED
    BY <1>1, <2>3, <2>4, <2>5, <2>7, <2>8, <2>9, <2>10, Acted
<1>. QED
  BY <1>4, <1>5, <1>6, <1>7, <1>8, <1>9 DEF Prepare

\* A step of the turn that has the lease: it goes on with x, or it ends.
LEMMA Stepped ==
  ASSUME AttemptInv, NEW w \in Workers, Live(w), NEW R \in Run, NEW P \in Prep,
         NEW computations \in Int, NEW preparations \in Int, NEW p \in Phases,
         run' = [run EXCEPT ![turn[w].run] = R], prep' = [prep EXCEPT ![turn[w].run] = P],
         spent' = [spent EXCEPT ![turn[w].run] = computations],
         wasted' = [wasted EXCEPT ![turn[w].run] = preparations],
         EndTurn(w) \/ (Advance(w, p) /\ HandInv([turn[w] EXCEPT !.phase = p], R, P)),
         call' = call, dep' = dep \/ dep' \in [Runs -> [Calls -> Dep]],
         used' = used \/ used' \subseteq Runs \X Calls \X (1..MaxVersion),
         RunInv(R, P, computations, preparations)
  PROVE  AttemptInv'
<1>. DEFINE r == turn[w].run
            y == [turn[w] EXCEPT !.phase = p]
<1>1. r \in Runs /\ turn[w] \in Turn
  BY InHand
<1>2. /\ call' \in [Calls -> Call] /\ dep' \in [Runs -> [Calls -> Dep]]
      /\ used' \subseteq Runs \X Calls \X (1..MaxVersion)
  BY DEF AttemptInv, TypeOK
<1>. HIDE DEF r
<1>5. /\ run' = [run EXCEPT ![r] = R] /\ prep' = [prep EXCEPT ![r] = P]
      /\ spent' = [spent EXCEPT ![r] = computations]
      /\ wasted' = [wasted EXCEPT ![r] = preparations]
  BY DEF r
<1>3. CASE EndTurn(w)
  <2>1. turn' = [turn EXCEPT ![w] = IdleTurn] /\ lease' = NoLease
    BY <1>3 DEF EndTurn, Live
  <2>2. lease' \in [holder: Workers \cup {NoOne}, live: BOOLEAN] /\ ~lease'.live
    BY <2>1 DEF NoLease
  <2>. QED
    BY <1>1, <1>2, <1>5, <2>1, <2>2, Acted, Idle
<1>4. CASE Advance(w, p) /\ HandInv([turn[w] EXCEPT !.phase = p], R, P)
  <2>1. turn' = [turn EXCEPT ![w] = y] /\ y \in Turn /\ y.run = r
    BY <1>1, <1>4 DEF Advance, Turn, r
  <2>2. /\ lease' \in [holder: Workers \cup {NoOne}, live: BOOLEAN]
        /\ lease'.live => lease'.holder = w
    BY <1>4 DEF Advance, Live
  <2>3. HandInv(y, R, P)
    BY <1>4
  <2>. HIDE DEF y
  <2>. QED
    BY <1>1, <1>2, <1>5, <2>1, <2>2, <2>3, Acted
<1>. QED
  BY <1>3, <1>4

\* A deferral, with its refund, keeps the charges.
LEMMA DeferKeeps ==
  ASSUME AttemptInv, NEW w \in Workers, Defer(w)
  PROVE  AttemptInv'
<1>. DEFINE r == turn[w].run
            entered == turn[w].phase = "computing"
            R == [run[r] EXCEPT !.status = "resume_ready",
                                !.attempts = IF entered THEN @ - 1 ELSE @]
            computations == IF entered THEN spent[r] - 1 ELSE spent[r]
<1>1. /\ r \in Runs /\ run[r] \in Run /\ prep[r] \in Prep
      /\ spent[r] \in Int /\ wasted[r] \in Int /\ RunInv(run[r], prep[r], spent[r], wasted[r])
      /\ Live(w) => HandInv(turn[w], run[r], prep[r])
  BY InHand
<1>2. Live(w) /\ run[r].status = "resuming"
  BY Found DEF Defer
<1>3. entered => run[r].attempts > 0
  BY <1>1, <1>2 DEF HandInv
<1>4. /\ R \in Run /\ R.status = "resume_ready" /\ R.fin = run[r].fin
      /\ R.attempts = (IF entered THEN run[r].attempts - 1 ELSE run[r].attempts)
      /\ R.published = run[r].published
  <2>1. (IF entered THEN run[r].attempts - 1 ELSE run[r].attempts) \in Nat
    BY <1>1, <1>3 DEF Run
  <2>. HIDE DEF entered
  <2>. QED
    BY <1>1, <2>1 DEF Run, Statuses
<1>5. computations \in Int /\ RunInv(R, prep[r], computations, wasted[r])
  <2>1. run[r].published # "no" /\ run[r].fin < MaxFinalize
    BY <1>1, <1>2 DEF RunInv, Resumable
  <2>2. run[r].attempts \in Nat /\ spent[r] = run[r].attempts /\ run[r].attempts <= MaxResume
    BY <1>1 DEF RunInv, Run
  <2>3. computations \in Int /\ computations = R.attempts /\ R.attempts <= MaxResume
    BY <1>1, <1>4, <2>2
  <2>. HIDE DEF R, computations
  <2>. QED
    BY <1>1, <1>4, <2>1, <2>3 DEF RunInv
<1>6. /\ run' = [run EXCEPT ![r] = R] /\ prep' = [prep EXCEPT ![r] = prep[r]]
      /\ spent' = [spent EXCEPT ![r] = computations]
      /\ wasted' = [wasted EXCEPT ![r] = wasted[r]] /\ EndTurn(w)
      /\ UNCHANGED <<call, dep, used>>
  BY ZenonT(40) DEF Defer, AttemptInv, TypeOK
<1>7. "idle" \in Phases
  BY DEF Phases
<1>. HIDE DEF R, computations, entered
<1>. QED
  BY <1>1, <1>2, <1>4, <1>5, <1>6, <1>7, Stepped

\* The tools write questions and what the turn has read, nothing of a run.
LEMMA ToolKeeps ==
  ASSUME AttemptInv, NEW w \in Workers, NEW c \in Calls, UseTool(w, c)
  PROVE  AttemptInv'
<1>1. turn[w].run \in Runs /\ turn[w] \in Turn
  BY InHand
<1>2. UNCHANGED <<run, prep, lease, history>>
  BY DEF UseTool, Ask, AttachOpen, ReadAnswer
<1>3. dep' \in [Runs -> [Calls -> Dep]]
  <2>1. [NoDep EXCEPT !.attached = TRUE] \in Dep
    <3>1. Unresolved \in Closed..MaxVersion
      BY DEF Unresolved, Closed
    <3>. QED
      BY <3>1 DEF NoDep, Dep
  <2>2. Attach(dep, turn[w].run, c) \in [Runs -> [Calls -> Dep]]
    BY <1>1, <2>1 DEF Attach, AttemptInv, TypeOK
  <2>. QED
    BY <2>2 DEF UseTool, Ask, AttachOpen, ReadAnswer, AttemptInv, TypeOK
<1>4. call' \in [Calls -> Call]
  <2>1. [call EXCEPT ![c].status = "pending"] \in [Calls -> Call]
    <3>. DEFINE x == [call[c] EXCEPT !.status = "pending"]
    <3>1. x \in Call
      <4>1. call[c] \in Call
        BY DEF AttemptInv, TypeOK
      <4>. QED
        BY <4>1 DEF Call, CallStatuses
    <3>2. [call EXCEPT ![c].status = "pending"] = [call EXCEPT ![c] = x]
      OBVIOUS
    <3>. HIDE DEF x
    <3>. QED
      BY <3>1, <3>2 DEF AttemptInv, TypeOK
  <2>. QED
    BY <2>1 DEF UseTool, Ask, AttachOpen, ReadAnswer, AttemptInv, TypeOK
<1>5. \A v \in Workers : /\ turn'[v] \in Turn /\ turn'[v].run = turn[v].run
                         /\ turn'[v].phase = turn[v].phase
  <2>1. \/ turn' = [turn EXCEPT ![w].asked = @ \cup {c}]
        \/ turn' = [turn EXCEPT ![w].uses[c] = call[c].version]
    BY DEF UseTool, Ask, AttachOpen, ReadAnswer
  <2>2. call[c].version \in 0..MaxVersion
    BY DEF AttemptInv, TypeOK, Call
  <2>. DEFINE uses == [turn[w].uses EXCEPT ![c] = call[c].version]
              x == [turn[w] EXCEPT !.uses = uses]
              y == [turn[w] EXCEPT !.asked = @ \cup {c}]
  <2>3. uses \in Versions /\ turn[w].asked \cup {c} \in SUBSET Calls
    BY <1>1, <2>2 DEF Turn, Versions
  <2>4. turn' = [turn EXCEPT ![w] = y] \/ turn' = [turn EXCEPT ![w] = x]
    BY <2>1
  <2>. HIDE DEF uses
  <2>5. x \in Turn /\ x.run = turn[w].run /\ x.phase = turn[w].phase
    BY <1>1, <2>3 DEF Turn
  <2>6. y \in Turn /\ y.run = turn[w].run /\ y.phase = turn[w].phase
    BY <1>1, <2>3 DEF Turn
  <2>. HIDE DEF x, y
  <2>. QED
    BY <2>4, <2>5, <2>6 DEF AttemptInv, TypeOK, Turn
<1>6. turn' \in [Workers -> Turn]
  <2>1. turn' = [v \in Workers |-> turn'[v]]
    BY DEF UseTool, Ask, AttachOpen, ReadAnswer, AttemptInv, TypeOK
  <2>. QED
    BY <1>5, <2>1
<1>7. TypeOK'
  BY <1>2, <1>3, <1>4, <1>6 DEF AttemptInv, TypeOK, history
<1>8. ASSUME NEW v \in Workers, Live(v)'
      PROVE  HandInv(turn'[v], run'[turn'[v].run], prep'[turn'[v].run])
  BY <1>2, <1>5, <1>8 DEF AttemptInv, Live, HandInv
<1>. QED
  BY <1>2, <1>7, <1>8 DEF AttemptInv, history

\* However a computation ends, the charges are kept.
LEMMA ComputingKeeps ==
  ASSUME AttemptInv, NEW w \in Workers, FinishComputing(w)
  PROVE  AttemptInv'
<1>. DEFINE r == turn[w].run
<1>1. /\ r \in Runs /\ run[r] \in Run /\ turn[w] \in Turn /\ prep[r] \in Prep
      /\ spent[r] \in Int /\ wasted[r] \in Int /\ RunInv(run[r], prep[r], spent[r], wasted[r])
      /\ Live(w) => HandInv(turn[w], run[r], prep[r])
  BY InHand
<1>2. /\ {"failed", "resume_ready", "finalizing", "finalization_failed",
          "agent_completed"} \subseteq Statuses
      /\ {"idle", "failed", "completed", "finalizing"} \subseteq Phases
  BY DEF Statuses, Phases, Finalizing
<1>3. "failed" \notin Resumable /\ "finalizing" \notin Resumable
      /\ "finalization_failed" \notin Resumable /\ "agent_completed" \notin Resumable
  BY DEF Resumable, Parked
<1>4. ASSUME At(w, {"computing"})
      PROVE  Live(w) /\ run[r].fin < MaxFinalize /\ run[r].published # "no"
  <2>1. Live(w) /\ run[r].status = "resuming"
    BY <1>4, Found DEF Resuming
  <2>. QED
    BY <1>1, <2>1 DEF RunInv, Resumable
<1>5. ASSUME At(w, {"failed"})
      PROVE  Live(w) /\ run[r].fin < MaxFinalize /\ run[r].published # "no"
  BY <1>1, <1>5, Found DEF HandInv
<1>6. ASSUME At(w, {"completed"})
      PROVE  Live(w) /\ run[r].fin < MaxFinalize
  BY <1>1, <1>6, Found DEF RunInv
<1>7. CASE Complete(w)
  <2>. DEFINE R == [run[r] EXCEPT !.status = "agent_completed", !.output = @ + 1,
                      !.published = "no", !.uses = turn[w].uses, !.deps = turn[w].deps,
                      !.asked = turn[w].asked]
              P == Outdated(r)
              x == [turn[w] EXCEPT !.phase = "completed"]
  <2>1. /\ R \in Run /\ R.status = "agent_completed" /\ R.fin = run[r].fin
        /\ R.attempts = run[r].attempts
    <3>1. /\ run[r].output + 1 \in Nat /\ turn[w].uses \in Versions
          /\ turn[w].deps \in SUBSET Calls /\ turn[w].asked \in SUBSET Calls
      BY <1>1 DEF Run, Turn
    <3>. QED
      BY <1>1, <1>2, <3>1 DEF Run
  <2>2. P \in Prep /\ P.entry = prep[r].entry
    BY <1>1 DEF Prep, Outdated
  <2>3. RunInv(R, P, spent[r], wasted[r])
    BY <1>1, <1>3, <1>4, <1>7, <2>1, <2>2 DEF RunInv, Complete
  <2>4. HandInv(x, R, P)
    BY <1>1 DEF HandInv, Turn
  <2>5. /\ run' = [run EXCEPT ![r] = R] /\ prep' = [prep EXCEPT ![r] = P]
        /\ spent' = [spent EXCEPT ![r] = spent[r]] /\ wasted' = [wasted EXCEPT ![r] = wasted[r]]
        /\ Advance(w, "completed") /\ UNCHANGED <<call, dep, used>>
    <3>1. run' = [run EXCEPT ![r] = R] /\ prep' = [prep EXCEPT ![r] = P]
      BY <1>7 DEF Complete
    <3>. QED
      BY <1>7, <3>1 DEF Complete, history, AttemptInv, TypeOK
  <2>6. Live(w)
    BY <1>4, <1>7 DEF Complete
  <2>. HIDE DEF R, P
  <2>. QED
    BY <1>1, <1>2, <2>1, <2>2, <2>3, <2>4, <2>5, <2>6, Stepped
<1>8. CASE RefuseCompletion(w)
  BY <1>4, <1>8, RetryKeeps DEF RefuseCompletion
<1>9. CASE BusyCompletion(w)
  BY <1>2, <1>4, <1>9, Written DEF BusyCompletion
<1>10. CASE ModelFails(w)
  <2>1. HandInv([turn[w] EXCEPT !.phase = "failed"], run[r], prep[r])
    BY <1>1, <1>4, <1>10 DEF HandInv, Turn, ModelFails
  <2>. QED
    BY <1>2, <1>3, <1>4, <1>10, <2>1, Written DEF ModelFails
<1>11. CASE RetryFailed(w)
  BY <1>5, <1>11, RetryKeeps DEF RetryFailed
<1>12. CASE BeginFinalizing(w)
  <2>1. HandInv([turn[w] EXCEPT !.phase = "finalizing"], run[r], prep[r])
    BY <1>1 DEF HandInv, Turn
  <2>. QED
    BY <1>2, <1>3, <1>6, <1>12, <2>1, Written DEF BeginFinalizing
<1>13. CASE DeferCompleted(w)
  BY <1>2, <1>3, <1>6, <1>13, Written DEF DeferCompleted
<1>. QED
  BY <1>7, <1>8, <1>9, <1>10, <1>11, <1>12, <1>13 DEF FinishComputing

\* A failure of a publication is charged unless the provider was down.
LEMMA SettleKeeps ==
  ASSUME AttemptInv, NEW w \in Workers, At(w, Finalizing), prep[turn[w].run].entry # "orphaned",
         NEW charge \in BOOLEAN, SettleFailure(w, charge)
  PROVE  AttemptInv'
<1>. DEFINE r == turn[w].run
            count == run[r].fin + IF charge THEN 1 ELSE 0
            mine == prep[r].entry = "mine"
            R == [run[r] EXCEPT !.fin = count,
                   !.status = IF charge /\ count >= MaxFinalize THEN "failed"
                              ELSE "finalization_failed"]
            P == IF mine THEN NoPrep ELSE prep[r]
            preparations == IF mine /\ ~charge THEN wasted[r] - 1 ELSE wasted[r]
<1>1. /\ r \in Runs /\ run[r] \in Run /\ prep[r] \in Prep
      /\ spent[r] \in Int /\ wasted[r] \in Int /\ RunInv(run[r], prep[r], spent[r], wasted[r])
  BY InHand
<1>2. Live(w) /\ run[r].status = "finalizing" /\ prep[r].entry # "orphaned"
  BY Found
<1>3. run[r].fin \in Nat /\ count \in Nat /\ run[r].fin < MaxFinalize
  BY <1>1, <1>2 DEF Run, RunInv
<1>4. /\ R \in Run /\ R.fin = count /\ R.attempts = run[r].attempts
      /\ R.status = (IF charge /\ count >= MaxFinalize THEN "failed" ELSE "finalization_failed")
  BY <1>1, <1>3 DEF Run, Statuses
<1>5. P \in Prep /\ P.entry = "none"
  BY <1>1, <1>2 DEF Prep, NoPrep
<1>6. preparations \in Int /\ preparations <= count
  BY <1>1, <1>2, <1>3 DEF RunInv, Prep
<1>7. RunInv(R, P, spent[r], preparations)
  <2>1. R.status \notin Resumable
    BY <1>4 DEF Resumable, Parked
  <2>2. count <= MaxFinalize /\ (R.status # "failed" => count < MaxFinalize)
    <3>1. count <= MaxFinalize /\ (~charge => count < MaxFinalize)
      BY <1>3
    <3>2. R.status # "failed" => ~charge \/ ~(count >= MaxFinalize)
      BY <1>4
    <3>. HIDE DEF count, R
    <3>. QED
      BY <1>3, <3>1, <3>2
  <2>3. spent[r] = R.attempts /\ R.attempts <= MaxResume
    BY <1>1, <1>4 DEF RunInv
  <2>. HIDE DEF count, R, P, preparations
  <2>4. preparations <= R.fin + (IF P.entry = "none" THEN 0 ELSE 1)
    BY <1>3, <1>4, <1>5, <1>6
  <2>5. R.fin <= MaxFinalize /\ (R.status # "failed" => R.fin < MaxFinalize)
    BY <1>4, <2>2
  <2>. QED
    BY <1>5, <2>1, <2>3, <2>4, <2>5 DEF RunInv
<1>8. /\ run' = [run EXCEPT ![r] = R] /\ prep' = [prep EXCEPT ![r] = P]
      /\ spent' = [spent EXCEPT ![r] = spent[r]]
      /\ wasted' = [wasted EXCEPT ![r] = preparations] /\ EndTurn(w)
      /\ UNCHANGED <<call, dep, used>>
  BY <1>1 DEF SettleFailure, AttemptInv, TypeOK
<1>9. "idle" \in Phases
  BY DEF Phases
<1>. HIDE DEF R, P, preparations
<1>. QED
  BY <1>1, <1>2, <1>4, <1>5, <1>6, <1>7, <1>8, <1>9, Stepped

\* However a publication ends, the charges are kept.
LEMMA FinalizeKeeps ==
  ASSUME AttemptInv, NEW w \in Workers, Finalize(w)
  PROVE  AttemptInv'
<1>. DEFINE r == turn[w].run
<1>1. /\ r \in Runs /\ run[r] \in Run /\ turn[w] \in Turn /\ prep[r] \in Prep
      /\ spent[r] \in Int /\ wasted[r] \in Int /\ RunInv(run[r], prep[r], spent[r], wasted[r])
      /\ Live(w) => HandInv(turn[w], run[r], prep[r])
  BY InHand
<1>2. /\ {"failed", "finalizing", "finalization_failed"} \subseteq Statuses
      /\ {"finalizing", "checked", "preparing", "prepared", "idle"} \subseteq Phases
      /\ "finalizing" \notin Resumable /\ "finalization_failed" \notin Resumable
      /\ "failed" \notin Resumable
  BY DEF Statuses, Phases, Finalizing, Resumable, Parked
<1>3. ASSUME NEW S, S \subseteq Finalizing, At(w, S)
      PROVE  Live(w) /\ run[r].status = "finalizing" /\ run[r].fin < MaxFinalize
  BY <1>1, <1>3, Found DEF RunInv
<1>4. ASSUME NEW p \in Phases
      PROVE  [turn[w] EXCEPT !.phase = p].phase = p
  BY <1>1 DEF Turn
<1>5. Finalizing = {"selected", "finalizing", "checked", "preparing", "prepared"}
  BY DEF Finalizing
<1>6. run[r].fin \in Nat /\ run[r].attempts \in Nat
  BY <1>1 DEF Run
<1>7. CASE SettleInterrupted(w)
  <2>. DEFINE count == run[r].fin + 1
              R == [run[r] EXCEPT !.fin = count,
                     !.status = IF count >= MaxFinalize THEN "failed" ELSE @]
  <2>1. Live(w) /\ run[r].status = "finalizing" /\ run[r].fin < MaxFinalize
        /\ prep[r].entry = "orphaned"
    BY <1>3, <1>5, <1>7 DEF SettleInterrupted, Retained
  <2>2. /\ R \in Run /\ R.fin = count /\ R.attempts = run[r].attempts
        /\ R.status = (IF count >= MaxFinalize THEN "failed" ELSE "finalizing")
    <3>1. count \in Nat /\ (IF count >= MaxFinalize THEN "failed" ELSE "finalizing") \in Statuses
      BY <1>2, <1>6
    <3>. HIDE DEF count
    <3>. QED
      BY <1>1, <2>1, <3>1 DEF Run
  <2>3. NoPrep \in Prep /\ NoPrep.entry = "none"
    BY DEF NoPrep, Prep
  <2>4. wasted[r] <= count
    BY <1>1, <2>1 DEF RunInv
  <2>5. spent[r] = R.attempts /\ R.attempts <= MaxResume
    BY <1>1, <2>2 DEF RunInv
  <2>6. R.fin <= MaxFinalize /\ (R.status # "failed" => R.fin < MaxFinalize)
    BY <1>6, <2>1, <2>2
  <2>7. RunInv(R, NoPrep, spent[r], wasted[r])
    <3>. HIDE DEF R
    <3>1. wasted[r] <= R.fin + (IF NoPrep.entry = "none" THEN 0 ELSE 1)
      BY <1>6, <2>2, <2>3, <2>4
    <3>2. R.status \notin Resumable
      BY <1>2, <2>2
    <3>. QED
      BY <2>3, <2>5, <2>6, <3>1, <3>2 DEF RunInv
  <2>8. HandInv([turn[w] EXCEPT !.phase = "finalizing"], R, NoPrep)
    BY <1>2, <1>4 DEF HandInv
  <2>9. /\ run' = [run EXCEPT ![r] = R] /\ prep' = [prep EXCEPT ![r] = NoPrep]
        /\ spent' = [spent EXCEPT ![r] = spent[r]]
        /\ wasted' = [wasted EXCEPT ![r] = wasted[r]]
        /\ UNCHANGED <<call, dep, used>> /\ (EndTurn(w) \/ Advance(w, "finalizing"))
    <3>1. run' = [run EXCEPT ![r] = R] /\ prep' = [prep EXCEPT ![r] = NoPrep]
      BY <1>7 DEF SettleInterrupted
    <3>2. spent' = [spent EXCEPT ![r] = spent[r]] /\ wasted' = [wasted EXCEPT ![r] = wasted[r]]
      BY <1>7 DEF SettleInterrupted, history, AttemptInv, TypeOK
    <3>3. UNCHANGED <<call, dep, used>> /\ (EndTurn(w) \/ Advance(w, "finalizing"))
      BY <1>7 DEF SettleInterrupted, history
    <3>. HIDE DEF R
    <3>. QED
      BY <3>1, <3>2, <3>3
  <2>. HIDE DEF R
  <2>. QED
    BY <1>1, <1>2, <2>1, <2>2, <2>3, <2>7, <2>8, <2>9, Stepped
<1>8. CASE Precheck(w)
  <2>. DEFINE p == IF prep[r].saved THEN "prepared" ELSE "checked"
  <2>1. p \in Phases /\ Live(w) /\ run[r].status = "finalizing" /\ run[r].fin < MaxFinalize
        /\ prep[r].entry = "none"
    BY <1>2, <1>3, <1>5, <1>8 DEF Precheck, Retained
  <2>2. HandInv([turn[w] EXCEPT !.phase = p], run[r], prep[r])
    BY <1>4, <2>1 DEF HandInv
  <2>3. Advance(w, p) /\ run' = run /\ UNCHANGED <<call, dep, prep, history>>
    BY <1>8 DEF Precheck
  <2>4. run[r].status \in Statuses
    BY <1>1 DEF Run
  <2>. HIDE DEF p
  <2>. QED
    BY <1>2, <2>1, <2>2, <2>3, <2>4, Written
<1>9. CASE BeginPreparation(w)
  <2>. DEFINE P == [prep[r] EXCEPT !.entry = "mine"]
  <2>1. Live(w) /\ run[r].fin < MaxFinalize /\ turn[w].phase = "checked"
        /\ prep[r].entry = "none"
    BY <1>1, <1>3, <1>5, <1>9, Found DEF BeginPreparation, HandInv
  <2>2. P \in Prep /\ P.entry = "mine"
    BY <1>1 DEF Prep
  <2>3. wasted[r] + 1 \in Int /\ wasted[r] + 1 <= run[r].fin + 1
    BY <1>1, <1>6, <2>1 DEF RunInv
  <2>4. RunInv(run[r], P, spent[r], wasted[r] + 1)
    <3>. HIDE DEF P
    <3>1. wasted[r] + 1 <= run[r].fin + (IF P.entry = "none" THEN 0 ELSE 1)
      BY <2>2, <2>3
    <3>. QED
      BY <1>1, <2>1, <3>1 DEF RunInv
  <2>5. HandInv([turn[w] EXCEPT !.phase = "preparing"], run[r], P)
    BY <1>2, <1>4, <2>2 DEF HandInv
  <2>6. /\ run' = [run EXCEPT ![r] = run[r]] /\ prep' = [prep EXCEPT ![r] = P]
        /\ spent' = [spent EXCEPT ![r] = spent[r]]
        /\ wasted' = [wasted EXCEPT ![r] = wasted[r] + 1]
        /\ UNCHANGED <<call, dep, used>> /\ Advance(w, "preparing")
    BY <1>9 DEF BeginPreparation, AttemptInv, TypeOK
  <2>. HIDE DEF P
  <2>. QED
    BY <1>1, <1>2, <2>1, <2>2, <2>3, <2>4, <2>5, <2>6, Stepped
<1>10. CASE SavePreparation(w)
  <2>. DEFINE P == [NoPrep EXCEPT !.saved = TRUE]
              preparations == IF turn[w].phase = "preparing" THEN wasted[r] - 1 ELSE wasted[r]
  <2>1. Live(w) /\ turn[w].phase \in {"checked", "preparing"} /\ run[r].fin < MaxFinalize
    BY <1>3, <1>5, <1>10, Found DEF SavePreparation
  <2>2. P \in Prep /\ P.entry = "none"
    BY DEF Prep, NoPrep
  <2>3. preparations \in Int /\ preparations <= run[r].fin
    <3>1. turn[w].phase = "checked" => wasted[r] <= run[r].fin
      BY <1>1, <1>6, <2>1 DEF RunInv, HandInv
    <3>2. turn[w].phase = "preparing" => wasted[r] <= run[r].fin + 1
      BY <1>1, <1>6, <2>1 DEF RunInv, HandInv
    <3>. QED
      BY <1>1, <1>6, <2>1, <3>1, <3>2
  <2>4. RunInv(run[r], P, spent[r], preparations)
    <3>. HIDE DEF P, preparations
    <3>1. preparations <= run[r].fin + (IF P.entry = "none" THEN 0 ELSE 1)
      BY <1>6, <2>2, <2>3
    <3>. QED
      BY <1>1, <2>1, <3>1 DEF RunInv
  <2>5. HandInv([turn[w] EXCEPT !.phase = "prepared"], run[r], P)
    BY <1>2, <1>4 DEF HandInv
  <2>6. /\ run' = [run EXCEPT ![r] = run[r]] /\ prep' = [prep EXCEPT ![r] = P]
        /\ spent' = [spent EXCEPT ![r] = spent[r]]
        /\ wasted' = [wasted EXCEPT ![r] = preparations]
        /\ UNCHANGED <<call, dep, used>> /\ Advance(w, "prepared")
    BY <1>10 DEF SavePreparation, AttemptInv, TypeOK
  <2>. HIDE DEF P, preparations
  <2>. QED
    BY <1>1, <1>2, <2>1, <2>2, <2>3, <2>4, <2>5, <2>6, Stepped
<1>11. CASE Publish(w)
  <2>. DEFINE R == [run[r] EXCEPT !.published = "yes", !.asked = {},
                                  !.status = RemainingStatus(r, dep')]
  <2>1. Live(w) /\ run[r].fin < MaxFinalize
    BY <1>3, <1>5, <1>11 DEF Publish
  <2>2. RemainingStatus(r, dep') \in Statuses
    BY DEF RemainingStatus, Statuses, Parked
  <2>3. /\ R \in Run /\ R.fin = run[r].fin /\ R.attempts = run[r].attempts
        /\ R.published = "yes"
    BY <1>1, <2>2 DEF Run
  <2>4. RunInv(R, prep[r], spent[r], wasted[r])
    BY <1>1, <2>1, <2>3 DEF RunInv
  <2>5. dep' \in [Runs -> [Calls -> Dep]]
    <3>. DEFINE deps == [c \in Calls |-> IF c \in run[r].deps
                           THEN [dep[r][c] EXCEPT !.consumed = TRUE] ELSE dep[r][c]]
    <3>1. dep' = [dep EXCEPT ![r] = deps]
      BY <1>11 DEF Publish
    <3>2. deps \in [Calls -> Dep]
      <4>1. dep[r] \in [Calls -> Dep]
        BY <1>1 DEF AttemptInv, TypeOK
      <4>2. \A c \in Calls : [dep[r][c] EXCEPT !.consumed = TRUE] \in Dep
        BY <4>1 DEF Dep
      <4>. QED
        BY <4>1, <4>2
    <3>. HIDE DEF deps
    <3>. QED
      BY <3>1, <3>2 DEF AttemptInv, TypeOK
  <2>6. used' \subseteq Runs \X Calls \X (1..MaxVersion)
    <3>1. \A c \in Calls : run[r].uses[c] # 0 => run[r].uses[c] \in 1..MaxVersion
      BY <1>1 DEF Run, Versions
    <3>2. {<<r, c, run[r].uses[c]>> : c \in {d \in Calls : run[r].uses[d] # 0}}
            \subseteq Runs \X Calls \X (1..MaxVersion)
      BY <1>1, <3>1
    <3>. QED
      BY <1>11, <3>2 DEF Publish, AttemptInv, TypeOK
  <2>7. /\ run' = [run EXCEPT ![r] = R] /\ prep' = [prep EXCEPT ![r] = prep[r]]
        /\ spent' = [spent EXCEPT ![r] = spent[r]]
        /\ wasted' = [wasted EXCEPT ![r] = wasted[r]]
        /\ call' = call /\ EndTurn(w)
    <3>1. run' = [run EXCEPT ![r] = R]
      BY <1>11 DEF Publish
    <3>. QED
      BY <1>11, <3>1 DEF Publish, AttemptInv, TypeOK
  <2>. HIDE DEF R
  <2>. QED
    BY <1>1, <1>2, <2>1, <2>3, <2>4, <2>5, <2>6, <2>7, Stepped
<1>12. CASE RefusePublication(w) \/ FailPublication(w) \/ OutagePublication(w)
  BY <1>12, SettleKeeps DEF RefusePublication, FailPublication, OutagePublication, InPublication
<1>13. CASE BusyPublication(w)
  <2>1. Live(w) /\ run[r].fin < MaxFinalize
    BY <1>3, <1>13 DEF BusyPublication, InPublication
  <2>. QED
    BY <1>2, <1>13, <2>1, Written DEF BusyPublication
<1>14. CASE RefuseEarlierEntry(w)
  BY <1>14, Dropped DEF RefuseEarlierEntry, EndTurn
<1>15. CASE RefuseEarlier(w)
  <2>1. At(w, {"selected", "finalizing"}) /\ prep[r].entry = "none" /\ SettleFailure(w, TRUE)
    BY <1>15 DEF RefuseEarlier, Retained
  <2>2. At(w, Finalizing)
    BY <1>5, <2>1 DEF At
  <2>. QED
    BY <2>1, <2>2, SettleKeeps
<1>. QED
  BY <1>7, <1>8, <1>9, <1>10, <1>11, <1>12, <1>13, <1>14, <1>15 DEF Finalize

\* What a callback makes of a run: a status of those that wait or may be
\* resumed, never of one that computes or publishes; its sources; its window;
\* the questions its output waits for.
Woken(R, Q) ==
  /\ Q \in Run
  /\ Q.attempts = R.attempts /\ Q.fin = R.fin /\ Q.published = R.published
  /\ Q.output = R.output /\ Q.uses = R.uses /\ Q.deps = R.deps
  /\ \/ Q.status = R.status
     \/ R.status \in Resumable /\ Q.status \in Parked \cup {"resume_ready"}

\* Waking a run changes no counter and nothing it retained.
LEMMA WokenKeeps ==
  ASSUME NEW R \in Run, NEW Q, Woken(R, Q)
  PROVE  /\ Q \in Run /\ Q.attempts = R.attempts /\ Q.fin = R.fin /\ Q.published = R.published
         /\ Q.output = R.output /\ Q.uses = R.uses /\ Q.deps = R.deps
         /\ Q.status = R.status \/ (R.status \in Resumable /\ Q.status \in Resumable)
         /\ Q.status = "failed" <=> R.status = "failed"
BY DEF Woken, Resumable, Parked

\* One update of a status, of runs that may be resumed, after others.
LEMMA MovedOnce ==
  ASSUME run \in [Runs -> Run], NEW runs, runs = [r \in Runs |-> runs[r]],
         \A r \in Runs : Woken(run[r], runs[r]), NEW A,
         \A r \in A : r \in Runs => run[r].status \in Resumable,
         NEW s \in Parked \cup {"resume_ready"}
  PROVE  /\ Moved(runs, A, s) = [r \in Runs |-> Moved(runs, A, s)[r]]
         /\ \A r \in Runs : Woken(run[r], Moved(runs, A, s)[r])
<1>1. s \in Statuses
  BY DEF Statuses
<1>2. ASSUME NEW r \in Runs
      PROVE  Woken(run[r], Moved(runs, A, s)[r])
  <2>1. CASE r \in A
    <3>1. Moved(runs, A, s)[r] = [runs[r] EXCEPT !.status = s]
      BY <2>1 DEF Moved
    <3>2. Woken(run[r], runs[r]) /\ run[r].status \in Resumable
      BY <2>1
    <3>3. Woken(run[r], [runs[r] EXCEPT !.status = s])
      <4>1. runs[r] \in Run
        BY <3>2 DEF Woken
      <4>2. /\ [runs[r] EXCEPT !.status = s] \in Run
            /\ [runs[r] EXCEPT !.status = s].attempts = runs[r].attempts
            /\ [runs[r] EXCEPT !.status = s].fin = runs[r].fin
            /\ [runs[r] EXCEPT !.status = s].published = runs[r].published
            /\ [runs[r] EXCEPT !.status = s].output = runs[r].output
            /\ [runs[r] EXCEPT !.status = s].uses = runs[r].uses
            /\ [runs[r] EXCEPT !.status = s].deps = runs[r].deps
            /\ [runs[r] EXCEPT !.status = s].status = s
        BY <1>1, <4>1 DEF Run
      <4>. QED
        BY <3>2, <4>2 DEF Woken
    <3>. QED
      BY <3>1, <3>3
  <2>2. CASE r \notin A
    BY <2>2 DEF Moved
  <2>. QED
    BY <2>1, <2>2
<1>. QED
  BY <1>2 DEF Moved

\* Three updates of a status, on runs that may be resumed.
LEMMA MovedThrice ==
  ASSUME run \in [Runs -> Run], NEW A, NEW B, NEW C,
         \A r \in A \cup B \cup C : r \in Runs => run[r].status \in Resumable,
         NEW s \in Parked \cup {"resume_ready"}, NEW t \in Parked \cup {"resume_ready"},
         NEW u \in Parked \cup {"resume_ready"}
  PROVE  \A r \in Runs : Woken(run[r], Moved(Moved(Moved(run, A, s), B, t), C, u)[r])
<1>. DEFINE M1 == Moved(run, A, s)
            M2 == Moved(M1, B, t)
            Wakes(M) == M = [r \in Runs |-> M[r]] /\ \A r \in Runs : Woken(run[r], M[r])
<1>1. Wakes(run)
  BY DEF Woken
<1>2. Wakes(M1)
  BY <1>1, MovedOnce
<1>3. Wakes(M2)
  <2>. HIDE DEF M1
  <2>. QED
    BY <1>2, MovedOnce
<1>4. \A r \in Runs : Woken(run[r], Moved(M2, C, u)[r])
  <2>. HIDE DEF M2
  <2>. QED
    BY <1>3, MovedOnce
<1>. QED
  BY <1>4

\* A callback that moves runs wakes them.
LEMMA MovedWakes ==
  ASSUME run \in [Runs -> Run], NEW A, NEW B,
         \A r \in A \cup B : r \in Runs => run[r].status \in Resumable,
         NEW s \in Parked \cup {"resume_ready"}, NEW t \in Parked \cup {"resume_ready"},
         run' = Moved(run, A, s) \/ run' = Moved(Moved(run, A, s), B, t)
  PROVE  run' = [r \in Runs |-> run'[r]] /\ \A r \in Runs : Woken(run[r], run'[r])
<1>. DEFINE M1 == Moved(run, A, s)
            M2 == Moved(M1, B, t)
<1>1. run = [r \in Runs |-> run[r]] /\ \A r \in Runs : Woken(run[r], run[r])
  BY DEF Woken
<1>2. M1 = [r \in Runs |-> M1[r]] /\ \A r \in Runs : Woken(run[r], M1[r])
  BY <1>1, MovedOnce
<1>3. M2 = [r \in Runs |-> M2[r]] /\ \A r \in Runs : Woken(run[r], M2[r])
  <2>. HIDE DEF M1
  <2>. QED
    BY <1>2, MovedOnce
<1>4. CASE run' = M1
  <2>. HIDE DEF M1
  <2>. QED
    BY <1>2, <1>4
<1>5. CASE run' = M2
  <2>. HIDE DEF M2
  <2>. QED
    BY <1>3, <1>5
<1>. QED
  BY <1>4, <1>5

\* Nor does it when the questions of another user's data are not waited for.
LEMMA ForeignWakes ==
  ASSUME run \in [Runs -> Run], NEW runs, \A r \in Runs : Woken(run[r], runs[r])
  PROVE  /\ WithoutForeign(runs) = [r \in Runs |-> WithoutForeign(runs)[r]]
         /\ \A r \in Runs : Woken(run[r], WithoutForeign(runs)[r])
<1>1. ASSUME NEW r \in Runs
      PROVE  Woken(run[r], WithoutForeign(runs)[r])
  <2>. DEFINE Q == [runs[r] EXCEPT !.asked = @ \ Foreign]
  <2>1. WithoutForeign(runs)[r] = Q
    BY DEF WithoutForeign
  <2>2. runs[r] \in Run /\ runs[r].asked \ Foreign \in SUBSET Calls
    BY DEF Woken, Run
  <2>3. /\ Q \in Run /\ Q.attempts = runs[r].attempts /\ Q.fin = runs[r].fin
        /\ Q.published = runs[r].published /\ Q.output = runs[r].output
        /\ Q.uses = runs[r].uses /\ Q.deps = runs[r].deps /\ Q.status = runs[r].status
    BY <2>2 DEF Run
  <2>. HIDE DEF Q
  <2>. QED
    BY <2>1, <2>3 DEF Woken
<1>. QED
  BY <1>1 DEF WithoutForeign

\* The calls and dependencies the callbacks write.
LEMMA AnswersTyped ==
  ASSUME TypeOK, NEW c \in Calls, call[c].version < MaxVersion, NEW na \in BOOLEAN
  PROVE  Answered(c, na) \in [Calls -> Call] /\ Superseding(c, Answered(c, na)) \in [Calls -> Call]
<1>. DEFINE calls == Answered(c, na)
            x == [call[c] EXCEPT !.status = "resolved", !.version = @ + 1, !.na = na, !.stale = FALSE]
<1>1. calls \in [Calls -> Call]
  <2>1. call[c] \in Call /\ call[c].version + 1 \in 0..MaxVersion
    BY DEF TypeOK, Call
  <2>2. x \in Call
    BY <2>1 DEF Call, CallStatuses
  <2>3. calls = [call EXCEPT ![c] = x]
    BY DEF Answered
  <2>. HIDE DEF x
  <2>. QED
    BY <2>2, <2>3 DEF TypeOK
<1>2. \A d \in Calls : [calls[d] EXCEPT !.status = "superseded"] \in Call
  BY <1>1 DEF Call, CallStatuses
<1>. QED
  BY <1>1, <1>2 DEF Superseding

\* The edits of a dependency row that the code makes are dependency rows.
LEMMA DepsTyped ==
  ASSUME TypeOK, NEW c \in Calls, NEW v \in Closed..MaxVersion
  PROVE  /\ \A r \in Runs : /\ [dep[r] EXCEPT ![c].at = v] \in [Calls -> Dep]
                            /\ [dep[r] EXCEPT ![c].at = v, ![c].consumed = FALSE] \in [Calls -> Dep]
                            /\ [dep[r] EXCEPT ![c].at = v, ![c].consumed = TRUE] \in [Calls -> Dep]
                            /\ [dep[r] EXCEPT ![c].consumed = TRUE] \in [Calls -> Dep]
<1>. SUFFICES ASSUME NEW r \in Runs
              PROVE  /\ [dep[r] EXCEPT ![c].at = v] \in [Calls -> Dep]
                     /\ [dep[r] EXCEPT ![c].at = v, ![c].consumed = FALSE] \in [Calls -> Dep]
                     /\ [dep[r] EXCEPT ![c].at = v, ![c].consumed = TRUE] \in [Calls -> Dep]
                     /\ [dep[r] EXCEPT ![c].consumed = TRUE] \in [Calls -> Dep]
  OBVIOUS
<1>1. dep[r] \in [Calls -> Dep] /\ dep[r][c] \in Dep
  BY DEF TypeOK
<1>2. /\ [dep[r][c] EXCEPT !.at = v] \in Dep
      /\ [dep[r][c] EXCEPT !.at = v, !.consumed = FALSE] \in Dep
      /\ [dep[r][c] EXCEPT !.at = v, !.consumed = TRUE] \in Dep
      /\ [dep[r][c] EXCEPT !.consumed = TRUE] \in Dep
  BY <1>1 DEF Dep
<1>3. \A y \in Dep : [dep[r] EXCEPT ![c] = y] \in [Calls -> Dep]
  BY <1>1
<1>. QED
  BY <1>2, <1>3

\* What a callback writes, whichever it is.
LEMMA CalledBack ==
  ASSUME TypeOK, (\E c \in Calls : UserAnswers(c) \/ Sweeps(c)) \/ Erasure
  PROVE  /\ call' \in [Calls -> Call] /\ dep' \in [Runs -> [Calls -> Dep]]
         /\ run' = [r \in Runs |-> run'[r]] /\ \A r \in Runs : Woken(run[r], run'[r])
         /\ UNCHANGED <<prep, lease, turn, history>>
<1>. DEFINE Effect == /\ call' \in [Calls -> Call] /\ dep' \in [Runs -> [Calls -> Dep]]
                      /\ run' = [r \in Runs |-> run'[r]]
                      /\ \A r \in Runs : Woken(run[r], run'[r])
                      /\ UNCHANGED <<prep, lease, turn, history>>
<1>1. /\ run \in [Runs -> Run] /\ call \in [Calls -> Call] /\ dep \in [Runs -> [Calls -> Dep]]
  BY DEF TypeOK
<1>2. run' = run => run' = [r \in Runs |-> run'[r]] /\ \A r \in Runs : Woken(run[r], run'[r])
  BY <1>1 DEF Woken
<1>3. \A S \in SUBSET Resumable : \A r \in WithStatus(S) : run[r].status \in Resumable
  BY DEF WithStatus
<1>4. {"finalized_pending_tool", "resume_ready", "resuming", "finalized"} \subseteq Resumable
      /\ Parked \subseteq Resumable
      /\ {"finalized", "finalized_pending_tool", "resume_ready"} \subseteq Parked \cup {"resume_ready"}
  BY DEF Resumable, Parked
<1>5. ASSUME NEW c \in Calls, call[c].version < MaxVersion
      PROVE  call[c].version + 1 \in Closed..MaxVersion
  BY <1>1, <1>5 DEF Call, Closed
<1>6. ASSUME NEW c \in Calls, NEW s \in CallStatuses, call' = [call EXCEPT ![c].status = s]
      PROVE  call' \in [Calls -> Call]
  <2>. DEFINE x == [call[c] EXCEPT !.status = s]
  <2>1. x \in Call
    <3>1. call[c] \in Call
      BY <1>1
    <3>. QED
      BY <3>1 DEF Call
  <2>2. call' = [call EXCEPT ![c] = x]
    BY <1>6
  <2>. HIDE DEF x
  <2>. QED
    BY <1>1, <2>1, <2>2
<1>7. \A c \in Calls : ClosedDeps(c) \in [Runs -> [Calls -> Dep]]
  <2>1. Closed \in Closed..MaxVersion
    BY DEF Closed
  <2>2. ASSUME NEW c \in Calls, NEW r \in Runs
        PROVE  [dep[r] EXCEPT ![c].at = IF @ = Unresolved /\ dep[r][c].attached THEN Closed ELSE @]
                 \in [Calls -> Dep]
    <3>1. dep[r][c].at \in Closed..MaxVersion
      BY <1>1 DEF Dep
    <3>. QED
      BY <2>1, <3>1, DepsTyped
  <2>. QED
    BY <2>2 DEF ClosedDeps
<1>8. ASSUME NEW S, DeleteCalls(S)
      PROVE  call' \in [Calls -> Call] /\ dep' \in [Runs -> [Calls -> Dep]]
  <2>1. \A c \in Calls : [call[c] EXCEPT !.status = "deleted"] \in Call
    BY <1>1 DEF Call, CallStatuses
  <2>2. NoDep \in Dep
    <3>1. Unresolved \in Closed..MaxVersion
      BY DEF Unresolved, Closed
    <3>. QED
      BY <3>1 DEF NoDep, Dep
  <2>. QED
    BY <1>1, <1>8, <2>1, <2>2 DEF DeleteCalls
<1>9. ASSUME NEW c \in Calls, Resolve(c)
      PROVE  Effect
  <2>1. call' \in [Calls -> Call]
    BY <1>9, AnswersTyped DEF Resolve
  <2>2. dep' \in [Runs -> [Calls -> Dep]]
    <3>1. ASSUME NEW r \in Runs
          PROVE  [dep[r] EXCEPT ![c].at = IF @ = Unresolved /\ dep[r][c].attached
                                          THEN call[c].version + 1 ELSE @] \in [Calls -> Dep]
      <4>1. dep[r][c].at \in Closed..MaxVersion
        BY <1>1 DEF Dep
      <4>. QED
        BY <1>5, <1>9, <4>1, DepsTyped DEF Resolve
    <3>. QED
      BY <1>9, <3>1 DEF Resolve
  <2>3. PICK A : run' = Moved(run, A, "resume_ready") /\ A \subseteq WithStatus(Parked)
    BY <1>9 DEF Resolve
  <2>4. UNCHANGED <<prep, lease, turn, history>>
    BY <1>9 DEF Resolve, Callback
  <2>5. run' = [r \in Runs |-> run'[r]] /\ \A r \in Runs : Woken(run[r], run'[r])
    BY <1>1, <1>3, <1>4, <2>3, MovedWakes
  <2>. QED
    BY <2>1, <2>2, <2>4, <2>5
<1>10. ASSUME NEW c \in Calls, Edit(c)
       PROVE  Effect
  <2>1. call' \in [Calls -> Call]
    BY <1>10, AnswersTyped DEF Edit
  <2>2. dep' \in [Runs -> [Calls -> Dep]]
    <3>1. \A r \in Runs : [dep[r] EXCEPT ![c].at = call[c].version + 1, ![c].consumed = FALSE]
                            \in [Calls -> Dep]
      BY <1>5, <1>10, DepsTyped DEF Edit
    <3>. QED
      BY <1>1, <1>10, <3>1 DEF Edit
  <2>3. PICK A : run' = Moved(run, A, "resume_ready") /\ A \subseteq WithStatus(Parked)
    BY <1>10 DEF Edit
  <2>4. UNCHANGED <<prep, lease, turn, history>>
    BY <1>10 DEF Edit, Callback
  <2>5. run' = [r \in Runs |-> run'[r]] /\ \A r \in Runs : Woken(run[r], run'[r])
    BY <1>1, <1>3, <1>4, <2>3, MovedWakes
  <2>. QED
    BY <2>1, <2>2, <2>4, <2>5
<1>11. ASSUME NEW c \in Calls, MarkNotApplicable(c)
       PROVE  Effect
  <2>1. call' \in [Calls -> Call]
    BY <1>11, AnswersTyped DEF MarkNotApplicable
  <2>2. dep' \in [Runs -> [Calls -> Dep]]
    <3>1. ASSUME NEW r \in Runs
          PROVE  [dep[r] EXCEPT ![c].at = IF @ = Unresolved THEN call[c].version + 1 ELSE @,
                                ![c].consumed = TRUE] \in [Calls -> Dep]
      <4>1. dep[r][c].at \in Closed..MaxVersion
        BY <1>1 DEF Dep
      <4>. QED
        BY <1>5, <1>11, <4>1, DepsTyped DEF MarkNotApplicable
    <3>. QED
      BY <1>1, <1>11, <3>1 DEF MarkNotApplicable
  <2>. DEFINE A == {r \in WithStatus(Parked) \cap Attached(c) : Actionable(call', dep', r)}
              B == {r \in WithStatus({"finalized_pending_tool", "resume_ready"}) \cap Attached(c) :
                      ~Actionable(call', dep', r) /\ ~Awaiting(call', dep', r)}
  <2>3. /\ run' = Moved(Moved(run, A, "resume_ready"), B, "finalized")
        /\ A \subseteq WithStatus(Parked)
        /\ B \subseteq WithStatus({"finalized_pending_tool", "resume_ready"})
    BY <1>11 DEF MarkNotApplicable
  <2>. HIDE DEF A, B
  <2>4. UNCHANGED <<prep, lease, turn, history>>
    BY <1>11 DEF MarkNotApplicable, Callback
  <2>5. run' = [r \in Runs |-> run'[r]] /\ \A r \in Runs : Woken(run[r], run'[r])
    BY <1>1, <1>3, <1>4, <2>3, MovedWakes
  <2>. QED
    BY <2>1, <2>2, <2>4, <2>5
<1>12. ASSUME NEW c \in Calls, Cancel(c)
       PROVE  Effect
  <2>1. call' \in [Calls -> Call] /\ dep' \in [Runs -> [Calls -> Dep]]
    BY <1>6, <1>7, <1>12 DEF Cancel, CallStatuses
  <2>2. PICK A : run' = Moved(run, A, "finalized") /\ A \subseteq WithStatus({"finalized_pending_tool"})
    BY <1>12 DEF Cancel
  <2>3. UNCHANGED <<prep, lease, turn, history>>
    BY <1>12 DEF Cancel, Callback
  <2>4. run' = [r \in Runs |-> run'[r]] /\ \A r \in Runs : Woken(run[r], run'[r])
    BY <1>1, <1>3, <1>4, <2>2, MovedWakes
  <2>. QED
    BY <2>1, <2>3, <2>4
<1>13. ASSUME NEW c \in Calls, Expire(c)
       PROVE  Effect
  <2>1. call' \in [Calls -> Call] /\ dep' \in [Runs -> [Calls -> Dep]]
    BY <1>6, <1>7, <1>13 DEF Expire, CallStatuses
  <2>. DEFINE waiting == WithStatus({"finalized_pending_tool"}) \cap Attached(c)
              A == {r \in waiting : Actionable(call', dep', r)}
              B == {r \in waiting : ~Actionable(call', dep', r) /\ ~Awaiting(call', dep', r)}
  <2>2. /\ run' = Moved(Moved(run, A, "resume_ready"), B, "finalized")
        /\ A \subseteq WithStatus({"finalized_pending_tool"})
        /\ B \subseteq WithStatus({"finalized_pending_tool"})
    BY <1>13 DEF Expire
  <2>. HIDE DEF A, B
  <2>3. UNCHANGED <<prep, lease, turn, history>>
    BY <1>13 DEF Expire, Callback
  <2>4. run' = [r \in Runs |-> run'[r]] /\ \A r \in Runs : Woken(run[r], run'[r])
    BY <1>1, <1>3, <1>4, <2>2, MovedWakes
  <2>. QED
    BY <2>1, <2>3, <2>4
<1>14. ASSUME NEW c \in Calls, DeleteExpired(c)
       PROVE  Effect
  BY <1>2, <1>8, <1>14 DEF DeleteExpired, Callback
<1>15. ASSUME NEW c \in Calls, FallDue(c) \/ GoStale(c)
       PROVE  Effect
  <2>1. PICK x \in Call : call' = [call EXCEPT ![c] = x]
    <3>1. [call[c] EXCEPT !.due = TRUE] \in Call /\ [call[c] EXCEPT !.stale = TRUE] \in Call
      <4>1. call[c] \in Call
        BY <1>1
      <4>. QED
        BY <4>1 DEF Call
    <3>. QED
      BY <1>15, <3>1 DEF FallDue, GoStale
  <2>. QED
    BY <1>1, <1>2, <1>15, <2>1 DEF FallDue, GoStale, Callback
<1>16. ASSUME EraseForeign
       PROVE  Effect
  <2>. DEFINE A == {r \in WithStatus({"finalized_pending_tool", "resume_ready", "resuming"}) :
                      \E c \in Foreign : dep[r][c].attached}
              C == {r \in A : Actionable(call', dep', r)}
              B == {r \in A \ C : Awaiting(call', dep', r)}
              moved == Moved(Moved(Moved(run, A, "finalized"), B, "finalized_pending_tool"),
                             C, "resume_ready")
  <2>1. /\ run' = WithoutForeign(moved)
        /\ A \cup B \cup C
             \subseteq WithStatus({"finalized_pending_tool", "resume_ready", "resuming"})
    BY <1>16 DEF EraseForeign
  <2>. HIDE DEF A, B, C
  <2>2. \A r \in A \cup B \cup C : run[r].status \in Resumable
    BY <1>3, <1>4, <2>1
  <2>4. \A r \in Runs : Woken(run[r], moved[r])
    BY <1>1, <1>4, <2>2, MovedThrice
  <2>. HIDE DEF moved
  <2>3. run' = [r \in Runs |-> run'[r]] /\ \A r \in Runs : Woken(run[r], run'[r])
    BY <1>1, <2>1, <2>4, ForeignWakes
  <2>. QED
    BY <1>8, <1>16, <2>3 DEF EraseForeign, Callback
<1>17. ASSUME NEW r \in Runs, EraseSources(r)
       PROVE  Effect
  <2>. DEFINE R == [run[r] EXCEPT !.sources = FALSE,
                                  !.window = IF @ = "owed" THEN "invalid" ELSE @]
  <2>1. run' = [run EXCEPT ![r] = R]
    BY <1>17 DEF EraseSources
  <2>4. Woken(run[r], R)
    <3>1. run[r] \in Run
      BY <1>1
    <3>. QED
      BY <3>1 DEF Woken, Run
  <2>. HIDE DEF R
  <2>2. ASSUME NEW q \in Runs
        PROVE  Woken(run[q], run'[q])
    BY <1>1, <2>1, <2>4 DEF Woken
  <2>3. run' = [q \in Runs |-> run'[q]]
    BY <1>1, <2>1
  <2>. QED
    BY <1>1, <1>17, <2>2, <2>3 DEF EraseSources, Callback
<1>. QED
  BY <1>9, <1>10, <1>11, <1>12, <1>13, <1>14, <1>15, <1>16, <1>17
  DEF UserAnswers, Sweeps, Erasure

\* Answers, sweeps and erasures keep the charges.
LEMMA CallbackKeeps ==
  ASSUME AttemptInv, (\E c \in Calls : UserAnswers(c) \/ Sweeps(c)) \/ Erasure
  PROVE  AttemptInv'
<1>1. /\ call' \in [Calls -> Call] /\ dep' \in [Runs -> [Calls -> Dep]]
      /\ run' = [r \in Runs |-> run'[r]] /\ \A r \in Runs : Woken(run[r], run'[r])
      /\ UNCHANGED <<prep, lease, turn, history>>
  BY CalledBack DEF AttemptInv
<1>2. ASSUME NEW r \in Runs
      PROVE  /\ run'[r] \in Run /\ run'[r].attempts = run[r].attempts /\ run'[r].fin = run[r].fin
             /\ run'[r].published = run[r].published
             /\ run'[r].status \in Resumable => run[r].status \in Resumable
             /\ run'[r].status = "failed" <=> run[r].status = "failed"
  <2>1. run[r] \in Run
    BY DEF AttemptInv, TypeOK
  <2>. QED
    BY <1>1, <2>1, WokenKeeps
<1>3. TypeOK'
  BY <1>1, <1>2 DEF AttemptInv, TypeOK, history
<1>4. ASSUME NEW r \in Runs
      PROVE  RunInv(run'[r], prep'[r], spent'[r], wasted'[r])
  BY <1>1, <1>2 DEF AttemptInv, RunInv, history
<1>5. ASSUME NEW w \in Workers, Live(w)'
      PROVE  HandInv(turn'[w], run'[turn'[w].run], prep'[turn'[w].run])
  <2>1. turn[w].run \in Runs /\ HandInv(turn[w], run[turn[w].run], prep[turn[w].run])
    BY <1>1, <1>5, InHand DEF Live
  <2>. QED
    BY <1>1, <1>2, <2>1 DEF HandInv
<1>. QED
  BY <1>1, <1>3, <1>4, <1>5 DEF AttemptInv

\* The charges agree before anything was charged.
LEMMA AttemptInit == Init => AttemptInv
<1>. SUFFICES ASSUME Init PROVE AttemptInv
  OBVIOUS
<1>1. TypeOK
  <2>1. call \in [Calls -> Call]
    BY DEF Init, Call, CallStatuses
  <2>2. dep \in [Runs -> [Calls -> Dep]]
    <3>1. NoDep \in Dep
      <4>1. Unresolved \in Closed..MaxVersion
        BY DEF Unresolved, Closed
      <4>. QED
        BY <4>1 DEF NoDep, Dep
    <3>2. ASSUME NEW r \in Runs, NEW c \in Calls
          PROVE  [NoDep EXCEPT !.attached = c \in Asked[r]] \in Dep
      <4>1. (c \in Asked[r]) \in BOOLEAN
        OBVIOUS
      <4>. QED
        BY <3>1, <4>1 DEF Dep
    <3>. QED
      BY <3>2 DEF Init
  <2>3. NoVersions \in Versions
    BY DEF NoVersions, Versions
  <2>4. run \in [Runs -> Run]
    <3>. DEFINE first(r) ==
           [status |-> IF Asked[r] = {} THEN "finalized" ELSE "finalized_pending_tool",
            claimant |-> NoOne, attempts |-> 0, fin |-> 0, output |-> 0,
            published |-> "yes", uses |-> NoVersions, deps |-> {}, asked |-> {},
            sources |-> TRUE, window |-> IF r \in Windows THEN "owed" ELSE "settled"]
    <3>1. \A r \in Runs : first(r) \in Run
      BY <2>3 DEF Run, Statuses, Parked
    <3>2. run = [r \in Runs |-> first(r)]
      BY DEF Init
    <3>. HIDE DEF first
    <3>. QED
      BY <3>1, <3>2
  <2>5. prep \in [Runs -> Prep]
    BY DEF Init, Prep, NoPrep
  <2>6. lease \in [holder: Workers \cup {NoOne}, live: BOOLEAN]
    BY DEF Init, NoLease
  <2>7. turn \in [Workers -> Turn]
    BY Idle DEF Init
  <2>8. used = {} /\ spent \in [Runs -> Int] /\ wasted \in [Runs -> Int]
    BY DEF Init
  <2>. QED
    BY <2>1, <2>2, <2>4, <2>5, <2>6, <2>7, <2>8 DEF TypeOK
<1>2. ~lease.live
  BY DEF Init, NoLease
<1>3. ASSUME NEW r \in Runs
      PROVE  RunInv(run[r], prep[r], spent[r], wasted[r])
  <2>1. run[r].attempts = 0 /\ run[r].fin = 0 /\ run[r].published = "yes"
    BY DEF Init
  <2>2. prep[r].entry = "none" /\ spent[r] = 0 /\ wasted[r] = 0
    BY DEF Init, NoPrep
  <2>. QED
    BY <2>1, <2>2 DEF RunInv
<1>. QED
  BY <1>1, <1>2, <1>3 DEF AttemptInv, Live

\* A lease that runs out keeps the charges.
LEMMA LapseKeeps ==
  ASSUME AttemptInv, Lapse
  PROVE  AttemptInv'
<1>1. /\ lease' \in [holder: Workers \cup {NoOne}, live: BOOLEAN] /\ ~lease'.live
      /\ UNCHANGED <<call, dep, run, prep, turn, history>>
  BY DEF Lapse, AttemptInv, TypeOK
<1>2. TypeOK'
  BY <1>1 DEF AttemptInv, TypeOK, history
<1>3. \A w \in Workers : ~Live(w)'
  BY <1>1 DEF Live
<1>. QED
  BY <1>1, <1>2, <1>3 DEF AttemptInv, history

\* What a delivery writes: a run that was to be published is parked, with what
\* was begun for it, or nothing but its window is.
LEMMA Delivered ==
  ASSUME TypeOK, NEW r \in Runs, Deliver(r)
  PROVE  /\ UNCHANGED <<call, dep, turn, history>> /\ lease' = NoLease
         /\ \E R \in Run, P \in Prep :
              /\ run' = [run EXCEPT ![r] = R] /\ prep' = [prep EXCEPT ![r] = P]
              /\ R.attempts = run[r].attempts /\ R.fin = run[r].fin
              /\ R.output = run[r].output /\ R.uses = run[r].uses /\ R.deps = run[r].deps
              /\ P.entry = "none" <=> prep[r].entry = "none"
              /\ \/ /\ R.status = run[r].status /\ R.published = run[r].published
                 \/ /\ run[r].status \in {"agent_completed", "finalizing"}
                    /\ R.status = RemainingStatus(r, dep) /\ R.status \in Resumable
                    /\ R.published = "left"
<1>1. run[r] \in Run /\ prep[r] \in Prep
  BY DEF TypeOK
<1>2. UNCHANGED <<call, dep, turn, history>> /\ lease' = NoLease
  BY DEF Deliver, FinalizeWindowExecution, AckEffects
<1>3. CASE FinalizeWindowExecution(r)
  <2>. DEFINE R == [run[r] EXCEPT !.status = RemainingStatus(r, dep), !.claimant = NoOne,
                                  !.published = "left", !.asked = {}]
              P == [prep[r] EXCEPT !.entry = IF @ = "mine" THEN "orphaned" ELSE @]
  <2>1. RemainingStatus(r, dep) \in Statuses /\ RemainingStatus(r, dep) \in Resumable
    BY DEF RemainingStatus, Statuses, Resumable, Parked
  <2>2. /\ R \in Run /\ R.attempts = run[r].attempts /\ R.fin = run[r].fin
        /\ R.output = run[r].output /\ R.uses = run[r].uses /\ R.deps = run[r].deps
        /\ R.status = RemainingStatus(r, dep) /\ R.published = "left"
    BY <1>1, <2>1 DEF Run
  <2>3. P \in Prep /\ (P.entry = "none" <=> prep[r].entry = "none")
    BY <1>1 DEF Prep
  <2>4. run' = [run EXCEPT ![r] = R] /\ prep' = [prep EXCEPT ![r] = P]
    BY <1>3 DEF FinalizeWindowExecution
  <2>5. run[r].status \in {"agent_completed", "finalizing"}
    BY <1>3 DEF FinalizeWindowExecution
  <2>. HIDE DEF R, P
  <2>. QED
    BY <1>2, <2>1, <2>2, <2>3, <2>4, <2>5
<1>4. CASE AckEffects(r)
  <2>. DEFINE R == [run[r] EXCEPT !.window = "settled"]
  <2>1. /\ R \in Run /\ R.attempts = run[r].attempts /\ R.fin = run[r].fin
        /\ R.output = run[r].output /\ R.uses = run[r].uses /\ R.deps = run[r].deps
        /\ R.status = run[r].status /\ R.published = run[r].published
    BY <1>1 DEF Run
  <2>2. run' = [run EXCEPT ![r] = R]
    BY <1>4 DEF AckEffects
  <2>3. prep' = [prep EXCEPT ![r] = prep[r]]
    BY <1>4 DEF AckEffects, TypeOK
  <2>. HIDE DEF R
  <2>. QED
    BY <1>1, <1>2, <2>1, <2>2, <2>3
<1>. QED
  BY <1>3, <1>4 DEF Deliver

\* A delivery keeps the charges.
LEMMA DeliverKeeps ==
  ASSUME AttemptInv, NEW r \in Runs, Deliver(r)
  PROVE  AttemptInv'
<1>1. TypeOK
  BY DEF AttemptInv
<1>2. UNCHANGED <<call, dep, turn, history>> /\ lease' = NoLease
  BY <1>1, Delivered
<1>3. PICK R \in Run, P \in Prep :
        /\ run' = [run EXCEPT ![r] = R] /\ prep' = [prep EXCEPT ![r] = P]
        /\ R.attempts = run[r].attempts /\ R.fin = run[r].fin
        /\ P.entry = "none" <=> prep[r].entry = "none"
        /\ \/ /\ R.status = run[r].status /\ R.published = run[r].published
           \/ /\ run[r].status \in {"agent_completed", "finalizing"}
              /\ R.status \in Resumable /\ R.published = "left"
  BY <1>1, Delivered
<1>4. TypeOK'
  <2>1. NoLease \in [holder: Workers \cup {NoOne}, live: BOOLEAN] /\ ~NoLease.live
    BY DEF NoLease
  <2>. QED
    BY <1>1, <1>2, <1>3, <2>1 DEF TypeOK, history
<1>5. ~lease'.live
  BY <1>2 DEF NoLease
<1>6. ASSUME NEW q \in Runs
      PROVE  RunInv(run'[q], prep'[q], spent'[q], wasted'[q])
  <2>1. RunInv(run[q], prep[q], spent[q], wasted[q]) /\ spent' = spent /\ wasted' = wasted
    BY <1>2 DEF AttemptInv, history
  <2>2. CASE q = r
    <3>1. run'[q] = R /\ prep'[q] = P
      BY <1>1, <1>3, <2>2 DEF TypeOK
    <3>2. "failed" \notin {"agent_completed", "finalizing"} /\ "failed" \notin Resumable
      BY DEF Resumable, Parked
    <3>. QED
      BY <1>3, <2>1, <2>2, <3>1, <3>2 DEF RunInv
  <2>3. CASE q # r
    BY <1>1, <1>3, <2>1, <2>3 DEF TypeOK
  <2>. QED
    BY <2>2, <2>3
<1>7. \A w \in Workers : ~Live(w)'
  BY <1>5 DEF Live
<1>. QED
  BY <1>4, <1>5, <1>6, <1>7 DEF AttemptInv

\* Every step keeps the charges.
LEMMA AttemptStep ==
  ASSUME AttemptInv, Next
  PROVE  AttemptInv'
<1>1. CASE (\E c \in Calls : UserAnswers(c) \/ Sweeps(c)) \/ Erasure
  BY <1>1, CallbackKeeps
<1>2. ASSUME NEW w \in Workers, NEW r \in Runs, Select(w, r)
      PROVE  AttemptInv'
  BY <1>2, SelectKeeps
<1>3. ASSUME NEW w \in Workers, NEW c \in Calls, UseTool(w, c)
      PROVE  AttemptInv'
  BY <1>3, ToolKeeps
<1>4. ASSUME NEW w \in Workers, LoseTurn(w) \/ Crash(w)
      PROVE  AttemptInv'
  BY <1>4, Dropped DEF LoseTurn, EndTurn, Crash, tables
<1>5. ASSUME NEW w \in Workers, Continue(w)
      PROVE  AttemptInv'
  BY <1>4, <1>5, PrepareKeeps, DeferKeeps, ComputingKeeps, FinalizeKeeps DEF Continue
<1>6. CASE Lapse
  BY <1>6, LapseKeeps
<1>7. ASSUME NEW r \in Runs, Deliver(r)
      PROVE  AttemptInv'
  BY <1>7, DeliverKeeps
<1>. QED
  BY <1>1, <1>2, <1>3, <1>4, <1>5, <1>6, <1>7 DEF Next

\* So does a step of somebody else.
LEMMA AttemptStutters == AttemptInv /\ UNCHANGED vars => AttemptInv'
BY DEF vars, AttemptInv, TypeOK, Live

\* The charges agree with the work throughout.
LEMMA AttemptInvariant == Spec => []AttemptInv
<1>1. AttemptInv /\ [Next]_vars => AttemptInv'
  BY AttemptStep, AttemptStutters
<1>. QED
  BY <1>1, AttemptInit, PTL DEF Spec

\* The rows of a run, its questions and its turns keep their shape; an
\* attempt, once refunded, was an attempt: no counter goes below zero.
THEOREM ResumeTypes == Spec => []TypeOK
<1>1. AttemptInv => TypeOK
  BY DEF AttemptInv
<1>. QED
  BY <1>1, AttemptInvariant, PTL

\* However often a run is resumed, crashes or is deferred, its model calls are
\* at most max_resume_attempts: begin_extraction_resume charges before each.
THEOREM ComputationsBounded == Spec => []ComputationsAreBounded
<1>1. AttemptInv => ComputationsAreBounded
  BY DEF AttemptInv, RunInv, ComputationsAreBounded, TypeOK, Run
<1>. QED
  BY <1>1, AttemptInvariant, PTL

\* The preparations that come to nothing are at most max_finalization_attempts,
\* those of executions that died between begin and settlement included.
THEOREM PreparationsBounded == Spec => []PreparationsAreBounded
<1>1. ASSUME AttemptInv
      PROVE  PreparationsAreBounded
  <2>1. ASSUME NEW r \in Runs
        PROVE  wasted[r] <= MaxFinalize
    <3>1. /\ wasted[r] \in Int /\ run[r].fin \in Nat
          /\ RunInv(run[r], prep[r], spent[r], wasted[r])
      BY <1>1 DEF AttemptInv, TypeOK, Run
    <3>. QED
      BY <3>1 DEF RunInv
  <2>. QED
    BY <2>1 DEF PreparationsAreBounded
<1>. QED
  BY <1>1, AttemptInvariant, PTL

-----------------------------------------------------------------------------
(* The committed output.                                                   *)

\* Only a completed computation writes an output, and it is one of a run that
\* was resumed.
LEMMA OutputWritten ==
  ASSUME AttemptInv, Next, NEW r \in Runs, run'[r].output # run[r].output
  PROVE  \E w \in Workers : Complete(w) /\ turn[w].run = r
<1>1. run \in [Runs -> Run] /\ run[r] \in Run
  BY DEF AttemptInv, TypeOK
<1>2. CASE (\E c \in Calls : UserAnswers(c) \/ Sweeps(c)) \/ Erasure
  <2>1. Woken(run[r], run'[r])
    BY <1>2, CalledBack DEF AttemptInv
  <2>. QED
    BY <1>1, <2>1, WokenKeeps
<1>3. ASSUME NEW w \in Workers, NEW q \in Runs, Select(w, q)
      PROVE  run'[r].output = run[r].output
  BY <1>1, <1>3 DEF Select, SelectContinuation, SelectFinalization, Adopt, Run
<1>4. ASSUME NEW w \in Workers, NEW s, Outcome(w, s)
      PROVE  run'[r].output = run[r].output
  BY <1>1, <1>4 DEF Outcome, Run
<1>5. ASSUME NEW w \in Workers, Prepare(w) \/ Defer(w)
      PROVE  run'[r].output = run[r].output
  <2>1. ASSUME Charge(w) \/ Defer(w)
        PROVE  run'[r].output = run[r].output
    BY <1>1, <2>1 DEF Charge, Defer, Run
  <2>. QED
    BY <1>4, <1>5, <2>1
    DEF Prepare, CancelErased, RefuseSpent, Load, FindNoAnswer, RefuseStale, Retry
<1>6. ASSUME NEW w \in Workers, FinishComputing(w)
      PROVE  (Complete(w) /\ turn[w].run = r) \/ run'[r].output = run[r].output
  <2>1. CASE Complete(w)
    BY <1>1, <2>1 DEF Complete, Run
  <2>. QED
    BY <1>4, <1>6, <2>1
    DEF FinishComputing, RefuseCompletion, Retry, BusyCompletion, ModelFails, RetryFailed,
        BeginFinalizing, DeferCompleted
<1>7. ASSUME NEW w \in Workers, Finalize(w)
      PROVE  run'[r].output = run[r].output
  <2>1. CASE SettleInterrupted(w)
    BY <1>1, <2>1 DEF SettleInterrupted, Run
  <2>2. CASE Publish(w)
    BY <1>1, <2>2 DEF Publish, Run
  <2>3. ASSUME NEW charge, SettleFailure(w, charge)
        PROVE  run'[r].output = run[r].output
    BY <1>1, <2>3 DEF SettleFailure, Run
  <2>. QED
    BY <1>4, <1>7, <2>1, <2>2, <2>3
    DEF Finalize, Precheck, BeginPreparation, SavePreparation, RefusePublication,
        FailPublication, OutagePublication, BusyPublication, RefuseEarlierEntry, RefuseEarlier
<1>8. ASSUME NEW w \in Workers, Continue(w)
      PROVE  (Complete(w) /\ turn[w].run = r) \/ run'[r].output = run[r].output
  BY <1>5, <1>6, <1>7, <1>8 DEF Continue, LoseTurn
<1>9. ASSUME NEW w \in Workers, (\E c \in Calls : UseTool(w, c)) \/ Crash(w) \/ Lapse
      PROVE  run' = run
  BY <1>9 DEF UseTool, Ask, AttachOpen, ReadAnswer, Crash, Lapse, tables
<1>10. CASE Lapse
  BY <1>10 DEF Lapse
<1>11. ASSUME NEW q \in Runs, Deliver(q)
       PROVE  run'[r].output = run[r].output
  <2>1. PICK R \in Run : run' = [run EXCEPT ![q] = R] /\ R.output = run[q].output
    BY <1>11, Delivered DEF AttemptInv
  <2>. QED
    BY <1>1, <2>1
<1>. QED
  BY <1>2, <1>3, <1>8, <1>9, <1>10, <1>11 DEF Next

\* An output that was committed and not published is never replaced: a run in
\* finalization, or to be finalized again, is not computed again.
THEOREM OutputKept == Spec => NoOutputIsOverwritten
<1>. DEFINE Kept == \A r \in Runs : run'[r].output # run[r].output => run[r].published # "no"
<1>1. ASSUME AttemptInv, Next
      PROVE  Kept
  <2>1. ASSUME NEW r \in Runs, run'[r].output # run[r].output
        PROVE  run[r].published # "no"
    <3>1. PICK w \in Workers : Complete(w) /\ turn[w].run = r
      BY <1>1, <2>1, OutputWritten
    <3>2. run[r].status = "resuming"
      BY <3>1, Found DEF Complete, Resuming
    <3>. QED
      BY <1>1, <3>2 DEF AttemptInv, RunInv, Resumable
  <2>. QED
    BY <2>1
<1>2. AttemptInv /\ [Next]_vars => [Kept]_vars
  BY <1>1
<1>. HIDE DEF Kept
<1>3. Spec => [][Kept]_vars
  BY <1>2, AttemptInvariant, PTL DEF Spec
<1>. QED
  BY <1>3 DEF NoOutputIsOverwritten, Kept

-----------------------------------------------------------------------------
(* Answers and their consumption.                                          *)

\* A dependency is consumed by an output that used the answer there is, or
\* because there is to be none.
DepInv(d, x, r, c) ==
  /\ d.consumed => d.attached /\ x.status \notin {"none", "pending"}
  /\ d.consumed /\ x.status = "resolved" /\ ~x.na => <<r, c, x.version>> \in used
  /\ d.attached /\ x.status = "resolved" /\ x.na => d.consumed
  /\ x.status = "resolved" => x.version > 0

\* A captured dependency was answered, and is one until its call is deleted.
Captured(deps, uses, r) ==
  \A c \in deps : uses[c] > 0 /\ (dep[r][c].attached \/ call[c].status = "deleted")

\* The dependencies, and what runs and turns have captured of them.
ConsumptionInv ==
  /\ \A r \in Runs, c \in Calls : DepInv(dep[r][c], call[c], r, c)
  /\ \A r \in Runs : Captured(run[r].deps, run[r].uses, r)
  /\ \A w \in Workers : Captured(turn[w].deps, turn[w].uses, turn[w].run)

\* Inductive together: a run is parked when nothing is actionable, and then a
\* usable answer is left only where it says "not applicable", so is consumed.
AnswerInv == ConsumptionInv /\ NoAnsweredRunIsParked

\* What the types say of one run and one question.
LEMMA Rows ==
  ASSUME TypeOK, NEW r \in Runs, NEW c \in Calls
  PROVE  /\ run[r] \in Run /\ dep[r] \in [Calls -> Dep] /\ dep[r][c] \in Dep /\ call[c] \in Call
         /\ dep[r][c].at \in Closed..MaxVersion /\ call[c].version \in 0..MaxVersion
         /\ dep[r][c].attached \in BOOLEAN /\ dep[r][c].consumed \in BOOLEAN
         /\ call[c].na \in BOOLEAN /\ call[c].stale \in BOOLEAN
<1>1. run[r] \in Run /\ dep[r] \in [Calls -> Dep] /\ dep[r][c] \in Dep /\ call[c] \in Call
  BY DEF TypeOK
<1>. QED
  BY <1>1 DEF Dep, Call

\* A turn that ends, or goes on with what it has in hand.
SameHand(x, y) == y.deps = {} \/ (y.deps = x.deps /\ y.uses = x.uses /\ y.run = x.run)

\* A step that touches no answer, captures none and parks no run.
Quiet ==
  /\ UNCHANGED <<call, dep, used>>
  /\ \A r \in Runs : /\ run'[r].uses = run[r].uses /\ run'[r].deps = run[r].deps
                     /\ run'[r].status \in Parked => run[r].status \in Parked
  /\ \A w \in Workers : SameHand(turn[w], turn'[w])

\* A step that touches no answer, dependency or capture keeps the answers.
LEMMA QuietKeeps ==
  ASSUME AnswerInv, Quiet
  PROVE  AnswerInv'
<1>1. ASSUME NEW r \in Runs
      PROVE  Captured(run[r].deps, run[r].uses, r)'
  BY DEF AnswerInv, ConsumptionInv, Quiet, Captured
<1>2. ASSUME NEW w \in Workers
      PROVE  Captured(turn[w].deps, turn[w].uses, turn[w].run)'
  BY DEF AnswerInv, ConsumptionInv, Quiet, Captured, SameHand
<1>3. ASSUME NEW r \in Runs, NEW c \in Calls
      PROVE  DepInv(dep[r][c], call[c], r, c)'
  BY DEF AnswerInv, ConsumptionInv, Quiet, DepInv
<1>4. NoAnsweredRunIsParked'
  BY DEF AnswerInv, Quiet, NoAnsweredRunIsParked
<1>. QED
  BY <1>1, <1>2, <1>3, <1>4 DEF AnswerInv, ConsumptionInv

\* The steps that touch none are all but those of users, loads, tools,
\* settlements, erasures and deliveries.
LEMMA QuietSteps ==
  ASSUME TypeOK, Next,
         ~ \E w \in Workers : Load(w) \/ Complete(w) \/ Publish(w) \/ \E c \in Calls : UseTool(w, c),
         ~ \E c \in Calls : UserAnswers(c) \/ Sweeps(c),
         ~ Erasure, ~ \E r \in Runs : Deliver(r)
  PROVE  Quiet
<1>. DEFINE RunsQuiet == \A r \in Runs :
              /\ run'[r].uses = run[r].uses /\ run'[r].deps = run[r].deps
              /\ run'[r].status \in Parked => run[r].status \in Parked
            TurnsQuiet == \A w \in Workers : SameHand(turn[w], turn'[w])
<1>1. run \in [Runs -> Run] /\ turn \in [Workers -> Turn]
  BY DEF TypeOK
<1>2. run' = run => RunsQuiet
  OBVIOUS
<1>3. turn' = turn => TurnsQuiet
  BY DEF SameHand
<1>4. ASSUME NEW w \in Workers, NEW s, s \notin Parked, Outcome(w, s)
      PROVE  RunsQuiet
  BY <1>1, <1>4 DEF Outcome, Run
<1>5. ASSUME NEW w \in Workers, NEW p, EndTurn(w) \/ Advance(w, p) \/ turn' = [turn EXCEPT ![w] = IdleTurn]
      PROVE  TurnsQuiet
  <2>1. turn' = [turn EXCEPT ![w] = IdleTurn] \/ turn' = [turn EXCEPT ![w].phase = p]
    BY <1>5 DEF EndTurn, Advance
  <2>2. turn[w] \in Turn
    BY <1>1
  <2>. QED
    BY <1>1, <2>1, <2>2, Idle DEF SameHand, Turn
<1>6. {"cancelled", "failed", "resume_ready", "finalizing", "finalization_failed", "resuming"}
        \cap Parked = {}
  BY DEF Parked
<1>7. ASSUME NEW w \in Workers, NEW r \in Runs, Select(w, r)
      PROVE  Quiet
  <2>1. PICK s \in {"resuming", "finalizing"}, p \in {"adopted", "selected"} : Adopt(w, r, s, p)
    BY <1>7 DEF Select, SelectContinuation, SelectFinalization
  <2>2. RunsQuiet
    BY <1>1, <1>6, <2>1 DEF Adopt, Run
  <2>3. TurnsQuiet
    <3>. DEFINE x == [IdleTurn EXCEPT !.phase = p, !.run = r]
    <3>1. x.deps = {}
      BY Idle DEF Turn
    <3>2. turn' = [turn EXCEPT ![w] = x]
      BY <2>1 DEF Adopt
    <3>. HIDE DEF x
    <3>. QED
      BY <1>1, <3>1, <3>2 DEF SameHand
  <2>. QED
    BY <2>1, <2>2, <2>3 DEF Adopt, history, Quiet
<1>8. ASSUME NEW w \in Workers, Retry(w)
      PROVE  Quiet
  <2>1. PICK s \in {"failed", "resume_ready"} : Outcome(w, s)
    BY <1>8 DEF Retry
  <2>. QED
    BY <1>4, <1>5, <1>6, <1>8, <2>1 DEF Retry, history, Quiet
<1>9. ASSUME NEW w \in Workers, Prepare(w) \/ Defer(w)
      PROVE  Quiet
  <2>1. CASE CancelErased(w)
    BY <1>4, <1>5, <1>6, <2>1 DEF CancelErased, history, Quiet
  <2>2. CASE RefuseSpent(w)
    BY <1>4, <1>5, <1>6, <2>2 DEF RefuseSpent, history, Quiet
  <2>3. CASE Charge(w)
    <3>1. RunsQuiet
      BY <1>1, <2>3 DEF Charge, Run
    <3>. QED
      BY <1>5, <2>3, <3>1 DEF Charge, Quiet
  <2>4. CASE Defer(w)
    <3>1. RunsQuiet
      BY <1>1, <1>6, <2>4 DEF Defer, Run
    <3>. QED
      BY <1>5, <2>4, <3>1 DEF Defer, Quiet
  <2>. QED
    BY <1>8, <1>9, <2>1, <2>2, <2>3, <2>4 DEF Prepare, FindNoAnswer, RefuseStale
<1>10. ASSUME NEW w \in Workers, FinishComputing(w)
       PROVE  Quiet
  <2>1. CASE BusyCompletion(w)
    BY <1>4, <1>5, <1>6, <2>1 DEF BusyCompletion, history, Quiet
  <2>2. CASE ModelFails(w)
    BY <1>4, <1>5, <1>6, <2>2 DEF ModelFails, history, Quiet
  <2>3. CASE BeginFinalizing(w)
    BY <1>4, <1>5, <1>6, <2>3 DEF BeginFinalizing, history, Quiet
  <2>4. CASE DeferCompleted(w)
    BY <1>4, <1>5, <1>6, <2>4 DEF DeferCompleted, history, Quiet
  <2>. QED
    BY <1>8, <1>10, <2>1, <2>2, <2>3, <2>4 DEF FinishComputing, RefuseCompletion, RetryFailed
<1>11. ASSUME NEW w \in Workers, Finalize(w)
       PROVE  Quiet
  <2>1. CASE SettleInterrupted(w)
    <3>1. RunsQuiet
      BY <1>1, <1>6, <2>1 DEF SettleInterrupted, Run
    <3>2. TurnsQuiet
      BY <1>5, <2>1 DEF SettleInterrupted
    <3>. QED
      BY <2>1, <3>1, <3>2 DEF SettleInterrupted, history, Quiet
  <2>2. CASE Precheck(w)
    BY <1>2, <1>5, <2>2 DEF Precheck, history, Quiet
  <2>3. CASE BeginPreparation(w)
    BY <1>2, <1>5, <2>3 DEF BeginPreparation, Quiet
  <2>4. CASE SavePreparation(w)
    BY <1>2, <1>5, <2>4 DEF SavePreparation, Quiet
  <2>5. ASSUME NEW charge, SettleFailure(w, charge)
        PROVE  Quiet
    <3>1. RunsQuiet
      BY <1>1, <1>6, <2>5 DEF SettleFailure, Run
    <3>. QED
      BY <1>5, <2>5, <3>1 DEF SettleFailure, Quiet
  <2>6. CASE BusyPublication(w)
    BY <1>4, <1>5, <1>6, <2>6 DEF BusyPublication, history, Quiet
  <2>7. CASE RefuseEarlierEntry(w)
    BY <1>2, <1>5, <2>7 DEF RefuseEarlierEntry, history, Quiet
  <2>. QED
    BY <1>11, <2>1, <2>2, <2>3, <2>4, <2>5, <2>6, <2>7
    DEF Finalize, RefusePublication, RefuseEarlier, FailPublication, OutagePublication
<1>12. ASSUME NEW w \in Workers, LoseTurn(w) \/ Crash(w)
       PROVE  Quiet
  BY <1>2, <1>5, <1>12 DEF LoseTurn, Crash, tables, history, Quiet
<1>13. CASE Lapse
  BY <1>2, <1>3, <1>13 DEF Lapse, history, Quiet
<1>. QED
  BY <1>7, <1>9, <1>10, <1>11, <1>12, <1>13 DEF Next, Continue

\* An answer bumps the version of its question and changes others only by
\* superseding them.
LEMMA AnsweredRows ==
  ASSUME TypeOK, NEW c \in Calls, NEW na \in BOOLEAN,
         call' = Answered(c, na) \/ call' = Superseding(c, Answered(c, na))
  PROVE  /\ call'[c].status = "resolved" /\ call'[c].version = call[c].version + 1
         /\ call'[c].na = na
         /\ \A d \in Calls \ {c} :
              \/ call'[d] = call[d]
              \/ call[d].status = "resolved" /\ call'[d].status = "superseded"
<1>. DEFINE x == [call[c] EXCEPT !.status = "resolved", !.version = @ + 1, !.na = na, !.stale = FALSE]
            calls == Answered(c, na)
<1>1. call \in [Calls -> Call] /\ call[c] \in Call
  BY DEF TypeOK
<1>2. calls = [call EXCEPT ![c] = x]
  BY DEF Answered
<1>3. x.status = "resolved" /\ x.version = call[c].version + 1 /\ x.na = na
  BY <1>1 DEF Call
<1>. HIDE DEF x
<1>4. calls[c] = x /\ \A d \in Calls \ {c} : calls[d] = call[d]
  BY <1>1, <1>2
<1>. HIDE DEF calls
<1>5. CASE call' = calls
  BY <1>3, <1>4, <1>5
<1>6. CASE call' = Superseding(c, calls)
  <2>1. call'[c] = x
    BY <1>4, <1>6 DEF Superseding
  <2>2. ASSUME NEW d \in Calls \ {c}
        PROVE  \/ call'[d] = call[d]
               \/ call[d].status = "resolved" /\ call'[d].status = "superseded"
    <3>1. call[d] \in Call
      BY <1>1
    <3>2. \/ call'[d] = call[d]
          \/ call[d].status = "resolved" /\ call'[d] = [call[d] EXCEPT !.status = "superseded"]
      BY <1>4, <1>6 DEF Superseding
    <3>. QED
      BY <3>1, <3>2 DEF Call
  <2>. QED
    BY <1>3, <2>1, <2>2
<1>. QED
  BY <1>5, <1>6 DEF calls

\* A bulk update of runs sets the status of the selected ones.
LEMMA MovedStatus ==
  ASSUME NEW runs \in [Runs -> Run], NEW S, NEW s \in Statuses
  PROVE  /\ Moved(runs, S, s) \in [Runs -> Run]
         /\ \A r \in Runs : Moved(runs, S, s)[r].status = IF r \in S THEN s ELSE runs[r].status
<1>1. ASSUME NEW r \in Runs
      PROVE  /\ [runs[r] EXCEPT !.status = s] \in Run
             /\ [runs[r] EXCEPT !.status = s].status = s
  <2>1. runs[r] \in Run
    OBVIOUS
  <2>. QED
    BY <2>1 DEF Run
<1>. QED
  BY <1>1 DEF Moved

\* What each callback does to the answers, row by row.
LEMMA AnswerRows ==
  ASSUME TypeOK, NEW r \in Runs, NEW c \in Calls, UserAnswers(c) \/ Sweeps(c)
  PROVE  /\ \A d \in Calls \ {c} : dep'[r][d] = dep[r][d]
         /\ dep'[r][c].attached <=> (dep[r][c].attached /\ ~DeleteExpired(c))
         /\ Resolve(c) \/ Cancel(c) \/ Expire(c) => dep'[r][c].consumed = dep[r][c].consumed
         /\ Resolve(c) /\ dep[r][c].attached => dep'[r][c].at # Unresolved
         /\ Edit(c) /\ dep[r][c].attached => dep'[r][c].at # Unresolved /\ ~dep'[r][c].consumed
         /\ Edit(c) /\ ~dep[r][c].attached => dep'[r][c] = dep[r][c]
         /\ MarkNotApplicable(c) /\ dep[r][c].attached => dep'[r][c].consumed
         /\ MarkNotApplicable(c) /\ ~dep[r][c].attached => dep'[r][c] = dep[r][c]
         /\ DeleteExpired(c) => ~dep'[r][c].consumed
         /\ FallDue(c) \/ GoStale(c) => dep' = dep
<1>1. /\ dep \in [Runs -> [Calls -> Dep]] /\ dep[r] \in [Calls -> Dep] /\ dep[r][c] \in Dep
      /\ call[c].version \in 0..MaxVersion
  <2>1. call[c] \in Call
    BY DEF TypeOK
  <2>. QED
    BY <2>1 DEF TypeOK, Call
<1>2. call[c].version + 1 # Unresolved
  BY <1>1 DEF Unresolved
<1>3. ASSUME Resolve(c)
      PROVE  /\ \A d \in Calls \ {c} : dep'[r][d] = dep[r][d]
             /\ dep'[r][c].attached = dep[r][c].attached
             /\ dep'[r][c].consumed = dep[r][c].consumed
             /\ dep[r][c].attached => dep'[r][c].at # Unresolved
  <2>. DEFINE v == IF dep[r][c].at = Unresolved /\ dep[r][c].attached THEN call[c].version + 1
                   ELSE dep[r][c].at
  <2>1. dep'[r] = [dep[r] EXCEPT ![c].at = v]
    BY <1>3 DEF Resolve
  <2>2. dep[r][c].attached => v # Unresolved
    BY <1>2
  <2>. HIDE DEF v
  <2>. QED
    BY <1>1, <2>1, <2>2 DEF Dep
<1>4. ASSUME Edit(c)
      PROVE  /\ \A d \in Calls \ {c} : dep'[r][d] = dep[r][d]
             /\ dep'[r][c].attached = dep[r][c].attached
             /\ dep[r][c].attached => dep'[r][c].at # Unresolved /\ ~dep'[r][c].consumed
             /\ ~dep[r][c].attached => dep'[r][c] = dep[r][c]
  <2>1. dep'[r] = IF dep[r][c].attached
                  THEN [dep[r] EXCEPT ![c].at = call[c].version + 1, ![c].consumed = FALSE]
                  ELSE dep[r]
    BY <1>4 DEF Edit
  <2>2. [dep[r] EXCEPT ![c].at = call[c].version + 1, ![c].consumed = FALSE]
          = [dep[r] EXCEPT ![c] = [dep[r][c] EXCEPT !.at = call[c].version + 1, !.consumed = FALSE]]
    OBVIOUS
  <2>. QED
    BY <1>1, <1>2, <2>1, <2>2 DEF Dep
<1>5. ASSUME MarkNotApplicable(c)
      PROVE  /\ \A d \in Calls \ {c} : dep'[r][d] = dep[r][d]
             /\ dep'[r][c].attached = dep[r][c].attached
             /\ dep[r][c].attached => dep'[r][c].consumed
             /\ ~dep[r][c].attached => dep'[r][c] = dep[r][c]
  <2>. DEFINE v == IF dep[r][c].at = Unresolved THEN call[c].version + 1 ELSE dep[r][c].at
              x == [dep[r][c] EXCEPT !.at = v, !.consumed = TRUE]
  <2>1. dep'[r] = IF dep[r][c].attached /\ ~dep[r][c].consumed
                  THEN [dep[r] EXCEPT ![c].at = v, ![c].consumed = TRUE] ELSE dep[r]
    BY <1>5 DEF MarkNotApplicable
  <2>2. [dep[r] EXCEPT ![c].at = v, ![c].consumed = TRUE] = [dep[r] EXCEPT ![c] = x]
    OBVIOUS
  <2>. HIDE DEF v
  <2>3. x.attached = dep[r][c].attached /\ x.consumed
    BY <1>1 DEF Dep
  <2>. HIDE DEF x
  <2>. QED
    BY <1>1, <2>1, <2>2, <2>3
<1>6. ASSUME Cancel(c) \/ Expire(c)
      PROVE  /\ \A d \in Calls \ {c} : dep'[r][d] = dep[r][d]
             /\ dep'[r][c].attached = dep[r][c].attached
             /\ dep'[r][c].consumed = dep[r][c].consumed
  <2>1. PICK v : dep'[r] = [dep[r] EXCEPT ![c].at = v]
    BY <1>6 DEF Cancel, Expire, ClosedDeps
  <2>. QED
    BY <1>1, <2>1 DEF Dep
<1>7. ASSUME DeleteExpired(c)
      PROVE  /\ \A d \in Calls \ {c} : dep'[r][d] = dep[r][d]
             /\ ~dep'[r][c].attached /\ ~dep'[r][c].consumed
  BY <1>7 DEF DeleteExpired, DeleteCalls, NoDep
<1>8. FallDue(c) \/ GoStale(c) => dep' = dep
  BY DEF FallDue, GoStale
<1>9. /\ Resolve(c) \/ FallDue(c) \/ GoStale(c) \/ Edit(c) \/ MarkNotApplicable(c) \/ Cancel(c)
         \/ Expire(c) => call[c].status # "expired"
      /\ DeleteExpired(c) => call[c].status = "expired"
  BY DEF Resolve, Edit, MarkNotApplicable, Cancel, Expire, DeleteExpired, FallDue, GoStale
<1>. QED
  BY <1>1, <1>3, <1>4, <1>5, <1>6, <1>7, <1>8, <1>9 DEF UserAnswers, Sweeps

\* What users and sweeps may do to questions.
LEMMA CallRows ==
  ASSUME TypeOK, NEW c \in Calls, UserAnswers(c) \/ Sweeps(c)
  PROVE  /\ used' = used
         /\ \A d \in Calls \ {c} :
              \/ call'[d] = call[d]
              \/ call[d].status = "resolved" /\ call'[d].status = "superseded"
         /\ Resolve(c) \/ Edit(c) \/ MarkNotApplicable(c) =>
              /\ call'[c].status = "resolved" /\ call'[c].version = call[c].version + 1
              /\ call'[c].na <=> MarkNotApplicable(c)
         /\ Resolve(c) \/ Cancel(c) \/ Expire(c) => call[c].status = "pending"
         /\ Edit(c) \/ GoStale(c) => call[c].status = "resolved"
         /\ MarkNotApplicable(c) => call[c].status \in {"pending", "resolved"}
         /\ Cancel(c) => call'[c].status = "cancelled"
         /\ Expire(c) => call'[c].status = "expired"
         /\ DeleteExpired(c) => call[c].status = "expired" /\ call'[c].status = "deleted"
         /\ FallDue(c) \/ GoStale(c) =>
              /\ call'[c].status = call[c].status /\ call'[c].version = call[c].version
              /\ call'[c].na = call[c].na /\ call[c].status # "deleted"
              /\ call[c].stale => call'[c].stale
<1>1. call \in [Calls -> Call] /\ call[c] \in Call
  BY DEF TypeOK
<1>2. used' = used
  BY DEF UserAnswers, Sweeps, Resolve, Edit, MarkNotApplicable, Cancel, Expire, DeleteExpired,
         FallDue, GoStale, Callback, history
<1>3. ASSUME Resolve(c) \/ Edit(c)
      PROVE  /\ call'[c].status = "resolved" /\ call'[c].version = call[c].version + 1
             /\ call'[c].na = FALSE
             /\ \A d \in Calls \ {c} :
                  \/ call'[d] = call[d]
                  \/ call[d].status = "resolved" /\ call'[d].status = "superseded"
  <2>1. call' = Superseding(c, Answered(c, FALSE))
    BY <1>3 DEF Resolve, Edit
  <2>. QED
    BY <2>1, AnsweredRows
<1>4. ASSUME MarkNotApplicable(c)
      PROVE  /\ call'[c].status = "resolved" /\ call'[c].version = call[c].version + 1
             /\ call'[c].na = TRUE
             /\ \A d \in Calls \ {c} :
                  \/ call'[d] = call[d]
                  \/ call[d].status = "resolved" /\ call'[d].status = "superseded"
  <2>1. call' = Answered(c, TRUE)
    BY <1>4 DEF MarkNotApplicable
  <2>. QED
    BY <2>1, AnsweredRows
<1>5. ASSUME NEW s, call' = [call EXCEPT ![c].status = s]
      PROVE  call'[c].status = s /\ \A d \in Calls \ {c} : call'[d] = call[d]
  BY <1>1, <1>5 DEF Call
<1>6. Cancel(c) => call'[c].status = "cancelled" /\ \A d \in Calls \ {c} : call'[d] = call[d]
  BY <1>5 DEF Cancel
<1>7. Expire(c) => call'[c].status = "expired" /\ \A d \in Calls \ {c} : call'[d] = call[d]
  BY <1>5 DEF Expire
<1>8. DeleteExpired(c) => /\ call[c].status = "expired" /\ call'[c].status = "deleted"
                          /\ \A d \in Calls \ {c} : call'[d] = call[d]
  BY <1>1 DEF DeleteExpired, DeleteCalls, Call
<1>9. ASSUME FallDue(c) \/ GoStale(c)
      PROVE  /\ call'[c].status = call[c].status /\ call'[c].version = call[c].version
             /\ call'[c].na = call[c].na /\ call[c].status \in {"pending", "resolved"}
             /\ call[c].stale => call'[c].stale
             /\ \A d \in Calls \ {c} : call'[d] = call[d]
  BY <1>1, <1>9 DEF FallDue, GoStale, Call
<1>10. /\ Resolve(c) \/ Cancel(c) \/ Expire(c) => call[c].status = "pending"
       /\ Edit(c) \/ GoStale(c) => call[c].status = "resolved"
       /\ MarkNotApplicable(c) => call[c].status \in {"pending", "resolved"}
  BY DEF Resolve, Edit, MarkNotApplicable, Cancel, Expire, GoStale
<1>11. /\ Resolve(c) \/ Edit(c) => ~MarkNotApplicable(c)
  BY <1>3, <1>4
<1>. QED
  BY <1>2, <1>3, <1>4, <1>6, <1>7, <1>8, <1>9, <1>10, <1>11 DEF UserAnswers, Sweeps

\* An answer given, edited or withdrawn is unconsumed, or consumed for good.
LEMMA AnswerKeepsDeps ==
  ASSUME TypeOK, ConsumptionInv, NEW c \in Calls, UserAnswers(c) \/ Sweeps(c),
         NEW r \in Runs, NEW d \in Calls
  PROVE  DepInv(dep[r][d], call[d], r, d)'
<1>1. DepInv(dep[r][d], call[d], r, d) /\ used' = used
  BY CallRows DEF ConsumptionInv
<1>2. CASE d # c
  <2>1. /\ dep'[r][d] = dep[r][d]
        /\ \/ call'[d] = call[d]
           \/ call[d].status = "resolved" /\ call'[d].status = "superseded"
    BY <1>2, AnswerRows, CallRows
  <2>. QED
    BY <1>1, <2>1 DEF DepInv
<1>3. CASE d = c
  <2>1. call[c].version \in Nat
    BY Rows
  <2>2. CASE Resolve(c)
    <3>1. ~dep'[r][c].consumed
      BY <1>1, <1>3, <2>2, AnswerRows, CallRows DEF DepInv
    <3>2. ~call'[c].na
      <4>1. call' = Superseding(c, Answered(c, FALSE))
        BY <2>2 DEF Resolve
      <4>. QED
        BY <4>1, AnsweredRows
    <3>. QED
      BY <1>3, <2>1, <2>2, <3>1, <3>2, CallRows DEF DepInv
  <2>3. CASE Edit(c)
    <3>1. ~dep'[r][c].consumed
      BY <1>1, <1>3, <2>3, AnswerRows DEF DepInv
    <3>2. ~call'[c].na
      <4>1. call' = Superseding(c, Answered(c, FALSE))
        BY <2>3 DEF Edit
      <4>. QED
        BY <4>1, AnsweredRows
    <3>. QED
      BY <1>3, <2>1, <2>3, <3>1, <3>2, CallRows DEF DepInv
  <2>4. CASE MarkNotApplicable(c)
    <3>1. /\ dep'[r][c].consumed => dep'[r][c].attached
          /\ dep'[r][c].attached => dep'[r][c].consumed
      BY <1>1, <1>3, <2>4, AnswerRows, CallRows DEF DepInv
    <3>. QED
      BY <1>3, <2>1, <2>4, <3>1, CallRows DEF DepInv
  <2>5. CASE Cancel(c) \/ Expire(c)
    <3>1. ~dep'[r][c].consumed
      BY <1>1, <1>3, <2>5, AnswerRows, CallRows DEF DepInv
    <3>. QED
      BY <1>3, <2>5, <3>1, CallRows DEF DepInv
  <2>6. CASE DeleteExpired(c)
    BY <1>3, <2>6, AnswerRows, CallRows DEF DepInv
  <2>7. CASE FallDue(c) \/ GoStale(c)
    BY <1>1, <1>3, <2>7, AnswerRows, CallRows DEF DepInv
  <2>. QED
    BY <2>2, <2>3, <2>4, <2>5, <2>6, <2>7 DEF UserAnswers, Sweeps
<1>. QED
  BY <1>2, <1>3

\* No row is lost while its call is there, and a deleted call stays deleted.
RowsStay ==
  /\ \A r \in Runs, c \in Calls :
       dep[r][c].attached => dep'[r][c].attached \/ call'[c].status = "deleted"
  /\ \A c \in Calls : call[c].status = "deleted" => call'[c].status = "deleted"

\* What a run captured stays attached or was deleted.
LEMMA CapturedStays ==
  ASSUME RowsStay, NEW r \in Runs, NEW deps \in SUBSET Calls, NEW uses, Captured(deps, uses, r)
  PROVE  \A c \in deps : uses[c] > 0 /\ (dep'[r][c].attached \/ call'[c].status = "deleted")
BY DEF RowsStay, Captured

\* Users and sweeps detach nothing.
LEMMA AnswerRowsStay ==
  ASSUME TypeOK, NEW c \in Calls, UserAnswers(c) \/ Sweeps(c)
  PROVE  RowsStay
<1>1. ASSUME NEW r \in Runs, NEW d \in Calls, dep[r][d].attached
      PROVE  dep'[r][d].attached \/ call'[d].status = "deleted"
  BY <1>1, AnswerRows, CallRows
<1>2. ASSUME NEW d \in Calls, call[d].status = "deleted"
      PROVE  call'[d].status = "deleted"
  <2>1. d # c
    BY <1>2, CallRows DEF UserAnswers, Sweeps
  <2>. QED
    BY <1>2, <2>1, CallRows
<1>. QED
  BY <1>1, <1>2 DEF RowsStay

\* An erasure deletes its questions and detaches them, and no others.
LEMMA EraseRows ==
  ASSUME TypeOK, NEW S \in SUBSET Calls, DeleteCalls(S)
  PROVE  /\ RowsStay
         /\ \A c \in Calls : \/ c \in S /\ call'[c].status = "deleted"
                             \/ c \notin S /\ call'[c] = call[c]
         /\ \A r \in Runs, c \in Calls : IF c \in S
              THEN ~dep'[r][c].attached /\ ~dep'[r][c].consumed ELSE dep'[r][c] = dep[r][c]
<1>1. \A c \in Calls : [call[c] EXCEPT !.status = "deleted"].status = "deleted"
  BY DEF TypeOK, Call
<1>2. \A c \in Calls : \/ c \in S /\ call'[c].status = "deleted"
                       \/ c \notin S /\ call'[c] = call[c]
  BY <1>1 DEF DeleteCalls
<1>3. \A r \in Runs, c \in Calls : IF c \in S
        THEN ~dep'[r][c].attached /\ ~dep'[r][c].consumed ELSE dep'[r][c] = dep[r][c]
  BY DEF DeleteCalls, NoDep
<1>. QED
  BY <1>2, <1>3 DEF RowsStay

\* Whatever a callback leaves parked, has read its answers.
LEMMA AnswerParks ==
  ASSUME TypeOK, AnswerInv, ConsumptionInv', NEW c \in Calls, UserAnswers(c) \/ Sweeps(c)
  PROVE  NoAnsweredRunIsParked'
<1>. DEFINE Waits(r, d) == /\ dep[r][d].attached /\ ~dep[r][d].consumed /\ dep[r][d].at # Unresolved
                           /\ call[d].status = "resolved" /\ ~call[d].stale
<1>. SUFFICES ASSUME NEW r \in Runs, run'[r].status \in Parked, NEW d \in Calls, Waits(r, d)'
              PROVE  FALSE
  BY DEF NoAnsweredRunIsParked
<1>1. Actionable(call', dep', r)
  <2>1. ASSUME ~Actionable(call', dep', r)
        PROVE  FALSE
    <3>1. DepInv(dep[r][d], call[d], r, d)'
      BY DEF ConsumptionInv
    <3>. QED
      BY <2>1, <3>1 DEF Actionable, DepInv
  <2>. QED
    BY <2>1
<1>2. run[r].status \in Parked => ~Waits(r, d)
  BY DEF AnswerInv, NoAnsweredRunIsParked
<1>3. d # c => Waits(r, d)
  <2>1. ASSUME d # c
        PROVE  /\ dep'[r][d] = dep[r][d]
               /\ \/ call'[d] = call[d]
                  \/ call[d].status = "resolved" /\ call'[d].status = "superseded"
    BY <2>1, AnswerRows, CallRows
  <2>. QED
    BY <2>1
<1>4. run \in [Runs -> Run]
  BY DEF TypeOK
<1>5. {"resume_ready", "finalized"} \subseteq Statuses /\ "resume_ready" \notin Parked
      /\ "finalized" \in Parked /\ "finalized_pending_tool" \in Parked
  BY DEF Statuses, Parked
<1>6. CASE Resolve(c)
  <2>. DEFINE A == {q \in WithStatus(Parked) \cap Attached(c) :
                      dep'[q][c].at # Unresolved /\ ~dep'[q][c].consumed}
  <2>1. run' = Moved(run, A, "resume_ready")
    BY <1>6 DEF Resolve
  <2>2. r \notin A /\ run[r].status \in Parked
    BY <1>4, <1>5, <2>1, MovedStatus
  <2>3. d = c
    BY <1>2, <1>3, <2>2
  <2>4. dep[r][c].attached
    BY <2>3, <1>6, AnswerRows
  <2>. QED
    BY <2>2, <2>3, <2>4 DEF WithStatus, Attached
<1>7. CASE Edit(c)
  <2>. DEFINE A == {q \in WithStatus(Parked) \cap Attached(c) : Actionable(call', dep', q)}
  <2>1. run' = Moved(run, A, "resume_ready")
    BY <1>7 DEF Edit
  <2>2. r \notin A /\ run[r].status \in Parked
    BY <1>4, <1>5, <2>1, MovedStatus
  <2>3. d = c
    BY <1>2, <1>3, <2>2
  <2>4. dep[r][c].attached
    BY <2>3, <1>7, AnswerRows
  <2>. QED
    BY <1>1, <2>2, <2>4 DEF WithStatus, Attached
<1>8. CASE MarkNotApplicable(c)
  <2>. DEFINE A == {q \in WithStatus(Parked) \cap Attached(c) : Actionable(call', dep', q)}
              B == {q \in WithStatus({"finalized_pending_tool", "resume_ready"}) \cap Attached(c) :
                      ~Actionable(call', dep', q) /\ ~Awaiting(call', dep', q)}
              runs == Moved(run, A, "resume_ready")
  <2>1. run' = Moved(runs, B, "finalized")
    BY <1>8 DEF MarkNotApplicable
  <2>2. r \notin B
    BY <1>1
  <2>3. /\ runs \in [Runs -> Run]
        /\ runs[r].status = IF r \in A THEN "resume_ready" ELSE run[r].status
    BY <1>4, <1>5, MovedStatus
  <2>. HIDE DEF A, B, runs
  <2>4. r \notin A /\ run[r].status \in Parked
    BY <1>5, <2>1, <2>2, <2>3, MovedStatus
  <2>5. d = c
    BY <1>2, <1>3, <2>4
  <2>. QED
    BY <2>5, <1>8, AnswerRows
<1>9. CASE Cancel(c)
  <2>. DEFINE A == {q \in WithStatus({"finalized_pending_tool"}) : ~Awaiting(call', dep', q)}
  <2>1. run' = Moved(run, A, "finalized") /\ A \subseteq WithStatus({"finalized_pending_tool"})
    BY <1>9 DEF Cancel
  <2>. HIDE DEF A
  <2>2. run[r].status \in Parked
    BY <1>4, <1>5, <2>1, MovedStatus DEF WithStatus
  <2>. QED
    BY <1>2, <1>3, <1>9, <2>2, CallRows
<1>10. CASE Expire(c)
  <2>. DEFINE waiting == WithStatus({"finalized_pending_tool"}) \cap Attached(c)
              A == {q \in waiting : Actionable(call', dep', q)}
              B == {q \in waiting : ~Actionable(call', dep', q) /\ ~Awaiting(call', dep', q)}
              runs == Moved(run, A, "resume_ready")
  <2>1. run' = Moved(runs, B, "finalized")
    BY <1>10 DEF Expire
  <2>2. r \in A \cup B => run[r].status \in Parked
    BY <1>5 DEF WithStatus
  <2>3. /\ runs \in [Runs -> Run]
        /\ runs[r].status = IF r \in A THEN "resume_ready" ELSE run[r].status
    BY <1>4, <1>5, MovedStatus
  <2>. HIDE DEF A, B, runs
  <2>4. run[r].status \in Parked
    BY <1>5, <2>1, <2>2, <2>3, MovedStatus
  <2>. QED
    BY <1>2, <1>3, <1>10, <2>4, CallRows
<1>11. CASE DeleteExpired(c)
  <2>1. run' = run
    BY <1>11 DEF DeleteExpired
  <2>. QED
    BY <1>2, <1>3, <1>11, <2>1, CallRows
<1>12. CASE FallDue(c) \/ GoStale(c)
  <2>1. run' = run /\ dep' = dep
    BY <1>12 DEF FallDue, GoStale
  <2>. QED
    BY <1>2, <1>3, <1>12, <2>1, CallRows
<1>. QED
  BY <1>6, <1>7, <1>8, <1>9, <1>10, <1>11, <1>12 DEF UserAnswers, Sweeps

\* Users and sweeps keep the answers: whoever waits beside one is woken.
LEMMA AnswersKeep ==
  ASSUME TypeOK, AnswerInv, NEW c \in Calls, UserAnswers(c) \/ Sweeps(c)
  PROVE  AnswerInv'
<1>1. /\ UNCHANGED <<prep, lease, turn, history>>
      /\ \A r \in Runs : Woken(run[r], run'[r])
  BY CalledBack
<1>2. RowsStay
  BY AnswerRowsStay
<1>3. ASSUME NEW r \in Runs
      PROVE  Captured(run[r].deps, run[r].uses, r)'
  <2>1. run[r] \in Run /\ run'[r].deps = run[r].deps /\ run'[r].uses = run[r].uses
    BY <1>1, WokenKeeps DEF TypeOK
  <2>2. run[r].deps \in SUBSET Calls
    BY <2>1 DEF Run
  <2>3. \A d \in run[r].deps : run[r].uses[d] > 0 /\ (dep'[r][d].attached \/ call'[d].status = "deleted")
    BY <1>2, <2>2, CapturedStays DEF AnswerInv, ConsumptionInv
  <2>. QED
    BY <2>1, <2>3 DEF Captured
<1>4. ASSUME NEW w \in Workers
      PROVE  Captured(turn[w].deps, turn[w].uses, turn[w].run)'
  <2>1. turn[w].deps \in SUBSET Calls /\ turn[w].run \in Runs
    BY DEF TypeOK, Turn
  <2>2. \A d \in turn[w].deps : /\ turn[w].uses[d] > 0
                                /\ dep'[turn[w].run][d].attached \/ call'[d].status = "deleted"
    BY <1>2, <2>1, CapturedStays DEF AnswerInv, ConsumptionInv
  <2>. QED
    BY <1>1, <2>2 DEF Captured
<1>5. ConsumptionInv'
  BY <1>3, <1>4, AnswerKeepsDeps DEF AnswerInv, ConsumptionInv
<1>. QED
  BY <1>5, AnswerParks DEF AnswerInv

\* An erasure keeps the answers.
LEMMA ErasureKeeps ==
  ASSUME TypeOK, AnswerInv, Erasure
  PROVE  AnswerInv'
<1>1. /\ UNCHANGED <<prep, lease, turn, history>>
      /\ \A r \in Runs : Woken(run[r], run'[r])
  BY CalledBack
<1>2. ASSUME NEW r \in Runs
      PROVE  /\ run[r] \in Run /\ run'[r].deps = run[r].deps /\ run'[r].uses = run[r].uses
             /\ run[r].deps \in SUBSET Calls
  BY <1>1, WokenKeeps DEF TypeOK, Run
<1>3. ASSUME NEW r \in Runs, EraseSources(r)
      PROVE  AnswerInv'
  <2>1. UNCHANGED <<call, dep, used>>
    BY <1>1, <1>3 DEF EraseSources, history
  <2>2. \A q \in Runs : run'[q].status = run[q].status
    BY <1>3 DEF EraseSources, TypeOK, Run
  <2>3. \A w \in Workers : SameHand(turn[w], turn'[w])
    BY <1>1 DEF SameHand
  <2>. QED
    BY <1>2, <2>1, <2>2, <2>3, QuietKeeps DEF Quiet
<1>4. CASE EraseForeign
  <2>. DEFINE S == {c \in Foreign : call[c].status # "none"}
              A == {r \in WithStatus({"finalized_pending_tool", "resume_ready", "resuming"}) :
                      \E c \in Foreign : dep[r][c].attached}
              C == {r \in A : Actionable(call', dep', r)}
              B == {r \in A \ C : Awaiting(call', dep', r)}
              runs == Moved(run, A, "finalized")
              runs2 == Moved(runs, B, "finalized_pending_tool")
              runs3 == Moved(runs2, C, "resume_ready")
  <2>1. run' = WithoutForeign(runs3) /\ DeleteCalls(S) /\ S \in SUBSET Calls
    BY <1>4 DEF EraseForeign
  <2>2. /\ RowsStay
        /\ \A c \in Calls : \/ c \in S /\ call'[c].status = "deleted"
                            \/ c \notin S /\ call'[c] = call[c]
        /\ \A r \in Runs, c \in Calls : IF c \in S
             THEN ~dep'[r][c].attached /\ ~dep'[r][c].consumed ELSE dep'[r][c] = dep[r][c]
    <3>. HIDE DEF S
    <3>. QED
      BY <2>1, EraseRows
  <2>3. ASSUME NEW r \in Runs
        PROVE  Captured(run[r].deps, run[r].uses, r)'
    <3>1. \A c \in run[r].deps : run[r].uses[c] > 0 /\ (dep'[r][c].attached \/ call'[c].status = "deleted")
      <4>1. Captured(run[r].deps, run[r].uses, r) /\ RowsStay /\ run[r].deps \in SUBSET Calls
        BY <1>2, <2>2 DEF AnswerInv, ConsumptionInv
      <4>. QED
        BY <4>1, CapturedStays
    <3>. QED
      BY <1>2, <3>1 DEF Captured
  <2>4. ASSUME NEW w \in Workers
        PROVE  Captured(turn[w].deps, turn[w].uses, turn[w].run)'
    <3>1. turn[w].deps \in SUBSET Calls /\ turn[w].run \in Runs
      BY DEF TypeOK, Turn
    <3>. QED
      BY <1>1, <2>2, <3>1, CapturedStays DEF AnswerInv, ConsumptionInv, Captured
  <2>5. ASSUME NEW r \in Runs, NEW c \in Calls
        PROVE  DepInv(dep[r][c], call[c], r, c)'
    <3>1. DepInv(dep[r][c], call[c], r, c) /\ used' = used
      BY <1>1 DEF AnswerInv, ConsumptionInv, history
    <3>. HIDE DEF S
    <3>. QED
      BY <2>2, <3>1 DEF DepInv
  <2>6. ConsumptionInv'
    BY <2>3, <2>4, <2>5 DEF ConsumptionInv
  <2>7. ASSUME NEW r \in Runs, run'[r].status \in Parked, NEW d \in Calls,
               dep'[r][d].attached, ~dep'[r][d].consumed, dep'[r][d].at # Unresolved,
               call'[d].status = "resolved", ~call'[d].stale
        PROVE  FALSE
    <3>1. d \notin S /\ call'[d] = call[d] /\ dep'[r][d] = dep[r][d]
      BY <2>2, <2>7
    <3>2. run[r].status \notin Parked
      BY <2>7, <3>1 DEF AnswerInv, NoAnsweredRunIsParked
    <3>3. Actionable(call', dep', r)
      BY <2>5, <2>7 DEF Actionable, DepInv
    <3>4. r \in A => r \in C
      BY <3>3
    <3>5. {"finalized", "finalized_pending_tool", "resume_ready"} \subseteq Statuses
          /\ "resume_ready" \notin Parked
      BY DEF Statuses, Parked
    <3>6. run \in [Runs -> Run] /\ B \subseteq A
      BY DEF TypeOK
    <3>7. /\ runs \in [Runs -> Run]
          /\ runs[r].status = IF r \in A THEN "finalized" ELSE run[r].status
      BY <3>5, <3>6, MovedStatus
    <3>. HIDE DEF A, B, C, runs
    <3>8. /\ runs2 \in [Runs -> Run]
          /\ runs2[r].status = IF r \in B THEN "finalized_pending_tool" ELSE runs[r].status
      BY <3>5, <3>7, MovedStatus
    <3>. HIDE DEF runs2
    <3>9. /\ runs3 \in [Runs -> Run]
          /\ runs3[r].status = IF r \in C THEN "resume_ready" ELSE runs2[r].status
      BY <3>5, <3>8, MovedStatus
    <3>. HIDE DEF runs3
    <3>10. run'[r].status = runs3[r].status
      <4>1. run'[r] = [runs3[r] EXCEPT !.asked = @ \ Foreign] /\ runs3[r] \in Run
        BY <2>1, <3>9 DEF WithoutForeign
      <4>. QED
        BY <4>1 DEF Run
    <3>. QED
      BY <2>7, <3>2, <3>4, <3>5, <3>6, <3>7, <3>8, <3>9, <3>10
  <2>. QED
    BY <2>6, <2>7 DEF AnswerInv, NoAnsweredRunIsParked
<1>. QED
  BY <1>3, <1>4 DEF Erasure

\* A load captures the versions there are, and keeps the answers.
LEMMA LoadKeeps ==
  ASSUME TypeOK, AnswerInv, NEW w \in Workers, Load(w)
  PROVE  AnswerInv'
<1>. DEFINE r == turn[w].run
            uses == [c \in Calls |-> IF c \in Loaded(r) THEN call[c].version ELSE 0]
            x == [turn[w] EXCEPT !.phase = "loaded", !.deps = Loaded(r), !.uses = uses]
<1>1. turn' = [turn EXCEPT ![w] = x] /\ UNCHANGED <<call, dep, run, used>>
  BY DEF Load, history
<1>2. turn[w] \in Turn /\ r \in Runs
  BY DEF TypeOK, Turn
<1>3. Captured(Loaded(r), uses, r)
  <2>1. ASSUME NEW c \in Loaded(r)
        PROVE  uses[c] > 0 /\ dep[r][c].attached
    <3>1. c \in Calls /\ dep[r][c].attached /\ call[c].status = "resolved"
      BY DEF Loaded
    <3>2. call[c].version > 0
      BY <1>2, <3>1 DEF AnswerInv, ConsumptionInv, DepInv
    <3>. QED
      BY <3>1, <3>2
  <2>. QED
    BY <2>1 DEF Captured
<1>. HIDE DEF uses
<1>4. x.deps = Loaded(r) /\ x.uses = uses /\ x.run = r
  BY <1>2 DEF Turn
<1>. HIDE DEF x
<1>5. ASSUME NEW v \in Workers
      PROVE  Captured(turn[v].deps, turn[v].uses, turn[v].run)'
  <2>1. turn'[v] = IF v = w THEN x ELSE turn[v]
    BY <1>1 DEF TypeOK
  <2>2. Captured(turn'[v].deps, turn'[v].uses, turn'[v].run)
    BY <1>3, <1>4, <2>1 DEF AnswerInv, ConsumptionInv
  <2>. QED
    BY <1>1, <2>2 DEF Captured
<1>6. \A q \in Runs : Captured(run[q].deps, run[q].uses, q)'
  BY <1>1 DEF AnswerInv, ConsumptionInv, Captured
<1>7. \A q \in Runs, c \in Calls : DepInv(dep[q][c], call[c], q, c)'
  BY <1>1 DEF AnswerInv, ConsumptionInv, DepInv
<1>8. NoAnsweredRunIsParked'
  BY <1>1 DEF AnswerInv, NoAnsweredRunIsParked
<1>. QED
  BY <1>5, <1>6, <1>7, <1>8 DEF AnswerInv, ConsumptionInv

\* A settlement keeps the answers: it parks a run only when none is left.
LEMMA CompleteKeeps ==
  ASSUME TypeOK, AnswerInv, NEW w \in Workers, Complete(w)
  PROVE  AnswerInv'
<1>. DEFINE r == turn[w].run
            R == [run[r] EXCEPT !.status = "agent_completed", !.output = @ + 1,
                    !.published = "no", !.uses = turn[w].uses, !.deps = turn[w].deps,
                    !.asked = turn[w].asked]
            x == [turn[w] EXCEPT !.phase = "completed"]
<1>1. /\ run' = [run EXCEPT ![r] = R] /\ turn' = [turn EXCEPT ![w] = x]
      /\ UNCHANGED <<call, dep, used>>
  BY DEF Complete, Advance, history
<1>2. turn[w] \in Turn /\ r \in Runs /\ run[r] \in Run
  BY DEF TypeOK, Turn
<1>3. R.status = "agent_completed" /\ R.deps = turn[w].deps /\ R.uses = turn[w].uses
  BY <1>2 DEF Run
<1>4. x.deps = turn[w].deps /\ x.uses = turn[w].uses /\ x.run = r
  BY <1>2 DEF Turn
<1>. HIDE DEF R, x
<1>5. ASSUME NEW q \in Runs
      PROVE  Captured(run[q].deps, run[q].uses, q)'
  <2>1. run'[q] = IF q = r THEN R ELSE run[q]
    BY <1>1 DEF TypeOK
  <2>2. Captured(run'[q].deps, run'[q].uses, q)
    BY <1>3, <2>1 DEF AnswerInv, ConsumptionInv
  <2>. QED
    BY <1>1, <2>2 DEF Captured
<1>6. ASSUME NEW v \in Workers
      PROVE  Captured(turn[v].deps, turn[v].uses, turn[v].run)'
  <2>1. turn'[v] = IF v = w THEN x ELSE turn[v]
    BY <1>1 DEF TypeOK
  <2>2. Captured(turn'[v].deps, turn'[v].uses, turn'[v].run)
    BY <1>4, <2>1 DEF AnswerInv, ConsumptionInv
  <2>. QED
    BY <1>1, <2>2 DEF Captured
<1>7. \A q \in Runs, c \in Calls : DepInv(dep[q][c], call[c], q, c)'
  BY <1>1 DEF AnswerInv, ConsumptionInv, DepInv
<1>8. NoAnsweredRunIsParked'
  <2>1. \A q \in Runs : run'[q].status \in Parked => run[q].status \in Parked
    BY <1>1, <1>3 DEF TypeOK, Parked
  <2>. QED
    BY <1>1, <2>1 DEF AnswerInv, NoAnsweredRunIsParked
<1>. QED
  BY <1>5, <1>6, <1>7, <1>8 DEF AnswerInv, ConsumptionInv

\* An output is published only from answers that still are what it has read.
LEMMA PublishKeeps ==
  ASSUME TypeOK, AnswerInv, NEW w \in Workers, Publish(w)
  PROVE  AnswerInv'
<1>. DEFINE r == turn[w].run
            R == [run[r] EXCEPT !.published = "yes", !.asked = {},
                                !.status = RemainingStatus(r, dep')]
            deps == [c \in Calls |-> IF c \in run[r].deps
                       THEN [dep[r][c] EXCEPT !.consumed = TRUE] ELSE dep[r][c]]
<1>1. /\ run' = [run EXCEPT ![r] = R] /\ dep' = [dep EXCEPT ![r] = deps]
      /\ turn' = [turn EXCEPT ![w] = IdleTurn] /\ call' = call
      /\ used' = used \cup {<<r, c, run[r].uses[c]>> : c \in {d \in Calls : run[r].uses[d] # 0}}
  BY DEF Publish, EndTurn
<1>2. turn[w] \in Turn /\ r \in Runs /\ run[r] \in Run /\ run[r].deps \subseteq Calls
  BY DEF TypeOK, Turn, Run
<1>3. R.deps = run[r].deps /\ R.uses = run[r].uses /\ R.status = RemainingStatus(r, dep')
  BY <1>2 DEF Run
<1>4. ASSUME NEW c \in run[r].deps
      PROVE  /\ dep[r][c].attached /\ call[c].status = "resolved"
             /\ <<r, c, call[c].version>> \in used'
  <2>1. run[r].uses[c] > 0 /\ (dep[r][c].attached \/ call[c].status = "deleted")
    BY <1>2 DEF AnswerInv, ConsumptionInv, Captured
  <2>2. run[r].uses[c] # 0 /\ c \in Calls
    BY <1>2, <2>1 DEF Run, Versions
  <2>3. call[c].status = "resolved" /\ call[c].version = run[r].uses[c]
    BY <2>2 DEF Publish, Publishable, Current
  <2>. QED
    BY <1>1, <2>1, <2>2, <2>3
<1>5. ASSUME NEW q \in Runs, NEW c \in Calls
      PROVE  /\ dep'[q][c].attached = dep[q][c].attached /\ dep'[q][c].at = dep[q][c].at
             /\ dep'[q][c].consumed = (dep[q][c].consumed \/ (q = r /\ c \in run[r].deps))
  <2>1. dep[q][c] \in Dep
    BY Rows
  <2>2. dep'[q][c] = IF q = r /\ c \in run[r].deps THEN [dep[q][c] EXCEPT !.consumed = TRUE]
                     ELSE dep[q][c]
    <3>1. dep'[q] = IF q = r THEN deps ELSE dep[q]
      BY <1>1 DEF TypeOK
    <3>. QED
      BY <3>1
  <2>. QED
    BY <2>1, <2>2 DEF Dep
<1>6. ASSUME NEW q \in Runs, NEW c \in Calls
      PROVE  DepInv(dep[q][c], call[c], q, c)'
  <2>1. DepInv(dep[q][c], call[c], q, c) /\ used \subseteq used' /\ call' = call
    BY <1>1 DEF AnswerInv, ConsumptionInv
  <2>2. CASE q = r /\ c \in run[r].deps
    BY <1>4, <1>5, <2>1, <2>2 DEF DepInv
  <2>3. CASE ~(q = r /\ c \in run[r].deps)
    <3>1. dep'[q][c].consumed = dep[q][c].consumed
      BY <1>5, <2>3, Rows
    <3>. QED
      BY <1>5, <2>1, <3>1 DEF DepInv
  <2>. QED
    BY <2>2, <2>3
<1>. HIDE DEF R, deps
<1>7. ASSUME NEW q \in Runs
      PROVE  Captured(run[q].deps, run[q].uses, q)'
  <2>1. run'[q].deps = run[q].deps /\ run'[q].uses = run[q].uses
    BY <1>1, <1>3 DEF TypeOK
  <2>2. run[q].deps \subseteq Calls
    BY DEF TypeOK, Run
  <2>. QED
    BY <1>1, <1>5, <2>1, <2>2 DEF AnswerInv, ConsumptionInv, Captured
<1>8. ASSUME NEW v \in Workers
      PROVE  Captured(turn[v].deps, turn[v].uses, turn[v].run)'
  <2>1. turn'[v] = IF v = w THEN IdleTurn ELSE turn[v]
    BY <1>1 DEF TypeOK
  <2>2. turn[v].deps \subseteq Calls /\ turn[v].run \in Runs
    BY DEF TypeOK, Turn
  <2>3. CASE v = w
    BY <2>1, <2>3, Idle DEF Captured
  <2>4. CASE v # w
    BY <1>1, <1>5, <2>1, <2>2, <2>4 DEF AnswerInv, ConsumptionInv, Captured
  <2>. QED
    BY <2>3, <2>4
<1>9. ASSUME NEW q \in Runs, run'[q].status \in Parked, NEW c \in Calls,
             dep'[q][c].attached, ~dep'[q][c].consumed, dep'[q][c].at # Unresolved,
             call'[c].status = "resolved", ~call'[c].stale
      PROVE  FALSE
  <2>1. CASE q = r
    <3>1. run'[q].status = RemainingStatus(r, dep')
      BY <1>1, <1>3, <2>1 DEF TypeOK
    <3>2. RemainingStatus(r, dep') = "resume_ready"
      BY <1>1, <1>9, <2>1 DEF RemainingStatus
    <3>. QED
      BY <1>9, <3>1, <3>2 DEF Parked
  <2>2. CASE q # r
    <3>1. run'[q] = run[q] /\ dep'[q] = dep[q]
      BY <1>1, <2>2 DEF TypeOK
    <3>. QED
      BY <1>1, <1>9, <3>1 DEF AnswerInv, NoAnsweredRunIsParked
  <2>. QED
    BY <2>1, <2>2
<1>. QED
  BY <1>6, <1>7, <1>8, <1>9 DEF AnswerInv, ConsumptionInv, NoAnsweredRunIsParked

\* A question asked or asked again keeps the answers.
LEMMA ToolKeepsAnswers ==
  ASSUME TypeOK, AnswerInv, NEW w \in Workers, NEW c \in Calls, UseTool(w, c)
  PROVE  AnswerInv'
<1>. DEFINE r == turn[w].run
<1>1. turn[w] \in Turn /\ r \in Runs /\ call[c] \in Call
  BY DEF TypeOK, Turn
<1>2. CASE ReadAnswer(w, c)
  <2>. DEFINE uses == [turn[w].uses EXCEPT ![c] = call[c].version]
              x == [turn[w] EXCEPT !.uses = uses]
  <2>1. turn' = [turn EXCEPT ![w] = x] /\ UNCHANGED <<call, dep, run, used>>
    BY <1>2 DEF ReadAnswer, history
  <2>2. call[c].version > 0
    BY <1>1, <1>2 DEF ReadAnswer, AnswerInv, ConsumptionInv, DepInv
  <2>3. \A d \in Calls : uses[d] = IF d = c THEN call[c].version ELSE turn[w].uses[d]
    BY <1>1 DEF Turn, Versions
  <2>. HIDE DEF uses
  <2>4. x.deps = turn[w].deps /\ x.uses = uses /\ x.run = r /\ x.deps \subseteq Calls
    BY <1>1 DEF Turn
  <2>. HIDE DEF x
  <2>5. Captured(x.deps, x.uses, x.run)
    BY <2>2, <2>3, <2>4 DEF AnswerInv, ConsumptionInv, Captured
  <2>6. ASSUME NEW v \in Workers
        PROVE  Captured(turn[v].deps, turn[v].uses, turn[v].run)'
    <3>1. turn'[v] = IF v = w THEN x ELSE turn[v]
      BY <2>1 DEF TypeOK
    <3>2. Captured(turn'[v].deps, turn'[v].uses, turn'[v].run)
      BY <2>5, <3>1 DEF AnswerInv, ConsumptionInv
    <3>. QED
      BY <2>1, <3>2 DEF Captured
  <2>7. \A q \in Runs : Captured(run[q].deps, run[q].uses, q)'
    BY <2>1 DEF AnswerInv, ConsumptionInv, Captured
  <2>8. \A q \in Runs, d \in Calls : DepInv(dep[q][d], call[d], q, d)'
    BY <2>1 DEF AnswerInv, ConsumptionInv, DepInv
  <2>9. NoAnsweredRunIsParked'
    BY <2>1 DEF AnswerInv, NoAnsweredRunIsParked
  <2>. QED
    BY <2>6, <2>7, <2>8, <2>9 DEF AnswerInv, ConsumptionInv
<1>3. CASE Ask(w, c) \/ AttachOpen(w, c)
  <2>. DEFINE x == [turn[w] EXCEPT !.asked = @ \cup {c}]
  <2>1. /\ dep' = Attach(dep, r, c) /\ UNCHANGED <<run, used>>
        /\ turn' = [turn EXCEPT ![w] = x]
        /\ call[c].status \in {"none", "pending"} /\ call'[c].status = "pending"
        /\ \A d \in Calls \ {c} : call'[d] = call[d]
    <3>1. call' = call \/ call' = [call EXCEPT ![c].status = "pending"]
      BY <1>3 DEF Ask, AttachOpen
    <3>2. call[c].status \in {"none", "pending"} /\ call'[c].status = "pending"
      BY <1>1, <1>3 DEF Ask, AttachOpen, Open, TypeOK, Call
    <3>. QED
      BY <1>3, <3>1, <3>2 DEF Ask, AttachOpen, history, TypeOK
  <2>2. ASSUME NEW q \in Runs, NEW d \in Calls
        PROVE  \/ dep'[q][d] = dep[q][d]
               \/ d = c /\ ~dep[q][d].attached /\ ~dep'[q][d].consumed
    <3>. DEFINE y == [NoDep EXCEPT !.attached = TRUE]
    <3>1. ~y.consumed
      BY DEF NoDep
    <3>. HIDE DEF y
    <3>2. dep' = dep \/ (~dep[r][c].attached /\ dep' = [dep EXCEPT ![r][c] = y])
      BY <2>1 DEF Attach, y
    <3>. QED
      BY <1>1, <3>1, <3>2, SMTT(20) DEF TypeOK
  <2>3. RowsStay
    BY <2>1, <2>2 DEF RowsStay
  <2>4. ASSUME NEW q \in Runs
        PROVE  Captured(run[q].deps, run[q].uses, q)'
    <3>1. run[q].deps \in SUBSET Calls /\ Captured(run[q].deps, run[q].uses, q)
      BY DEF TypeOK, Run, AnswerInv, ConsumptionInv
    <3>2. \A d \in run[q].deps : run[q].uses[d] > 0 /\ (dep'[q][d].attached \/ call'[d].status = "deleted")
      BY <2>3, <3>1, CapturedStays
    <3>. QED
      BY <2>1, <3>2 DEF Captured
  <2>5. ASSUME NEW v \in Workers
        PROVE  Captured(turn[v].deps, turn[v].uses, turn[v].run)'
    <3>1. /\ turn[v].deps \in SUBSET Calls /\ turn[v].run \in Runs
          /\ Captured(turn[v].deps, turn[v].uses, turn[v].run)
      BY DEF TypeOK, Turn, AnswerInv, ConsumptionInv
    <3>2. \A d \in turn[v].deps : /\ turn[v].uses[d] > 0
                                  /\ dep'[turn[v].run][d].attached \/ call'[d].status = "deleted"
      BY <2>3, <3>1, CapturedStays
    <3>3. turn'[v].deps = turn[v].deps /\ turn'[v].uses = turn[v].uses /\ turn'[v].run = turn[v].run
      <4>1. x.deps = turn[w].deps /\ x.uses = turn[w].uses /\ x.run = turn[w].run
        BY <1>1 DEF Turn
      <4>. HIDE DEF x
      <4>. QED
        BY <2>1, <4>1 DEF TypeOK
    <3>. QED
      BY <3>2, <3>3 DEF Captured
  <2>6. ASSUME NEW q \in Runs, NEW d \in Calls
        PROVE  DepInv(dep[q][d], call[d], q, d)'
    <3>1. DepInv(dep[q][d], call[d], q, d)
      BY DEF AnswerInv, ConsumptionInv
    <3>2. CASE d = c
      <4>1. ~dep'[q][c].consumed
        BY <2>1, <2>2, <3>1, <3>2 DEF DepInv
      <4>. QED
        BY <2>1, <3>2, <4>1 DEF DepInv
    <3>3. CASE d # c
      BY <2>1, <2>2, <3>1, <3>3 DEF DepInv
    <3>. QED
      BY <3>2, <3>3
  <2>7. NoAnsweredRunIsParked'
    BY <2>1, <2>2 DEF AnswerInv, NoAnsweredRunIsParked
  <2>. QED
    BY <2>4, <2>5, <2>6, <2>7 DEF AnswerInv, ConsumptionInv
<1>. QED
  BY <1>2, <1>3 DEF UseTool

\* A delivery parks an output beside the answers it has captured, and none else.
LEMMA DeliverKeepsAnswers ==
  ASSUME TypeOK, AnswerInv, NEW r \in Runs, Deliver(r)
  PROVE  AnswerInv'
<1>1. UNCHANGED <<call, dep, turn, used>>
  BY Delivered DEF history
<1>2. PICK R \in Run :
        /\ run' = [run EXCEPT ![r] = R] /\ R.uses = run[r].uses /\ R.deps = run[r].deps
        /\ R.status = run[r].status \/ R.status = RemainingStatus(r, dep)
  BY Delivered
<1>3. ASSUME NEW q \in Runs
      PROVE  /\ run'[q].uses = run[q].uses /\ run'[q].deps = run[q].deps
             /\ \/ run'[q].status = run[q].status
                \/ run'[q].status = RemainingStatus(q, dep)
  BY <1>2 DEF TypeOK
<1>4. ASSUME NEW q \in Runs
      PROVE  Captured(run[q].deps, run[q].uses, q)'
  BY <1>1, <1>3 DEF AnswerInv, ConsumptionInv, Captured
<1>5. ASSUME NEW w \in Workers
      PROVE  Captured(turn[w].deps, turn[w].uses, turn[w].run)'
  BY <1>1 DEF AnswerInv, ConsumptionInv, Captured
<1>6. \A q \in Runs, c \in Calls : DepInv(dep[q][c], call[c], q, c)'
  BY <1>1 DEF AnswerInv, ConsumptionInv, DepInv
<1>7. ASSUME NEW q \in Runs, run'[q].status \in Parked, NEW c \in Calls,
             dep[q][c].attached, ~dep[q][c].consumed, dep[q][c].at # Unresolved,
             call[c].status = "resolved", ~call[c].stale
      PROVE  FALSE
  <2>1. RemainingStatus(q, dep) = "resume_ready"
    BY <1>7 DEF RemainingStatus
  <2>2. run[q].status \in Parked
    BY <1>3, <1>7, <2>1 DEF Parked
  <2>. QED
    BY <1>7, <2>2 DEF AnswerInv, NoAnsweredRunIsParked
<1>8. NoAnsweredRunIsParked'
  BY <1>1, <1>7 DEF NoAnsweredRunIsParked
<1>. QED
  BY <1>4, <1>5, <1>6, <1>8 DEF AnswerInv, ConsumptionInv

\* No answer exists and nothing is captured initially.
LEMMA AnswerInit == Init => AnswerInv
<1>. SUFFICES ASSUME Init PROVE AnswerInv
  OBVIOUS
<1>1. TypeOK
  BY AttemptInit DEF AttemptInv
<1>2. ASSUME NEW r \in Runs, NEW c \in Calls
      PROVE  /\ dep[r][c] = [NoDep EXCEPT !.attached = c \in Asked[r]]
             /\ call[c].status \in {"none", "pending"}
  BY DEF Init
<1>3. ASSUME NEW r \in Runs, NEW c \in Calls
      PROVE  DepInv(dep[r][c], call[c], r, c)
  <2>1. ~dep[r][c].consumed
    <3>. DEFINE b == c \in Asked[r]
    <3>1. dep[r][c] = [NoDep EXCEPT !.attached = b]
      BY <1>2
    <3>. HIDE DEF b
    <3>. QED
      BY <3>1 DEF NoDep
  <2>. QED
    BY <1>2, <2>1 DEF DepInv
<1>4. \A r \in Runs : run[r].deps = {}
  BY DEF Init
<1>5. \A w \in Workers : turn[w].deps = {}
  BY Idle DEF Init
<1>6. NoAnsweredRunIsParked
  BY <1>2 DEF NoAnsweredRunIsParked
<1>. QED
  BY <1>3, <1>4, <1>5, <1>6 DEF AnswerInv, ConsumptionInv, Captured

\* Every step keeps the answers.
LEMMA AnswerStep ==
  ASSUME AttemptInv, AnswerInv, [Next]_vars
  PROVE  AnswerInv'
<1>1. TypeOK
  BY DEF AttemptInv
<1>2. CASE UNCHANGED vars
  <2>1. Quiet
    BY <1>2 DEF vars, Quiet, SameHand
  <2>. QED
    BY <2>1, QuietKeeps
<1>3. CASE Next
  BY <1>1, <1>3, AnswersKeep, ErasureKeeps, LoadKeeps, CompleteKeeps, PublishKeeps,
     ToolKeepsAnswers, DeliverKeepsAnswers, QuietSteps, QuietKeeps
<1>. QED
  BY <1>2, <1>3

\* No answer is lost or consumed unread, throughout.
LEMMA AnswerInvariant == Spec => []AnswerInv
BY AttemptInvariant, AnswerInit, AnswerStep, PTL DEF Spec

\* Whatever the order of answers, edits, publications and crashes: an answer is
\* consumed only by a publication that has read the version there is.
THEOREM AnswersAreUsed == Spec => []ConsumedMeansUsed
<1>1. AnswerInv => ConsumedMeansUsed
  BY DEF AnswerInv, ConsumptionInv, DepInv, ConsumedMeansUsed
<1>. QED
  BY <1>1, AnswerInvariant, PTL

\* Whatever the order: no run is parked beside a usable answer it has not
\* consumed, so a selection finds it.
THEOREM AnsweredRunsWake == Spec => []NoAnsweredRunIsParked
<1>1. AnswerInv => NoAnsweredRunIsParked
  BY DEF AnswerInv
<1>. QED
  BY <1>1, AnswerInvariant, PTL
=============================================================================
