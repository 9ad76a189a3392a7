# Reflexio: a TLA+ model of the durable learning core

Reflexio turns the conversations an application publishes into profiles and
playbooks. A publish is cheap and returns at once; learning from it happens
later, in the background, and must survive crashes, provider outages, deleted
data and several server processes at work on the same user. This directory
models that part of the program and the services around it, model-checks it
with TLC and proves its most important properties with TLAPS.

Paths below are relative to `src/reflexio/server/`.

## 1. Inventory

| Component | State it keeps | Operations | What is hard | What makes it correct |
|---|---|---|---|---|
| **Extraction stream** `services/storage/storage_base/_extraction_stream.py`, `.../sqlite_storage/_extraction_stream.py` | admission records of publish requests, interactions with their sequence numbers, one cursor per extractor kind, windows, one work row per user with due time, backlog clock and lease | admit, finalize a session, erase, claim, renew, prepare, begin an attempt, save an outcome, complete, invalidate, five kinds of failure, deliver effects, re-arm, retire | many processes on one user; leases that lapse during a model call; deletion at any moment; retries with a ceiling | no surviving input skipped; no stale write; nothing computed from erased inputs retained; attempts bounded; no lost wake-up; effects handed off at most once |
| **Learning worker** `services/durable_learning/{worker,window_executor,scheduler}.py` | the turn in hand of each thread | discover due users, claim, execute a window, classify its failure, deliver, release | the order of the steps of a turn, and which of them run after the lease is gone | every path ends in exactly one of: commit, charge, yield, release |
| **Operator recovery** `services/extraction/input_recovery.py` | receipts | inspect a held window, re-arm or retire it | the receipt is stale when applied | only what the receipt showed is changed |
| **User work lease** `services/durable_learning/user_lease.py` | lease token; heartbeat flags `lost` and `uncertain` | reserve, claim, renew, fence, release, cancel a turn | renewal answers lost or late | an explicit caller never reports success on a lost lease |
| **Resumable runs** `services/extraction/{resume_worker,resumable_agent,pending_tool_call_dispatch}.py`, `sqlite_storage/agent_run/*` | runs, pending tool calls, dependencies | start, suspend on a call, answer, expire, resume, finalize | an answer races its expiry; two workers resume one run | one resume per answer, each run finalized once |
| **Publication** `services/extraction/publication*.py`, `services/playbook/publication.py` | receipts and preparations | prepare, publish, replay | a crash between outputs and receipt | publication is idempotent |
| **Overflow coordinator** `services/extraction/overflow_*.py` | a journal of provider calls for one large input | plan, adopt, checkpoint, validate, finish | a checkpoint of one process adopted by another | a call of the journal is paid once |
| **Operation locks and generation attempts** `services/operation_state_utils.py`, `sqlite_storage/_operations.py`, `services/base_generation*` | one progress slot per service, one record and one cancellation row per attempt | claim, update, cancel, recover, finish | takeover of a slot that aged while its attempt works; copies written back; cancellation races completion | one owner of the slot; a verdict that is final and hides no failure; a cancellation that stops the attempt it was made for |
| **Playbook aggregation** `services/playbook/aggregation_*.py`, `sqlite_storage/playbook/_aggregation*.py` | leases, operations, clusters | acquire, renew, plan, apply, repair | a renewal that hangs; a run resumed by another process | nothing is applied after the trusted deadline |
| **Playbook optimizer** `services/playbook_optimizer/*` | jobs and candidates | enqueue, evaluate, publish | a playbook edited while it is optimized | a candidate replaces only the version it was made from |
| **Provider circuit and permits** `llm/{provider_circuit,_provider_concurrency}.py` | a circuit per route, permits per provider | admit, succeed, fail, close | late verdicts of calls admitted before the circuit opened | one probe at a time; permits are returned once |
| **Schedulers, callbacks, failure streaks** `scheduling.py`, `callback_executor.py`, `background_work.py`, `org_fanout.py` | threads, keyed queue, streaks | start, stop, wake, submit, drop | wake-ups between check and wait; a full queue | callbacks of a key never overlap; repeated failures escalate |
| **Instance cache** `cache/reflexio_cache.py` | entries, striped locks | get, invalidate, evict | invalidation during construction | after an invalidation no older instance is served |
| **Search runtime** `search_runtime.py`, `operation_limiter.py`, `services/unified_search_service.py` | permits, deadlines, metering queue | admit, run, time out, meter | a permit freed twice or never; late branches | the limits hold |
| **Lineage GC and retention** `services/lineage/*`, `storage/retention_sweep.py` | lineage rows, a simple lock | mark, sweep, resolve | resolve races collection | nothing reachable is collected |
| **Evaluation** `services/agent_success_evaluation/*` | regeneration jobs, outcomes, stall state | enqueue, run, cancel | cancel races completion | a job has one outcome |
| **Embedding service** `llm/embedding_service.py` | request queue, process | submit, batch, restart | the process dies with a batch in it | every request is answered or fails |
| SQLite engine, prompts and model calls, routes, CLI, clients, offline tools | | | | not modelled, see section 8 |

How they interact: `publish` inserts requests and interactions and admits them
to the stream in one transaction. The learning scheduler polls
`claim_extraction`; a worker thread that gets a lease runs one *turn*: it
delivers the effects of a completed window if one is owed, else it prepares a
window, calls the extractor, saves the outcome, publishes it together with the
cursor, and later bills it and hands derived work to the aggregation, tagging
and optimization schedulers. Deleting an interaction fires a SQL trigger that
marks the windows that contain it. Explicit callers (regeneration, operator
recovery) take the same user lease as the workers. The provider circuit decides
whether a failed call counts as an attempt or as a wait.

A window whose first turn asked the user a question leaves a *run* behind; an
answer, given through a route at any time, makes the run due under the same user
lease, and what it publishes is one more source of playbooks. Published playbooks
make aggregation due for their agent version; deletions and edits tell it through
invalidation rows and SQL triggers.

The behaviours a test hardly reaches are listed in `PROJECT.json` under
`hazards`, each at the line where it bites and with the properties that would
catch it.

## 2. Modules

| Module | What it is |
|---|---|
| `WindowSelection` | Pure operators: from the admission records, the surviving inputs and a cursor to the next window. No variables. |
| `WindowSelectionCheck` | The same selection read off rows and slices as `_select` writes it, and a driver that makes the logs on which the two are compared. |
| `ExtractionStream` | The stream of one user: storage methods, worker turns, operator, time, crashes. |
| `CoverageLog` | The abstract promise: cursors that only move forward over positions that are only added. |
| `ResumableRun` | Runs that asked the user something: questions, answers, edits and erasure on one side; selection, the charged model call and the publication of its output on the other. |
| `PlaybookAggregation` | Playbooks of one agent version clustered into agent playbooks by leased units of work, against every writer that takes no lease. |
| `GenerationAttempt` | Batch runs of a generation service (rerun, manual): admission, progress, cancellation, recovery of an aged slot, verdict. |
| `UserLease` | An explicit caller of a user's work: its lease, the heartbeat thread that renews it and the check before it reports success. |
| `OverflowJournal` | The journal of provider calls of one large window, worked on by turns that lose their lease, are refused and die. |
| `CallbackExecutor` | The bounded pool that coalesces deferred callbacks by key. |
| `InstanceCache` | The cached instance of an organization, its version probe and its construction. |
| `ProviderCircuit` | The breaker of a provider route and the calls it admits. |
| `WindowSelection_proofs` | Selection as a function of the log: when there is a window, and how long it is. |
| `ExtractionStream_proofs` | The stream: types; ownership of the window; derived work handed off at most once. |
| `ExtractionCoverage_proofs` | Selection leaves no gap; the refinement of `CoverageLog`; what is passed was published; no wake-up is lost. |
| `ExtractionAttempts_proofs` | The ledger and the ceiling, holds, the backlog clock, outcomes retained of erased inputs. |
| `ResumableRun_proofs` | Types, attempts, outputs, answers. |
| `PlaybookAggregation_proofs` | Types; items, clusters and agent playbooks in step. |
| `GenerationAttempt_proofs` | Types; the verdict, final and honest; the slot; cancellation, on request, in time and without residue. |
| `Components_proofs` | The two readings of selection; the callback executor, the cache, the circuit, the user lease and the overflow journal; the instance that bundles them. |
| `MCExtractionStream`, `MCResumableRun`, `MCGenerationAttempt`, `MCComponents` | Constants, settings and instances for TLC. |

`ExtractionStream` extends `WindowSelection`; it instantiates `CoverageLog`
with a refinement mapping (`Log == INSTANCE CoverageLog WITH ...`). The other
components share no row with one another except two: the lease of a user, which
`ExtractionStream`, `ResumableRun`, `UserLease` and `OverflowJournal` have (each
lets it lapse or be taken at any moment, so each stands for the turns of the
others), and the playbooks a publication adds, which are the writers of
`PlaybookAggregation`.

### Correspondence

*Positions.* `ingestion_seq` numbers the interactions of a user from 1. A
request is the record of its `learning_admission` JSON: first and last number,
session, eligible kinds, force flag, finished flag, window and stride size, idle
and batch-wait deadline. `live` is the set of interactions whose row exists.

*Rows.* `cursor[k]` is the row of `extraction_cursors` for kind `k`
(`completed` = `consumed_seq`, `started`, `window`, `attempts`, `retry` =
`retry_at`, `error` = `last_error`). `windows[i]` is a row of
`extraction_windows`. A window that was erased before it was published is deleted
(`invalidate_extraction`); the model keeps its row as `"erased"` only so that
its id is not used again. `due`, `clock` and `lease` are `learning_work.due_at`, `pending_since`
and `lease_token` with `lease_until`. `lastTurn` is the order of the cursors by
`last_turn`, ties included.

*Transactions.* A method of the store runs in one transaction, so it is one
action, with the fence, the reads, every `UPDATE` and the release of the row in
it. Everything between two methods may interleave with anything else.

*Turns.* `turn[w].phase` is the program counter of
`DurableLearningWorker._execute_owned_opportunity` and
`WindowExecutor.deliver`; `window`, `attempts` and `saved` are the fields of
the `Window` the thread carries and which may be stale when used; `reserved`
says whether this turn debited an attempt. Phase `ending` is the `finally`
clause of `_turn`.

*Failures.* `_handle_window_failure` classifies an exception; each class is an
action: `RetryExtraction`, `WaitForProvider`, `FailInputBudget` (input too
large, hopeless or other configuration error), `DiscardComputation`,
`SuspendExtraction`, `YieldTurn`, `DeferSetup`, `FailStale`, `LoseLease`. The
constant `Failures` names those that happen in an instance.

*Time.* No property depends on how long something takes, only on what has
passed and what has not. A retry time is `"due"`, `"later"` or `"never"`
(`inf`); the due time of the row is `"now"`, `"later"` or `"never"`; the
backlog clock is `"off"` (0), `"fresh"`, `"aged"` (old enough to alarm) or
`"parked"` (at a deadline that is still to come); a lease is live or not. The
actions under "Time" move them.

*Runs.* In `ResumableRun`, `call[c]` is a row of `_pending_tool_calls`, `dep[r][c]`
one of `_run_tool_dependencies`, `run[r]` one of `_agent_runs` with the witnesses
of its committed output, `prep[r]` the preparation attempt and the saved
preparation. An answer is its version: `resolved_at` and the result text always
change together, and readers compare nothing else. `due` and `stale` are
`expires_at` and `valid_until` in the past. A callback is one transaction.
A turn goes `adopted` (claimed), `loaded`, `computing`, `completed` or `failed`,
and for the publication `selected` or `finalizing`, `checked`, `preparing`,
`prepared`; each write is fenced by the lease, the claimant and the status
(`Owns`). Claim and selection are one action, since the selected run is read
again under the claim; the check for erased sources is part of the step it
precedes; releasing the lease is part of a turn's last write, a crash in between
being a crash of an idle holder. `user_work_token` is the claimant's name, which a
worker reuses only after it has released or lost it. `entry` is the preparation
a turn has begun (`"mine"`) or a lost one left (`"orphaned"`); `earlier` says that
entry or preparation is of an output before the last.

A run in `Windows` is that of an extraction window, as `window:%` ids are.
`window` says whether the effects of that window are still owed, are settled
(or there is no window), or will never be delivered because an erasure invalidated
it first; selection requires a window that is completed and not invalidated, as
both clauses of `resume_selection.py` do. `FinalizeWindowExecution` and `AckEffects`
are the two steps of `WindowExecutor.deliver` that touch the run, taken under a
free lease. The first parks a run whose output is not published if that output
asked something (`asked`, the `pending_tool_call_ids`); `published = "left"` marks
such an output.

*Aggregation.* `item[p]` and `cluster[c]` are the rows of
`playbook_aggregation_item` and `playbook_aggregation_cluster`; the id of a
cluster is a hash of its first members in the code and that set here. `stale` is
the set of unprocessed invalidations, `pending` the flag the scheduler claims on,
`claimed` the holder of the lease. A unit of work is `claimed`, `applied`
(invalidations), `staged` (intake), `planned` (its tasks are in hand; the model
is called here), `swept` and `counted`. `Plan` is what `_run_incremental` reads and
decides before the calls: clusters marked for it are rebuilt (`Rebuilds`), residual
playbooks near a cluster refresh it (`Refreshes`), and the others are clustered once
there are `TriggerCount` of them, into groups of at least `MinClusterSize`
(`Creations`). Each outcome is one transaction that validates the claim. `current`
says that the state version is still the one claimed. `agents` are the agent
playbooks that are in use and that aggregation may supersede; `displaced` those
whose emptied cluster was created again
(section 7).

*Lease.* `token` and `unexpired` are `learning_work.lease_token` and whether
`lease_until` is to come. `owner[c]` is the `_UserWorkOwner` of caller `c` with its
two flags and the caller's place in `user_extraction_lease`; the three reads of
`validate_explicit_return` (`lost`, `uncertain`, the row) are three actions, since
the heartbeat runs between them. `beat[c]` is what a renewal was answered at the
row and has not yet been heard; an answer may be `failed` although the row was
renewed. `warned` (history) says that an answer given after the lease was lost had
been heard when the body ended. A caller's name is used again only when its former
heartbeat has ended, as a fresh token would be.

*Journal.* `journal` is the manifest in `generation_request_snapshot.overflow`: the
number of `attempts` (each reservation has an id of its own, so that the ids are
not needed) and the checkpoint. `turn[t].copy` is `OverflowCoordinator._manifest`;
`current` says that its revision is the row's, which is what `expected_revision`
compares. `holder` is the turn that passes both fences of a write, that of the
lease and that of the adopted run; a lapse and a cancellation look alike, as both
leave the thread running and its writes refused. A request is named by its step,
or it is a changed one. A turn has an answer (`metered`, `cutOff`, `unmetered`)
before anything has asked whether it came in time: one that did not is a failed
call (`CallFails`), and if the breaker is open meanwhile (`CallIsRefused`) the
attempt of an unmetered one is given back, while the refund of a metered one is
refused (`RefundIsRefused`). `paid` and `cut` are history: the calls sent less those
that failed in an outage with no usage observed, and the cut answers observed.

*Services.* `callbacks[c]` is a queued object with the fire it would run now; the
pending table names the object by the fire that created it. `getter[g]` is a
thread in `get_reflexio`, between its locks; instances are numbered because the
eviction compares identities, and `version` is the stored configuration's.
`circuit` is `_Circuit` with `opened_until` and the age of the probe reduced to
whether they have passed.

*Attempts.* In `GenerationAttempt`, `slot` is the row
`{service}::{org}::progress` with `owner` = `current_request_id`; `record[a]`
is `generation_attempt::...::a`, `finished` when its `current_request_id` is
null; `flag[a]` is the cancellation row (`absent`, or present and `down` or
`up`). Every storage call or transaction is an action; a progress write is
`ReadProgress` and then `WriteProgress` or `RefuseWrite`, with the copy in
`worker[a].copy`. `aged` says that `started_at` is 600 seconds ago, which is
all the slot knows about time: a batch of many users is normally older than
that, so aged slots with a live attempt are ordinary. A route admits the
attempt and hands it to a background task (`"admitted"`, then `Begin`); a
direct call goes on at once. Manual generation selects its users before it
claims; the model lets a claim be followed by any selection, which covers it.
A cancel request is `RequestCancellation`, `RaiseFlag`, `Recheck` and possibly
`WithdrawFlag`; `named` tells a request by attempt from one by service.
`FindStale` and `RecoverStale` are the status poll and the check that precedes
a new attempt, which do the same. The marker a refused claim leaves in the
row's queue is not modelled: nobody reads it.

*Slips.* Operators whose comment begins with "Slip:" are not part of the
specification. Each is a plausible mistake in one definition (a dropped term, a
missing fence, a swapped order). Substituting it must break the property named
beside it in `PROJECT.json`, which shows that the property is sensitive to the
code it is about.

## 3. Runs

| Run | Question | Bounds |
|---|---|---|
| `StreamCoverage` | Is a surviving input ever skipped? Does the stream implement `CoverageLog`? | 1 worker, windows of two inputs with stride one over 3 arrivals, erasures, session ends |
| `StreamStale` | What can a turn do after its lease lapsed? What stays retained of erased inputs? Is derived work handed off once? Is a wake-up lost? | 2 workers, 2 inputs, lapses and erasures at any point of execution and delivery, effects that fail |
| `StreamRecovery` | Are attempts bounded and kept, and does a turn under its lease know them? Can every hold be released? | 2 workers and the operator, one input, every failure class of a plain window, crashes, lapses, 2 attempts, 1 re-arm |
| `StreamTwoKinds` | Does a completing extractor silence the alarm of a failing one? | both kinds over 2 inputs, one under the overflow coordinator, outages, suspensions, changed evidence |
| `StreamProgress` | Is every urgent input passed? Are owed effects settled? | `FairSpec`, crashes, outages, effects that fail, the operator |
| `Attempts` | Is a verdict final and honest? Who writes a young slot? Does a cancellation reach the attempt it was made for, in time, and leave no row behind? | 2 attempts in three settings: *succession* (1 user, cancellation by attempt and by service, crashes), *recovery* (the same with polls, cancellation by attempt), *verdict* (2 users, failing users and storage calls, cancellation by attempt) |
| `ResumeAnswers` | Is an answer consumed unread, an attempt free, an output lost? | 2 workers, the run of 1 window and its delivery, 2 questions, 2 attempts to compute and 2 to publish, 2 versions of each answer; every failure |
| `ResumeSettles` | Can an answer be left on a parked run? Does a woken run settle? | `FairSpec`, the same with 1 worker (no lapse of a live turn, so that a second one would only repeat it), one question shared with a user whose data may be erased; expiry, withdrawal, erasure of sources before and after the delivery |
| `Components` | The components that share no state with the others, one per behaviour | below |
| `ErasureKeepsHold`, `EditIsForgotten`, `OrphanedAgent` | Three statements of the source that the code does not keep (section 7) | smallest instance that shows each |

`Components` bundles eight small state machines. Their product would say nothing
that they do not say alone, so a behaviour picks one (`focus`) at the start and the
rest stand still:

| `focus` | Question | Bounds |
|---|---|---|
| `selection` | Does the set reading of `_select` agree with the reading on ordered rows and slices? | every log that 3 requests under 5 policies leave, with erasures, session ends and completions |
| `alone` | Do clusters, items and agent playbooks stay in step while everybody writes? | 3 playbooks, 2 agent playbooks, 1 unprocessed invalidation, 1 scheduler that may die; its lease runs out once it is dead; no explicit operation |
| `pair` | The same, with a unit that goes on after it lost its claim | 2 schedulers; the writers that touch what a unit has planned |
| `callbacks` | Is a callback forgotten? | 2 keys and calls without one, 2 workers, a queue of 2, 5 submissions |
| `cache` | Is an older instance served after an invalidation or a probe? | 2 threads, 2 writes of the configuration, 3 instances |
| `circuit` | Is a probe forgotten? | 3 calls, 2 failures open it, 2 doublings |
| `lease` | Does an explicit caller report success although its heartbeat was told of the loss? | 1 caller, its heartbeat, any other turn |
| `journal` | Is a call paid for without being counted, or twice? | 2 turns, 1 chunk that may be split, 4 calls, 2 cut answers per request |

Why the bounds are enough. The selection looks at a window, at the inputs behind it
and at the boundary after it; three requests make one of each, with every relation
between their policies. Stale turns need two workers and a second window that the
stale one could hit. A ceiling of two attempts has a first, a last and (after a
re-arm) an extra one; larger ceilings repeat the middle. A takeover needs two
attempts, and a cancelled one that goes on wrongly shows it with the second user. A
resumed run needs a question answered before and one asked during a turn, and an
answer with an older and a newer version. Aggregation needs a cluster of two
(`TriggerCount`, `MinClusterSize`), a third playbook to attach, and a second agent
playbook to be superseded by. A queue of two has an oldest and a newest; a fifth submission finds
it full while both workers run. The eviction that hits the wrong instance needs
three. Three calls of a circuit are a probe, one admitted before it, and one
refused. A rejected chunk, its two halves and their reconciliation are four calls; a
chunk that is not split leaves three to be lost, cut off or given back; the model
has `AttemptLimit` in the place of 128 and `MaxTruncated` in the place of 4, since
both only count.

`MaxSeq`, `WindowIds`, `MaxRearms`, `MaxVersion`, `MaxInstances`, `MaxFires` and
`MaxStale` bound counters. When they are used up nothing arrives any more, hence
`CHECK_DEADLOCK FALSE`: a user with nothing to learn, a batch that is over and a
service nobody calls are quiet, which is a legal end.

What an instance leaves out to keep a property meaningful: `FlagsAreSwept` is
checked outside the setting in which the sweep's own storage call may fail;
`OneMoreUserAtMost` with cancellation by attempt where there are polls, and
`VerdictHidesNoFailure` without them (section 7); `ResumeAnswers` has the
constraint `Apart`, which keeps cases apart that would multiply its states: a stale
answer, a "not applicable" and an output left by a delivery do not meet in one state,
a changed answer meets neither another one nor a stale one, and a run whose window is
delivered is not followed, since where nothing is erased it goes on as one whose
delivery never comes. `ResumeSettles` has no constraint, but no stale and no
not-applicable answers, because of observations (a) and (b).

Workers, attempts, callers, playbooks and agent playbooks are interchangeable, so
the safety runs use their symmetry; no liveness property is checked under it. Kinds
are not interchangeable (their order breaks ties).

## 4. Fairness

`FairSpec` of the stream assumes what the scheduler does and nothing about the world
that the code could not survive without:

- the scheduler keeps polling and starts a turn of a due user whose lease is
  free: `SF` on `ClaimExtraction`, since a lease held by the operator comes and
  goes; `claim_extraction` orders by `last_turn`, so a due user is not passed
  over for ever;
- a started turn runs on (`WF` per worker); clocks advance (`WF` on the time
  actions); an abandoned lease expires;
- an operator returns to what stays held and retires it (`SF`). Held windows are
  held for an operator by design: without one they stay;
- disturbances that the code charges to nothing (crash, provider outage,
  suspension, busy input, failed setup, failed effects) come to an end. The code
  puts no bound on them on purpose, and an outage that never ends delivers
  nothing. Ordinary failures are *not* among them: they spend attempts until the
  cursor is held. One consequence of that boundary is worth knowing: a busy
  yield does not rotate the cursors (`yield_extraction_turn` leaves
  `last_turn`), so an input that is busy for ever also starves its sibling.

`EveryUrgentInputIsPassed` speaks of inputs with a force flag or a batch-wait
deadline. Others may wait for company as long as they like.

`FairSpec` of the resumed runs: a turn goes on (`WF` on `Continue` of each worker),
a selectable run is eventually selected (`WF` per run: the selection orders by age),
and a lease whose holder is gone runs out (`WF` on `Lapse`). Users owe no answer, no
delivery is assumed to come, and failures may happen or not: `AnsweredRunSettles` holds because each of them is
paid for by the run's own attempts.

## 5. What is proved

The theorems hold for every value of the constants that meets the assumptions of the
modules, each of which TLC evaluates in the runs: any number of workers, windows,
inputs and kinds, every window shape and ceiling (`StreamAssumption`, the assumptions
of `WindowSelection`), any request shapes with a stride no longer than the window
(`PoliciesAssumption`); any number of attempts, callers and users
(`AttemptAssumption`); at least one run, any questions and any limits (`RunAssumption`); any
callers (`LeaseAssumption`), chunks and limits of calls (`JournalAssumption`);
finitely many playbooks, a trigger of at least two and any least cluster size
(`AggregationAssumption`); any number of threads, keys, instances and calls, any queue
size and threshold (`CallbackAssumption`, `CacheAssumption`, `CircuitAssumption`).

| Theorem | Statement |
|---|---|
| `WindowSelection_proofs!SelectionIsComplete` | a window is selected exactly where inputs pend and the batch is full or behind a barrier |
| `WindowSelection_proofs!SelectionIsExact` | it holds what a full batch asks for, or everything up to the first barrier, and fits the window size |
| `ExtractionStream_proofs!TypeCorrect` | `Spec => []TypeOK` |
| `ExtractionStream_proofs!FencedTurn` | `Spec => [](CursorNamesOpenWindow /\ HolderOwnsWindow)` |
| `ExtractionStream_proofs!HandedOffOnce` | `Spec => []DerivedHandoffAtMostOnce` |
| `ExtractionCoverage_proofs!StreamImplementsLog` | `Spec => ImplementsLog` |
| `ExtractionCoverage_proofs!PassedIsPublished` | `"retire" \notin Commands => (Spec => []PassedMeansPublished)` |
| `ExtractionCoverage_proofs!NothingIsMissed` | `OnePolicy \/ "erase" \notin Environment => (Spec => []NoLostWakeup)` |
| `ExtractionCoverage_proofs!CutsAreExact` | `Spec => [][...]_vars`: what `SelectionIsExact` says, of each window that a turn cuts |
| `ExtractionAttempts_proofs!DebitsKept` | `Spec => []DebitsAreKept` |
| `ExtractionAttempts_proofs!CeilingKept` | `Spec => []CeilingHolds` |
| `ExtractionAttempts_proofs!TurnsKnow` | `Spec => []TurnsKnowTheirCharge` |
| `ExtractionAttempts_proofs!ErasureLeavesNoOutcome` | `Spec => []RetainedOutcomesSurvive` |
| `ExtractionAttempts_proofs!OnlyErasureStrandsHold` | `Spec => [](\A k \in Kinds : cursor[k].retry = "never" => Releasable(k) \/ Erased(k))` |
| `ExtractionAttempts_proofs!HoldsRecoverable` | `"erase" \notin Environment => (Spec => []HeldIsRecoverable)` |
| `ExtractionAttempts_proofs!FailuresKeepAging` | `"retire" \notin Commands => (Spec => FailureKeepsAging)` |
| `ResumableRun_proofs!ResumeTypes` | `Spec => []TypeOK` |
| `ResumableRun_proofs!ComputationsBounded` | `Spec => []ComputationsAreBounded` |
| `ResumableRun_proofs!PreparationsBounded` | `Spec => []PreparationsAreBounded` |
| `ResumableRun_proofs!OutputKept` | `Spec => NoOutputIsOverwritten` |
| `ResumableRun_proofs!AnswersAreUsed` | `Spec => []ConsumedMeansUsed` |
| `ResumableRun_proofs!AnsweredRunsWake` | `Spec => []NoAnsweredRunIsParked` |
| `PlaybookAggregation_proofs!AggregationTypes` | `AggregationSpec => []AggregationTypeOK` |
| `PlaybookAggregation_proofs!ClustersAndItemsMatch` | `AggregationSpec => []ClustersMatchItems` |
| `PlaybookAggregation_proofs!NoRetirementMissed` | `AggregationSpec => []RetiredMembersAreTracked` |
| `PlaybookAggregation_proofs!EveryAgentSpeaks` | `AggregationSpec => []AgentsSpeakForClusters` |
| `GenerationAttempt_proofs!AttemptTypes` | `Spec => []TypeOK` |
| `GenerationAttempt_proofs!VerdictStands` | `Spec => VerdictIsFinal` |
| `GenerationAttempt_proofs!CancelledWhenAsked` | `Spec => []CancelledOnlyWhenAsked` |
| `GenerationAttempt_proofs!YoungOwnerAlone` | `Spec => YoungOwnerIsAlone` |
| `GenerationAttempt_proofs!FlagsSwept` | `"fault" \notin Environment => (Spec => []FlagsAreSwept)` |
| `GenerationAttempt_proofs!SettingsFlagsSwept` | `SettingsSpec => []FlagsAreSweptUnfailing` |
| `GenerationAttempt_proofs!NoFailureHidden` | `"poll" \notin Environment => (Spec => []VerdictHidesNoFailure)` |
| `GenerationAttempt_proofs!OneMoreUser` | `~({"cancelBroad", "poll"} \subseteq Environment) => (Spec => []OneMoreUserAtMost)` |
| `Components_proofs!LossReported` | `LeaseSpec => []LostLeaseIsReported` |
| `Components_proofs!CallsCounted` | `JournalSpec => []CallsAreCounted` |
| `Components_proofs!ReceiptsAreKept` | `JournalSpec => ReceiptsAreReused` |
| `Components_proofs!ProbeRemembered` | `CircuitSpec => []NoProbeIsForgotten` |
| `Components_proofs!InvalidationSeen` | `CacheSpec => InvalidationIsSeen` |
| `Components_proofs!FreshHitCurrent` | `CacheSpec => FreshHitIsCurrent` |
| `Components_proofs!FiresRemembered` | `CallbackSpec => []NoFireIsForgotten` |
| `Components_proofs!KeysSerial` | `CallbackSpec => []KeysAreSerial` |
| `Components_proofs!ReadingsAgree` | `Spec => []AgreesWithRows` (of `WindowSelectionCheck`) |
| `Components_proofs!InstanceIsEachComponent` | `Aggregators # {} => (ComponentsSpec => Spec /\ AggregationSpec /\ CallbackSpec /\ ...)` |
| `Components_proofs!ComponentsTyped` | `Aggregators # {} => (ComponentsSpec => []ComponentsTypeOK)` |

*Hypotheses.* Seven theorems leave out one behaviour, because with it the statement is
false of the code:

- `PassedIsPublished`, without `retire`: an operator who retires a held window passes
  its inputs unpublished, which is what retiring is for. The refinement
  `StreamImplementsLog` has no such hypothesis.
- `FailuresKeepAging`, without `retire`: retiring restarts the clock (observation (g)).
- `NothingIsMissed`, without erasures or with one window policy for all requests of a
  kind: observation (j) needs both, the policy that changes and the erasure.
- `HoldsRecoverable`, without erasures: finding 1 is the counterexample. What is left of
  it with erasures is `OnlyErasureStrandsHold`: a hold that no command accepts stands
  where an erasure struck a window.
- `FlagsSwept`, without `fault`: a sweep whose storage call fails leaves its row
  (observation (g)).
- `NoFailureHidden`, without polls, and `OneMoreUser`, without either polls or
  cancellation by service: observation (g) tells what they do together.

The runs keep to the same hypotheses, by their constants or, in `Attempts`, by the
settings. The excluded behaviour stays in the model and in the other theorems.

The two theorems about the bundled instance take at least one aggregator, since its
setting `alone` names one.

*Selection.* Both theorems are about one log, in order (`Ordered`) and with strides no
longer than windows (`Sliding`). The visible inputs are the first of the pending ones, so
whatever is pending behind them is behind any barrier that ends the batch; a barrier that
waits or idles is positive and at or behind a visible input, so the batch it ends is not
empty.

*Readings.* `AgreesWithRows` compares sets with lists. Rows of a finite set of numbers
exist and are unique (`RowsAscend`), a position is one more than the number of smaller
rows (`RowRank`), so a slice of the list is what a count picks from the set
(`HeadIsEarliest`, `TailIsLatest`), and a context joined to a window still ascends. What
it needs of the history is `HistoryInv`: requests are numbered in order and without overlap,
and every surviving input belongs to exactly one of them, so that the owner `_inputs`
joins in is the owner the set reading looks up.

*Types.* `TypeOK` of the stream is inductive because it also says that every window
a cursor or a turn names has a row. Without that, `windows[turn[w].window]` would be
a function applied outside its domain. There is a lemma per group of actions; the
`Take` and `CutWindow` steps are where a new row appears.

*Ownership.* `HolderOwnsWindow` is not inductive. The fence only says that the
token is still on the row, so the invariant must say why the token implies the
rest: `OwnInv` joins it with `TypeOK` and with `CursorNamesOpenWindow` (a cursor
names an open window of its own kind that begins where the cursor stands). The
argument: there is one row, so one holder; the holder takes the window from the
cursor; whoever moves a cursor or closes a row passed the fence, so it is the
holder, and it leaves the executing phases or gives the lease back in the same
transaction. `QuietTables` names the steps that do neither.

*Handoff.* At-most-once rests on the claim and not on the lease: the worker
that emits may have lost the lease long ago. `HandoffInv` says that a window not
yet claimed has no handoff and no worker about to make one, that a worker about
to make one is alone and first, and that a worker past the billing step has
billed; a claim that finds the flag set goes straight to the acknowledgement.

*Coverage.* `CoverInv` adds to ownership that the log is in order (`LogOrdered`:
inputs are numbered without reuse, no cursor is ahead of them), that an open window
holds exactly the surviving inputs of its kind between its predecessor and its end
(`OpenWindowsCover`), and that only closed windows deliver. When a window is cut, the
lemmas on selection show that it leaves no gap: the inputs selected are the first of
those that are wanted, and the overlap lies before the cursor. Afterwards inputs in
that range may vanish and none can join, since new ones are numbered behind. So the
cursor that jumps to the end of a window passes nothing else. Each step of the
stream then is a step of `CoverageLog` or a stutter.

*Wake-ups.* `WakeInv`: while the row is parked for ever, nothing is owed, no cursor has a
retry to come, a cursor that may run has no window and nothing to select or to wait for
(`Asleep`), and no worker has the lease, so that nobody is about to change that. Only
`PrepareNothing` parks the row so, and only when nothing is owed, retried or timed
(`NextDue`); publications, session ends and commands make it due. The remaining step is
an erasure on a sleeping row: it cannot fill a batch, and the first pending input keeps
its policy or hands over to one with the same sizes (`ErasureLetsRest`). The invariant
also says that requests have the kinds and the policy some admission gave them
(`AsAdmitted`).

*Ledger.* `DebitsAreKept` is not inductive, because the cursor is written by a turn
that knows only what it read. `ChargeInv` says what that is: a turn that passes the
fence finds the count it started from, plus its own debit (`TurnsKnowTheirCharge`); a
window that may be computed again has been charged less than the ceiling
(`ChargeableIsBelowCeiling`); nothing is charged before the window exists. Most steps
are covered by one frame, in which holders, cursors and retained outcomes stay.

*Holds.* `HoldInv` assumes nothing of erasures: only an erasure invalidates a window; an
open window that no erasure struck keeps its inputs; a turn that passes the fence gives a
window up only where it was struck; and a held cursor either names its window and a reason or
stands where a struck window was cut. Where nothing is erased the second case
is empty, and what an operator needs to be shown the hold follows.

*Retained outcomes.* An erasure clears the outcome of each window it finds by the
manifest, but only of windows that are open or whose effects are owed. `RetainInv`
says that no other has one: a row that retains an outcome is not invalidated, its
inputs exist, and it is open, or completed with effects owed. A save is fenced
and looks at the mark, so what it needs is that the inputs of an unmarked open window
exist (`HoldInv`) and that the window a holder executes is its cursor's
(`CoverInv`); publication passes the outcome on with the effects it owes, and the
acknowledgement drops both.

*Resumed runs.* `AttemptInv` speaks of a run and of a turn that still has the lease:
each computation is one of the attempts on the row, each preparation is an attempt
or the entry that notes one, and a resumable run has its last output published, or
left by a delivery (`RunInv`); a turn that loaded a run found an attempt left, one that computes has
paid, and so on (`HandInv`), whatever callbacks have made of the status since. For
the answers, `ConsumptionInv` says of each dependency that it is consumed by an output
made from the version there is, or because there will be none (`DepInv`), and of what
a turn or run captured that it was answered (`Captured`). It is inductive only
together with `NoAnsweredRunIsParked` (`AnswerInv`).

*Attempts.* `TypeOK` becomes inductive as `TypeInv`: a thread about to count a
user off has one left, a request in flight names an attempt, and a row with an
owner has a status. The verdict is final because an attempt with a verdict is on
its way out (`FinalInv`), and the one write it may still try there, marking
itself failed when its sweep fails, is refused by the record. A cancellation is
traced by `AskedInv` from the request over the flag and the thread to the
record, and along the second way it can travel: through the slot into the
copies that progress writes and polls put back. `OwnersInv` (whoever shows in the slot,
in a copy or in a request was admitted, and a poll recovers only a slot that is still
aged) carries the rest: `SweptInv` adds that a finished attempt shows no progress in its
slot, `FailuresInv` follows a failed user from the hand of the thread into record and
slot (`CountedFor`). `SettingsFlagsSwept` is `SweptInv` again, for the two settings of the
run that have no failing storage, next to the third that has. `LateInv` follows a cancellation from the flag: the flag is up or
makes no difference from the moment it is raised (`RaisedInv`), and an attempt that
began a user after that is not about to begin another (`LateFor`).

*Aggregation.* Writers take no lease, so what a unit planned may be out of date when its
transaction runs. `AggregationInv` says why the tables still agree: the tasks of the
holder of the claim stand (`PlansStand`): the members of a task wait as residual items
of no cluster under repair but the one the task repairs, no two tasks touch, and each
member is still current or named by an invalidation that is not yet processed. Only the holder applies
invalidations, and it applied them before it planned. An active cluster counts its
member items exactly, unless its id was created again over an older row, when it counts
at most those (`CountsMatch`); a cluster that is not active counts none (`IdleCounts`).
`RetiredMembersAreTracked` and `AgentsSpeakForClusters` are invariants on top of that one.
The proofs go through the kinds of step named in `Move`.

*User lease.* `LeaseInv`: once the row has another token it does not return to the old
one, so an answer heard after that stays true (`LossIsFinal`), and a caller that is
warned still sees a flag when it looks, because no renewal that succeeded is left to
lower it (`WarningIsKept`).

*Journal.* `JournalInv`: a copy that is current is the row and of a window not yet
extracted (`TurnInv`); the row counts the answers cut off, at least the calls
`paid` counts, and an extracted window has every receipt (`RowInv`); the calls under way are
among the paid ones (`OutInv`), so giving one back never takes the count below those
that are out.

*Circuit.* `CircuitInv` adds to the property that a closed circuit has not seen the
failures that open it: then every outcome that unmarks the circuit has either
replaced it or found no call with a probe's ticket.

*Cache.* `CacheInv` follows an instance from construction to the getter that
returns it. The construction lock has one holder, in the phases of construction
(`LockInv`); the entry has loaded what the last completed invalidation was about
(`EntryInv`); what a getter has in hand is as recent as it began, by what its phase
has established (`GetterInv`); and what one getter builds no other has in hand yet
(`Unseen`). The two action properties are read off the steps that serve.

*Pool.* `PoolInv`: an object waits at one place; the entry of a key names the object
that waits for it and each waiting object of a key is the entry's; running callbacks
have keys of their own; every fire that is neither started nor dropped nor overtaken
is the one some waiting object would run. Without the second part an overwritten
entry could hide an object and its fire.

Only model-checked is liveness (`EveryUrgentInputIsPassed`, `EffectsAreSettled`,
`AnsweredRunSettles`): it rests on fairness, and the prover does not reason about `ENABLED`.

Every invariant and every safety action property of the passing runs is a theorem, under the
hypotheses above.

## 6. Reading the properties

- `PassedMeansPublished`, `ImplementsLog`: what "consumed" means. A window's end is
  computed over the rows that survive, the cursor jumps to it, and rows may vanish
  at any moment; no surviving row may lie behind the cursor without having been
  published.
- `HolderOwnsWindow`: what the fence buys, across tables that five different
  transactions change. `TurnsKnowTheirCharge`: the failure handlers write the attempts
  a turn read before the model call plus its own debit, hold included; the fence must
  make that arithmetic true, or one failure is charged twice or a hold is lost.
- `RetainedOutcomesSurvive`: an erasure clears what was computed from the input, but
  only in windows it finds by their manifest and that are open or owe effects. A save,
  a publication, a retirement or an acknowledgement in between must leave no outcome
  the erasure could not see.
- `DebitsAreKept`, `CeilingHolds`: the ledger. `spent` counts computations that
  were charged and not refunded; the cursor must know of all of them although it
  is written by other turns than the one that computed.
- `HeldIsRecoverable`: a hold can be shown to an operator. `NoLostWakeup`: a row
  parked at infinity has nothing to wake up for. `FailureKeepsAging`: the age alarm
  is not silenced by somebody else's progress.
- `DerivedHandoffAtMostOnce`, `EffectsAreSettled`: effects are delivered, the
  best-effort ones at most once.
- `VerdictHidesNoFailure`, `VerdictIsFinal`, `YoungOwnerIsAlone`: the slot may
  be lost to another attempt at any moment, and writes are conditional on an
  owner read earlier; the verdict must still say what happened.
- `CancelledOnlyWhenAsked`, `OneMoreUserAtMost`, `FlagsAreSwept`: a request is
  three storage calls against a batch that may end in between. It may stop
  nobody else, must stop the attempt it was acknowledged for, and leaves nothing.
- `ConsumedMeansUsed`: `used` records which version of an answer an output was
  published from. The answer may be edited between any two of loading, computing,
  preparing and publishing. `NoAnsweredRunIsParked`: the callback wakes only parked
  runs, so the publication itself must look for answers that came while it worked.
- `ComputationsAreBounded`, `PreparationsAreBounded`: charge before the work,
  refund only what this turn charged; `spent` and `wasted` count the work itself.
- `NoOutputIsOverwritten`: a retained output is published before the run computes
  again; the exception are outputs a delivery parked without a receipt. `AnsweredRunSettles`:
  no cycle of failure, refund and retry is endless, and nothing strands a woken run but an
  erasure before the delivery of its window or a delivery in the middle of a preparation
  (`Stranded`; observations (l) and (m)).
- `ClustersMatchItems`, `RetiredMembersAreTracked`, `AgentsSpeakForClusters`: three
  tables and the agent playbooks, written by units in several transactions and by
  everybody else in between. A cluster created again over its older row may have items
  of its first life: its count is exempt from being exact, and at most their number.
- `NoFireIsForgotten`, `InvalidationIsSeen`, `FreshHitIsCurrent`,
  `NoProbeIsForgotten`: what the services promise to threads that meet in them.
- `LostLeaseIsReported`: a renewal that was refused or failed is knowledge, and the
  caller may not report success against it.
- `CallsAreCounted`: the charge is written before the call and outlives the turn. A call
  whose usage was observed, that failed while the breaker was closed, or whose end
  nobody settled stays charged; one lost in an outage without usage is given back,
  whether or not it was served. `ReceiptsAreReused`: what was paid for is kept,
  whichever thread writes last.

## 7. Findings

1. **An erasure on the last attempt holds the extractor for ever**
   (`ErasureKeepsHold`). The last admission pre-arms the hold (`retry_at = inf`).
   If the input is erased during that computation, `invalidate_extraction`
   detaches the window and leaves the hold. No window is left that a receipt
   could name, and the extractor of that user never selects again. The docstring
   says the surviving inputs are selected anew. `OnlyErasureStrandsHold` proves that nothing
   but such an erasure puts a hold out of the operator's reach.
2. **An edited answer may be forgotten** (`EditIsForgotten`). While the output that
   used the old answer is retained for another publication, the edit wakes nobody
   and every publication refuses the changed answer, until the run fails with
   resume attempts left. The client promises another resume.
3. **A cluster created again keeps its former agent playbook** (`OrphanedAgent`).
   The id of a cluster hashes its first members. Members edited in place empty the
   cluster and are staged again by the same unit, which may create the same cluster
   before the sweep looks for emptied ones; the row that named the agent playbook to
   supersede has been written over.

Observations. Those marked with a quotation disagree with a comment of the source
and have no run of their own; the others contradict no statement.

- (a) The selection of resumed runs ignores `valid_until`, and the check at
  execution refuses an answer that has lapsed, without a charge: such a run is
  selected again and again until something else changes it.
- (b) A run woken by an answer that is then marked not applicable finds nothing to
  resume for and stays `resume_ready`, neither resumed nor parked again.
- (c) A crash between the agent's own failure record and the requeue by its worker
  leaves a run failed with attempts left (`resumable_agent.py:1226`,
  `resume_worker.py:1215`).
- (d) `finish_playbook_aggregation_claim` writes `pending` from a backlog it read
  before, and may overwrite a flag raised in between; the repair every 300 seconds
  raises it again.
- (e) A probe that takes longer than its time lets a second one in: "exactly one
  call is admitted as a probe" (`llm/provider_circuit.py:15`) holds for calls that
  end in time.
- (f) Members found redundant are judged against the agent playbook in use and
  become final; the sweep may then supersede that playbook.
- (g) `retire_extraction_window` restarts the backlog clock although a sibling waits
  for the provider (`_extraction_stream.py:1684`, comment at 1679). A cancellation
  by service withdraws one by attempt that raised the same row
  (`operation_state_utils.py:606` against `lib/_operations.py:133`). The recovery of
  an aged slot writes back a copy and may erase a failure counted in between
  (`lib/_operations.py:84` against `operation_state_utils.py:407`). A sweep whose
  storage call fails leaves its row.
- (h) A renewal that hangs raises no flag, so that an explicit caller may report
  success after a takeover it was not told of; its writes are fenced all the same. A
  refusal heard between the two reads of `validate_explicit_return` is not looked at
  when `uncertain` is down.
- (i) An answer cut off that arrives without usage metadata, or after the turn lost
  its lease, is not counted as such: "at most this many truncated dispatches"
  (`overflow_coordinator.py:97`) holds for observed ones. An answer without usage that
  is followed by a missed deadline while the breaker is open is given back although it
  was served (`CallIsRefused`), so "Return one reserved attempt that the provider never
  answered" (`storage_base/_extraction_stream.py:3471`) holds of what the journal
  knows, not of the provider; `CallsAreCounted` leaves such a call out.
- (j) The policy of a batch is that of its first pending input: if that input asked
  for a larger window and is erased, the rest may be a full batch under the next
  policy, but the row was parked at infinity and no erasure touches `due_at`. So
  `NoLostWakeup` is checked, and proved, where the requests of a kind share a policy or
  nothing is erased.
- (k) An admitted attempt whose background task starts after another took its aged
  slot over returns at the claim, leaving its record in progress for ever.
- (l) A run of a window that was woken by an answer, and whose source is erased before the
  effects of the window are delivered, is never selected again: the trigger invalidates
  a completed window that owes effects (`sqlite_storage/_extraction_stream.py:71`) and
  selection asks for one that is not invalidated (`resume_selection.py:52`). The run
  stays `resume_ready`, or keeps an output it cannot publish.
- (m) A delivery parks a run of its window that has asked something without looking for
  the receipt of its output, although "Completion plus the immutable receipt proves
  publication" (`window_executor.py:785`). The resumed output is then lost to a later
  resume. If a preparation of it was saved, publications of the later output are refused
  with "Unpublished preparation cannot be replaced" and charged until the run fails; if one
  was under way, its entry can neither be read nor settled, and the run stays `finalizing`
  and is selected again and again.

## 8. Not modelled

- Within the stream: the rotation between resumable runs and windows
  (`_user_work_position`), and `reset_legacy_extraction_policy`, which runs once per
  deployment. Fairness between users is an assumption (section 4).
- Resumed runs: the waits of `next_resume_at` (a run is selectable or not),
  `cache_until`, the step budget, the delivery and acknowledgement of a committed
  output's own receipt (the delivery of the window's effects is modelled), first turns, runs under the overflow coordinator, selected recovery by
  an operator. `expire_pending_tool_calls` and `fail_running_agent_runs_for_request`
  have no callers.
- Aggregation: adoption of legacy clusters, full reruns, the intake floor, explicit
  operations (only their fence on the state version), vectors and centroids.
  Cooldowns, batch limits and the trusted deadline of the heartbeat are
  nondeterministic choices.
- `UserLease`: the capacity budget, nested contexts, the clock. `OverflowJournal`:
  tools and questions of a step, package protocol 2, the allowance of
  reconciliation, a changed prompt context, chunks that yield nothing, adoption of
  legacy output, the witnesses of contents (a source or answer that changed makes
  the turn give up).
- Callbacks: throttling of alarms and the drain at shutdown. Cache: more than one
  organization, the memo of search scopes, the prefetch of the version, statistics.
  Circuit: more than one route, announcements, killed threads.
- In `operation_state_utils.py`: the lock with a queue of pending requests
  (`acquire_lock`, `release_lock_pop_queue`, `clear_lock`). Profile and playbook
  generation run under the user lease instead and success evaluation does not
  track progress, so no service reaches it. Bookmarks and fingerprints are plain
  upserts. `StorageFails` stands for a call that raised without effect.
- SQLite itself: transactions are taken to be serialisable, which `BEGIN
  IMMEDIATE` gives.
- What a model returns, prompts, parsing and deduplication: data, not protocol.
- Routes, CLI, clients, documentation, integrations, benchmarks, the offline tuner:
  most of the repository's lines, with no shared protocol state of their own.
- The other components of section 1: the optimizer, search runtime, lineage and
  retention, evaluation, embedding service.

## 9. Plan

Done: the modules of section 2 with their runs, and the theorems of section 5.

Theorems to prove next: the refinements between the models that share the user lease
(each has its own copy of the row), and the stride between two windows of one kind, which
relates a cut to the one before it.

Components still to model, in this order: optimization jobs, lineage resolution
against collection, permits of search and provider calls, evaluation jobs.
