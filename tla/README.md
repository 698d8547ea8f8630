# enterprise_os: a TLA+ model of its task state, actuation, console and SDK

The backend of this repository (`src/backend/app`, Python, one asyncio process
per server, PostgreSQL or SQLite behind SQLAlchemy) turns a *directive* into a
plan of tasks, lets worker agents execute them, has people approve what is to
be published or spent, and sends the approved *dispatches* to ad, social and
CMS providers.  People work with it through the *console* (`src/frontend`,
TypeScript, one page at a time in a browser), and programs drive its sandboxes
through an *SDK* (`src/sandbox/sdk/js`, TypeScript).  This directory models the
parts of the three where concurrency, failure and ordering decide whether that
is done correctly.

Contents: [inventory](#inventory) · [modules](#modules-and-their-correspondence-to-the-code) ·
[runs](#runs) · [fairness](#fairness) · [proofs](#proofs) · [findings](#findings) ·
[observations](#observations) · [abstractions](#abstractions-and-limits) ·
[not modelled](#not-modelled) · [plan](#plan)

Paths below are relative to `src/backend/app`, in the sections on the console to
`src/frontend/src`, and in those on the SDK to `src/sandbox/sdk/js/src`, unless
they start with `src/`.

## Inventory

| Component | State | Operations | Hard behaviour |
|---|---|---|---|
| Task state machine `orchestration/task_state_machine.py`, `schemas/task_state.py` | none; it maps documents (CanonicalTaskState) to documents | transition, retry, acquire_lock, release_lock, set_governance_approval, restore_checkpoint | long legal sequences: what may follow a recovery, a retry, a hold |
| Task state service and repository `services/task_state.py` (1-260), `persistence/repositories/task_state.py`, `base.py` | one row per task; `_retry_counts` in memory | get_state, save_state, transition, hold/resume, handle_task_failure, recover_task_checkpoint, reserve/commit/release_budget; development leases and checkpoints | read, await, write: version check outside the UPDATE, blind saves, retried transactions, lost counts after a restart |
| Outbound gateway `mcp/outbound_gateway.py` | execution records, readiness, nonces, rate buckets, a semaphore, all in memory; the task row; the provider's own state | validate_readiness, execute | retries racing with calls under way, unknown outcomes, snapshots written back after an await, partial failure, restart |
| Approval coordinator `services/hitl.py` | previews and decisions in memory | submit_for_approval, decide, invalidate_approval, verification of approvals | decisions lost or revoked between check and use |
| Directive execution `api/routes/directives.py`, `orchestration/intelligence_engine.py`, `orchestration/dag_scheduler.py` | stored tasks, the run's own copies of them | execute_directive, _run_dag_in_background, topological_order, execute_dag, assemble_task_grant, delegate_task | copies going stale during a run, a plan refused half-way, a lost background run |
| Approvals, tasks, telemetry API `api/routes/*.py`, composition `main.py` | none of their own | HTTP handlers | approvals are decided twice on the same coordinator |
| Development workflow `orchestration/development_state_machine.py`, leases in `services/task_state.py` (1180-) | development state, checkpoints, lease of each task | guarded transitions, acquire/renew/release lease | lease expiry while the holder works |
| Telemetry `services/telemetry_engine.py`, `persistence/repositories/telemetry.py` | work items with lease owner and generation | enqueue, claim, complete, fail, recover | late workers, fencing, exhausted retries |
| Sandbox provisioner `integrations/sandbox/*.py` | running sandboxes, replay keys | create, execute, destroy | replay, cleanup after partial failure |
| Provenance, memory, attribution, disaster recovery, policy, context, MCP host, workers, adapters, observability | see `PROJECT.json` | | mostly stateless or append-only |
| SDK fetcher `core/fetcher/*.ts` | attempts, timer and signal of each call; requests on the wire | preparation, attempt, retry after a delay, timeout, abort, reading of the body | repeated requests that are not idempotent, requests that outlive their call, errors that hide what happened |
| SDK endpoint clients `api/resources/*/client/*.ts` | none | 140 methods with their error types | a status the method types and the error does not know, or the other way round |
| Console client `lib/api.ts` | directives, tasks, previews, ledger and receipts in memory | create, execute, one-click cycle, advance, run all, decide, seal, emit, attest | every request has a timeout and a fallback that writes the same stores; what timed out may still be carried out |
| Console pages `app/*/page.tsx` | flags and histories of a page that is there | the buttons | handlers of a page that was left; one flag for several; a loop over a list that changes |
| Console shell `lib/settings.ts`, `components/layout/Header.tsx` and the effects of the pages | settings in localStorage and in each component, intervals, loads under way | save, reset, storage of other tabs, enter, select, poll | intervals that capture what is gone, overlapping loads, writes that fail silently |

How they interact.  `execute_directive` stores the tasks of a plan and starts
`execute_dag` as a background task of the same process; that run *blindly
saves* its own copies of the documents, while operators go through the
*version-checked* transition of the service.  The gateway reads the task row,
moves it APPROVED -> DISPATCHED -> COMPLETED / FAILED / HELD with snapshots it
keeps across awaits, and edits the budget entries of the same row with blind
saves.  All of it is cooperative: anything may run at an `await`, nothing
elsewhere.  What is in memory is gone after a restart; the rows are not.

The console calls the backend over HTTP.  Its client keeps stores of its own and
goes on without the backend: what is refused, times out or cannot be parsed is
done in the stores instead.  Handlers run on one thread and interleave at their
awaits; leaving a page does not stop its handlers.  The views poll, each with an
interval of its own, and read the address of the backend from the settings at
every request.  The SDK's calls are independent of each other but for the
sandbox they reach.

What makes each part correct:

* *task state*: a stored document is explained by its audit trail of
  checkpoints; recorded history is not lost; reasons and retry counts agree
  with the status; a ledger is never negative and never claims money nobody
  spent; budgets are within their cap (they are not: see the observations);
* *gateway*: nothing is sent that nobody has approved, or whose approval was
  revoked (it is: `outbound_revoked`); nothing is sent twice; success is never
  reported without an effect; exposure is not forgotten; a failure without an
  effect holds no budget; every call ends;
* *directive execution*: order respects the dependencies; a worker is called
  at most once and only after all its upstream workers succeeded; a held task
  is not started; every run ends, unless the server does;
* *SDK*: a call returns once, a success was carried out, a typed error was not;
  nothing is repeated that the server did not ask for; an aborted call is quiet;
* *console*: what is shown as decided is so, or is on record as the client's own
  decision; buttons are disabled exactly while a decision is under way; a
  gesture starts one run at most, lists its directive once and leaves one row
  per task; receipts in the backend's name are the backend's;
* *shell*: everyone has the settings that requests are made with; no interval
  leaks; what is shown is current in the end, but for a board that keeps its rows.

## Modules and their correspondence to the code

`PROJECT.json` maps every definition to the lines it translates.

**Task state**

* `TaskStateMachine` - documents as records and the methods of the Python class
  as operators (`CanTransition` / `Transition` ... : guard and result).  A
  checkpoint keeps its status and the operation that wrote it.  Also the budget
  arithmetic, and `TrailLegal`: when an audit trail explains a document.
* `TaskStateService` - clients calling the service.  `store` is the table,
  `failures` is `_retry_counts`, `pc`/`work` the coroutine frames.  Every
  operation is `Read...` (get_state and computation) followed later by
  `Save` (save_state) or by `SelectMatches`/`SelectConflicts` and `Update`
  (the transaction of compare_and_swap_state), with `RetryTransaction`,
  `WriteError` and `Restart`.  The CONSTANT `Serializable` is the database:
  FALSE is READ COMMITTED (what `persistence/database.py` leaves in force on
  PostgreSQL), TRUE one that fails an UPDATE of a row that changed since the
  SELECT.  The code supports both (SQLite in the tests).
* `TaskLifecycle` - the abstract specification: per task a log of statuses that
  only grows, by a legal transition or a recovery.  `TaskStateService`
  implements it under `log <- StatusLog(store)` when `Serializable`.

**Actuation**

* `OutboundDispatch` - `OutboundGateway.execute`, one action per await, named
  in the order of the code: `Call`, `Screen`/`Refuse`, `Enter` (semaphore),
  `Look`, `Reconcile`, `Adopt`, `ReserveSpend`, `Claim`, `MarkDispatched`,
  `Send`, then `Acknowledge` ... `RecordOutcome` or the three exception paths
  (`ReleaseSpend`/`FailTask`; `AskAfterTimeout`, `SettleSpend`;
  `HoldAmbiguous`).  `work[c].snap` is the `task_state` variable of the frame.
  `OnError` says where an exception at each await ends up.  An operator's call is
  two steps: `Hold` or `Resume` reads the row, `OperatorSwaps` writes it back with
  the ledger that was read, or `OperatorFails`; budget saves in between leave the
  version alone, so the swap may erase them.  Operators, approvals and `Restart`
  are the environment.  `effects[d]` counts what the provider really did.

**Scheduling**

* `TaskGraph` - Kahn's algorithm of `DagScheduler.topological_order` as a
  recursive function, and the reference definitions it is compared with.
* `DirectiveExecution` - `execute_directive` storing the tasks, the background
  run task by task and save by save, and operators reading and swapping rows
  meanwhile.
* `PlanContract` - the abstract specification of executing a plan, which
  `DirectiveExecution` implements.

**SDK**

* `SandboxEndpoints` - one definition per method of the twenty resource clients:
  the verb, what it sends, how it reads the answer, which statuses it types.
* `SandboxErrorTypes` - the error type of each method: the statuses it has
  constructors for.  `ErrorsMeetTheirBranch` says of all 140 methods that the
  switch that builds an error and the visitor that takes it apart agree; it is an
  ASSUME that TLC evaluates in `sdk_calls`.
* `SandboxCalls` - a call from the method to the settling of its promise:
  `Begin`, `PrepareFails`, `Send`, `Receive` (in the three answers of the
  server), `Wake`, `Timeout`, `Disconnect`, `Abort`, `ReadAnswer`, `ReadError`.
  `wire` holds the requests that were sent and are not settled; a request stays
  there when its call gives up.  The sandbox and the network are external.
* `RemoteCall` - the abstract specification: a call returns at most once, its
  effect takes place at most `Budget` times, at least once for a value, never for
  a rejection.  `SandboxCalls` implements it.

**Console**

* `ConsoleClient` - the stores of `lib/api.ts`, the requests of the gestures and
  the backend as the console meets it.  A *gesture* is one click and all that its
  handler awaits; `leg` is the request the handler is at, `fetch` how far that
  request is, `wire` what the backend has yet to handle.
* `ApprovalsPage` - `Decide`, `ApproveAll`, `Seal` and their returns, the flag
  `busy`, what the page shows, and `Reenter`.
* `DirectivesPage` - `Create` (which is also the first part of the cycle),
  `Execute`, `Advance`, `RunAll`, `Emit`, `Attest` and the returns of their
  requests.  The flags that disable these buttons belong to one mount of one
  page, so they keep no two gestures apart and are not modelled.
* `Console` composes the two over one client and states the properties.
* `ConsoleShell` - the settings, their listeners, the intervals and the loads of
  every view that loads by itself.  A load is one or more requests in turn
  (`Requests`), each with the settings of its moment.  Handlers load as well:
  `Advance` at once, `Click` and later `Reload` where a request is awaited first,
  with the selection of the click.  `Continue` is the end of a load; the board
  keeps its rows when the answer is `Empty`.

`MCTaskStateService`, `MCOutboundDispatch`, `MCSandboxCalls`, `MCConsole` and
`MCConsoleShell` give constants their values for TLC; `DirectiveExecution` is
checked as it is.  A module `X_proofs` holds the theorems about `X`, and
`InductionLemmas` what several of them need.  Definitions introduced as "Mutant" are
faulty variants used to confirm that a property notices the fault; no specification
uses them.

## Runs

| Run | Checks | Instance | Shows |
|---|---|---|---|
| `cts_documents` | TypeOK, AuditTrailLegal, ReasonsMatchStatus, RetriesCounted, AttemptsBounded, CommittedBacked | 1 task, 2 clients, 1 lock, versions to 3 (operations start below), 2 failures, 1 restart; amounts of 1, cap 2, ledgers in the first versions only | under READ COMMITTED, with every kind of write mixed, updates get lost but no stored document contradicts its own trail, goes below zero or claims unspent money |
| `cts_serial` | ImplementsLifecycle, HistoryAppendOnly, CallsReturn | swaps only, 2 attempts, `Serializable` | on such a database the CAS does what it is for |
| `cts_cas` | HistoryAppendOnly | the same swaps, READ COMMITTED | **violated**: a checkpoint is overwritten |
| `outbound_sequential` | TypeOK, EffectOnce, RepeatsWereResumed, SpendCovered | 1 caller, 2 dispatches (one adapter can be asked, one cannot), 5 calls, 2 holds, 2 resumptions, 1 revocation | without concurrent calls, retries after lost answers are safe; without holds, an operator's resumption costs the ledger one reservation at most |
| `outbound_hostile` | SuccessIsReal, DecidedSinceRestart, CallsEnd | 2 callers, 1 permit, cap for one dispatch, one each of hold, resume, restart, error; two approvals | no false success, nothing on its way that was decided on before a restart only, every call ends |
| `outbound_race` | EffectOnce | 2 callers and nothing else | **violated**: the same dispatch is applied twice |
| `outbound_release` | FailureReleases | 1 caller, provider rejects | **violated**: the released budget comes back |
| `outbound_revoked` | RevokedIsNotSent | 1 caller, 2 calls, 1 resumption, 1 revocation | **violated**: a dispatch found ready is sent after its approval was revoked |
| `dag` | TypeOK, OrderSound, FinishedIsComplete, ImplementsContract, RunsEnd | all 2^12 plans of 3 steps, 2 operator calls, 1 error, 1 restart | the order is right, workers are called as promised, runs end |
| `sdk_calls` | TypeOK, VerdictsAreTrue, RefusalsAreFinal, StaleSetsWereInDoubt, AbortStopsTraffic, RepeatsWereAskedFor, RequestsEnd, AbortsEnd, ReturnsOnce | 2 calls, 1 retry each, refusals 409 and 422, overload 503 | callers are told the truth, nothing is repeated unasked, the calls implement `RemoteCall` |
| `console` | ShownIsBacked, BusyMeansPending, BatchCovers, RunsWereAsked, CreatedOnce, OneRowPerTask, ReceiptsAreReal | any 2 gestures, 2 entries of the page, 2 previews, 1 development result, 2 ids | the stores stay consistent with each other and with what the backend did |
| `console_shell` | ListenersAgree, OneTimerEach, ViewsCatchUp | 2 backends, one of which never has a task, 6 pages, 2 keys, of one of which the client has no data, 2 steps of the user, 1 change of the data, 2 loads of the header and of the views that select | listeners agree, no interval leaks, every polling view is current in the end, unless it may keep its rows |

Why the bounds are enough.  *One task*: nothing in the service or the gateway
relates two tasks, and the locks, counts and ledgers are per task.  *Two
clients or callers*: every hazard listed is one actor's read before another's
write; a third actor would only repeat the second.  *Versions to 3*: long
enough for move, recovery and retry on top of one another; bound of the calls
started, so calls under way go beyond it.  *Ledgers in the first versions*
(`LedgerEarly`): the ledger is independent of the trail but for being in the same
document; reservations, commits and releases race with each other and with swaps
while the version is at most 1 and nothing has failed, and everything later is
explored with an empty ledger; the theorems know no such bound.  *Three steps* give chains, joins,
forks, self-loops, cycles of two and three, missing steps.  *Limits of events*:
each kind of event occurs at any moment, and timeouts, which are not limited,
combine freely with it.  *One operator at a time* in the gateway: what a second one
writes between the read and the swap of the first makes the first fail, as long as
no blind save sets the version back.  All counters that the code lets grow are bounded by
named constants (`MaxVersion`, `MaxSpent`, `MaxFailures`, `MaxRestarts`,
`Limit`, `MaxOperated`, `MaxFaults`, `MaxSteps`).

*SDK*: the calls only meet in the sandbox, and what one can do to another takes
two.  One retry gives the first request, the last, and the delay between them;
`ShapesCovered` (an ASSUME that TLC evaluates) says that the methods chosen
answer and type as all 140 do, but for binary answers with typed errors, whose
two halves are both there.  *Console*: two gestures overlap in every way; plans
have two steps instead of four, because a cycle moves two of its tasks and leaves the
others.  Ids are drawn from two, so that they collide and do not; they are
symmetric, and no temporal property is checked with the symmetry.  *Shell*: mission
control asks for directives and tasks in turn, as the code does; two requests stand
for the six that telemetry makes in turn.  Two loads of a view are enough to overtake
each other; the views that select can, and the header.  Those of mission control, the
portal and telemetry begin one at a time, to keep the run small: what overtaking does
to a view is seen on the others.  Two user steps are enough to leave and come back or
to change twice, or to select another directive while a run is awaited.

Deadlock is checked in `sdk_calls`, where a program may only end when every call
has returned.  Elsewhere it is not: each system comes to rest when the bounds are
used up, the run is over, or the user stops.

The type invariants are checked in `cts_documents`, `outbound_sequential`, `dag` and
`sdk_calls`; the sorts of the console's
variables are part of the invariants of its proofs (`Shape`, `Sorts`).

## Fairness

`FairSpec` of each module asks weak fairness of the steps *inside* a call and
of nothing else: `Continue(c)`, `Step(c)`, `Request` and `Run`.  The event loop
resumes every coroutine whose await is done; the database answers or fails a
statement; adapters and workers carry timeouts (30 s HTTP clients, sandbox
limits); a free permit of the `asyncio.Semaphore` is handed to the first waiter,
and weak fairness does not even promise a waiting caller a turn while others keep
taking the permit: it has to follow that they give it back.  Nobody is obliged
to start a call, to approve, hold or resume.  Errors, restarts and
operators need no fairness: liveness must hold with and without them.

`SandboxCalls` asks weak fairness of `Timeout` and `Wake`, the two timers of the
client, and of nothing else: not of the suppliers, the network, the sandbox or
the caller.  That is why `RequestsEnd` ends with the reading of a body, which has
no timer, and `AbortsEnd` starts after the preparation.

`ConsoleShell` asks that an interval that is set goes off and that every load
ends.  The first is the browser's; of the second the wait for the headers is
bounded by the client's timeouts, and that a body comes or its connection breaks
is an assumption about the connection.  `Console` states no liveness.

## Proofs

Checked by tlapm; each holds for every set of tasks, clients, locks, callers,
dispatches and gestures, plans of every length and every value of the limits.
Assumed are the conditions on the constants that the modules name and TLC
evaluates in the runs: `OpsAssumption`, `BoundsAssumption`, `MaxRetriesAssumption`,
`DispatchAssumption`, `ResumeAssumption`, `PlanAssumption` (sorts of the
constants; limits are naturals, amounts positive, a repository with conflict
detection is used with swaps only, operators do not resume a held task straight
to COMPLETED), and that the sets summed over or listed are finite
(`ClientsAssumption`: the clients; `PreviewsAssumption`: the previews).

Every safety property that a passing run checks is a theorem, two of them under
premises that are stated below, but for three that are only model-checked:
`HistoryAppendOnly` and `ImplementsLifecycle` of `cts_serial`, and `SpendCovered`.

### `InductionLemmas`

The induction theorems of the library take an operator as a parameter and cannot
be used.  A statement about all numbers is proved here without them: the set of
the numbers that it fails for has a least member (`LeastFailure`), and the step
shows that this one cannot be.

### `TaskStateService_proofs`

* `TypeCorrect`, `AuditTrails`, `Reasons` from **IInv**: TypeOK, every *stored*
  document is in order (typed, explained by its trail, reasons matching), and so
  is every document *in flight* in a caller's frame.  The second half is what
  makes it inductive: a blind save may put any document that was ever computed
  into the store, so the invariant has to hold where documents wait, not only
  where they are kept.  One lemma per operation of the state machine.
* `LedgerHonest` from **LInv** = IInv, the property, and the same of documents in
  flight, together with the amount their write will add to `spent`.
* `RetriesAreCounted` from **TallyInv**: `retries` is the number of retry
  checkpoints in every document, stored or in flight.  `Marks(d, X)` counts the
  checkpoints of a trail in X; `MarksAppend` says what one more does to it, and
  `OutcomeMarks` which operation writes what.  All steps but a restart have one of
  four shapes (`Shapes`): a call that computes a document, goes on, ends, or counts
  or handles a failure.
* `HoldsAreBounded` (AttemptsBounded) from **HoldInv**.  The holds in a trail are
  not bounded by the failures counted so far alone: a count is drawn before the
  task is read, so a drawn count within the limit is as good as a hold.  In every
  document, stored or in flight, the holds and the counts that are out together
  are at most `restarts * max_retries + min(failures, max_retries)`; and no two
  calls under way have drawn the same count of the same task.

### `OutboundDispatch_proofs`

* `TypeCorrect`, `NoFalseSuccess`, `DecisionsAreRecent` from **IInv**: TypeOK,
  SuccessIsReal, whatever is `ready` was decided on since the last restart, of each
  caller under way (`CallerOK`): its dispatch was decided on, its snapshot claims
  COMPLETED only if there is an effect, and at the awaits where the code acts on
  success (`Certain`) its dispatch has one; and of an operator's call (`OperatorOK`)
  that it writes no COMPLETED.  SuccessIsReal alone is not inductive: stale
  snapshots are written back, so they must not lie either.  `CallerStep` is the
  common part of all steps of a caller.  `DecisionsAreRecent` says that a decision
  was taken in this life of the process, not that it still stands: that is
  `RevokedIsNotSent`, and false.

The other two hold in restricted environments only, and say which.

* `OnceAtTheProvider` (EffectOnce): of behaviours in which no two calls of *one
  dispatch* overlap (`OneCallEach`), the process is not restarted (`NoRestart`) and
  a provider that is asked answers (`LookupAnswers`).  Calls of other dispatches,
  operators, reviewers and all other errors are unrestricted.  **EInv**: an
  effect leaves a record, and a caller between the lookup and the adapter call
  has no effect yet (`Fresh`).  `outbound_race` shows that the first premise is
  needed: the code does not see to it.
* `RepeatsAreResumed` (RepeatsWereResumed): of behaviours with one call at a time
  (`OneCall`), no error and no restart (`Undisturbed`).  **RInv**: the effect that
  uses up the resumptions leaves the record done or the task held, or the caller
  is about to see to it (`Pending`) and its snapshot is not behind the row
  (`Abreast`); and an operator who is about to resume has read the hold that is still
  there, so that what the resumption allows has not been used yet (`OperatorR`).

`outbound_sequential` is an instance of all these premises with timeouts,
rejections and lost answers in every combination, so they can be met.

### `TaskGraph_proofs`

* `OrderIsSound` and `RefusalIsSound`, about `topological_order` and every list of
  tasks: an order that is returned has every task once and behind its upstream
  tasks; a list is refused only if some of its tasks wait for one another or for a
  task that the list lacks.  Kahn's algorithm is a recursive function of the
  number of rounds.  The loop invariant (`LoopInv`: what is ordered is so once and
  behind its upstream tasks, the in-degrees count the upstream tasks not yet
  ordered, the queue has exactly the tasks that wait for nothing but their turn) is
  kept by a round (`StepGood`) and carried over all rounds by induction
  (`AfterAllRounds`); `FullLength` turns the length comparison of the code into
  completeness.

### `DirectiveExecution_proofs`

* `TypeCorrect`, `Completeness` and `Refinement` (of `PlanContract`) from **IInv**:
  TypeOK, the order has every task once, the tasks before the place of the run are
  through and those behind it wait (`Progress`), the place agrees with the outcome
  of the task it is at (`AtPoint`), and no worker was called before its upstream
  ones had succeeded.  That each task comes once is what makes a second call
  impossible: the code keeps no record of the workers it has called; it comes from
  `OrderIsSound`.  The guard on the upstream tasks is evaluated anew for each task,
  so the contract does not rest on their position in the order.
* `OrdersAreSound` (OrderSound): the order that a run follows, and the refusal of a
  plan, are as in `TaskGraph_proofs`, at every moment and for plans of any length.

### `SandboxCalls_proofs`

* `TypeCorrect`, `TrueVerdicts`, `FinalRefusals`, `StaleSets`, `AbortsStopTraffic`,
  `RepeatsAsked` and `Refinement` (of `RemoteCall`) from **CallsInv**: TypeOK,
  requests are numbered up to the count of their call (`SentBefore`), what the
  phase says of the count and of the last status (`Progress`), what an answer that
  is being read says of the last request (`Answered`), and which calls can have
  overwritten a setting (`Overwritten`).  The answer is needed because the verdict
  is given a step after the sandbox has acted.  Assumed: refusals are not
  retryable, overloads are.

### `Console_proofs`

* `NothingShownUnbacked` (ShownIsBacked) from **IInv**: what a gesture is about
  agrees with the request its handler is at (`Agrees`), a request whose answer
  would still be heard asks just that (`RequestsFit`), and a body that is being
  read is that of a decision the backend took (`AnswersFit`).  Without the second,
  the answer to an earlier request could be taken for that to the present one.
  `HandlerStep` is the common part of all steps of a handler, `HandledStep` of all
  of the backend.
* `ButtonsGuard` (BusyMeansPending) from **BInv** = IInv, the property, and: there
  is at most one decision of the present page under way.  The flag is one bit;
  without the last part, the first of two handlers would free the buttons for the
  second.
* `NothingLeftOut` (BatchCovers) from **CInv**.  The loop keeps a position in an
  array that grows at its head.  A preview it has not got to may only move *away*
  from the head, so while the loop runs every preview is decided, or at the
  position, or ahead of it (`Covers`).
* `RunsAreAsked` (RunsWereAsked) from **XInv**: a gesture has at most one request
  for a run on the wire, none before it asks, and no run yet while there is one
  (`Asked`).  `Onward` is what a step of a handler does to all of this.
* `RowsAreSingle` (OneRowPerTask) from **TInv**: a row belongs to a listed
  directive, and to a plan whose gesture has got that far (`Fits`), so a new plan
  cannot bring ids that are there already; an upsert keeps single rows single
  (`UpsertIs`).  The premise of the property, ids that do not collide, is about the
  whole session: it held before a step if it holds after it (`DistinctBefore`).
* `ReceiptsAreOfEvents` (ReceiptsAreReal) from **RInv**: a gesture has no receipt until
  it is done and one afterwards, and an answer that is being read is that to an
  event the backend has admitted (`Receipted`).
* `CreationsAreOnce` (CreatedOnce) from **DInv**: a creation that has not got to its
  listing has left no row and no entry, one that has, one of each (`Tidy`).

### `ConsoleShell_proofs`

* `Listeners` and `Timers` from one invariant: the sorts, both properties, and that
  an interval belongs to a view that has one.  Assumed: no page is called "every",
  the place of the header.

### Only model-checked

The liveness properties (CallsReturn, CallsEnd, RunsEnd, RequestsEnd, AbortsEnd,
ViewsCatchUp): fairness and ENABLED are out of the provers' reach.
HistoryAppendOnly and ImplementsLifecycle: they hold for swaps alone on a database
that refuses conflicting updates, which `persistence/database.py` does not ask for;
the run shows that the version check is enough there, `cts_cas` that it is not
elsewhere.  SpendCovered, which is exact only without holds and resumptions.
EffectOnce and RepeatsWereResumed without the premises above: TLC finds EffectOnce
violated when calls overlap.  The four runs that end with a counterexample are
about one instance by nature.  `ErrorsMeetTheirBranch` and `ShapesCovered` of the SDK
are evaluated, being about one table.

## Findings

Four places where the code does not do what a comment, docstring or test of the
repository says.  Each is a run that TLC ends with a counterexample; the quotes
are in `PROJECT.json`.

1. `compare_and_swap_state` is not atomic under READ COMMITTED (`cts_cas`).
2. Two overlapping calls for one dispatch both reach the provider, also when the
   adapter can be asked (`outbound_race`): the answer "not found" is given while
   the first request has not yet arrived.
3. After a rejected call the released reservation is restored by the transition
   to FAILED (`outbound_release`).  The test that says otherwise uses a
   repository that hands out one shared object.
4. A dispatch that was found ready once is not checked again: a call after a
   revocation of its approval sends it (`outbound_revoked`), while
   `services/hitl.py` promises strict gating.

## Observations

Met while modelling; the models contain each of those marked (m), and no run is
spent on any of them.

Backend

* (m) `services/task_state.py:151` says "Atomically reserve budget for task under directive
  cap", and `reserve_budget` reads, awaits and saves: two overlapping reservations are
  both granted from the same ledger, and the second save erases the first: more than
  the cap is granted.
* (m) `hold_task` and `resume_task` write back the ledger they have read.  A budget save
  does not change the version, so a swap that was read before a reservation erases
  it.  With one caller a resumption loses one that is then used, as calls that begin
  while the task is on hold end without a dispatch; for a hold TLC finds no such limit.
* (m) A run of a directive that is cyclic, aborted or lost with the server leaves its
  tasks as they are; its end is logged (`api/routes/directives.py:84-87`) and stored
  nowhere.
* (m) A hold that lands after the provider applied a dispatch makes the transition
  to COMPLETED fail, and the failure path releases spend that happened.
* (m) `assemble_task_grant` (`orchestration/intelligence_engine.py:350`) looks at the
  run's copy of a task, so a hold in the store does not stop a grant.

Console

* (m) A decision that the backend *refuses* is simulated like one that never
  reached it, with a verified signature; `components/settings/SettingsModal.tsx:374-379`
  speaks of simulating when the backend is offline, and the setting
  `simulationFallback` is read by its editors only.
* (m) "Disabled (Manual Refresh)" (`app/settings/page.tsx:332`) is a rate of 0, and a
  rate of 0 polls every 10 seconds.
* (m) "Advance" of mission control completes a task from whatever status it has.
* (m) The task board keeps its rows when an answer is empty (`app/tasks/page.tsx:33`),
  also when the backend of the new settings has no task, or the client's own data none
  of the selected directive: it shows those of before until an answer has rows.
* (m) Executing a directive again puts rows back to version 1.
* (m) The timers of the client stop at the headers: nothing bounds the wait for a
  body.

SDK

* (m) A timeout is reported with the reason "unknown", though there is a reason
  "timeout": the timer aborts with a string, which the catch block does not know.
* The logger shows what lies *below* its "Minimum log level to output".
* The README documents a `timeout` in milliseconds; the code reads
  `timeoutInSeconds`.  It and the provider's README describe `createApplication`
  and `getApplicationReadiness`, which the provider does not have.

## Abstractions and limits

* `holding` and `spent` of `TaskStateService` do not tell tasks apart; what is said of
  both together is said of one task.  A client holds one grant at a time and makes
  other calls meanwhile.
* A row of a task exists before anyone calls the service, and none is deleted.  So
  `Update` is the UPDATE of `compare_and_swap_state`; its INSERT
  (`persistence/repositories/task_state.py:68-78`, no row and version 0) is left out.
* The budget calls, saves and swaps that the *gateway* and the *run* make are one step
  each in `OutboundDispatch` and `DirectiveExecution`; what can happen inside them is
  the subject of `TaskStateService`.  Operators' calls, which may span any number of
  steps of the others, are two steps in both.
* `OutboundDispatch` models the gateway *with* a task state service and a
  provenance recorder, as the tests build it.  `main.py` (469-476) builds it
  without both; then the row, the budget and the holds do not exist.
* The provider: a rejection means no effect (an answer that cannot be read, after
  an effect, is one of the errors), a request that timed out is not applied later, and
  `reconcile`, where an adapter has it, tells the truth.  None
  of the adapters in `integrations/` has the method; the tests' adapters do.
* `RepeatsWereResumed` leaves out a task on which another dispatch has an
  effect: COMPLETED is neither refused by the screening nor can it be held, so
  such a dispatch is repeated without anyone having been asked.
* After a restart, records are gone and the same preview id can be approved
  again; sending a completed dispatch again is then possible and no property
  forbids it.  `EffectOnce` is checked without restarts: after one, a held task
  resumed to APPROVED is sent again without the provider being asked.  It and
  `RepeatsWereResumed` are checked without errors of the store.
* `DecidedSinceRestart` and `RevokedIsNotSent` look at the approval when a call is
  under way and when it was made; an approval revoked *during* a call is not asked for
  again, and no text says it should be.
* Approvals are "none", "approved" or "revoked"; roles, hashes and signatures
  are one refusal.  Expiry is a refusal as well.
* An error of the recorder after a write is, for the store, the same as a return
  (`TaskStateService`) or the same as an error at the next await
  (`OutboundDispatch`); where it is not, it has an action (`FaultAfterMarking`).
* Checkpoints lose ids, notes and times; documents lose their free-form state
  except the two budget entries.  Locks and governance are absent in the gateway
  and the scheduler model: the tasks there start without locks, approved.
* SDK: addresses, headers, query strings and the values in bodies have no content;
  delays and timeouts have no length, they may end at any time.  The sandbox does
  one of three things with a request ("make", "set", "drop"), whatever the method.
  A browser or Node runtime that buffers or retries by itself is not modelled.
* Console: names, texts, costs and hashes are left out; rows have a task, a
  directive, a status and a version.  Of the backend there is what the console can
  tell: a directive that is stored, plans that are executed, decisions that are
  taken, events that are admitted.  It may refuse any request.  Requests reach it
  in any order, also after their gesture has given up.
* Console: fixed data (roster, objectives, the sandbox's description), search,
  filters, presets, exports, and the sorting of lists are presentation.
* Shell: the data of a backend is a version number; the client's own data is shown
  where a request fails.  What the client's own data has rows for is fixed (`Own`), and
  which backend comes to have rows for which key (`Has`); tasks are not deleted.  Of
  a board whose answer may be empty `ViewsCatchUp` says nothing, as it keeps its rows.
  A gesture on mission control that awaits a request stands for all that do.  Two tabs
  share the settings and nothing else.

## Not modelled

See the components with status `not_modelled` in `PROJECT.json`.

* Backend: predicates and transformations without shared state (policy, scope,
  context, evidence, previews), operating system interfaces (namespaces, cgroups,
  seccomp), HTTP adapters (their outcomes are the nondeterminism of `Send`), model
  calls of the workers (three outcomes), metrics.  The development workflow, the
  telemetry queue, the approvals API and the sandbox daemon have state and are in
  the plan.
* Console: layout and styling, toasts, the connection test, import and export of
  settings.
* SDK: generated request and response types, logger and runtime detection, the
  signing and the calls of the cloud provider (one request after the other, no
  state), examples.
* The documentation site, the minified bundles of its dashboard, whose sources are
  not in the repository, and the prototype under `src/temp/`.

## Plan

In this order:

1. `DevelopmentWorkflow`: the transition table, guards and retries of
   `development_state_machine.py` with the execution lease of the service
   (acquire, renew, expire, release); property: one live holder, no step
   without the lease, evidence before review.  Abstract specification: a lock
   with expiry.
2. `TelemetryQueue`: work items, leases with generations, recovery of expired
   ones; property: a late worker cannot overwrite the result of its successor.
   Proof: the fencing invariant.
3. `ApprovalFlow`: `api/routes/approvals.py` on `services/hitl.py`, including
   the second decision that always raises.
4. `SandboxProvisioner`: replay and slots of the daemon.
5. Proofs: the safety half of the liveness properties, a measure that every step
   of a call decreases; the abstract specifications and fencing invariants of the
   modules above; EffectOnce with the lookup failing, where the task is held.
