# AutoFlow in TLA+

AutoFlow runs workflows ("runs") whose steps call language models, act on connected
services, wait, and ask people for approval; it sells the credits its hosted models are
paid for with. Two machines serve the API (`fly.api.production.toml`), worker processes
drive the runs from a BullMQ queue, and PostgreSQL keeps what must last. This project
models the parts where a mistake costs a customer money or repeats an effect in the world:
the **credit wallet**, the **payments** that fill it, the **execution of a run**, and what
operators and webhooks do to a run that is under way, **run control**. Paths below are
relative to the repository; lines are those of the modelled commit.

| Module | What it is |
|---|---|
| `CreditWallet` | wallet, ledger, router, daily cap, expiration job |
| `CreditAccount` | what a wallet promises, with nothing of how |
| `CreditWalletProps` | properties of the wallet, and the refinement mapping to `CreditAccount` |
| `CreditWalletProofs` | theorems about the wallet, the last that it implements `CreditAccount` |
| `Payments` | Stripe webhook and its event log, confirm endpoint, auto top-up job |
| `PaymentsProps`, `PaymentsProofs` | properties of payments; theorems about them |
| `RunExecution` | one run: API, queue, worker, step loop, approvals, sweep, reaper, crashes |
| `RunLifecycle` | what the readers of a run see: its status, and whether a decision is awaited |
| `RunExecutionProps` | properties of a run's execution, and the mapping to `RunLifecycle` |
| `RunExecutionProofs` | the types of a run's execution; a job is worked on by one slot |
| `SoleExecutionProofs` | templates that do not pause, through crashes: one leg at a time, final outcomes, nothing forgotten, whole results, the lifecycle, no recorded effect repeated by the first replay |
| `CalmExecutionProofs` | templates that pause, without crashes: one leg at a time, gates, final outcomes, the lifecycle |
| `PausedRunProofs` | the same templates: whole results, decisions that resume once, effects not repeated |
| `RunControl` | extends `RunExecution` with cancel, retry and the posts that wake a webhook wait |
| `RunControlProps` | properties of a run that is canceled, retried and woken |
| `RunControlProofs` | types under run control; a run canceled in time stays canceled; a queued run is attended |
| `SoleDriverProofs` | on top of it: under calls, one leg at a time; no recorded step carried out again |
| `MC*`, `*.cfg` | the instances TLC checks |

## 1. Inventory

For each part: the state it keeps, its operations, with whom it interacts, what makes it
hard, and what must be true of it. The list of hazards, each at its line, is in
`PROJECT.json`.

### Modelled

**Credit wallet** (`src/billing/credits/walletStore.ts`, `creditsRouter.ts`, migrations 067,
068, 075, 077). *State:* a `workspace_credit_wallets` row (balance, lifetime purchased,
lifetime consumed) and the `workspace_credit_ledger`, whose rows carry a UNIQUE
idempotency key. *Operations:* `reserve_credits`, `commit_credits`, `release_credits`,
`grant_credits`, plpgsql functions that run statement by statement on fresh snapshots; the
router's `callWithCredits` reserves before a call, commits after it and releases when it
fails. *Interacts with:* a step handler, whose key `step__<run>__<step>` is the same on
every attempt; the Stripe confirm endpoint and webhook, which both grant a purchase; the
expiration job. *Hard:* lookups that race with another transaction's insert, retries under
an old key, a real cost above the reserved one, a process that dies with credits reserved.
*Correct when:* credits are neither made nor lost; a key is charged at most once; a caller
told "ok" was charged; a purchase is credited once; a call runs on credits set aside for it.

**Expiration job** (`creditExpirationJob.ts`). Each API machine scans wallets whose newest
purchase is a year old, inserts an `expiration` row and drains the balance, in three
statements with no transaction around them. *Correct when* only stale credits go.

**Payments** (`src/billing/stripeWebhook.ts`, and `checkoutRoutes.ts`, `purchaseEventLog.ts`,
`stripeIssuing.ts` in `src/billing/credits`). *State:* `stripe_webhook_events`, the grant's
ledger row, the claim of a session in `credit_purchase_events`, the treasury's `funding` row.
*Operations:* an event is logged, answered 200 if it was logged before, handled, answered; the
browser's confirm request does the same grant, claim and sweep. *Hard:* both paths run at once
and each may stop anywhere; the log is written before the work. *Correct when* money taken is
credited once and funds the treasury.

**Auto top-up** (`creditAutoTopupJob.ts`). Each API machine scans for low wallets, skips one
it has charged in the last half hour (memory of its own), and charges the saved card under
an idempotency key that is the same for every charge of one half hour. *Hard:* two machines,
restarts, lost answers, a webhook that comes late. *Correct when* a low wallet is charged once.

**Run execution** (`src/engine/WorkflowEngine.ts`, `runStore.ts`, `startWorkflowRun.ts`,
`idempotentReplay.ts`, `src/worker.ts`, `src/queue/queues.ts`). *State:* the `workflow_runs`
row and its `step_results`; in every process an in-memory map of the runs it has seen, which
`runStore.get` prefers to PostgreSQL and never refreshes; the "runs" queue; the legs under
way. *Operations:* create and enqueue; deliver, load, start; the step loop with its
placeholder and result writes; waits, which queue the run again with a delayed job or with a
token; approvals, which park it; completion and failure. *Hard:* a stale copy written back
whole; a crash between any two awaits; BullMQ's redelivery of stalled jobs and retry of
failed ones; a replay that must reuse what was done. *Correct when:* one leg at a time drives
a run; an effect that was recorded is not repeated; an outcome is final; a queued run has
somebody to run it, and ends.

**Approvals and resume sweep** (`approvalStore.ts`, `approvalResumeCoordinator.ts`,
`coordinatorLock.ts`, `resumeRun`). *State:* `approval_requests`, the run's
`waitingApprovalId`. *Operations:* request, decision by a person or a timer, the sweep (an
advisory lock around list, check and resume), the resumption. *Hard:* the resumption is not
awaited and outlives the lock; two deciders overwrite each other. *Correct when:* nothing
behind an approval happens before it; a decision resumes a run once.

**Stranded-run reaper** (`strandedRunReaper.ts`). Behind an advisory lock it finds `running`
rows untouched for fifteen minutes, claims one (status `queued`, `resume_attempts + 1`),
enqueues `resume:<run>:<attempt>`, or fails it after the last attempt. *Hard:* a crash
between claim and enqueue; telling a slow run from a dead one.

**Run control** (`src/app.ts` 2380-2490, `src/workflows/resumeRoutes.ts`). *State:* none of
its own. *Operations:* cancel (remove the job, write `canceled` or `cancelling`), retry
(remove the used job, add it again, mark the row queued), post (find the run by its token,
clear the token, add a job). *Hard:* each call decides from its process's copy, works in
separate awaits, and meets the worker that drives the run. *Correct when:* a run canceled in
time stays so; a retried or woken run is run, by one leg, and repeats nothing recorded.

### Not modelled

| Part | State and operations | Why it is left out |
|---|---|---|
| Loops, switches, `continueOnFail`, governance approvals of the engine | more paths through `_runSteps` | the straight-line templates reach every kind of pause; a wait reached twice reuses its job id, which is a listed hazard |
| Replay of a run with the latest version or from a step (`app.ts`) | creates a new run | the path of `CreateRun`, on another row |
| Stripe's subscription, invoice, customer and setup-intent events (`stripeWebhook.ts`) | rows mirrored from Stripe's | each overwrites a row with what Stripe says. The stale per-process cache of `subscriptionStore.ts:140` is a listed hazard |
| Workspace concurrency slots (`workspaceConcurrency.ts`), isolated runs (`isolatedRunDispatcher.ts`) | a Redis counter with a TTL; a Fly machine per run | off by default; they delay a delivery, which `Deliver` lets take any time |
| Agent runtime, wake events (`src/agents`) | a turn of model and tool calls | of its protocol, only the check for `cancelling` between calls touches a run |
| Approval and ticket notifications, SLA sweep | an outbox drained behind the advisory lock | the lock is modelled with `ResumeSweep`; a notification sent twice does no harm |
| Communications (`src/comms`) | sends, spend limit, provider failover | its send path has no caller but its tests |
| Provider key sources, anomaly detector, card authorisation, underfund watchdog | statistics and mirrors of Stripe's state | no protocol of their own; the wallet takes the key source as an input |
| Tickets, control plane, missions, memory, knowledge, data tables, templates | records in PostgreSQL | read and write of single rows |
| Step handlers, connectors, integrations | effects outside | a step is an action that takes effect or fails |
| Authentication, Cloudflare worker, dashboard, admin console, landing page | request checks and user interfaces | no shared state a step of two actors could get wrong, or single-threaded by the platform |

The repository has some 241 000 lines of implementation, of which pages, routes, catalogues
and record keeping are the greater part. What is modelled is the part with a protocol: the
processes that share a row, a queue, a ledger or a customer's card.

## 2. CreditWallet

One wallet. A row type of the ledger is one variable indexed by what its key is made from:
`reservation[k]`, `consumption`, `charged`, `releases`, `purchases`, `expirations`.
`anchor` and `stale` stand for the newest purchase and whether it is a year old; `recent`
for the consumption rows inside the daily cap's 24 hours. `pc`, `estimate`, `actual` and
`held` are the frame of `callWithCredits` and of the SQL function it is in. `reserved` and
`expired` are history: no action reads them.

Under READ COMMITTED every statement has a snapshot of its own, so each SELECT is an action
(`ReserveLookup`, `CommitLookup`, `CommitFind`, `ReleaseLookup`, `ReleaseFind`,
`GrantLookup`, `ExpireScan`). The first UPDATE takes the wallet's row lock to the end of
the transaction, so it and the statements behind it are one action (`ReserveApply`,
`CommitApply`, `ReleaseApply`, `GrantApply`). A duplicate key met by the INSERT rolls the
transaction back (`...Conflict`). `Abandon` is the process dying, or a query outside the
wallet throwing, at any of these points; the executor may then call again with its key, as
a redelivered step does. Credits are small naturals; the choice of a key source and the
price of a token are inputs (`Estimates`, `Actuals`).

`CreditAccount` is the abstract specification: deposit, hold, settle, expire. The mapping is
`Account` in `CreditWalletProps`; a settlement takes at most its hold and what is available,
which is the promise migration 075 restored.

## 3. Payments

One workspace. A payment is a pack (a checkout session) or a top-up (an off-session charge,
named by its idempotency key). `req[r]` is a request under way: a webhook delivery or a
buyer's confirm. A delivery that finds its event in `log` is answered 200 at once
(`DeliverDuplicate`); otherwise the event is logged (`DeliverFirst`) and the request goes
through `GrantLookup`, `GrantApply` or `GrantConflict` (the wallet's `grant_credits`, whose
inside is `CreditWallet`'s subject), then for a pack `Claim` and `Sweep`, the treasury's
funding row. A failed claim is logged and the request goes on (`ClaimFails`); a failed sweep
is logged and answered (`SweepFails`); anything else throws or the machine stops (`Dies`).
`broken` records for which payments that has happened, and is read by no action.

`cycle[c]` is a cycle of the top-up job on machine `CycleProc[c]`: `Scan`, `Fire` or `Skip`
(this machine's `inFlight`), `Charge`, or Stripe answering with the earlier charge of the
same key (`KeyReused`), an answer lost (`ChargeUnanswered`), a card declined, after which
auto top-up is disabled. `index.ts:88-110` starts the job on every API machine, and
production keeps two of them running. `Restart` forgets a machine's cycles and `inFlight`.
Time is a counter of ticks that only the job reads; `Cooldown` ticks are half an hour.

Answers of 200 without a credit (a session that is not paid, an unknown pack:
`stripeWebhook.ts:427-441`) are left out: a payment of the model is one Stripe has taken, of a
pack that exists. The log is keyed by the payment, where the code has the id of Stripe's event;
a payment has one event that grants.

Names of bounds: `MaxTime`, `MaxFailures`.

**What the log costs.** An event is logged before it is handled, so a request that dies in
between has its event acknowledged at Stripe's next delivery and never handled.
Migration 029 calls the order intentional; comments in `stripeWebhook.ts` (419-421, 443-448)
speak as if a retry would repeat the work. `AckedIsCredited` and `PaidIsCredited` say that
this is the *only* way to lose a payment; `broken` is that way.

## 4. RunExecution

One run of a straight-line template. `row` is the row with its results, `cache[p]` the
process's copy, `jobs` the queue by job id, `leg[s]` what slot `s` of process `ProcOf[s]` is
doing: `pc`, the step `at`, the leg's own `results`, the `prior` ordinals a replay may reuse.
`Current(p)` is `runStore.get`: memory first, and a row read from PostgreSQL is not kept.
`Update(s, run)` is `runStore.update` as a leg calls it: the copy, patched, replaces row and
results whole. `update` first awaits a read of the run (`runStore.ts:494`). A process with a
copy answers that from memory, and a leg's process has the copy of its last write, so a leg
reads and writes in one action. Only its first write, `StartRun` or `ResumeRun`, may find no
copy and read PostgreSQL; of legs, jobs and sweeps nobody writes the row just then, other than a
second resumption, which is disagreement 4. A call may: its write is then lost in the code, while
the model has it before `StartRun`, which keeps its results until the placeholder of the leg's
first step replaces them, or after, until the leg's next write. Calls are mostly served by
processes without a copy, and theirs are two actions (section 5).
A run's `at`, `waiting` and `token` are its `runtimeState`: the next step, the approval it is
parked on, the token a webhook wait was given.

An action is what runs between two awaits another process, slot or crash can come between.
A step is `ReachStep` (its index), `BeginStep` (the placeholder, which on a replay is the
write that sheds the old results), `RunAction`, `ReuseStep`, `StepFails` or a pause, and
`RecordStep`. An approval step parks in three writes (`ReachApproval`, `CreateApproval`,
`StampApproval`). A wait queues the run (`PauseRun`) before its job (`EnqueueWait`).
`ResumeSweep` ends with the resumption merely begun, as `resumeRun` does not await
`_resumePausedRun`; `ResumeRun` and `RecordDecision` are its writes. `Crash` empties a
process's memory, legs and claim and leaves its jobs stalled; the process is back at once.
`JobFails`, `MarkFailed` and `DropStalled` are BullMQ's retries, the worker's "failed"
handler and a job that stalled too often. History: `recorded` (ordinals whose effect
reached a row), `granted`, `resumed`.

An approval ends in one of three ways: a person's decision (`Decide`, `PersistDecision`: a
read and a later write), the sweep's timeout (the same two actions, under the sweep's lock),
or the timer of the process that created it (`TimerFires`), which asks only that process's
memory and so may write over a decision made elsewhere. `armed` is who still has a timer;
`DropTimer` is `approvalStore.get` seeing a decision. One API process has one resolution
under way at a time.

`Work` is everything but the crashes, for `RunControl` to extend. `RunLifecycle` is the
abstract specification: `status` is the row's, `replays` the reaper's counter, and `awaited`
holds while the row is parked and the request it names is pending (or not yet named). Its
readers see no process, job, copy or sweep. That the execution implements it says that
nothing resumes a run while a decision is awaited, ends one that is queued but for the
refusal of its job, or starts one again that is over.

Names of bounds: `MaxCrashes`, `MaxApprovals` (no changes are requested past so many
approvals) and, in the wallet, `MaxCalls`. `MaxAttempts`, `MaxTries` and `MaxStalls` are
settings of the program; `Mortal` names the processes that may crash.

**Assumptions about time.** The code relies on clocks; the model says where.
- `Stranded`: fifteen minutes are longer than BullMQ takes to redeliver a stalled job, and,
  unless `SlowSteps`, than any step. The reaper's comment names the second as a caveat.
- `Unhurried`: no sweep falls between the last two writes of parking, or between the start
  of a resumption and the write that marks the run running. At a sweep every two seconds that
  is likely; nothing guarantees it, and a decision starts a sweep at once. `run_double_resume`
  runs without it and shows what it hides.
- `ResumeRun` reads the approval once, with the sweep's read; the code reads it again
  (`WorkflowEngine.ts:1554`) before it goes on.
- Used job ids stay known to BullMQ. `queues.ts:88-89` keeps the last 100 completed and 200
  failed jobs, so an id is forgotten once as many others have ended; a second post of a token,
  or a second retry, would have to take that long.
- The PostgreSQL writes of one leg arrive in order, and a write changes row and results
  together; the code swallows PostgreSQL errors and does not await one placeholder write,
  and neither is modelled. Nor is a failing write of an approval request
(`WorkflowEngine.ts:1999`): `CreateApproval` succeeds. An error of the queue is modelled where
a run depends on it: at its creation, at a wait, at a retry or post, and at the reaper's
replay, whose claim then stands without a job (`EnqueueReplay`,
`strandedRunReaper.ts:142-144`).

## 5. RunControl

`RunControl` extends `RunExecution` with one variable: `call[c]`, what call `c` is, how far
it has come (an action per await) and what it has read. Each call writes the run with
`runStore.update`, which awaits a read, from PostgreSQL when the process has no copy, and then
replaces row and results: `Finds` is the read, kept in `call[c].found`, and `WritesBack` the
write, with the patch of `CancelWrites`, `RetryMarks` or `PostConsumes`. What workers and other
calls write in between is lost. `CallProc[c]` is the API process that
serves it. A process that crashes takes its calls with it (`ControlCrash`). Two actions of a
leg are new: `ReachHook` and `PauseForWebhook`, a wait in webhook mode, which leaves a
queued row with a token and *no job*.

The engine's part of a webhook wait is live; the router that takes the posts
(`createResumeRoutes`) is mounted by no application in this commit. It is modelled as its
tests drive it, so that the two halves can be checked together before somebody mounts it.

What the model shows of this code, and the properties are stated around:

- *The pausing worker goes on from its own memory.* The delivery that a post enqueues is
  loaded by `runStore.get`; a worker that has a copy of the run, perhaps the one that paused
  it, does not see what the post has merged.
- *A post is refused by a process with an old copy.* `getByResumeToken` finds the row by the
  token and then reads the run through memory; a copy without the token answers 404.
- *Two posts of one token* may both read it. The second puts the row back to `queued`; that
  the run does not run twice is due to BullMQ's job id, not to the row. If the job of the first
  has been used by then, the run stays queued (`WokenInVain`).
- *Retry adds the job before the row says queued.* A worker quick enough, or one whose copy
  says `failed`, takes the job and skips it (`RetriedInVain`).
- *A late second post writes back a run under way.* When its update reads the row after the
  first post's job has started the run, it writes back `running`, and results, over whatever
  the leg has written since; a run that has ended says `running` again, and the reaper replays
  it. A comment (`resumeRoutes.ts:52`) says of the update that consumes the token "one update,
  so a concurrent second POST loses". `PostsInTime` says that no post's update has found the
  run under way; `SoleDriver`, `QueuedIsAttended` and `NotRefiredByCalls` speak of behaviours
  while it holds, and `WokenRunEnds` of the posts that came in time.
- *A cancel may undo a failure, and a retry then repeats what was recorded.* A cancel accepted
  while the run is under way reads the run, the worker records a step and fails, a retry is
  accepted, and the cancel writes back `cancelling` with the older results. A retry whose
  update reads that makes it a queued run without the record, and a worker without a copy
  carries the step out again. One retry and one cancel suffice. `RetriedAlone` therefore asks
  that the retry's update still finds the run failed; a cancel that writes before the worker
  fails, or after the retry's read, is inside the property, and repeats nothing.
- *A woken run that is retried repeats recorded steps.* A worker that has paused the run may
  still know it as queued when another has gone on with it and failed. The retry's job, taken
  by the first, starts from the results of the pause: what has been recorded since is carried
  out again. `NotRefiredByCalls` therefore speaks of a retry without posts and of posts
  without retries.
- *A second webhook wait has the same effect without a retry.* The worker that remembers the
  first wait takes the second one's job from there. TLC shows it for action, hook, action,
  hook, action with two posts, two workers and no crash.
- *Two retries that have both read `failed`* may add the job twice, the second time while the
  run is under way behind a wait it was posted over. `SoleDriver` speaks of one retry beside
  posts, or of any number without.
- *Cancel decides from a copy.* The process that created the run has one that says `queued`
  for ever: a cancel it serves while the run is under way writes `canceled` *and empty
  results* over it. A retry after that would repeat what was recorded. The run has its calls
  served by processes that did not create the run, and `NotRefiredByCalls` says so.
- *`cancelling` is read by agent turns only* (`agentPromptExecution.ts`), so a worker in a
  run without them overwrites it with its next write; `WokenRunEnds` allows for it where a
  worker has no copy.

## 6. Runs

| Run | Instance | Shows |
|---|---|---|
| `wallet_exclusive` | 2 executors with a key each, 2 calls each, one purchase, cap 5, the job (550 k states) | `TypeOK`, `Conservation`, `CallIsFunded`, and the wallet implements `CreditAccount` |
| `wallet_shared` | 2 executors on one key, 2 calls each; 3 deliveries of 2 purchases (1.4 M) | `ChargedOnce`, `OkMeansCharged`, `PurchaseCreditedOnce` |
| `payments` | a pack delivered twice at once and confirmed, or a card charged by 2 machines over 2 half hours; 2 failures (46 k) | `CreditedOnce`, `AckedIsCredited`, `FundedIsCredited`, `FundingIsOnItsWay`, `ChargesAreSpaced`; money taken becomes credits, and a credited pack funds the treasury |
| `run_crashes` | action, pure, action; 2 workers and the API crash, 3 times; 2 replays, 2 tries, 1 stall (65 k) | `SoleExecutor`, `TerminalIsFinal`, `FirstReplayReuses`, `QueuedIsScheduled`, the lifecycle, and a queued run ends |
| `run_pauses` | wait, action, approval (may go back to the action), action; 1 worker, 2 API machines, all decisions, 1 try (40 k) | `ResultsComplete`, `RecordedNotRefired`, `GatedByApproval`, `ResumedOnce`, the lifecycle, and a queued run ends |
| `run_control` | action, webhook wait, action; 2 workers, 3 API machines, 2 calls of any kind, one of whose machines may crash (400 k) | `SoleDriver`, `QueuedIsAttended`, `NotRefiredByCalls`, `CanceledStays`, and a run woken in time ends |
| `wallet_leak` | one key, calls that fail | violates `ErrorReturnsCredits` |
| `wallet_fresh` | a spend and a top-up between scan and drain | violates `FreshCreditsSurvive` |
| `topup_twice` | 2 machines, no failure, a clock that passes a half hour | violates `OneChargeAwaited` |
| `run_replayed_twice` | a replay crashes | violates `RecordedNotRefired` |
| `run_double_resume` | two sweeps, `Unhurried` off | violates `ResumedOnce` |
| `run_rejected` | an API machine crashes between its two writes | violates `GatedByApproval` |

*Why the bounds are enough.* A race in the wallet needs two executors on a row; two calls each
let the second meet every row the first can leave (reservation, release, consumption). The
estimate 2 with real costs 1 and 3 gives a surplus, a deficit and, on an empty wallet, a
clamped deficit. In `payments` two deliveries and a confirm are all who ever handle a pack at
once, a third delivery would find the log; packs and top-ups meet only in the balance, so
`MCInit` explores them one at a time; two ticks to the half hour let a charge fall on either
side of a boundary; two failures stop the first and its repetition. In `run_crashes` three
crashes strand the first execution and both replays, so the reaper gives up; two actions with
a pure step between them let a crash fall before, between and after recorded effects. In
`run_pauses` two approvals let the run be sent back once and decided again, and two API
machines let the one that did not create the run resume it while the other's memory is stale.
In `run_control` two calls are every pair of cancel, retry and post, at each other's every
await; two workers let the one that wakes the run be another than the one that paused it; the
actions before and behind the wait let a call read the run before a step is recorded and write
it back after, and let the run fail with something recorded. No worker dies there: a crash
between a worker's pause and its return redelivers the job that paused and gives the run two
legs, which is the listed hazard at `WorkflowEngine.ts:1189` and not one of run control.

*Deadlock* is not checked: a run that has ended, an executor that has made its calls, and
time that has reached its bound, stop.

*Fairness.* `RunExecution`: a live process's slot goes on with its leg or takes a job, its
reaper runs on its interval, BullMQ fails stalled jobs, the sweep of some API machine times
out what is overdue and a resolution that was begun is written. Nobody has to start a run,
decide or crash, and the timers of single processes need not fire. Several actions of a slot
share one condition, so the choice between them (a step fails, a deadline passes) is free.
`QueuedRunEnds` excepts `Forgotten`, the gaps no sweep looks for: a run created or claimed
whose process died before the job was added, a claim whose job the queue refused, and a job
BullMQ has given up on before the run was marked. `RunControl`: slots go on and a call that
has begun goes on; nobody need make one, so `WokenRunEnds` starts from a post that has taken
the token. `Payments`: Stripe delivers an event again until it is acknowledged, which is its
contract, and a request under way goes on unless it dies. No buyer need come back, and the job
need not charge.

*What the passing crash run leaves out.* `run_crashes` has no wait and no approval. A crash
between a wait's two writes lets the redelivered first job start from the top while the
delayed job may come later, and a crash between the parked status and the approval's id
leaves a run no sweep resumes; both are listed hazards, and for templates that pause
`SoleExecutor` is claimed only where nothing crashes (`SoleExecutorWithPauses`).

*Mutants.* Each property of a passing run has a definition in the modelled module whose name
ends in `Mutant`, written above the definition it changes the way a plausible mistake would
(`SurplusGreatestMutant` is migration 068's formula, which 075 corrected). No action uses
them; they show that the property would notice.

## 7. Disagreements between code and comments

1. **A failed call's second reservation stays held.** `release_credits` answers
   "duplicate" when the key has been released before, and the key of a step is the same on
   its retry. `creditsRouter.ts:213` says every error path releases (`wallet_leak`).
2. **Fresh credits can expire.** The drain compares balances only; a spend and a top-up of
   one size between scan and drain lose the top-up, against `creditExpirationJob.ts:6`
   (`wallet_fresh`).
3. **A second replay repeats recorded effects.** The first replay's placeholder write
   deletes the results the second would reuse, against `strandedRunReaper.ts:7`
   (`run_replayed_twice`). The first replay does reuse them all (`FirstReplayReuses`).
4. **A decision may resume a run twice.** The sweep's lock is free before the row is
   marked, against `app.ts:3395` (`run_double_resume`).
5. **A rejected run may go on.** A parked approval is recorded as a keyed success; a
   resumption that crashes before it writes the rejection is replayed from that success,
   against `idempotentReplay.ts:51` (`run_rejected`).
6. **A low wallet may be charged twice.** The half hours of the idempotency key are the
   clock's, and a machine remembers only its own charges, so two machines charge on either
   side of a boundary while the first charge waits for its webhook, against
   `creditAutoTopupJob.ts:21-25` (`topup_twice`). `ChargesAreSpaced` is what does hold.

## 8. Proofs

Checked by TLAPS, for every value of the constants under the modules' assumptions
(`WalletAssumption`, `PaymentsAssumption`, `RunAssumption`: names have their types, settings
are naturals, workers are not API processes).

**The wallet** (`CreditWalletProofs`).
- `TypeCorrect`: `TypeOK` is inductive. What needs an argument is the balance: `SurplusClamped`
  shows the clamped surplus never takes it below zero.
- `ChargedOnceHolds`: only `CommitApply` touches consumption and what is charged
  (`OnlyCommitCharges`), and it runs only for a key with no consumption row. No assumption
  about who shares a key.
- `OkMeansChargedHolds`: "ok" is reached from a lookup that saw the row or from the commit
  that wrote it, and rows stay.
- `PurchaseCreditedOnceHolds`: from an invariant that also keeps `purchases` finite, so that
  its cardinality grows by one with each grant.
- `ConservationHolds`, `CallIsFundedHolds`: under `ExclusiveKeys`, no two executors share a
  key. Neither is inductive. `IInv` adds `HeldIsCurrent`: the reservation a commit or a
  release has found is still the one in the ledger when it deletes it. Without it the credits
  given back and the row removed could be two different reservations. The assumption is what
  the engine promises with `SoleExecutor`, and what `SlowSteps` would break.
- `ImplementsAccountHolds`: under `ExclusiveKeys` and for finitely many keys, as `OnHold` is a
  sum over them. Each step is a deposit, a hold, a settlement, an expiry or a stutter. That a
  hold raises the sum by what it holds and a settlement lowers it by its reservation rests on
  `SumFunctionOnSet`, a recursive function of the library. The induction theorems being out of
  reach, the lemmas on it (`SumsExist`, `SumsUnique` and those after them) argue by a smallest
  counterexample among the subsets of a finite set.

**Payments** (`PaymentsProofs`), any number of sessions, deliveries, buyers, machines and
failures. `IInv` adds to the types three things the properties do not say. `RequestsHold`: a
request works for a payment that was taken, a delivery's is in the log, and what it claims or
sweeps is credited; that makes `FundedIsCredited` inductive. `LogIsHandled`: every event *in
the log*, not only the acknowledged ones, is credited, being granted or broken, which is what
lets a duplicate be answered at once (`AckedIsCreditedHolds`). `KeysHaveBegun`: a charge that
is about to be made carries the key of a half hour that has begun, however late it is made
(`ChargesAreSpacedHolds`). `CreditedOnceHolds` keeps `credited` finite besides, and splits its
cardinality by kind. `FundingIsOnItsWayHolds` is the safety in `CreditedIsFunded`: whoever
granted a pack carries it until it has swept it or died (`CarriedOn`), and a claim that fails
or is lost to the other path does not make it let go.

**Types of a run** (`RunExecutionProofs`), any template with pauses of every kind, any fleet.
`TypeOK` is not inductive: a copy's `waiting`, a leg's `approval`, a decision and a timer name
an approval, and a leg past its first look has a step of the template. `RunsOK`, `LegsOK`
(`Placed`) and `ApprovalsOK` say so. `JobsOK` adds `Held`, a job that is worked on is active
and one slot's, and `TriesLeft`, from which `tries` stays in its range. `TypeCorrect` and
`HeldAlways` follow.

**One leg at a time** (`SoleExecutionProofs`), for a `Straight` template: no step pauses, and
none outlasts the reaper's patience. The hypothesis is needed; with pauses or slow steps the
same formulas fail (section 6, and `run_double_resume`). Crashes, stalls, retries, replays and
processes are unbounded. The idea of `SInv`: *the only job that can run the run is the last
that was added* (`JobsAgree`), and whoever holds it is alone. Four lemmas carry every step:
`JobHolder` (a leg with the job: every other slot is quiet and no reaper has a claim),
`JobWaits` (the job waits, or has stalled: nobody is at work), `Alone` (somebody adds the
first job or marks the run failed) and `Claimed` (the reaper adds a replay). `CachesAgree` is
why a memory that is never refreshed does no harm here: a worker's copy never says `queued`,
says `running` only while that worker drives, and says the run is over only when it is.
`RowAgrees` and `ReapingAgrees` tie row and claims to it. The step theorem also yields
`RowMoves`, all the ways the row's status can go, from which follow `TerminalIsFinalHolds`
and, mapping each move to an action of `RunLifecycle`, `ImplementsLifecycleHolds`.
`SoleExecutorHolds` and `QueuedIsScheduledHolds` are read off the invariant.

**The first replay** (end of `SoleExecutionProofs`), on top of it. `RInv` speaks of `attempts
<= 1`: nothing is recorded before the run starts (`Fresh`); until the replay's first write,
all that was recorded can be reused from the row (`Kept`); and a leg knows it, from its
`prior` or because it has passed it (`LegKnows`). For the second replay `Kept` is false, which
is disagreement 3.

**The story the results tell** (end of `RunExecutionProofs`; `ResultsCompleteHolds` in
`SoleExecutionProofs`). `StoryTo(r, n)`: the first n results start at step 1, are successes
and each is followed by the next step or by the one changes were requested for; `Leads` adds
that they end before a given step. `LegTells` says of every point of a leg how much of its
results leads where. It survives crashes because a leg takes over nothing but an empty list.
`Template # <<>>` is a hypothesis as an empty template would complete with no results; the
three loaders refuse one (`workflowRoutes.ts:504`, `scheduledWorkflowRun.ts:127`,
`workflowTemplateLoader.ts:54`).

**Pauses, without crashes** (`CalmExecutionProofs`). `Calm`: nothing crashes, no step
outlasts the reaper's patience, sweeps are `Unhurried`. Every kind of pause, any number of
workers, API processes, decisions, failing jobs and tries. What `SInv` says of jobs is false
here: a wait adds a second job while the first is still held. `BInv` says instead that at
most one slot is busy with more than looking at the run and letting go (`LegsFit`, with
`PhaseOK` for what row and copy say at each point of a leg), that a job is ready only when
nobody is busy and no other is ready (`ReadyAlone`), and that nothing of a crash is about
(`NoCrash`). The actions are sorted by what they do to the busy slot and to the rest
(`SlotFrame`, `Arrivals`, `Departures`), so that a step is checked against a handful of
effects and not against every other slot. From it: `SoleExecutorWithPauses`.
- `GatedByApprovalHolds`. `GInv`: a leg, a queued wait and a parked row are nowhere past an
  approval that was not granted, and nothing they could reuse would skip one. It needs
  `FInv`: the first job meets workers that do not know the run, as a copy that says `queued`
  would let it start the run from somewhere else.
- `TerminalIsFinalWithPauses`, `ImplementsLifecycleWithPauses`: `TInv`, a leg that goes on
  after a wait is past it. `FewWaits` is needed: with two waits, a second try of the first
  wait's job can be given to a worker whose copy is from before, and starts a run that the
  second wait's failed enqueue has ended. TLC finds that behaviour with two tries; production
  allows three (`queues.ts:86`).

**What a paused run takes over** (`PausedRunProofs`), on top of it.
- `ResultsCompleteWithPauses`. `WInv` follows the results from leg to row to copy to leg: what
  a wait or an approval leaves ends with that step, and a worker's copy that says `queued` was
  left by a wait. `OneWait` is needed: with two waits in a row, a worker that has kept the
  first's copy runs the second's job from it, and the result of the second wait is lost; TLC
  shows it with two workers.
- `ResumedOnceHolds`. The process that created the run never sweeps it: its copy goes on
  saying `queued` (`Aloof`). With two API processes, as in `fly.api.production.toml`
  (`TwoApis`), only one is left, whose copy of a parked run is the row (`ApisFit`); and an
  approval that has resumed the run is waited for only while that leg is about to write
  (`ResumedFits`). With three, TLC finds a copy left from an earlier approval that resumes the
  run for it again after changes were requested.
- `RecordedNotRefiredWithPauses`. `NInv`: the ordinals recorded so far lie inside the results
  of every leg, of the row and of every copy the run can be taken up from (`CopiesFresh`,
  `PauseCopies`). A leg repeats a recorded effect only if it starts from results that are too
  short.

A wait that is reached again after changes were requested reuses its job id, and where the
first job is still kept the run stays queued; no theorem here speaks of what must happen, so
none contradicts it, and it is a listed hazard.

**Run control** (`RunControlProofs`). `ControlTypeCorrect`, `ControlHeldAlways`: cancels,
retries and posts keep `IInv`, crashes included; a retry that removes the first job and adds
it again never removes one that is held. `CanceledStaysAlways`: `KInv` says of a run no worker
has written yet that it has no token, that no call knows it as failed or is about to wake it,
and that every leg is at its first look, where a canceled row makes it let go. `ServedApart`
(no worker dies, and calls are served by processes that drive no leg of the run) is needed: a
worker that dies loses its copy, so that a run with a token looks unread and may be woken; and
the creating process's copy may say `failed` and let it accept a retry of a run canceled
elsewhere.

What a call has found keeps its type and its token's wait from the read to the write, whatever
is written in between.

`QueuedIsAttendedAlways` is of any number of calls, workers, slots, tries and replays, while
posts are in time (`PostsInTime`, which the property has as its guard and which, once false,
stays so). Beside
`ServedApart` it takes `Hooked` (actions, pure steps and webhook waits; no step outlasts the
reaper's patience) and `CallsApart` (no call finds a copy of the run that an earlier call left
in its process); the instance of `run_control` satisfies all three. `QInv` says two things.
`QuietInv`, whatever calls there are: *a row that says `running` is being driven*
(`Attended`), so the reaper never claims it, the latest job is the first one and nothing
stalls; a hook's job was added by a post that is over (`JobsPosted`), and a call that has yet
to read or write has no copy in its process (`CallsPlaced`). No call but a late post writes
`running`, so what calls write back cannot make a run look driven. And while no call retries: the
first job comes before any other and is used up once a worker has written the run
(`FirstJobFirst`), and a queued row is explained (`QueuedExplained`) by a token, by a leg that
drives it or is about to mark it failed, by the first job on its way, or by a post whose job
is still to come or is already used (`PostQueued`). When a retry has been made, the property
follows from `QuietInv` alone, as a retry that is over leaves its job ready, held, or of no
use, and `RetriedInVain` names the last. The excuses of the property (`WokenInVain`,
`RetriedInVain`) are thereby shown to be all there are. With a call that finds the old copy of
an earlier one, `Attended` fails, as it does after a late post: `running` is written over a run
that is over.

**One leg under calls** (`SoleDriverProofs`), on top of `QInv`, under the same hypotheses.
`SoleDriverAlways`: `OneCarrier` says that *the run is in one place*. Of the legs that have
it, open it or are about to add its first job (`Carries`) and of the jobs that are due (`Due`)
there is one at most; the job of a webhook wait is due from the pause on, as long as the row,
a copy or a post on its way has the token it would be added for, or a cancel is about to write
that token back (`Ahead`, `PutsBack`). Without that last part the run would be nowhere between
the pause and the post, and nothing would tell that a post does not add its job while another
leg has the run; two posts of one token have one job to add. Each step of a slot hands the run
on (`Passes`): it keeps it, puts it into the queue, or takes it out. A retry clears and adds
the job while nobody has the run (`FailedIsOver`), since a run that has failed has no leg, no
due job and no token left; `FailureSeen` carries that over the writes of cancels, which may
put another status in its place before the retry has added its job; that holds until a first
retry has added its job, which is why `SoleDriver` speaks of one retry. Without posts there is
but one job, and one slot that holds it (`UnpostedFirst`).

`NotRefiredByCallsAlways`: `Known` follows what is recorded. Whoever may start the run finds it
in the row (`Kept`), as no worker then remembers a pause; a leg has it in its results or in
those it replays. Until a retry, the legs, the copies the run can be taken up from and what a
post is about to write back hold all of it (`FirstRun`, `PausedKnows`): the row itself need
not, as a cancel may have overwritten it, but such a row says `cancelling` or `canceled` and
nobody starts it. From a retry's acceptance to its write nobody works on the run
(`RetryKnows`), so that what its update finds, if it is still the failed run, holds all of it.
`CopiesQueued` is why a worker can be trusted: one that knows the run as queued has paused it.
`OneHook`, one webhook wait in the template, is needed (section 5), as `OneWait` is for timed
waits: a worker keeps the copy of the first. The properties are guarded by which calls there
are and by what their updates have found (`RetriedOnce`, `RetriedAlone`, `PostsInTime`). A
call's kind is fixed when it begins and its reading when it has read, and a guard that has
become false stays so: the guards only rule behaviours out, from the step that leaves them.

*Only model-checked:* liveness (`QueuedRunEnds`, `WokenRunEnds`, `PaidIsCredited`,
`CreditedIsFunded`) is beyond the prover, as is ENABLED. Every safety invariant and every
action property of a passing run is stated by a theorem, of the templates and fleets named
above. What the hypotheses and guards leave out is open, or known to fail: a run that is
posted to from a process with an old copy may be written `running` after it has completed
(`CallsApart`), and a worker that dies loses what it remembers (`ServedApart`).
`RecordedNotRefired`, `ResumedOnce` and `GatedByApproval` fail where `run_replayed_twice`,
`run_double_resume` and `run_rejected` say. What a recursive function computes is proved only
where, as with the sum, a smallest counterexample among finite sets stands in for induction.

## 9. What is left

1. **Pauses with crashes** outside the two gaps of section 6.
2. **More of the step loop**: a loop back over a wait, `continueOnFail`, switch.
3. **Faults of PostgreSQL and Redis**: a write that stays in memory only, a lock that
   degrades to none.
4. **Subscription events** beside the cache of `subscriptionStore.ts`.
