# A verification of NCO: its tasks, its companies, its cards and its money

NCO (neural CLI orchestrator) is a Node.js server that hands tasks to AI
providers (command-line programs and HTTP APIs), watches over them, repeats
them when they fail, and records what came of them.  Companies run a goal through
the stages of their teams, every department owes its work reports on time, plans
put tasks on a Kanban board, a conductor leads a request through discussion, design
and implementation, and the agents are citizens of a small society with wallets,
escrows, courts, polls and a payroll.  Its state is a SQLite database, an optional Redis
with BullMQ queues, and the maps of one process.
Its code runs on one event loop: what stands between two `await`s is atomic,
and everything that can go wrong goes wrong at an `await`, at a timer, at a
crash, or in an external process.

This directory holds TLA+ models of the task engine, of the runs of a company, of
its reports, of the board, of the conductor's workflow and of the society's money, the
TLC configurations that check them, and TLAPS proofs of their invariants.  Source
paths below are relative to `src/src/`; `PROJECT.json` maps every definition to its
lines.

- [1. Inventory](#1-inventory)
- [2. Modules](#2-modules)
- [3. What the runs check](#3-what-the-runs-check)
- [4. Fairness](#4-fairness)
- [5. What is proved](#5-what-is-proved)
- [6. Where code and comments disagree](#6-where-code-and-comments-disagree)
- [7. What is not modelled](#7-what-is-not-modelled)
- [8. Plan](#8-plan)

## 1. Inventory

### The task engine

| Component | State | Operations | Modelled in |
|---|---|---|---|
| Semaphore (`core/task-queue.ts`, class Semaphore) | `limit`, `inUse`, queue of waiters | acquire, acquireWithin, cancel, cancelAll, release, setLimit, drain | `Semaphore` |
| Task state machine (`core/task-state.ts`) | `tasks.status` | transitionTask | `TaskState` |
| Task lifecycle (`server/gateway.ts`, `core/task-queue.ts`) | the row: status, lease, response, metadata; the promise of its execution | intake, start, heartbeat, result, quality demotion, audit request and answer, cancel, replace | `TaskLifecycle`, `TaskContract` |
| Lease sweeper (`core/lease-sweeper.ts`) | leases, the batch of a tick | acknowledge, heartbeat, sweep | `TaskLifecycle`, `RetryLineage` |
| Boot recovery and shutdown (`index.ts`, `core/orphan-recovery-policy.ts`) | `orphan_requeue_count`, the rows to dispatch | select, dead-letter, requeue, dispatch, drain, close | `TaskLifecycle` |
| Retry lineage and budget (`server/gateway.ts`, `server/retry-budget.ts`) | `retry_counts`, the lock of every root, the attempts of a root | createRetryTask, replaceActiveTask, scheduleTaskFailover, the retries of the quality gate and the Kanban engine, rollback | `RetryLineage` |
| Enqueue loop and BullMQ adapter (`core/task-queue.ts`) | attempt, flags, current provider; BullMQ jobs; executions | enqueueWithRetries, enqueueBullMQ, waitForJobActive, runJob, tryTierEscalation, abort, reconcileProviders | `EnqueueLoop` |
| Provider circuit (`security/circuit-breaker-registry.ts`, `agent/agent-manager.ts`, `core/provider-admission-gate.ts`) | circuit snapshots, probe slots and their signals, row of `circuit_states`; leases of the gate | canExecute, recordSuccess, recordFailure, recoverIfExpired, reset, persist, restore; executeTask, probeProvider, healthCheck; acquire, beginReconciliation | `ProviderCircuit` |
| Provider registry (`core/provider-registry-snapshot.ts`, `core/provider-runtime-coordinator.ts`, `agent/agent-manager.ts`) | the configuration files, the committed snapshot, the rosters of agent manager, queue, table `agents` and routing; the gate | refresh, reconcileRuntime and its rollback, beginReconciliation, endReconciliation, acquire, the check of the revision in executeTask | `ProviderRegistry` |

### Companies, cards, workflows and money

| Component | State | Operations | Modelled in |
|---|---|---|---|
| Company orchestrator (`core/company-orchestrator.ts`) | `RUNS`, `company_runs.run_json`, the discussion stage of the workflow; the stages of a run with their task rows; the driver | driveRunBody, executePipelineOnce, executeParallelOnce, runStageWithFailover, collectStage, waitForTask, abortTimedOutCompanyTask, cancelCompanyRun, resumeCompanyRuns, reconcilePersistedStages, finalizeRun | `CompanyRun` |
| Work reports (`core/work-report-scheduler.ts`, `server/routes/work-reports.ts`) | a row of `work_reports` (status, source_task_id, redispatch_attempts, next_redispatch_at), its tasks, the gates of dispatch and of the runs, the attempted reports of a tick | issueWorkReports, createTeamReportTasks, ingestCompletedReportTasks, redispatchUnlinkedDeputyReports, redispatchUnlinkedFallbackReports, finalizeMissedWorkReports, reconcileScheduledRuns; the routes issue and submit | `WorkReports` |
| Kanban engine (`core/kanban-engine.ts`, its callers in `server/gateway.ts`, `server/routes/dashboard-compat.ts` and `core/plan-manager.ts`) | `kanban_tasks` (column, task_id), `plans.status`; the tasks that execute a card; the loops of `executePlan` | executePlan, runKanbanTask, moveTaskIfOwned, bindExecutionTask, bindRetryTask, projectTaskStatus, refreshPlanStatus, moveTask, synchronisation with the markdown, purge of task rows | `Kanban` |
| Workflow gate and conductor (`server/gateway.ts`, `core/workflow-gate.ts`, `core/workflow-pipeline.ts`, `core/task-queue.ts`) | `workflow_stages` (status, task_id) of a run; its task rows; what is begun for a task and waits | the conductor's run, enforceWorkflowPrerequisites, attachWorkflowTask, syncWorkflowTask, settlePersistedTaskTerminal, cancel, expire, replace, retry, reconcileTerminalWorkflowTasks | `Workflow` |
| Discussion engine (`core/discussion-engine.ts`) | the row of `discussions`, the session: wave, who is asked, who has proposed | startDiscussion with its waves, quorum, grace, replacements, evaluation, synthesis and report; cancelTaskDiscussions, failStaleDiscussions | `Workflow` |
| Economy, governance, emergency stop (`economy/*`, `governance/*`, `audit/emergencyService.ts`, the market and library services) | wallets with balance and locked amount, stakes, escrows, disputes, retaliation reports, proposals, votes, the work on sale, the stop, the blacklist | createWallet, sendNVC, escrow create, release and refund, dispute, proposal with bond, vote with stake, finalize, execute, buy, salaries, basic income, rewards, stop and resume, blacklist | `Treasury` |

How they interact: `POST /api/task` inserts a row and, after some awaits,
gives it to `TaskQueueManager.enqueue`.  The enqueue loop posts it to one
provider at a time: through BullMQ if Redis is there, through the provider's
semaphore in any case.  The run itself passes the admission gate and the
circuit of the AgentManager.  Its result comes back as a promise whose handler
writes the row through `transitionTask`; a success of a team task goes to
Nova-AX for its audit.  Meanwhile a client may cancel or replace the task, the
sweeper may expire its lease (which aborts it and may start a failover), a
shutdown may interrupt it, and a crash may leave all of it to the next boot.
A failed attempt may be retried as a new row with the same root, on the budget
of that root.  A card of a plan names the row that executes it: the loop of
`executePlan` polls that row, and the gateway projects every settlement onto the
card and hands the card to the retry of its row.  A company posts one row per
attempt at a stage and polls it; what it knows of its run is saved at nearly
every step, and the next process takes it up from there.  A conductor's request becomes
a run of stages; its
discussion is held by one session, the gate lets a task into a stage when the stages
before are completed, and every handler that closes a row tells the stage.  The
society's services share one wallet table, and whatever they transfer passes `sendNVC`,
which may itself
stop the whole system or blacklist the sender.

What is hard there, and what correctness means:

- *Rows.* Everybody writes the same row, most of them after an `await`.  A
  closed row must stay as it was closed; a provider must not run for a row that
  is closed; a team task must not be completed without an audit; every task
  must settle; restarts must not repeat a task for ever.
- *Slots.* Hand-over and timeout of a waiter race; the limit moves.  No slot
  may leak or be given twice, and nobody may wait next to a free one.
- *Retries.* Five callers, one of them behind a timer, a lock that two of them
  do not take, a budget that is reserved before and rolled back after.  The
  budget must add up; one execution per root; everybody in the line is served.
- *Enqueue loop.* Five kinds of repetition share one counter; finished jobs
  stay under the id of the task; waits are cut off.  The cost of a task must be
  bounded, one provider at a time, an abort must reach the provider, a retry
  must run, and the loop must return.
- *Circuit.* Executions outlive the circuit state they were admitted in.  Slots
  must not leak, the number of probes is limited, the roster is swapped while
  nothing runs, and a provider that is well again must come back.
- *Registry.*  Four users of a roster are swapped one after the other, each of
  which may fail, while a person edits the file and executions come and go.  All
  of them must run on the same roster, what was rejected must not stay behind,
  nobody may wait at the gate for ever, and a file left alone must arrive.
- *Companies.*  The driver of a run, its parallel collectors, the client that
  cancels it and the process that restarts write one record of the run.  A stage
  may have one worker in the worktree, a cancelled run must stay cancelled, a
  run may be called completed only if its work is, the budgets of iterations and
  resumes must hold together, and every run must end.
- *Reports.*  The tick of every minute, the route that issues a slot, the people
  who hand in and the gateway that settles and fails over the tasks work on one
  row; posting takes five seconds a report, and the deadline does not wait.  What
  was handed in must stay, what is delivered must arrive, a report nobody writes
  must be called missed in time, and the tasks of a report must not multiply.
- *Cards.*  Two calls of `executePlan`, the gateway, a person and the markdown
  write the same card; only the card's `task_id` says who may.  A card must be
  worked on once at a time, after what it depends on, must not go back once it
  is done, and must end up showing its row.
- *Workflow.*  A stage is written by the session, by every handler that closes a
  row, by the intake and by the boot, most of them an `await` after the row.  No
  work without its preparation, a stage must come to show how its task ended, and
  a discussion must end whoever falls silent.
- *Money.*  Services that were written separately lock and move the same
  balances; some writes stand outside of a transaction, and the process may die
  between them.  Nobody may owe, every lock must have an owner, no money may
  appear or disappear, a verdict must stand, and a guard against fraud must not
  lock out the state itself.

### The rest of the system

`PROJECT.json` lists these as components with the reason each is left out:
task intake checks and prompt gate; failover and tier policies; routing and scoring;
team circuit and loop
guards; team lifecycle; triad, ensemble, harness and supervisor; agent loop, tools
and sessions; subagents, delegation and collaboration; the other schedulers; event bus,
shared state, WebSocket and webhooks; identity and grades; storage; execution
guards; memory and learning; quality heuristics; acquisition of skills;
dashboards; MCP server, CLI and bridge.  Plans, the audit services and the
society's services are modelled in part.  Section 7 says what is left out of
them, and section 8 what would come next.

### Hazards

`PROJECT.json` lists under `hazards` what is hard to test in this code, each
at the line where it bites, with the properties that would show it going
wrong, or the reason why no property covers it yet.

## 2. Modules

Each model takes the code between two awaits as one action.  Data is reduced
to what the properties tell apart: a response is good or bad, a lease is
unset, live or past, a cooldown is running or over.

**`Semaphore`** is the class, method by method.  A promise that one callback
resolves is observed by its waiter in a later one: the stages `granted`,
`cancelled` and `timed_out` are that window.

**`TaskState`** holds the transition table and the conditional UPDATE of
`transitionTask` as `Moves(from, to, approved)`.  It has no state of its own.

**`TaskContract`** is the abstract specification: what a client sees of a task
(absent, open, under review, done, closed) and in which order.

**`TaskLifecycle`** extends `TaskState` with the row, the execution of the row
in this process (`run`), the sweeper (`batch`, `expiring`), the audit
(`auditor`, `asking`, `accepted`), and the process (`phase`, `backlog`,
`orphans`, `boots`).  `run[t]` goes from `intake` to `waiting`, `running`,
`stopping`, and to a verdict that the promise handler has not written yet.  A
crash empties what is volatile and leaves the row, Redis (`leftover`) and
Nova-AX.  `TryAgain` is what the enqueue loop looks like from outside.
Refinement: `view` is `Seen(status[t])`, `audited` is `accepted`.

**`RetryLineage`** is one root with its attempts, its row of `retry_counts`,
the line in front of its lock, and callers of five kinds.  `CreateRetry` is
`createRetryTask` up to its call of `POST /api/task`, in one turn; the answer of
the intake is `Reject`, `Dedup`, `Insert`, `Respond` or `Halfway`.  `recent`,
`disowned` and `lost` are history: they count what the code loses sight of.

**`EnqueueLoop`** is one task in `enqueueWithRetries`: `pc` is where the loop
is, `job` and `kept` are the BullMQ jobs under the id of the task, `exec` is the
execution in `runJob`, `scan` is how far `abort()` has come in the map of
providers.  `launches` is history.

**`ProviderCircuit`** is one provider (circuits share nothing but the gate)
with its `circuit`, its `slots` and their signals (`bound`), its row (`stored`),
the executions and the recovery probe that pass it (`phase`, `held`,
`aborted`), and the admission gate.  A probe reads the circuit when it is
chosen and again when it is admitted; an outcome is recorded in one turn and
the slot is given back in a later one, because `executeTask` awaits in
between.  `healthy` says that the provider answers in time from now on.

**`ProviderRegistry`** is the roster of one process that has booted.  A revision
is a hash of its roster, so that the model uses the roster itself.  `pc` is what
`refresh()` awaits, `loaded` the roster it has in hand; `agent`, `queue`, `shared`
and `routing` are the users of a roster in the order in which they are swapped.
A step lies between two awaits of more than a promise: those who wait at the gate
are called when it opens (`Called`), because their continuations are the next
ones the event loop runs.  `task` is an execution with the revision its request
named (`pin`) and the roster it was admitted on (`on`).  `failed` says that a
rollback is incomplete.

**`Kanban`** is one plan: its cards, the rows that execute them, the loops of
`executePlan`, the gateway's projections and retries, and people.  A step is
what runs between two awaits.  The statuses of a row are classes: `active` is
pending, queued, assigned, running and streaming; `failed` is failed, timed_out
and lease_expired.  `hand[c]` is history: whether a person has touched the card,
and whether the program has had its say since.  Left to the other modules or
left out: why a row settles (`TaskLifecycle`), the lock of a lineage
(`RetryLineage`; without it there are more interleavings here, not fewer), the
strategy that picks a batch (any non-empty set of runnable cards), cards and
plans that a synchronisation inserts, deletes or archives, rows whose intake
fails behind the INSERT (no card is bound to them), and crashes.

**`WorkReports`** is one report of one slot and day.  `at` is what the tick and a
call of the issue route await: a place in the dispatch gate, the answer to their
POST, or the posts for all other reports of the batch.  `day` is the clock when the
tick began, since `reportDate` and `now` stay as they were for the whole tick.  A
late report counts as submitted; a waived one is left out, nobody works on it.
`unpaid` is history: what was posted and is not counted yet.

**`CompanyRun`** is one run of a company after its launch.  `run` is the entry of
`RUNS`, `saved` the one in `company_runs`; they differ only where the code
assigns and does not call `touch`.  `pc` is what the driver awaits, `at[s]` what
the work on stage `s` awaits (one stage at a time in a pipeline and during the
dispatch of a parallel round, any number of collectors and retries after it),
and `row[s]` is the task row last inserted for the stage, settled by others at
any time.  What follows an await up to the next one is written as operators that
take the run as an argument (`RoundEnds`, `Take`, `Join`, `Iterate`, `Drive`,
`Resumed`) and end in `Go`, which is `touch` and the next await.  `doubted` and
`unwatched` are history: what a restart took for granted.  A stage row of a
company has no failover and no quality retry of its own in the gateway
(its metadata forbid both), so that `RetryLineage` stays out of it.

**`Workflow`** is one run of the conductor: its stages `discussion`, `design` and
`implementation` (`stage`, and `holder`, the task a stage names), the rows of its
tasks (`row`, `of` for their stage, `root` for their lineage) and the session of
its discussion (`talk` is the row, `session` the wave or phase, `asked` and
`proposed` its participants).  A turn that an `await` cuts in two leaves its second
half in `turn` (what the event loop runs next) or in `after` (what waits for an
answer and may come late); `source` is the task a posted one replaces.  `earned` and
`forgotten` are history: what was completed by work, and which rows were closed by a
process that died before it told the stage, with a status the boot does not list.
Why a result comes is left to `TaskLifecycle`, the lock of a lineage to `RetryLineage`.

**`Treasury`** is the society's money.  A handler is synchronous and so one
step; for every write that stands outside of a transaction there is a step
`Crash...` that does the first part only.  `Settles` is `sendNVC` between its
checks and its commit, `TooLarge` and `DoubleSpend` are the two checks that
punish.  `vanished` counts fees, which are taken from a sender and given to
nobody, `stranded` what a crash leaves locked for nothing.  A behaviour uses the
services of one `scene`; the scenes of an instance are pairs and triples of
services that touch the same columns, because all of them together exceed TLC.
The proofs do without that bound: they hold for every set of scenes, also for
the one that has all services in it.

The models meet at their edges and are not composed into one: `TaskLifecycle`
takes from `EnqueueLoop` that an attempt may go back to a queue and that a
kept job can deceive `abort()`, from `RetryLineage` only that an expired row
may be `lease_expired` or `failed`, and from `ProviderCircuit` that a run ends
with a verdict.  A product of the modules is far beyond TLC, and no property
of one of them needs more of another than that.

The `...MC` modules give constants that a `.cfg` cannot write, and the
symmetry.  The theorems are in the `...Proofs` modules: `QueueProofs` is about
`Semaphore` and `EnqueueLoop`, `ProviderProofs` about `ProviderCircuit` and
`ProviderRegistry`, `RetryLineageProofs` about `RetryLineage` and `WorkReports`, the
others are about the module they are named after.

## 3. What the runs check

| Run | Instance | Properties | Distinct states |
|---|---|---|---|
| `semaphore` | 3 callers, limit 1..2 | `SlotsAccounted`, `NoStrandedWaiter` | 290 |
| `task_lifecycle` | 1 team task among rows of others, BullMQ, busy SQLite, 4 boots, 2 requeues, 2 audit requests | `PoisonIsBounded`, `TerminalIsFinal`, `NoLaunchOnClosedRow`, `EveryTaskSettles`, `KeepsContract` | 209 248 |
| `retry_lineage` | 2 callers of any of the five kinds, a work report, 2 providers, 2 retries, a crash | `BudgetIsExact`, `OneActive`, `LineIsServed` | 4 684 440 |
| `enqueue` | 3 providers, the first behind its semaphore alone, two with BullMQ, 2 retries, deadline | `OneProvider`, `RunsAreBounded`, `EnqueueSettles` | 1 760 056 |
| `enqueue_abort` | 3 providers with BullMQ, 1 retry | `AbortReachesTheRunner`: violated | 20 700 |
| `circuit` | 1 execution and the probe, threshold 2, a swap or a crash, a lost write | `SlotsAreHeld`, `CircuitRecovers` | 252 900 |
| `kanban` | a card and its dependent, 2 calls of `executePlan`, 2 rows, 1 retry, 1 intervention by a person | `PrerequisitesHold`, `WorkedOnOnce`, `BoardShowsRows`, `DoneStaysDone`, `CallsReturn` | 171 787 |
| `treasury` | 2 citizens, an escrow, a poll, a work on sale, a crash | `Solvent`, `LocksAreAccounted`, `MoneyIsConserved` | 1 452 305 |
| `company` | 2 stages, the first with a gate, 2 candidates, 2 iterations, 1 resume, 2 restarts, every mode | `OneWorker`, `CancelIsKept`, `CompletedIsEarned`, `WorkIsBounded`, `RunSettles` | 502 276 |
| `registry` | 2 rosters and a broken file, 2 executions | `RegistryTypeOK`, `OneGeneration`, `RejectedIsRolledBack`, `RegistryConverges` | 22 344 |
| `reports` | 3 tasks of a report, 2 attempts, a crash or an exception | `ReportTypeOK`, `DispatchesAreBounded`, `SubmittedIsKept`, `LinkedResultArrives`, `ReportSettles` | 341 820 |
| `workflow` | 2 participants and a spare one, 3 tasks, a crash, clients post implementations | `WorkIsPrepared`, `StageShowsItsTask`, `DiscussionEnds` | 1 333 589 |

(For a violated property the number is about where TLC stops.)  What holds for
every instance by a proof and is implied by, or shallower than, what a run checks
has no run of its own: the type invariants of all modules that have proofs,
`QueueExact`, `ClosedRowsAreReleased`, `TeamCompletionAudited` (a part of
`KeepsContract`), `WindowIsCovered`, `OneExpiration`, `SwapIsAlone` and
`VerdictStands` (section 5).

What the properties say:

- `SlotsAccounted`, `NoStrandedWaiter`: the counter is the number of callers
  that own a slot, and nobody waits next to a free slot, also after the limit
  has moved.
- `TerminalIsFinal`: no late result, sweep, audit or recovery changes a closed
  row; only the quality gate turns a completed row into a failed one.
  `NoLaunchOnClosedRow`: a provider starts only on a row that is open then.
  `ClosedRowsAreReleased`: who closes a row under a running provider also has
  an abort on its way.  `PoisonIsBounded`: a task that kills the process is
  launched at most `MAX_ORPHAN_REQUEUE + 1` times.  `TeamCompletionAudited`: a
  completed team row has an approval that Nova-AX gave.  `EveryTaskSettles`:
  an accepted task is closed or handed to its audit, except for the two places
  the code leaves a row lying, which are named (`Parked`: waiting for the next
  boot; `Stranded`: running, with neither execution nor lease).
  `KeepsContract`: the lifecycle implements `TaskContract`.
- `BudgetIsExact`: retries, reservations and losses add up to the lifetime
  counter.  `WindowIsCovered`: what is started in a window is on its account.
  `OneExpiration`: a lineage expires once.  `OneActive`: one execution per
  lineage at a time.  `LineIsServed`: whoever waits for the lock stands in its line
  once, and only its head is under way, so that the line never stays behind a caller
  that was refused, failed or aborted.
- `RunsAreBounded`: at most `MAX_RETRIES + 2` runs of a provider for one task.
  `OneProvider`: never two at a time.  `AbortReachesTheRunner`: when `abort()`
  is through, the task runs nowhere unheard.  `EnqueueSettles`: the loop
  returns.
- `SlotsAreHeld`: a probe slot in use belongs to a run that will give one back,
  and outside of half-open there is none.  `SwapIsAlone`: the roster is swapped
  when every lease is back.  `CircuitRecovers`: when the provider answers again
  its circuit closes, unless the key is bad or the gate is blocked.
- `OneGeneration`: while an execution is inside the gate everybody stays on the
  roster it was admitted on and its request has named, whatever is edited, fails
  or times out.  `RejectedIsRolledBack`: a refresh that was rejected leaves nobody
  on what it has tried, or admission is blocked.  `RegistryConverges`: a file left
  alone is committed once nobody is inside.
- `SubmittedIsKept`: no deadline, late answer, tick or call takes a report back, and
  what a person wrote is not replaced by what a task writes.
  `DispatchesAreBounded`: however posts are refused, overlap or answer with the
  task of another, a report costs one when it is issued and one for each attempt.
  `LinkedResultArrives`: what the linked task delivers is handed in, also after the
  report was called missed.  `ReportSettles`: a report nobody delivers is called
  missed on its day, though the tick fails in between.
- `PrerequisitesHold`: a card that has a row or a loop stands on finished cards,
  and they stay finished, whatever older attempts still report.
  `WorkedOnOnce`: two calls of `executePlan` never work on one card.
  `DoneStaysDone`: no late failure, retry or loop of an older attempt moves a
  finished card or takes it over.  These three speak of cards that no person has
  touched.  `BoardShowsRows`: a card at rest shows its row, unless a person had
  the last word.  `CallsReturn`: a call of `executePlan` returns even when its
  rows never settle, or vanish.
- `Solvent`: what is locked is covered by the balance, whatever a transfer, a
  sale, an escrow, a bond or a stake took before.  `LocksAreAccounted`: the
  locked column is exactly what open escrows, bonds, stakes and a crash hold.
  `MoneyIsConserved`: money is issued by grants, incomes and rewards alone, and
  leaves the wallets only as a fee, a royalty without a receiver, or a bond that
  could not be burned.  `VerdictStands`: a verdict is what the count says, also
  when a vote is cast in the last second.
- `OneWorker`: no deadline, failover, retry, cancellation or restart posts a task
  for a stage whose last one may still be editing the worktree; left out are the
  rows that a restart finds open and does not wait for (section 6).
  `CancelIsKept`: a cancelled run stays cancelled, in memory and in the database,
  against every late result, failure, deadline and restart, except where the
  driver does not look (`Heeding`, section 6).  `CompletedIsEarned`: a run is
  called completed only if the last task of each stage delivered an acceptable
  output, or the gate rejected the port before that stage; left out are the
  stages that a restart took for completed.  `WorkIsBounded`: however often the
  process restarts, there are at most `MaxIterations + MaxResumes` rounds of
  work.  `RunSettles`: a run ends even if none of its tasks does, unless a restart
  finds it blocked in parallel mode (`Stranded`).

- `WorkIsPrepared`: whatever is cancelled, expires, is replaced, retried or lost, no
  implementation begins and no stage shows completed that was not earned by a
  completed task or by a quorum of proposals.  `StageShowsItsTask`: once nothing is
  under way for it, the stage of a closed task shows how the task ended, also after
  a crash and the boot; the discussion's stage is left out, since the session writes
  it too.  `DiscussionEnds`: three waves at most, and then a report or a failure,
  unless the process dies when the conductor's row is already closed (`Abandoned`).

Every property of a passing run is broken by a change of the model that a
plausible bug would make (`mutants` in `PROJECT.json`; the changed definitions
stand in front of the originals, marked *Mutant*).

**Bounds, and why they are enough.**  Three callers for a semaphore of one or
two slots give two waiters and a holder, with every order among them.  One task
meets everybody who writes its row; a batch of the sweeper may have rows of other
tasks in front of it, so that it is also found stale.  Four boots are needed to get past
`MaxRequeue = 2`; two audit requests overlap once.  Two callers of a lineage
meet in every pair of positions, and two attempts after the root exhaust a
lifetime limit of 2 (10 in the code) and roll a window of 2 (3 in the code)
over.  The instance has the work report and all five callers; callers without a
report, who rely on the lock alone, are covered by `LockSerialises`.  Three providers
allow one before and one after the current one in the
order `abort()` follows, and a failover to each; one of them without BullMQ has
the code with and without Redis in one run.  A threshold of two failures
(three in the code) has a state below it; one execution and one probe are the
two parties of every race for the single slot.  Two rosters allow an edit that is
taken back while the first one is being applied; two executions are one inside
and one that waits; edits, failures and refreshes are not bounded.  Three tasks of a
report are the first, its failover and
one that is dispatched again; two attempts (five in the code) have one before the
last.  Two participants are a
quorum, a spare one replaces either; three tasks of a run are the conductor's, one of
the implementation and its retry or replacement; one crash falls between any two
writes (two tasks with clients that post tasks of all three stages were checked too,
88 621 states).  Two calls of `executePlan` and
the retries of the gateway are all the writers a card can have at once; a card
and its dependent are a chain; two rows are an original and its retry, or one row
of each card (three rows with nobody at the board and one card with two
interventions were tried too, without a violation; the proofs hold for any number).
Two
citizens are a payer and a payee, a buyer and a creator, two parties of an
escrow, with an outside arbiter; amounts 1 and 2 with rates that take one coin
of two make every fee, tax, royalty and rounding occur; a supply of 4 coins
reaches the threshold of the emergency stop, and the state's two wallets are
among the receivers.  `VIEW Seen` leaves the rows of the last minute out of the
comparison of states in those scenes in which nothing reads them.  Two stages of
a company are a predecessor and its successor in a pipeline and two branches in
parallel mode; the first one has the gate, so that an approval, a rejection and
an unreadable report occur; two candidates give a failover, two iterations a
refinement, and two restarts with one resume exhaust the budget of resumes in
every phase (the code has 3 candidates, 5 iterations by default and 3
resumes).  The code's
own numbers are constants; the theorems of section 5 hold for all of them.

**Deadlock** is checked in `semaphore`, `circuit`, `registry`, `reports` and `workflow`.  The other
models stop by
design: the loop has returned, the run of the company has ended, the bounds on
boots, attempts, rows, money or crashes are used up, every row is closed.

**Symmetry** is used in `retry_lineage` over callers and providers, and in
`treasury` over the citizens.  The code
does not tell them apart, and no run with symmetry has a liveness property.

## 4. Fairness

- *Handlers and promises* (weak fairness of a step that is ready): the event
  loop runs what is ready.  Every wait of the engine has a timer: the wait for
  a slot (30 minutes at most), the wait for a result (timeout of the run and 30
  seconds), the run itself (hard timeout, `AbortSignal.timeout`), the drain of
  the admission gate (30 seconds).
- *Finish* in `TaskLifecycle` has strong fairness: an attempt may go back to a
  queue (`TryAgain`) but not for ever, which is what `RunsAreBounded` proves.
- *Leases*: ninety seconds without a heartbeat pass.  Only a row without an
  execution in this process is assumed to stay without one.
- *Restart*: a process that has exited is started again (pm2,
  `ecosystem.config.cjs`).
- *Circuit*: cooldowns pass; the health check comes back every 30 seconds; a
  run ends within its signal; work on a provider that answers is not cut off
  every time (strong fairness of `Succeed` for executions).  The native CLI
  (`claude-code`), which `supportsCliRecoveryProbe` leaves out, has no probe in
  the half-open state and is not covered by `CircuitRecovers`.
- *Registry*: the timer ticks, what a refresh awaits settles, and the store behind
  the circuits and the table `agents` answers again and again (strong fairness of
  the two swaps that need it).  Nothing is assumed of the executions.
- *Reports*: the timer ticks, and what a tick or a call of the route awaits
  settles.  Nothing is assumed of tasks, people or the time of day.
- *Cards*: what a loop awaits answers, and its timers fire (the deadline of
  `waitForTaskCompletion` ends a poll whose row never settles).  Nothing is
  assumed of the rows themselves.
- *Companies* (`WF_vars(Work)`): every wait of the driver is bounded by a timer
  or is a request of its own: discussion, design and quality phase have their
  timeouts, the poll of a row has the deadline of its stage, the pauses are
  timers.  Nothing is assumed of the rows themselves, and restarts are bounded by
  the instance only.
- *Workflow*: the wait for every participant has a timeout (`Answer` or `Fails`),
  the grace of a wave is a timer, continuations run, and the process is started
  again.  Nobody has to answer, cancel or post anything.
- No fairness is assumed of clients, operators, crashes, Nova-AX, or a provider
  that is not well.

## 5. What is proved

TLAPS proves these for all values of the constants (any number of tasks,
callers, providers, executions, cards, calls, citizens, participants or stages, any limits,
rates and bounds).

| Theorem | Property | Assumptions beyond the constants' own |
|---|---|---|
| `SemaphoreTypes`, `SemaphoreAccount`, `SemaphoreQueue`, `SemaphoreNoStrand` | `SemaphoreTypeOK`, `SlotsAccounted`, `QueueExact`, `NoStrandedWaiter` | |
| `LifecycleTypes`, `LifecyclePoison`, `LifecycleAudited` | `TypeOK`, `PoisonIsBounded`, `TeamCompletionAudited` | |
| `LifecycleFinal`, `LifecycleLaunches` | `TerminalIsFinal`, `NoLaunchOnClosedRow` | |
| `LifecycleReleases` | `ClosedRowsAreReleased` | `~Redis` |
| `LifecycleKeepsContract` | `KeepsContract` (refinement) | |
| `RetryTypes` | `TypeOK` | |
| `RetryBudget`, `RetryWindow`, `RetryExpiresOnce` | `BudgetIsExact`, `WindowIsCovered`, `OneExpiration` | |
| `LockSerialises` | `OneActive` | only callers that take the lock, no work report needed |
| `IndexSerialises` | `OneActive` | `Report`: the unique index exists |
| `LockServes` | `LineIsServed` | |
| `EnqueueTypes`, `TaskCostIsBounded` | `TypeOK`, `RunsAreBounded` | |
| `OneAtATime` | `OneProvider` | `Shrinks = {}`: no provider loses slots while jobs of its own are in work |
| `AbortIsHeard` | `AbortReachesTheRunner` | `Bull = {}` |
| `CircuitTypes`, `NoSlotLeaks`, `SwapsAreAlone` | `TypeOK`, `SlotsAreHeld`, `SwapIsAlone` | |
| `RegistryTypes`, `NoTwoGenerations` | `RegistryTypeOK`, `OneGeneration` | |
| `RejectionRollsBack` | `RejectedIsRolledBack` | `Keyed = {}`: no roster gets a derived key |
| `OnlyDerivedKeysSlip` | `RejectedIsRolledBack \/ Slipped` | |
| `ReportTypes`, `DispatchesStayBounded`, `SubmittedStays` | `ReportTypeOK`, `DispatchesAreBounded`, `SubmittedIsKept` | |
| `KanbanTypes`, `WorkStartsInOrder`, `CardsHaveOneLoop`, `NothingReopensDone`, `BoardIsRight` | `TypeOK`, `PrerequisitesHold`, `WorkedOnOnce`, `DoneStaysDone`, `BoardShowsRows` | |
| `WorkflowTypes`, `NothingIsImplementedUnprepared`, `StagesShowTheirTasks` | `TypeOK`, `WorkIsPrepared`, `StageShowsItsTask` | |
| `TreasuryTypes`, `NobodyOwes`, `LocksHaveOwners`, `MoneyStays`, `VerdictsAreFinal` | `TypeOK`, `Solvent`, `LocksAreAccounted`, `MoneyIsConserved`, `VerdictStands` | |
| `CompanyTypes`, `CompanyCancelIsKept`, `CompanyWorkIsBounded`, `CompanyOneWorker`, `CompanyCompletedIsEarned` | `TypeOK`, `CancelIsKept`, `WorkIsBounded`, `OneWorker`, `CompletedIsEarned` | |

The arguments:

- *Semaphore.*  Types, exact queue, exact account and no stranded waiter are
  inductive together: `drain` grants as many waiters as both the queue and the
  limit allow, and these are different callers because the queue is exact.
- *Lifecycle.*  `Inv` adds what the handlers rely on without saying so: a row
  under review has no execution, a row in the backlog is queued or closed and
  has no execution, the boot sees only open rows, a row that may be launched
  has been launched at most once per requeue.  `TerminalIsFinal` and
  `NoLaunchOnClosedRow` then follow from the guards of each writer, and the
  refinement from `TerminalIsFinal` and the audit.
- *Lineage.*  `BudgetInv` says that a reservation belongs to exactly the callers
  between their reservation and their INSERT, and that no window ends under
  them.  `SerialInv` says that only the head of the line is past the lock, and
  that whoever is posting has seen no active attempt.  The line is served for every mix of
  callers: each answer, refusal and abort of a caller that holds the lock takes it
  off the head of the line, and a step of anybody else leaves the line alone or joins it.
- *Enqueue loop.*  `Paid` counts: the runs so far and the calls that may still
  become one are at most the attempts posted, and these are at most
  `MaxRetries + 2`.  `Placed` says where an execution can be.  `Alone` is for
  `OneProvider`: a provider that has the task, in a job that is not finished or at work,
  is the one whose answer the loop waits for; a loop that goes on without the answer
  either knows that the job is gone or is about to return.  For the abort,
  `Heard` says that no provider that `abort()` has passed is running.
- *Circuit.*  The three properties need each other: a row read back at a swap
  may carry any state, and no stray slot stays behind because nobody is
  admitted then, and the slots of nobody are none.
- *Registry.*  `RegistryInv` says how far a swap or its rollback has come
  (`Progress`: whose roster is already the new one, whose is the old one again), that
  nobody executes meanwhile, and that outside of it everybody has one roster or
  admission is blocked (`Agreed`).  A lease can then only be granted on the roster
  its request named.  After a rejection (`RolledBack`) the rosters are the committed
  ones, the gate is blocked, or the one that slipped through has a derived key: a
  case the code leaves open, so that `RejectionRollsBack` excludes it by assumption
  and `OnlyDerivedKeysSlip` says that there is no other.
- *Reports.*  Every dispatch is paid for when it is chosen: by the issue, which
  happens once (`Unissued`), or by an attempt, which is only begun while there are
  attempts left; what is posted and not counted yet (`unpaid`) keeps the sum right
  when the tick fails.  `Places` says who may be about to post, `Paid` is the sum.
  `SubmittedIsKept` follows from the `WHERE` clause of each writer, given the types.
- *Cards.*  The properties only say anything of cards that no person touched,
  and a step that touches none of them is told apart from one that does.
  `RowsAreKnown` says that whatever a loop or the gateway refers to is a row that
  was made, and that only a row which settled without being completed is being
  retried; `CardsAreFresh` that an untouched card in `todo` has neither row nor
  loop.  A step then `GoesOn`: completed rows stay completed, finished cards
  stay as they are, and a loop starts only on a card that was claimed in this
  very step, after its prerequisites.  From `GoesOn` the three properties follow
  without looking at the actions again.  That the board is right needs to know where
  a card belongs when it is projected: `OwnersBelong`, `RetriesBelong` and
  `LoopsBelong` say that the row, the retry or the loop which holds a card was made
  for it.  Every step then leaves a card in the column of its row, in the hands of a
  loop or of a person, or as it was with its row as it was.
- *Money.*  Sums over wallets, escrows and polls are cardinalities of sets of
  coins, so that no recursion is needed: adding n coins to one wallet adds n
  elements.  `LedgerInv` takes types, `Solvent` and `LocksAreAccounted`
  together, since a refund may only unlock what the account says is locked.
  Conservation then follows action by action, and the verdicts from the moment
  a poll ends: a finalized poll takes no votes.
- *Companies.*  Three invariants, each on top of the one before.  `Heedful` says
  that memory and database agree on the status of the run (`Alike`), and that
  whoever works on a stage works for a run that is designed, whose discussion is
  over and which is not dry (`Prepared`); with it no step that heeds a
  cancellation can lead back into a phase that does not.  `Frugal` adds where
  the work on a stage can be in each phase and mode (`Places`) and the account of
  the rounds: before a round there have been at most `done + resumes`, in it one
  more (`Within`).  `Watchful` adds that an open row of a stage is attended
  (`Attended`): somebody polls it, aborts it or is being told its name, or is
  about to come to it and the stage still names it.  `OneWorker` is then the case
  of `RowInserted`: the stage that is being posted has no such row.  `Sound` is for
  `CompletedIsEarned`: a run is closed or `Accounted`, which says that a completed
  stage has an accepted row unless the pipeline stands between two candidates
  (`Trying`), that a skipped one stands after a gate that rejected, and that nothing
  is skipped while a round, the first iteration or a parallel run is under way.  That
  the first stage of a set is its least one, for any number of stages, comes from the
  well-foundedness of `<`.
- *Workflow.*  `Earnings` and `Permits` follow what was earned by work: a task of the
  implementation was let in, or repeats one that was, so that a retry may pass by the
  gate.  `Duties` says what is under way for a task and how its row stands meanwhile:
  a live row has nothing under way.  `Holders` and `Shows` are the argument for the
  stages: the task a stage names was attached to it, and if it is closed the stage
  shows its end, somebody will still say so, or its process died before.

Only model-checked: the liveness properties (`EveryTaskSettles`, `EnqueueSettles`,
`CircuitRecovers`, `RegistryConverges`, `LinkedResultArrives`, `ReportSettles`,
`CallsReturn`, `RunSettles`, `DiscussionEnds`), which are out of the prover's reach, as
are `ENABLED` and induction over data.  Every invariant and action property of the
passing runs is stated by a theorem.
`AbortReachesTheRunner` does not hold of the code (it does
without BullMQ, which is `AbortIsHeard`).  No module here has a `RECURSIVE` operator.

## 6. Where code and comments disagree

Shown by a run:

- `enqueue_abort` (`core/task-queue.ts:2549`).  `abort()` takes a finished job
   of an earlier provider for the waiting one, removes it and returns true; the
   provider that runs hears nothing.  Lines 2522-2524 promise the signal.

Seen while modelling, with no run of their own.  Registry:

- With a roster in `Keyed` the model violates `RejectedIsRolledBack`: the agent
  manager writes the key it derives for a CLI into the roster in hand
  (`injectDerivedKeys`, `agent/agent-manager.ts:389`), and `commitConfigs` hashes
  that roster again, finds another revision and throws, when everybody has been
  swapped and the gate is open (`core/provider-registry-snapshot.ts:531`).  The
  refresh is rejected, the old snapshot stays, and all executions run on the new
  roster.  The coordinator's comment promises the last-known-good revision
  (`core/provider-runtime-coordinator.ts:38`).
- Admission that was blocked (`provider_runtime_inconsistent`) is not opened by
  putting the committed configuration back: the store compares with the
  committed revision and sees nothing to do
  (`core/provider-registry-snapshot.ts:501`).
- Tasks longer than the drain of thirty seconds, one after the other, keep a new
  roster out for ever, while the gate closes at every poll.
- A store that breaks a swap is needed for its rollback as well (the circuits are
  restored, the states of the agents written): it often blocks admission.

Tasks:

- The result of a recovered task goes to `transitionTask`
  (`core/task-queue.ts:366`).  If the task was still waiting for a slot its row
  is `queued`, from where the table has no way to `timed_out`: the update is
  refused, and the row stays queued until the next boot, although the comment at
  line 324 says that recovery must persist the result.
- Every BullMQ attempt adds a job under the task's id, and finished jobs are
  kept; a retry of the same provider is answered with the result it retries
  (`core/task-queue.ts:2228`).  Line 1909 promises a retry with backoff.
- A probe slot is given back without asking whose it is
  (`security/circuit-breaker-registry.ts:625`).  An execution that was admitted
  in an earlier half-open state frees the slot of the probe that runs now, and
  another one is admitted; line 380 calls the counter a semaphore of
  `halfOpenMaxAttempts`.
- `RetryLineage` without a work report and with all five callers violates
  `OneActive`: the quality gate and the Kanban engine retry without the root
  lock (`server/gateway.ts:2483`, `:2157`), both find no active child, and both
  insert one; line 1867 says that parallel fan-out is prevented.
- `EnqueueLoop` with `Shrinks = {"b"}` violates `OneProvider`: the wait for a
  result (`core/task-queue.ts:2261`) starts when the job is active, but the job
  may still be behind the semaphore, whose limit has shrunk; the loop
  escalates, and later both providers run.
- An authentication gate is taken back by a failure: `recordFailure` on an open
  circuit with reason `auth` commits whatever the new failure implies
  (`security/circuit-breaker-registry.ts:531-583`), so that the failure of an
  execution admitted earlier closes the gate or gives it a cooldown; lines 206
  and 291 say that only a manual reset lifts it.
- The exponential backoff is lost: becoming half-open overwrites `openedAt`
  (line 670), so that the previous duration is zero or less when the probe
  fails and the base cooldown is used again (line 769); line 293 counts on 60
  s, 120 s and so on.
- The sweeper marks rows of a batch it selected before its awaits
  (`core/lease-sweeper.ts:147`): a row whose lease was renewed meanwhile is
  expired all the same.  Nothing in the model's properties forbids it.
- A success whose settlement threw is later sent to its audit without having
  been judged by the quality gate (`server/gateway.ts:1455`, `:2540`).
- Early returns of `createRetryTask` (`server/gateway.ts:1833`) forget the
  reservation the caller brought along (`lost` in the model); an intake that
  fails behind its INSERT (`:3475`) returns the reservation of a retry that
  exists (`disowned`).

Companies (`core/company-orchestrator.ts`):

- A cancellation during planning, design or the quality phase is overwritten when
  that phase returns (lines 1626, 1749, 1838), and so is one that meets the abort
  of a task which turns out to name a blocker (1996).  Comments at 800, 1210 and
  2029 promise that it stays.  These places are `Heeding` in the model.
- A port that was rejected is executed all the same: the stages after the gate
  are skipped, but a failed quality phase or a restart leads to another
  iteration, and that one reopens everything that is not completed (1796).
- A restart takes poor work for completed: `reconcilePersistedStages` sets
  `completed` also if the output is not acceptable and the row says so (1238); a
  gate found completed is never read; and `runStageWithFailover` saves
  `completed` before it judges the output (2123-2127), so that a restart during
  the next candidate keeps it.  These stages are `doubted`.
- Work is doubled by a restart: only stages saved as pending or running are
  waited for.  The row of a stage that was saved with any other status (a failed
  one whose next candidate was being posted, for one) is posted again while it
  runs (`unwatched`), and a row that was inserted but not yet named is nobody's.
- A parallel run found blocked when it is resumed loses its driver without being
  finalized and stays active until the next boot (`Stranded`).
- A store that fails while it saves a run also takes the run out of `RUNS`
  (`touch`), so that the last write which the comment at line 1192 promises is
  never tried.
- A run whose last quality phase failed is reported completed by `finalizeRun`:
  it looks at the stages only.
- `lease_expired` is not among the terminal statuses of `waitForTask` (2278):
  such a row is polled until the deadline of its stage.

Reports (`core/work-report-scheduler.ts`):

- The tick hands in what has arrived first and calls missed what has not last, but
  in between it posts the tasks of all other reports, one every five seconds: what
  arrives then is called missed (line 2096), though the comment at line 2091 says
  that the order prevents it.  The next tick takes the report back, as late.
- The successor of a failed task is not linked: `createRetryTask` carries the id
  of the report along (`server/gateway.ts:1843`), but the report keeps or loses the
  link to the failed task only (line 1765).  What the successor delivers is handed
  in only if a later dispatch is answered with it while it runs; the next tick may
  post a third task instead, or the report is missed although a text is there.
- The issue route calls reports missed without having looked at what has arrived
  (`server/routes/work-reports.ts:541`).
- A report that a person handed in while its candidate waited in the gate is
  posted all the same.
- What a tick has posted before it failed is not counted as an attempt.
- A report still pending at midnight is closed by the issue route alone: a tick
  looks at its own day.
- A task that is completed with an empty text is neither handed in nor unlinked:
  its report waits for the deadline.

Workflow (`core/workflow-gate.ts`, `core/discussion-engine.ts`, `server/gateway.ts`):

- Cancelling the conductor's task closes its discussion but not the discussion's
  stage: `syncWorkflowTask` writes the stage of the task, which is the design, and
  the session that finds itself closed throws; the conductor fails the stage only
  if its row was still open (`server/gateway.ts:6005`).  The stage runs for ever.
- A process that dies when the conductor's row is already closed leaves the
  discussion active until a boot a day later (`core/workflow-gate.ts:548`): the
  recovery looks for open rows.  This is `Abandoned`.
- `reconcileTerminalWorkflowTasks` lists the status `timeout`
  (`core/workflow-gate.ts:462`), which no row has; rows that are `timed_out` or
  `lease_expired` and were not told before a crash stay unsynchronised
  (`forgotten`).
- A cancel request for a closed task that has been superseded settles it once more
  (`server/gateway.ts:1723`) and puts its stage back to how the old task ended, while
  the successor works.  The late half of an expiry does the same (2343), although
  the comment above it expects the retry to come afterwards.  The model allows both:
  the stage then names the old task again, and is told anew when the successor ends.
- The prerequisites of a stage are checked before the awaits of the intake and not
  when the task is attached (`server/gateway.ts:3324`, `:3428`): a stage that was
  reopened in between does not hold the work up.  So `WorkIsPrepared` says "were once
  completed".
- The gate only sees the mode `task` (`core/workflow-gate.ts:231`); a retry of a
  task with another mode passes it unasked.
- The conductor's row has no lease: a discussion of more than ten minutes is expired
  as never claimed (`core/lease-sweeper.ts:128`) while it goes on.
- A crash between the write of a completed row and its settlement skips the quality
  gate, since the reconciliation of the boot tells the stage only.

Cards (`core/kanban-engine.ts`):

- `bindExecutionTask` (line 246) gives a card a new row and leaves the column
  and the plan as they were; until the row is projected the card shows the
  column of the old one.
- A card in `done` that is executed again and whose dispatch is refused goes to
  `review` (line 905), although its row is completed; `BoardShowsRows` names
  this exception.
- A dependent of a card that was failed over is reported "Dependencies not
  completed" and stays in `todo` (line 669), although the retry may complete.
- After a crash a claimed card without a row stays `in_progress`, and nothing
  claims it again.
- A person who puts a card back to `todo` while its row runs lets a second loop
  start; the superseded row keeps running, with nobody to abort it.

Money:

- Two transfers of one sender and one amount within a minute are a double spend,
  whoever receives them (`economy/transactionService.ts:101`).  The payroll pays
  officials of one salary in one batch (`governance/governmentService.ts:595`),
  and a publication pays every author the same share
  (`society/libraryService.ts:84`): the second payment blacklists the government
  and stops the system.  Migration 050 pays four ministers the same salary
  (`db/migrations/050_nova_civil_servant_salary.sql`, lines 42-45).
- The fee of `sendNVC` is taken from the sender and credited to nobody
  (`vanished`); `docs/nova-government/FINANCIAL-POLICY.md:95` says it is
  burned.
- Stakes are never released, and a quorum is counted in weight of votes while
  the comment of migration 032 counts citizens.
- `checkDisputeTimeouts` refunds on behalf of the defendant, which
  `refundEscrow` refuses when the defendant is the sender.
- At the very end of a poll both a vote and its finalization are allowed.
- `sendNVC` inside of an outer transaction (transfer of a domain, end of an
  auction): when the outer one rolls back, the emergency stop and the blacklist
  entry of a refused payment are rolled back with it.
- A crash between payment and its record (`evaluateAndPaySalary`) pays twice;
  one between a lock and the row it is for (bond and proposal, stake and vote,
  verdict and bond) strands the money (`stranded`).
- The lock and the refund of an escrow and the rows of a tax count as
  transfers of the same amount in the check for double spends.
- No code calls `checkDisputeTimeouts`, `scheduleUbi`,
  `scheduleMonthlySalary`, `checkGlobalAnomalies` or `processExpirations`; the
  model leaves it open whether and when they run.

## 7. What is not modelled

- Inside the modelled components: the wording of prompts and errors, events
  and logs, the ledger of work events, metrics, priority aging, stalled BullMQ
  workers, dead letters for other reasons than poison, durations of cooldowns
  and of probe schedules, the evidence of the last inference.
- Of the company orchestrator: the lease of the computer-use company, a store that
  fails (503), the eviction of old runs from memory, teams that vanish between two
  boots, the blockers that the ui-inspection company may retry, the choice of
  executors (any candidate may be accepted, refused or missing).
- Of the work reports: the limit of twenty reports per tick, rows of tasks that are
  purged, the backfill of old days, the texts of prompts and reports.
- Of the workflow and the discussion: runs without planning, review and verification
  (their prerequisites are those of the implementation), stages that are divided among
  teams, the policy over prompts, the real-time and hive modes, the scores of consensus,
  the answers that arrive behind the end of a wave.
- Pure text heuristics (classifiers, quality gate, routing, memory): their
  verdict is a free choice where a model needs it.
- Read-only routes, dashboards and adapters: they change nothing.
- SQLite: `better-sqlite3` is synchronous, so that a transaction is one step.
  A write that fails is modelled where the code survives it (`Busy`,
  `MaxLost`).
- Several server processes on one database: the code assumes one.
- The Merkle log of the audit chain, domains and auctions, the forum and
  diplomacy; the assignments of the provider registry, its boot before the first
  commit and its copy in `worker.ts`; the file pipeline of `workflow-pipeline.ts`;
  triad and ensemble; the other schedulers; subagents and delegation.
  They have state of their own, and section 8 orders them.
- Most of the lines of the repository are not state machines: HTML dashboards,
  read-only queries, prompt and text heuristics, adapters to command-line
  programs and to HTTP interfaces.  The map covers the code that decides over
  tasks, companies, cards and money, and no share of those.

## 8. Plan

Done, in this order: `Semaphore`, `TaskState`, `TaskLifecycle` with
`TaskContract`, `RetryLineage`, `EnqueueLoop`, `ProviderCircuit`, `Treasury`,
`Kanban`, `CompanyRun`, `ProviderRegistry`, `WorkReports` and `Workflow`, each with
its proofs.

What would come next, the most important first:

1. **Triad and ensemble**: one verdict, every round ends, no answer counts twice.
2. **Company and workflow together**: `CompanyRun` reads the discussion stage that
   `Workflow` writes; the two meet in one record only.
3. **Domains and auctions**, next to `Treasury`: one owner, the highest bid is
   the only one locked.
4. **Audit chain**: an append under a failing write keeps the chain verifiable.
5. **The other schedulers**: due work is started once, over missed ticks and restarts.
6. **Subagents and delegation**: depth and fan-out limits; every child ends.

Theorems still worth proving: that with BullMQ an abort reaches the runner where no
provider before it keeps a finished job; that without a work report callers who skip
the lock are the only way to two executions of a lineage.
