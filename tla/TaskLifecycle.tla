--------------------------- MODULE TaskLifecycle ---------------------------
(***************************************************************************)
(* The life of a durable task, from POST /api/task to its terminal row,    *)
(* with everybody who may write it: the request handler and the promise of *)
(* its execution, the provider run, the lease sweeper, the quality gate,   *)
(* the Nova-AX audit, a cancelling or replacing client, a graceful         *)
(* shutdown, a crash, and the recovery of the next boot.                   *)
(*                                                                         *)
(* The row lives in SQLite and survives; the run, the promises and the     *)
(* handlers live in one Node process and die with it.  A step is what the  *)
(* code does between two awaits.  The queue is abstracted to "waiting",    *)
(* and of Redis only the finished jobs of earlier attempts are kept; the   *)
(* modules EnqueueLoop and Semaphore open both up.                         *)
(***************************************************************************)
EXTENDS Integers, FiniteSets, TaskState

CONSTANTS Tasks,        \* task ids
          TeamTasks,    \* the ones of a team that are not audit control plane
          MaxRequeue,   \* MAX_ORPHAN_REQUEUE
          Redis,        \* providers are fed by BullMQ, not by semaphores only
          Busy,         \* SQLite may refuse the UPDATE that persists a result
          MaxBoots,     \* bound: boots of the process
          MaxTouches,   \* bound: heartbeats a client sends over HTTP
          MaxAudits     \* bound: verification requests in flight for one task

ASSUME TeamsAreTasks == TeamTasks \subseteq Tasks
ASSUME BoundsAreNat == {MaxRequeue, MaxBoots, MaxTouches, MaxAudits} \subseteq Nat
ASSUME SettingsAreBoolean == {Redis, Busy} \subseteq BOOLEAN

VARIABLES
  \* ---- durable: the tasks table
  status,       \* tasks.status, "none" before the INSERT
  lease,        \* lease_expires_at: NULL, in the future, in the past
  requeues,     \* orphan_requeue_count
  response,     \* quality of the stored response
  approval,     \* metadata verificationStatus
  \* ---- external: Nova-AX
  accepted,     \* tasks whose receipt Nova-AX has accepted
  \* ---- external: Redis
  leftover,     \* tasks of which a finished job is still kept in a queue
  \* ---- volatile: the Node process
  phase,        \* up, draining, closing, booting, down
  run,          \* the execution promise of the task in this process
  aborting,     \* taskQueue.abort() called, not yet delivered
  batch,        \* rows the current sweep has selected but not yet marked
  expiring,     \* the row whose onLeaseExpired the sweep awaits, if any
  auditor,      \* settlements that await notifyNovaAxAuditRequired
  asking,       \* verification requests that await Nova-AX
  backlog,      \* recovered rows not yet dispatched
  orphans,      \* rows the boot recovery has still to decide
  \* ---- history and bounds
  launches,     \* how often the row was moved to running
  boots, touches

row      == <<status, lease, requeues, response, approval>>
sweep    == <<batch, expiring>>
audit    == <<auditor, asking, accepted>>
recovery == <<backlog, orphans, boots>>
vars     == <<row, leftover, sweep, audit, recovery, phase, run, aborting, launches, touches>>

Verdicts == {"good", "bad", "failed", "timed_out", "cancelled"}
Runs     == {"none", "intake", "waiting", "running", "stopping"} \cup Verdicts
Alive    == phase \in {"up", "draining", "closing"}

Exists(t)   == status[t] # "none"
Terminal(t) == status[t] \in TERMINAL_STATES
IsOpen(t)   == status[t] \in Open
Passes(t)   == t \notin TeamTasks \/ approval[t] = "approved"

-----------------------------------------------------------------------------
Init ==
  /\ status = [t \in Tasks |-> "none"]
  /\ lease = [t \in Tasks |-> "null"]
  /\ requeues = [t \in Tasks |-> 0]
  /\ response = [t \in Tasks |-> "none"]
  /\ approval = [t \in Tasks |-> "none"]
  /\ accepted = {} /\ leftover = {}
  /\ phase = "up"
  /\ run = [t \in Tasks |-> "none"]
  /\ aborting = {}
  /\ batch = {} /\ expiring = {}
  /\ auditor = {} /\ asking = [t \in Tasks |-> 0]
  /\ backlog = {} /\ orphans = {} /\ boots = 0
  /\ launches = [t \in Tasks |-> 0]
  /\ touches = 0

-----------------------------------------------------------------------------
(* Intake and execution                                                    *)

\* POST /api/task: the INSERT commits; publishing the event and recording the
\* invocation are awaited before the queue hears of the task.
Create(t) ==
  /\ phase = "up" /\ status[t] = "none"
  /\ status' = [status EXCEPT ![t] = "assigned"]
  /\ run' = [run EXCEPT ![t] = "intake"]
  /\ UNCHANGED <<lease, requeues, response, approval, sweep, audit, recovery,
                 phase, aborting, launches, touches, leftover>>

\* taskQueue.enqueue(): refused as cancelled once a shutdown has begun.
Enqueue(t) ==
  /\ Alive /\ run[t] = "intake"
  /\ run' = [run EXCEPT ![t] = IF phase = "up" THEN "waiting" ELSE "cancelled"]
  /\ UNCHANGED <<row, sweep, audit, recovery, phase, aborting, launches, touches, leftover>>

\* Mutant: a run starts without asking the row.
StartBlindly(t) ==
  /\ Alive /\ run[t] = "waiting"
  /\ run' = [run EXCEPT ![t] = "running"]
  /\ status' = [status EXCEPT ![t] = IF Moves(@, "running", TRUE) THEN "running" ELSE @]
  /\ launches' = [launches EXCEPT ![t] = IF Moves(status[t], "running", TRUE) THEN @ + 1 ELSE @]
  /\ UNCHANGED <<lease, requeues, response, approval, sweep, audit, recovery,
                 phase, aborting, touches, leftover>>

\* startRuntime() with markTaskExecutionStarted(): the lease is acknowledged
\* while the row is assigned, the row moves to running, and a first heartbeat
\* is attempted.  A terminal row ends the attempt as a duplicate execution; a
\* row that is already running (a second attempt of the same enqueue) goes on.
Start(t) ==
  /\ Alive /\ run[t] = "waiting"
  /\ IF Terminal(t)
     THEN /\ run' = [run EXCEPT ![t] = "failed"]
          /\ UNCHANGED <<status, lease, launches>>
     ELSE /\ run' = [run EXCEPT ![t] = "running"]
          /\ status' = [status EXCEPT ![t] = IF Moves(@, "running", TRUE) THEN "running" ELSE @]
          /\ launches' = [launches EXCEPT ![t] =
                            IF Moves(status[t], "running", TRUE) THEN @ + 1 ELSE @]
          /\ \/ lease' = [lease EXCEPT ![t] = "live"]
             \/ status[t] # "assigned" /\ UNCHANGED lease     \* SQLite was busy
  /\ UNCHANGED <<requeues, response, approval, sweep, audit, recovery, phase,
                 aborting, touches, leftover>>

\* The wait ends without a run: queue wait timeout, deadline, provider gone.
GiveUpWaiting(t) ==
  /\ Alive /\ run[t] = "waiting"
  /\ \E v \in {"failed", "timed_out"} : run' = [run EXCEPT ![t] = v]
  /\ UNCHANGED <<row, sweep, audit, recovery, phase, aborting, launches, touches, leftover>>

\* A queue that still keeps a finished job of the task takes no second one: the
\* caller is handed the old result.  It is a success only when the process that
\* ran the job did not live to persist it.
StaleResult(t) ==
  /\ Alive /\ run[t] = "waiting" /\ t \in leftover
  /\ \E v \in Verdicts : /\ status[t] = "queued" \/ v \in {"failed", "timed_out"}
                         /\ run' = [run EXCEPT ![t] = v]
  /\ UNCHANGED <<row, sweep, audit, recovery, phase, aborting, launches, touches, leftover>>

\* BullMQ keeps the job of an attempt that has ended (the last hundred of them).
JobIsKept(t) == leftover' \in {leftover, leftover \cup IF Redis THEN {t} ELSE {}}

\* enqueueWithRetries(): a failed attempt goes back to a queue, of the same
\* provider or of another one, while the row stays as it is.  An aborted attempt
\* that its provider reports as failed is escalated too.
TryAgain(t) ==
  /\ \/ Alive /\ run[t] = "running"
     \/ phase = "up" /\ run[t] = "stopping"
  /\ run' = [run EXCEPT ![t] = "waiting"]
  /\ JobIsKept(t)
  /\ UNCHANGED <<row, sweep, audit, recovery, phase, aborting, launches, touches>>

\* The provider ends; finalizeRuntime() never reports success after an abort.
Finish(t) ==
  /\ Alive
  /\ \/ run[t] = "running" /\ \E v \in Verdicts : run' = [run EXCEPT ![t] = v]
     \/ /\ run[t] = "stopping"
        /\ \E v \in {"failed", "cancelled"} : run' = [run EXCEPT ![t] = v]
  /\ JobIsKept(t)
  /\ UNCHANGED <<row, sweep, audit, recovery, phase, aborting, launches, touches>>

\* The runtime owner's heartbeat, or a client's: any open row gets a new lease.
Heartbeat(t) ==
  /\ Alive /\ IsOpen(t)
  /\ \/ run[t] \in {"running", "stopping"} /\ UNCHANGED touches
     \/ touches < MaxTouches /\ touches' = touches + 1
  /\ lease' = [lease EXCEPT ![t] = "live"]
  /\ UNCHANGED <<status, requeues, response, approval, sweep, audit, recovery,
                 phase, run, aborting, launches, leftover>>

\* Ninety seconds pass without a heartbeat.
LeaseLapses(t) ==
  /\ lease[t] = "live" /\ IsOpen(t)
  /\ lease' = [lease EXCEPT ![t] = "past"]
  /\ UNCHANGED <<status, requeues, response, approval, sweep, audit, recovery,
                 phase, run, aborting, launches, touches, leftover>>

-----------------------------------------------------------------------------
(* The result is persisted and settled                                     *)

Succeeded(v) == v \in {"good", "bad"}

\* What the promise handler wants to write: a successful team task waits for
\* its audit.  (persistRecoveredTaskResult does the same after a recovery.)
Target(t, v) ==
  IF Succeeded(v) THEN IF t \in TeamTasks THEN "reviewing" ELSE "completed" ELSE v

\* Mutant: the late result of a closed row is written over it.
PersistedIgnoringRow(t, v) ==
  /\ IsOpen(t) \/ Terminal(t)
  /\ status' = [status EXCEPT ![t] = Target(t, v)]
  /\ response' = [response EXCEPT ![t] = IF Succeeded(v) THEN v ELSE @]

\* transitionTask() lets the result in.
Persisted(t, v) ==
  /\ Moves(status[t], Target(t, v), Passes(t))
  /\ status' = [status EXCEPT ![t] = Target(t, v)]
  /\ response' = [response EXCEPT ![t] = IF Succeeded(v) THEN v ELSE @]

\* A result that passes the quality gate, or was no success to begin with:
\* settlePersistedTaskTerminal runs in the same turn, finds nothing to reject,
\* and asks for the audit of a row that is under review.
Persist(t) ==
  /\ Alive /\ run[t] \in Verdicts \ {"bad"}
  /\ Persisted(t, run[t])
  /\ auditor' = IF status'[t] = "reviewing" THEN auditor \cup {t} ELSE auditor
  /\ run' = [run EXCEPT ![t] = "none"]
  /\ UNCHANGED <<lease, requeues, approval, asking, accepted, sweep, recovery,
                 phase, aborting, launches, touches, leftover>>

\* A success of bad quality, demoted in the same turn by markTaskQualityRejected.
PersistRejected(t) ==
  /\ Alive /\ run[t] = "bad"
  /\ Moves(status[t], Target(t, "bad"), Passes(t))
  /\ status' = [status EXCEPT ![t] = "failed"]
  /\ response' = [response EXCEPT ![t] = "bad"]
  /\ run' = [run EXCEPT ![t] = "none"]
  /\ UNCHANGED <<lease, requeues, approval, audit, sweep, recovery, phase,
                 aborting, launches, touches, leftover>>

\* The settlement throws (SQLite busy) after the result has been committed: the
\* row keeps a result nobody has judged.  The handler only logs it.
PersistUnsettled(t) ==
  /\ Alive /\ Succeeded(run[t])
  /\ Persisted(t, run[t])
  /\ run' = [run EXCEPT ![t] = "none"]
  /\ UNCHANGED <<lease, requeues, approval, audit, sweep, recovery, phase,
                 aborting, launches, touches, leftover>>

\* The row refuses the result, or its UPDATE throws: the promise is spent.
PersistDropped(t) ==
  /\ Alive /\ run[t] \in Verdicts
  /\ Busy \/ ~Moves(status[t], Target(t, run[t]), Passes(t))
  /\ run' = [run EXCEPT ![t] = "none"]
  /\ UNCHANGED <<row, sweep, audit, recovery, phase, aborting, launches, touches, leftover>>

\* cancelTaskById on a row that is already closed settles it once more.
Resettle(t) ==
  /\ phase = "up" /\ status[t] = "completed" /\ response[t] = "bad"
  /\ status' = [status EXCEPT ![t] = "failed"]
  /\ UNCHANGED <<lease, requeues, response, approval, audit, sweep, recovery,
                 phase, run, aborting, launches, touches, leftover>>

-----------------------------------------------------------------------------
(* The audit of team tasks                                                 *)

\* markTaskAuditQueued()
MarkQueued(t) ==
  approval' = [approval EXCEPT ![t] = IF status[t] = "reviewing" THEN "pending" ELSE @]

\* notifyNovaAxAuditRequired() returns, or throws.
Notified(t) ==
  /\ Alive /\ t \in auditor
  /\ auditor' = auditor \ {t}
  /\ MarkQueued(t) \/ UNCHANGED approval
  /\ UNCHANGED <<status, lease, requeues, response, asking, accepted, sweep,
                 recovery, phase, run, aborting, launches, touches, leftover>>

\* reconcilePendingOrganizationAudits()
Reconcile(t) ==
  /\ Alive /\ t \in TeamTasks \ auditor
  /\ status[t] = "reviewing" /\ approval[t] # "approved"
  /\ auditor' = auditor \cup {t}
  /\ UNCHANGED <<row, asking, accepted, sweep, recovery, phase, run, aborting,
                 launches, touches, leftover>>

\* POST /api/tasks/:id/verification, up to the call of Nova-AX.
Verify(t) ==
  /\ phase = "up" /\ t \in TeamTasks /\ status[t] = "reviewing"
  /\ asking[t] < MaxAudits
  /\ asking' = [asking EXCEPT ![t] = @ + 1]
  /\ UNCHANGED <<row, auditor, accepted, sweep, recovery, phase, run, aborting,
                 launches, touches, leftover>>

\* Nova-AX answers.  An accepted receipt is written only over a row that is
\* still under review, and the same turn completes it.
Verified(t) ==
  /\ Alive /\ asking[t] > 0
  /\ asking' = [asking EXCEPT ![t] = @ - 1]
  /\ \/ UNCHANGED <<status, approval, accepted>>                    \* rejected
     \/ /\ accepted' = accepted \cup {t}
        /\ IF status[t] = "reviewing"
           THEN /\ approval' = [approval EXCEPT ![t] = "approved"]
                /\ status' = [status EXCEPT ![t] = "completed"]
           ELSE UNCHANGED <<status, approval>>
  /\ UNCHANGED <<lease, requeues, response, auditor, sweep, recovery, phase, run,
                 aborting, launches, touches, leftover>>

-----------------------------------------------------------------------------
(* Closing a row from outside its execution                                *)

Close(t, to) ==
  /\ phase = "up" /\ Moves(status[t], to, FALSE)
  /\ status' = [status EXCEPT ![t] = to]
  /\ aborting' = aborting \cup {t}
  /\ UNCHANGED <<lease, requeues, response, approval, audit, sweep, recovery,
                 phase, run, launches, touches, leftover>>

Cancel(t)  == Close(t, "cancelled")       \* cancelTaskById
Replace(t) == Close(t, "failed")          \* replaceActiveTask

\* taskQueue.abort(): a running provider gets the signal, a waiting call is
\* cancelled; between two attempts there is nothing to abort.  A kept job in the
\* queue of a provider that is looked at first is taken for the task: it is
\* removed, and a running provider hears nothing.
Aborted(t) ==
  \/ /\ \/ run[t] = "running" /\ run' = [run EXCEPT ![t] = "stopping"]
        \/ run[t] = "waiting" /\ run' = [run EXCEPT ![t] = "cancelled"]
        \/ run[t] # "running" /\ UNCHANGED run
     /\ UNCHANGED leftover
  \/ t \in leftover /\ leftover' = leftover \ {t} /\ UNCHANGED run

AbortDelivered(t) ==
  /\ Alive /\ t \in aborting
  /\ aborting' = aborting \ {t}
  /\ Aborted(t)
  /\ UNCHANGED <<row, sweep, audit, recovery, phase, launches, touches>>

-----------------------------------------------------------------------------
(* The lease sweeper                                                       *)

\* Mutant: only rows that were never started are swept.
OverdueAssigned == {t \in Tasks : status[t] = "assigned" /\ lease[t] = "past"}

Overdue   == {t \in Tasks : status[t] \in Leased /\ lease[t] = "past"}
Unclaimed == {t \in Tasks : status[t] = "assigned" /\ lease[t] = "null"}

\* markTaskLeaseExpired(): the row must still be leased; whether it fails for
\* good depends on the expirations of its lineage (module RetryLineage).
Mark(t) ==
  IF status[t] \in Leased
  THEN /\ \E s \in {"lease_expired", "failed"} : status' = [status EXCEPT ![t] = s]
       /\ expiring' = {t}
  ELSE UNCHANGED <<status, expiring>>

SweepRest == <<lease, requeues, response, approval, audit, recovery, phase,
               aborting, launches, touches>>

\* A tick selects the overdue rows (and, ten minutes after the last activity,
\* unclaimed ones) and marks the first of them in the same turn: one of Tasks, or
\* a row of somebody else, before whom these wait.
SweepTick ==
  /\ Alive /\ expiring = {} /\ batch = {}
  /\ \E due \in SUBSET (Overdue \cup Unclaimed) :
       /\ Overdue \subseteq due /\ due # {}
       /\ \/ \E t \in due : Mark(t) /\ batch' = due \ {t}
          \/ batch' = due /\ UNCHANGED <<status, expiring>>
  /\ UNCHANGED <<SweepRest, run, leftover>>

\* onLeaseExpired aborts the execution; the failover that follows is a matter
\* of RetryLineage.  If it throws, the rest of the batch waits for another tick.
SweepAborts ==
  /\ Alive /\ \E t \in expiring : Aborted(t)
  /\ expiring' = {}
  /\ batch' \in {batch, {}}
  /\ UNCHANGED <<SweepRest, status>>

\* The loop goes on to the next selected row.
SweepNext(t) ==
  /\ Alive /\ expiring = {} /\ t \in batch
  /\ batch' = batch \ {t}
  /\ Mark(t)
  /\ UNCHANGED <<SweepRest, run, leftover>>

-----------------------------------------------------------------------------
(* Shutdown, crash, recovery                                               *)

\* beginShutdown() and gateway.close(): no new requests.
BeginShutdown ==
  /\ phase = "up" /\ boots < MaxBoots
  /\ phase' = "draining"
  /\ UNCHANGED <<row, sweep, audit, recovery, run, aborting, launches, touches, leftover>>

\* The drain is over: what still runs is interrupted, and close() cancels the
\* calls that still wait.
CloseQueue ==
  /\ phase = "draining"
  /\ phase' = "closing"
  /\ run' = [t \in Tasks |-> CASE run[t] = "running" -> "stopping"
                               [] run[t] = "waiting" -> "cancelled"
                               [] OTHER              -> run[t]]
  /\ UNCHANGED <<row, sweep, audit, recovery, aborting, launches, touches, leftover>>

\* The process exits or crashes, at any point; provider processes that outlive
\* it are reaped before the next boot touches the table.
Crash ==
  /\ phase \in {"up", "draining", "closing", "booting"} /\ boots < MaxBoots
  /\ phase' = "down"
  /\ run' = [t \in Tasks |-> "none"]
  /\ aborting' = {} /\ batch' = {} /\ expiring' = {}
  /\ auditor' = {} /\ asking' = [t \in Tasks |-> 0]
  /\ backlog' = {} /\ orphans' = {}
  /\ UNCHANGED <<row, accepted, boots, launches, touches, leftover>>

\* Mutant: recovery selects every open row, also those under review.
BootOpen ==
  /\ phase = "down"
  /\ phase' = "booting" /\ boots' = boots + 1
  /\ orphans' = {t \in Tasks : IsOpen(t)}
  /\ UNCHANGED <<row, sweep, audit, backlog, run, aborting, launches, touches, leftover>>

Boot ==
  /\ phase = "down"
  /\ phase' = "booting" /\ boots' = boots + 1
  /\ orphans' = {t \in Tasks : status[t] \in Leased \cup {"queued"}}
  /\ UNCHANGED <<row, sweep, audit, backlog, run, aborting, launches, touches, leftover>>

\* decideOrphanRecovery()
Poisoned(t) == status[t] # "queued" /\ requeues[t] >= MaxRequeue

\* Mutant: the requeue is not counted.
RecoverUncounted(t) ==
  /\ phase = "booting" /\ t \in orphans
  /\ orphans' = orphans \ {t}
  /\ status' = [status EXCEPT ![t] = IF Poisoned(t) THEN "failed" ELSE "queued"]
  /\ backlog' = IF Poisoned(t) THEN backlog ELSE backlog \cup {t}
  /\ UNCHANGED <<requeues, lease, response, approval, sweep, audit, boots, phase, run,
                 aborting, launches, touches, leftover>>

\* One transaction of recoverOrphanedTasks(): dead-letter, restore, or requeue.
Recover(t) ==
  /\ phase = "booting" /\ t \in orphans
  /\ orphans' = orphans \ {t}
  /\ IF Poisoned(t)
     THEN /\ status' = [status EXCEPT ![t] = "failed"]
          /\ UNCHANGED <<requeues, backlog>>
     ELSE /\ requeues' = [requeues EXCEPT ![t] = IF status[t] = "queued" THEN @ ELSE @ + 1]
          /\ status' = [status EXCEPT ![t] = "queued"]
          /\ backlog' = backlog \cup {t}
  /\ UNCHANGED <<lease, response, approval, sweep, audit, boots, phase, run,
                 aborting, launches, touches, leftover>>

\* The gateway listens before the recovered rows are dispatched.
Booted ==
  /\ phase = "booting" /\ orphans = {}
  /\ phase' = "up"
  /\ UNCHANGED <<row, sweep, audit, recovery, run, aborting, launches, touches, leftover>>

\* dispatchRecoveredTasks(): enqueue again, or leave the row for the next boot
\* when no provider is healthy.  Nobody looks at the row again first.
Dispatch(t) ==
  /\ phase = "up" /\ t \in backlog
  /\ backlog' = backlog \ {t}
  /\ run' = [run EXCEPT ![t] = "waiting"]
  /\ UNCHANGED <<row, sweep, audit, orphans, boots, phase, aborting, launches, touches, leftover>>

Defer(t) ==
  /\ phase = "up" /\ t \in backlog
  /\ backlog' = backlog \ {t}
  /\ UNCHANGED <<row, sweep, audit, orphans, boots, phase, run, aborting, launches, touches, leftover>>

-----------------------------------------------------------------------------
Execute(t) == \/ Create(t) \/ Enqueue(t) \/ Start(t) \/ GiveUpWaiting(t)
              \/ StaleResult(t) \/ TryAgain(t) \/ Finish(t) \/ Heartbeat(t) \/ LeaseLapses(t)
Settle(t)  == \/ Persist(t) \/ PersistRejected(t) \/ PersistUnsettled(t)
              \/ PersistDropped(t) \/ Resettle(t)
Review(t)  == Notified(t) \/ Reconcile(t) \/ Verify(t) \/ Verified(t)
Stop(t)    == Cancel(t) \/ Replace(t) \/ AbortDelivered(t)
Return(t)  == Recover(t) \/ Dispatch(t) \/ Defer(t)

Next == \/ \E t \in Tasks : \/ Execute(t) \/ Settle(t) \/ Review(t) \/ Stop(t)
                            \/ SweepNext(t) \/ Return(t)
        \/ SweepTick \/ SweepAborts
        \/ BeginShutdown \/ CloseQueue \/ Crash \/ Boot \/ Booted

Spec == Init /\ [][Next]_vars

\* Handlers and timers of a live process run; promises settle (each wait has a
\* timeout); an execution is not handed back to a queue for ever; ninety
\* seconds without a heartbeat do pass; a dead process is started again.
Fairness ==
  /\ \A t \in Tasks :
       /\ WF_vars(Enqueue(t)) /\ WF_vars(Start(t) \/ GiveUpWaiting(t))
       /\ SF_vars(Finish(t))
       /\ WF_vars(Persist(t) \/ PersistRejected(t) \/ PersistUnsettled(t) \/ PersistDropped(t))
       /\ WF_vars(LeaseLapses(t) /\ run[t] = "none")
       /\ WF_vars(AbortDelivered(t)) /\ WF_vars(SweepNext(t))
       /\ WF_vars(Recover(t)) /\ WF_vars(Dispatch(t) \/ Defer(t))
  /\ WF_vars(SweepTick) /\ WF_vars(SweepAborts)
  /\ WF_vars(CloseQueue) /\ WF_vars(Crash /\ phase = "closing")
  /\ WF_vars(Boot) /\ WF_vars(Booted)

FairSpec == Spec /\ Fairness

-----------------------------------------------------------------------------
(* Properties                                                              *)

\* The types of the rows, the executions and the handlers.
TypeOK ==
  /\ status \in [Tasks -> Statuses \cup {"none"}]
  /\ lease \in [Tasks -> {"null", "live", "past"}]
  /\ requeues \in [Tasks -> 0..MaxRequeue]
  /\ response \in [Tasks -> {"none", "good", "bad"}]
  /\ approval \in [Tasks -> {"none", "pending", "approved"}]
  /\ accepted \subseteq Tasks /\ leftover \subseteq Tasks
  /\ phase \in {"up", "draining", "closing", "booting", "down"}
  /\ run \in [Tasks -> Runs]
  /\ aborting \subseteq Tasks /\ batch \subseteq Tasks
  /\ expiring \subseteq Tasks
  /\ auditor \subseteq Tasks /\ asking \in [Tasks -> 0..MaxAudits]
  /\ backlog \subseteq Tasks /\ orphans \subseteq Tasks
  /\ boots \in 0..MaxBoots /\ touches \in 0..MaxTouches
  /\ launches \in [Tasks -> 0..MaxRequeue + 1]

\* A closed row stays as it was closed, whatever late result, sweep, answer of
\* Nova-AX, retry or recovery still reaches it.  The only way out of a closed
\* state is the quality gate, which turns a completed row into a failed one.
TerminalIsFinal ==
  [][\A t \in Tasks : Terminal(t) =>
       \/ status'[t] = status[t]
       \/ status[t] = "completed" /\ response[t] = "bad" /\ status'[t] = "failed"]_vars

\* Whoever closes a row under a running provider also sees to it that the
\* provider is told: no execution outlives its row unnoticed.  (With semaphores
\* only; where BullMQ is in use, a kept job can hide the provider from abort().)
ClosedRowsAreReleased ==
  \A t \in Tasks : run[t] = "running" /\ Terminal(t) => t \in aborting \cup expiring

\* A cancelled, expired or recovered row is never launched again by an
\* execution that was queued before: a provider starts only on a row that is
\* open at that very moment, and leaves it running.
NoLaunchOnClosedRow ==
  [][\A t \in Tasks : run'[t] = "running" /\ run[t] # "running" =>
       IsOpen(t) /\ status'[t] = "running"]_vars

\* Restarts cannot make a task run for ever: it is launched at most once, and
\* once more for every time it was found interrupted, up to MAX_ORPHAN_REQUEUE.
PoisonIsBounded ==
  \A t \in Tasks : /\ launches[t] <= requeues[t] + 1
                   /\ requeues[t] <= MaxRequeue

\* A team task counts as completed only on an approval that Nova-AX has
\* accepted, and that approval is still what the row says afterwards.
TeamCompletionAudited ==
  \A t \in TeamTasks : status[t] = "completed" => t \in accepted /\ approval[t] = "approved"

\* Rows nobody will touch before the next boot: recovered while no provider was
\* healthy, or with a result that a queued row cannot take; and rows that are
\* running with neither an execution nor a lease.
Parked(t)   == phase = "up" /\ status[t] = "queued" /\ run[t] = "none" /\ t \notin backlog
Stranded(t) == status[t] = "running" /\ run[t] = "none" /\ lease[t] = "null"

\* Every accepted task comes to an end (closed, or handed to its audit) in
\* spite of crashes, shutdowns, lost results and hung providers.
EveryTaskSettles ==
  \A t \in Tasks : status[t] \in Leased \cup {"queued"} ~>
     Terminal(t) \/ status[t] = "reviewing" \/ Parked(t) \/ Stranded(t)

\* What a client may rely on (module TaskContract): the row passes through the
\* states of the contract, in its order.
Seen(s) == CASE s = "none"                -> "absent"
             [] s \in Open \ {"reviewing"} -> "open"
             [] s = "reviewing"           -> "review"
             [] s = "completed"           -> "done"
             [] OTHER                     -> "closed"

Contract == INSTANCE TaskContract WITH
              view <- [t \in Tasks |-> Seen(status[t])], audited <- accepted

KeepsContract == Contract!Spec
=============================================================================
