---------------------------- MODULE RetryLineage ----------------------------
(***************************************************************************)
(* Retries of one root task (src/src/server/gateway.ts, retry-budget.ts).  *)
(*                                                                         *)
(* Every retry, whoever asks for it, becomes a new task whose parent is    *)
(* the root: attempt 0 is the root, attempts 1..made are its retries.      *)
(* Five callers reach createRetryTask(): the HTTP endpoint, the            *)
(* replacement of an active task and the automatic failover, which queue   *)
(* on the lock of the root, and the quality gate and the Kanban engine,    *)
(* which do not.  A retry is reserved in retry_counts, posted to           *)
(* /api/task, and given back when no task came of it.                      *)
(***************************************************************************)
EXTENDS Integers, Sequences, FiniteSets

CONSTANTS Requests,       \* callers in flight at the same time
          Agents,         \* what a retry can ask for (provider and prompt)
          Kinds,          \* which of the five callers exist
          Report,         \* the lineage carries a workReportId
          WindowLimit,    \* RETRY_WINDOW_LIMIT
          LifetimeLimit,  \* RETRY_LIFETIME_LIMIT
          MaxAttempts,    \* bound: retries ever inserted
          MaxHalfway,     \* bound: intakes that fail after their INSERT
          MaxCrashes      \* bound: crashes of the process

ASSUME LimitsAreNat ==
  /\ {WindowLimit, LifetimeLimit, MaxAttempts, MaxHalfway, MaxCrashes} \subseteq Nat
  /\ Report \in BOOLEAN
ASSUME WindowIsPositive == WindowLimit >= 1
ASSUME RequestsAreFinite == IsFiniteSet(Requests)

VARIABLES
  \* ---- durable: tasks, retry_counts
  status,     \* of every attempt
  asked,      \* what the attempt was created for
  made,       \* retries inserted
  count,      \* retry_counts.count, the window's
  total,      \* retry_counts.total_count
  within,     \* updated_at lies less than six hours back
  \* ---- volatile: the Node process
  line,       \* retryLocks of the root: the holder, then those who wait
  pc, job,    \* where a caller is, and what it wants
  held,       \* callers whose reservation has not become a task yet
  enabled,    \* providers that are enabled
  \* ---- history
  recent,     \* retries inserted in this window and acknowledged
  disowned,   \* retries inserted by an intake that then failed
  lost,       \* reservations that were neither used nor returned
  crashes

lineage == <<asked, made>>
budget  == <<count, total, within, recent>>
caller  == <<line, pc, job>>
vars    == <<status, lineage, budget, caller, held, enabled, disowned, lost, crashes>>

Attempts == 0..MaxAttempts
Known    == 0..made
Failed   == {"failed", "failed_twice", "lease_expired"}
States   == {"none", "active", "completed"} \cup Failed
Wishes   == Agents \cup {"same"}
Jobs     == [replace : BOOLEAN, on : Attempts, want : Wishes]
Retry(t, w) == [replace |-> FALSE, on |-> t, want |-> w]
NoJob       == Retry(0, "same")

Wish(j)      == IF j.want = "same" THEN asked[j.on] ELSE j.want
Attempted    == {asked[x] : x \in Known}

Init ==
  /\ status = [x \in Attempts |-> IF x = 0 THEN "active" ELSE "none"]
  /\ \E a \in Agents : asked = [x \in Attempts |-> a]
  /\ made = 0
  /\ count = 0 /\ total = 0 /\ within = FALSE /\ recent = 0
  /\ line = <<>>
  /\ pc = [r \in Requests |-> "idle"]
  /\ job = [r \in Requests |-> NoJob]
  /\ held = {}
  /\ enabled = Agents
  /\ disowned = 0 /\ lost = 0 /\ crashes = 0

-----------------------------------------------------------------------------
(* The budget                                                              *)

Allowed == total < LifetimeLimit /\ (within => count < WindowLimit)

\* reserveRetry(): a window older than six hours starts again at one.
Reserve(r) ==
  /\ count' = IF within THEN count + 1 ELSE 1
  /\ recent' = IF within THEN recent ELSE 0
  /\ total' = total + 1
  /\ within' = TRUE
  /\ held' = held \cup {r}

Less(n) == IF n > 0 THEN n - 1 ELSE 0

\* Mutant: only the counter of the window is rolled back.
RollbackWindow(r) ==
  /\ count' = Less(count)
  /\ within' = TRUE
  /\ held' = held \ {r}
  /\ UNCHANGED <<total, recent>>

\* rollbackRetryReservation()
Rollback(r) ==
  /\ count' = Less(count) /\ total' = Less(total)
  /\ within' = TRUE
  /\ held' = held \ {r}
  /\ UNCHANGED recent

\* Six hours without a touch of the counters; no request takes that long.
WindowPasses ==
  /\ within /\ held = {} /\ \A r \in Requests : pc[r] # "inserted"
  /\ within' = FALSE
  /\ UNCHANGED <<status, lineage, count, total, recent, caller, held, enabled, disowned,
                 lost, crashes>>

-----------------------------------------------------------------------------
(* createRetryTask()                                                       *)

\* Mutant: an answer does not release the lock.
AnswerKeepsLock(r) ==
  /\ pc' = [pc EXCEPT ![r] = "idle"]
  /\ job' = [job EXCEPT ![r] = NoJob]
  /\ UNCHANGED line

\* The caller gets its answer and, if it holds the lock, releases it.
Answer(r) ==
  /\ pc' = [pc EXCEPT ![r] = "idle"]
  /\ job' = [job EXCEPT ![r] = NoJob]
  /\ line' = IF line # <<>> /\ Head(line) = r THEN Tail(line) ELSE line

\* An early return that looks at no reservation.
Refuse(r) ==
  /\ Answer(r)
  /\ held' = held \ {r}
  /\ lost' = IF r \in held THEN lost + 1 ELSE lost
  /\ UNCHANGED budget

\* An early return that gives a reservation back.
GiveBack(r) ==
  /\ Answer(r)
  /\ IF r \in held THEN Rollback(r) ELSE UNCHANGED <<budget, held>>
  /\ UNCHANGED lost

\* On to POST /api/task, with the reservation brought along or a new one.
GoOn(r, j) ==
  IF r \in held \/ Allowed
  THEN /\ pc' = [pc EXCEPT ![r] = "posting"]
       /\ job' = [job EXCEPT ![r] = j]
       /\ IF r \in held THEN UNCHANGED <<budget, held>> ELSE Reserve(r)
       /\ UNCHANGED <<line, lost>>
  ELSE Answer(r) /\ UNCHANGED <<budget, held, lost>>

\* Up to the call of POST /api/task everything happens in one turn; st is the
\* status of the attempts at its beginning.
CreateRetry(r, j, st) ==
  LET valid == st[j.on] \in Failed /\ j.want \in enabled \cup {"same"}
      alive == {x \in 1..made : st[x] = "active"}
  IN \/ ~valid /\ Refuse(r)
     \/ valid /\ alive # {} /\ GiveBack(r)             \* the same retry, or a conflict
     \/ /\ valid /\ alive = {}                         \* completed a moment ago
        /\ \E c \in 1..made : st[c] = "completed" /\ asked[c] = Wish(j)
        /\ GiveBack(r)
     \/ valid /\ alive = {} /\ GoOn(r, j)

-----------------------------------------------------------------------------
(* The callers                                                             *)

Queue(r, j) ==
  /\ pc' = [pc EXCEPT ![r] = "queued"]
  /\ job' = [job EXCEPT ![r] = j]
  /\ line' = Append(line, r)
  /\ UNCHANGED <<status, lineage, budget, held, enabled, disowned, lost, crashes>>

\* POST /api/tasks/:id/retry, with or without replaceActive, and the supervisor.
Ask(r) ==
  /\ pc[r] = "idle"
  /\ \E t \in Known, w \in Wishes :
       \/ "manual" \in Kinds /\ Queue(r, Retry(t, w))
       \/ "replace" \in Kinds /\ Queue(r, [Retry(t, w) EXCEPT !.replace = TRUE])

\* scheduleTaskFailover(): a provider that the lineage has not tried is chosen
\* before the lock is asked for; a second expiration is not failed over.
Failover(r) ==
  /\ pc[r] = "idle" /\ "failover" \in Kinds
  /\ \E t \in Known, w \in enabled \ Attempted :
       /\ status[t] \in {"failed", "lease_expired"}
       /\ Queue(r, Retry(t, w))

\* handleCompletedTaskQualityGate(): the attempt is demoted and retried in the
\* same turn, by a provider not tried yet if there is one.
Quality(r) ==
  /\ pc[r] = "idle" /\ "quality" \in Kinds
  /\ \E t \in Known, w \in (enabled \ Attempted) \cup {"same"} :
       /\ status[t] \in {"active", "completed"}
       /\ status' = [status EXCEPT ![t] = "failed"]
       /\ CreateRetry(r, Retry(t, w), status')
  /\ UNCHANGED <<lineage, enabled, disowned, crashes>>

\* kanbanEngine.createRetryTaskRef
Kanban(r) ==
  /\ pc[r] = "idle" /\ "kanban" \in Kinds
  /\ \E t \in Known, w \in Wishes :
       CreateRetry(r, Retry(t, w), status)
  /\ UNCHANGED <<status, lineage, enabled, disowned, crashes>>

\* The holder of the lock runs.
Enter(r) ==
  /\ pc[r] = "queued" /\ line # <<>> /\ Head(line) = r
  /\ ~job[r].replace \/ status[job[r].on] \in Failed
  /\ CreateRetry(r, job[r], status)
  /\ UNCHANGED <<status, lineage, enabled, disowned, crashes>>

\* replaceActiveTask() refuses: not active any more, an invalid provider, or no
\* budget; the attempt is untouched.
ReplaceRefused(r) ==
  /\ pc[r] = "queued" /\ line # <<>> /\ Head(line) = r
  /\ job[r].replace /\ status[job[r].on] \notin Failed
  /\ status[job[r].on] = "active" /\ job[r].want \in enabled \cup {"same"} => ~Allowed
  /\ Answer(r)
  /\ UNCHANGED <<status, lineage, budget, held, enabled, disowned, lost, crashes>>

\* Reserve, close the active attempt as failed, and abort its execution.
ReplaceActive(r) ==
  /\ pc[r] = "queued" /\ line # <<>> /\ Head(line) = r
  /\ job[r].replace /\ status[job[r].on] = "active"
  /\ job[r].want \in enabled \cup {"same"} /\ Allowed
  /\ Reserve(r)
  /\ status' = [status EXCEPT ![job[r].on] = "failed"]
  /\ pc' = [pc EXCEPT ![r] = "aborting"]
  /\ UNCHANGED <<lineage, line, job, enabled, disowned, lost, crashes>>

\* taskQueue.abort() returns, or throws.
Aborted(r) ==
  /\ pc[r] = "aborting"
  /\ CreateRetry(r, job[r], status) \/ GiveBack(r)
  /\ UNCHANGED <<status, lineage, enabled, disowned, crashes>>

-----------------------------------------------------------------------------
(* POST /api/task for the retry                                            *)

\* Draining, no ready provider, an inactive team, a blocked workflow, ...
Reject(r) ==
  /\ pc[r] = "posting"
  /\ GiveBack(r)
  /\ UNCHANGED <<status, lineage, enabled, disowned, crashes>>

\* An active task of the same work report is returned instead.
Dedup(r) ==
  /\ pc[r] = "posting" /\ Report
  /\ \E c \in Known : status[c] = "active"
  /\ GiveBack(r)
  /\ UNCHANGED <<status, lineage, enabled, disowned, crashes>>

\* Mutant: the table has no unique index.
InsertBesideActive(r) ==
  /\ pc[r] = "posting" /\ made < MaxAttempts
  /\ made' = made + 1
  /\ status' = [status EXCEPT ![made + 1] = "active"]
  /\ asked' = [asked EXCEPT ![made + 1] = Wish(job[r])]
  /\ job' = [job EXCEPT ![r] = [@ EXCEPT !.on = made + 1]]
  /\ pc' = [pc EXCEPT ![r] = "inserted"]
  /\ held' = held \ {r}
  /\ recent' = recent + 1
  /\ UNCHANGED <<count, total, within, line, enabled, disowned, lost, crashes>>

\* The INSERT; of a work report, the unique index allows one active task.
Insert(r) ==
  /\ pc[r] = "posting" /\ made < MaxAttempts
  /\ Report => \A c \in Known : status[c] # "active"
  /\ made' = made + 1
  /\ status' = [status EXCEPT ![made + 1] = "active"]
  /\ asked' = [asked EXCEPT ![made + 1] = Wish(job[r])]
  /\ job' = [job EXCEPT ![r] = [@ EXCEPT !.on = made + 1]]
  /\ pc' = [pc EXCEPT ![r] = "inserted"]
  /\ held' = held \ {r}
  /\ recent' = recent + 1
  /\ UNCHANGED <<count, total, within, line, enabled, disowned, lost, crashes>>

\* The retry is enqueued, and the caller told.
Respond(r) ==
  /\ pc[r] = "inserted"
  /\ Answer(r)
  /\ UNCHANGED <<status, lineage, budget, held, enabled, disowned, lost, crashes>>

\* The intake throws behind its INSERT (recordInvocation): a 500, on which the
\* reservation is returned although the task exists.
Halfway(r) ==
  /\ pc[r] = "inserted" /\ disowned < MaxHalfway
  /\ Answer(r)
  /\ count' = Less(count) /\ total' = Less(total) /\ within' = TRUE
  /\ disowned' = disowned + 1 /\ recent' = Less(recent)
  /\ UNCHANGED <<status, lineage, held, enabled, lost, crashes>>

-----------------------------------------------------------------------------
(* Everybody else                                                          *)

\* The execution of an attempt ends, or a client cancels it (which leaves it, like
\* a completed one, with nothing to retry).  It does not start before its intake has enqueued it.
End(t) ==
  /\ status[t] = "active"
  /\ \A r \in Requests : ~(pc[r] = "inserted" /\ job[r].on = t)
  /\ \E s \in {"completed", "failed"} : status' = [status EXCEPT ![t] = s]
  /\ UNCHANGED <<lineage, budget, caller, held, enabled, disowned, lost, crashes>>

\* markTaskLeaseExpired()
Expire(t) ==
  /\ status[t] = "active"
  /\ status' = [status EXCEPT ![t] =
                  IF \E x \in Known : status[x] = "lease_expired"
                  THEN "failed_twice" ELSE "lease_expired"]
  /\ UNCHANGED <<lineage, budget, caller, held, enabled, disowned, lost, crashes>>

\* An operator enables or disables a provider.
Switch(a) ==
  /\ enabled' = IF a \in enabled THEN enabled \ {a} ELSE enabled \cup {a}
  /\ UNCHANGED <<status, lineage, budget, caller, held, disowned, lost, crashes>>

Crash ==
  /\ crashes < MaxCrashes
  /\ crashes' = crashes + 1
  /\ line' = <<>>
  /\ pc' = [r \in Requests |-> "idle"]
  /\ job' = [r \in Requests |-> NoJob]
  /\ held' = {}
  /\ lost' = lost + Cardinality(held)
  /\ UNCHANGED <<status, lineage, budget, enabled, disowned>>

-----------------------------------------------------------------------------
Request(r) == Ask(r) \/ Failover(r) \/ Quality(r) \/ Kanban(r)
Serve(r)   == Enter(r) \/ ReplaceRefused(r) \/ ReplaceActive(r) \/ Aborted(r)
Post(r)    == Reject(r) \/ Dedup(r) \/ Insert(r) \/ Respond(r) \/ Halfway(r)

Next == \/ \E r \in Requests : Request(r) \/ Serve(r) \/ Post(r)
        \/ \E t \in Known : End(t) \/ Expire(t)
        \/ \E a \in Agents : Switch(a)
        \/ WindowPasses \/ Crash

Spec == Init /\ [][Next]_vars

-----------------------------------------------------------------------------
(* Properties                                                              *)

\* The types of the attempts, the budget and the callers.
TypeOK ==
  /\ status \in [Attempts -> States]
  /\ asked \in [Attempts -> Agents]
  /\ made \in Attempts
  /\ count \in 0..WindowLimit /\ total \in 0..LifetimeLimit
  /\ within \in BOOLEAN
  /\ line \in Seq(Requests)
  /\ pc \in [Requests -> {"idle", "queued", "aborting", "posting", "inserted"}]
  /\ job \in [Requests -> Jobs]
  /\ held \subseteq Requests /\ enabled \subseteq Agents
  /\ recent \in Nat /\ disowned \in 0..MaxHalfway /\ lost \in Nat
  /\ crashes \in 0..MaxCrashes

\* The lifetime counter is exactly what the lineage has used up: the retries
\* that were acknowledged, the reservations in flight, and those that were lost.
\* So no interleaving of callers, returns and crashes gets more retries out of
\* the budget than RETRY_LIFETIME_LIMIT, except for disowned ones.
BudgetIsExact == total = made - disowned + Cardinality(held) + lost

\* The same for the window: what has been started in it is on its account.
WindowIsCovered ==
  within => recent + Cardinality(held) <= count /\ count <= WindowLimit

\* A lineage expires once; the second time it fails for good.
OneExpiration == \A x, y \in Known :
  status[x] = "lease_expired" /\ status[y] = "lease_expired" => x = y

\* A lineage has one execution at a time: a retry never runs beside its root or
\* beside another retry.
OneActive == \A x, y \in Known : status[x] = "active" /\ status[y] = "active" => x = y

\* The lock of a root is served: whoever waits for it stands in its line once,
\* only the head of the line is under way, and the line never stays behind a
\* caller that has been answered, however it failed, was refused or aborted.
LineIsServed ==
  /\ \A i, j \in 1..Len(line) : line[i] = line[j] => i = j
  /\ \A r \in Requests : pc[r] = "queued" => \E i \in 1..Len(line) : line[i] = r
  /\ \A i \in 1..Len(line) : IF i = 1 THEN pc[line[i]] # "idle" ELSE pc[line[i]] = "queued"
=============================================================================
