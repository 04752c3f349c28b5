---------------------------- MODULE EnqueueLoop ----------------------------
(***************************************************************************)
(* TaskQueueManager.enqueue() of one durable task (core/task-queue.ts):    *)
(* up to MAX_RETRIES + 1 attempts and a final escalation, each posted to   *)
(* the queue of one provider, against the worker of that queue, a provider *)
(* set that changes, a deadline, and a client that closes the row and      *)
(* calls abort().                                                          *)
(*                                                                         *)
(* A provider is fed by BullMQ, whose jobs carry the task id as jobId and  *)
(* stay in Redis when they have finished, or, without Redis, by its        *)
(* semaphore alone.  A run passes the gate of the semaphore either way.    *)
(***************************************************************************)
EXTENDS Integers, Sequences, FiniteSets

CONSTANTS Order,       \* the providers, in the order of the map `agents`
          Home,        \* the provider the task was created for
          Bull,        \* providers with a BullMQ queue
          Shrinks,     \* ... whose slots can become fewer than the jobs in work
          Team,        \* executors of the task's team
          Generic,     \* allowGenericProviderFailover()
          Deadline,    \* the task has a deadlineAt
          MaxRetries   \* MAX_RETRIES

Agents == {Order[i] : i \in DOMAIN Order}

ASSUME ProvidersAreKnown ==
  /\ Home \in Agents /\ Team \subseteq Agents /\ Shrinks \subseteq Bull /\ Bull \subseteq Agents
  /\ Generic \in BOOLEAN /\ Deadline \in BOOLEAN /\ MaxRetries \in Nat
ASSUME ProvidersAreFinite == Order \in Seq(Agents) /\ IsFiniteSet(Agents)

VARIABLES
  \* ---- the loop
  pc,        \* where enqueueWithRetries() is
  cur,       \* currentAgentId
  attempt, tried,
  flags,     \* retryAfterRateLimit, teamRetried, stallRetried as a set
  final,     \* in the attempt of tryTierEscalation(), whose result is returned
  result,    \* of the last attempt
  \* ---- the providers
  job,       \* state of the BullMQ job
  kept,      \* result a finished job keeps
  exec,      \* where the execution in this process is
  offered,   \* registered and accepting
  \* ---- the rest of the world
  closed,    \* the row is terminal
  late,      \* the deadline has passed
  scan,      \* abort(): 0 not called, i looks at Order[i] next
  \* ---- history
  launches   \* provider runs started

loop  == <<pc, cur, attempt, tried, flags, final, result>>
queue == <<job, kept, exec, launches>>
world == <<offered, closed, late, scan>>
vars  == <<loop, queue, world>>

Over      == Len(Order) + 1
Finished  == {"completed", "failed"}
Transient == {"busy", "unavailable", "idle", "flaky"}
Conclusive == {"ok", "cancelled", "duplicate", "conflict", "unconfirmed", "expired"}
Results   == Transient \cup Conclusive \cup {"limited", "error", "lost"}

Init ==
  /\ pc = "top" /\ cur = Home /\ attempt = 0 /\ tried = {Home}
  /\ flags = {} /\ final = FALSE /\ result = "none"
  /\ job = [a \in Agents |-> "none"]
  /\ kept = [a \in Agents |-> "none"]
  /\ exec = [a \in Agents |-> "none"]
  /\ offered = Agents
  /\ closed = FALSE /\ late = FALSE /\ scan = 0
  /\ launches = 0

-----------------------------------------------------------------------------
(* enqueueWithRetries()                                                    *)

Return(r) ==
  /\ pc' = "done" /\ result' = r
  /\ UNCHANGED <<cur, attempt, tried, flags, final>>

Got(r) ==
  /\ pc' = "decide" /\ result' = r
  /\ UNCHANGED <<cur, attempt, tried, flags, final>>

GoTo(label) ==
  /\ pc' = label
  /\ UNCHANGED <<cur, attempt, tried, flags, final, result>>

\* The next tier gets one attempt, whose result is what the caller gets.
Escalate(b) ==
  /\ cur' = b /\ tried' = tried \cup {b}
  /\ final' = TRUE /\ pc' = "post"
  /\ UNCHANGED <<attempt, flags, result>>

\* tryTierEscalation(): to a provider not tried yet, if the policy names one.
GiveUp ==
  IF Generic /\ late THEN Return("expired")
  ELSE \/ Generic /\ \E b \in offered \ tried : Escalate(b)
       \/ Return(result)

\* Mutant: the last attempt is counted from one.
TopOneMore ==
  /\ pc = "top"
  /\ IF attempt > MaxRetries + 1 THEN GiveUp
     ELSE IF late THEN Return("expired")
     ELSE /\ pc' = IF "limited" \in flags THEN "backoff" ELSE "post"
          /\ flags' = flags \ {"limited"}
          /\ UNCHANGED <<cur, attempt, tried, final, result>>
  /\ UNCHANGED <<queue, world>>

\* The head of the loop; only a rate limit backs off before the next attempt.
Top ==
  /\ pc = "top"
  /\ IF attempt > MaxRetries THEN GiveUp
     ELSE IF late THEN Return("expired")
     ELSE /\ pc' = IF "limited" \in flags THEN "backoff" ELSE "post"
          /\ flags' = flags \ {"limited"}
          /\ UNCHANGED <<cur, attempt, tried, final, result>>
  /\ UNCHANGED <<queue, world>>

\* The backoff is over; from the third attempt on another provider is looked for.
Backoff ==
  /\ pc = "backoff"
  /\ IF late THEN Return("expired")
     ELSE \/ GoTo("post")
          \/ /\ attempt >= 2 /\ Generic
             /\ \E b \in offered \ {cur, Home} : cur' = b /\ tried' = tried \cup {b}
             /\ pc' = "post"
             /\ UNCHANGED <<attempt, flags, final, result>>
  /\ UNCHANGED <<queue, world>>

\* runEnqueue().  Queue.add() takes no second job with the same id.
Post ==
  /\ pc = "post"
  /\ IF late THEN Got("expired") /\ UNCHANGED <<job, exec>>
     ELSE IF cur \notin offered THEN Got("unavailable") /\ UNCHANGED <<job, exec>>
     ELSE /\ IF cur \in Bull
             THEN /\ pc' = "added"
                  /\ job' = [job EXCEPT ![cur] = IF @ = "none" THEN "waiting" ELSE @]
                  /\ UNCHANGED exec
             ELSE /\ pc' = "result"
                  /\ exec' = [exec EXCEPT ![cur] = "gate"]
                  /\ UNCHANGED job
          /\ UNCHANGED <<cur, attempt, tried, flags, final, result>>
  /\ UNCHANGED <<kept, launches, world>>

\* enqueueBullMQ() has added its job and registers with waitForJobActive().
Register ==
  /\ pc = "added"
  /\ IF late THEN Got("expired") ELSE GoTo("wait")
  /\ job' \in {job, [job EXCEPT ![cur] = IF late /\ @ = "waiting" THEN "none" ELSE @]}
  /\ UNCHANGED <<kept, exec, launches, world>>

\* The job left the waiting state, or is not there at all.
WaitOver ==
  /\ pc = "wait" /\ job[cur] # "waiting"
  /\ IF job[cur] = "none" THEN Got(IF late THEN "expired" ELSE "busy")
     ELSE IF late THEN Got("expired")
     ELSE GoTo("result")
  /\ UNCHANGED <<queue, world>>

\* Mutant: a job that could not be removed counts as removed.
WaitTimeoutHopeful ==
  /\ pc = "wait" /\ job[cur] = "waiting"
  /\ Got(IF late THEN "expired" ELSE "busy")
  /\ job' \in {job, [job EXCEPT ![cur] = "none"]}
  /\ UNCHANGED <<kept, exec, launches, world>>

\* The queue wait times out: the waiting job is removed.  Whether it was can
\* remain unknown.
WaitTimeout ==
  /\ pc = "wait" /\ job[cur] = "waiting"
  /\ \/ /\ Got(IF late THEN "expired" ELSE "busy")
        /\ job' = [job EXCEPT ![cur] = "none"]
     \/ Got(IF late THEN "expired" ELSE "unconfirmed") /\ UNCHANGED job
  /\ UNCHANGED <<kept, exec, launches, world>>

\* waitUntilFinished(): the result of the job, which may be an old one.  Its event
\* can be on its way when abort() removes the finished job ...
ResultArrives ==
  /\ pc = "result" /\ cur \in Bull /\ job[cur] \in Finished \cup {"none"}
  /\ Got(kept[cur])
  /\ UNCHANGED <<queue, world>>

\* ... or gone, and the job missing.  A run keeps to the limit of the wait, so that
\* otherwise only a job behind the gate, whose own wait is another, is overtaken.
ResultTimeout ==
  /\ pc = "result" /\ cur \in Bull
  /\ \/ job[cur] = "none"
     \/ job[cur] = "active" /\ (late \/ (cur \in Shrinks /\ exec[cur] = "gate"))
  /\ Got(IF late THEN "expired" ELSE "lost")
  /\ UNCHANGED <<queue, world>>

\* Mutant: a retry that the provider asked for is not counted.
AgainUncounted(b, flag) ==
  /\ cur' = b /\ tried' = tried \cup {b}
  /\ attempt' = IF flag = "limited" THEN attempt ELSE attempt + 1
  /\ flags' = flags \cup {flag}
  /\ pc' = "top"
  /\ UNCHANGED <<final, result>>

\* The next attempt, of the executor b.
Again(b, flag) ==
  /\ cur' = b /\ tried' = tried \cup {b}
  /\ attempt' = attempt + 1
  /\ flags' = flags \cup {flag}
  /\ pc' = "top"
  /\ UNCHANGED <<final, result>>

\* What to do with the result of an attempt.
Decide ==
  /\ pc = "decide"
  /\ IF final \/ (~late /\ result \in Conclusive) THEN Return(result)
     ELSE IF late THEN Return("expired")
     ELSE \/ /\ result \in Transient /\ "team" \notin flags
             /\ \E b \in (Team \cap offered) \ tried : Again(b, "team")
          \/ result = "idle" /\ "stall" \notin flags /\ Again(cur, "stall")
          \/ result = "limited" /\ Again(cur, "limited")
          \/ /\ result # "limited" /\ (result = "idle" => "stall" \in flags)
             /\ GiveUp
  /\ UNCHANGED <<queue, world>>

-----------------------------------------------------------------------------
(* The worker                                                              *)

\* An execution is over, before or after its provider has run.
Ends(a, r, state) ==
  /\ exec' = [exec EXCEPT ![a] = "none"]
  /\ IF a \in Bull
     THEN /\ job' = [job EXCEPT ![a] = state]
          /\ kept' = [kept EXCEPT ![a] = r]
          /\ UNCHANGED loop
     ELSE Got(r) /\ UNCHANGED <<job, kept>>

\* BullMQ hands the job to runJob().
Activate(a) ==
  /\ job[a] = "waiting"
  /\ job' = [job EXCEPT ![a] = "active"]
  /\ exec' = [exec EXCEPT ![a] = "gate"]
  /\ UNCHANGED <<kept, launches, loop, world>>

\* The gate is left without a run: no slot in time, the deadline, a provider
\* that has been withdrawn, or a row that is closed (startRuntime throws).
Turned(a) ==
  /\ exec[a] = "gate"
  /\ \/ Ends(a, IF late THEN "expired" ELSE "busy", "completed")
     \/ a \notin offered /\ Ends(a, "unavailable", "completed")
     \/ ~late /\ a \in offered /\ closed /\ Ends(a, "duplicate", "failed")
  /\ UNCHANGED <<launches, world>>

\* startRuntime() puts the row into running, and the provider is called.
Run(a) ==
  /\ exec[a] = "gate" /\ ~late /\ a \in offered /\ ~closed
  /\ exec' = [exec EXCEPT ![a] = "running"]
  /\ launches' = launches + 1
  /\ UNCHANGED <<job, kept, loop, world>>

\* The provider is done: an outcome, or an exception.  After an abort it is
\* never a success.
RunEnds(a) ==
  /\ \/ /\ exec[a] = "running"
        /\ \/ \E r \in {"ok", "limited", "idle", "flaky", "error", "conflict"} :
                Ends(a, r, "completed")
           \/ Ends(a, "error", "failed")
     \/ /\ exec[a] = "aborted"
        /\ \E r \in {"cancelled", "flaky", "error"} : Ends(a, r, "completed")
  /\ UNCHANGED <<launches, world>>

-----------------------------------------------------------------------------
(* The rest of the world                                                   *)

\* The caller of enqueue() persists the result.
Settle ==
  /\ pc = "done" /\ ~closed
  /\ closed' = TRUE
  /\ UNCHANGED <<loop, queue, offered, late, scan>>

\* A client (or the lease sweeper) closes the row and calls abort().
Close ==
  /\ ~closed /\ scan = 0
  /\ closed' = TRUE /\ scan' = 1
  /\ UNCHANGED <<loop, queue, offered, late>>

\* abort() looks at provider a: a running provider gets the signal ...
AbortActive(a) ==
  /\ exec[a] = "running"
  /\ exec' = [exec EXCEPT ![a] = "aborted"]
  /\ scan' = Over
  /\ UNCHANGED <<job, kept, loop>>

\* ... a call at the gate is cancelled ...
AbortGate(a) ==
  /\ exec[a] = "gate"
  /\ Ends(a, "cancelled", "completed")
  /\ scan' = Over

\* ... a job that is not active is removed, whichever attempt it belongs to; a
\* caller that waits for any job of the task is told.
AbortJob(a) ==
  /\ exec[a] = "none" /\ job[a] \in {"waiting"} \cup Finished
  /\ job' = [job EXCEPT ![a] = "none"]
  /\ IF pc = "wait" THEN Got("cancelled") ELSE UNCHANGED loop
  /\ scan' = Over
  /\ UNCHANGED <<kept, exec>>

\* ... and if there was none, or Redis did not remove it, the next provider is
\* looked at.
AbortNext(a) ==
  /\ exec[a] \in {"none", "aborted"}
  /\ scan' = scan + 1
  /\ UNCHANGED <<job, kept, exec, loop>>

Abort ==
  /\ scan \in 1..Len(Order)
  /\ LET a == Order[scan]
     IN AbortActive(a) \/ AbortGate(a) \/ AbortJob(a) \/ AbortNext(a)
  /\ UNCHANGED <<launches, offered, closed, late>>

\* reconcileProviders() removes a provider, or brings it back.
Switch(a) ==
  /\ offered' = IF a \in offered THEN offered \ {a} ELSE offered \cup {a}
  /\ UNCHANGED <<loop, queue, closed, late, scan>>

DeadlinePasses ==
  /\ Deadline /\ ~late
  /\ late' = TRUE
  /\ UNCHANGED <<loop, queue, offered, closed, scan>>

-----------------------------------------------------------------------------
Loop   == \/ Top \/ Backoff \/ Post \/ Register \/ WaitOver \/ WaitTimeout
          \/ ResultArrives \/ ResultTimeout \/ Decide
Worker(a) == Activate(a) \/ Turned(a) \/ Run(a) \/ RunEnds(a)

Next == \/ Loop \/ Settle \/ Close \/ Abort \/ DeadlinePasses
        \/ \E a \in Agents : Worker(a) \/ Switch(a)

Spec == Init /\ [][Next]_vars

\* The loop and the workers of a live process go on: every wait has its timer.
FairSpec == /\ Spec
            /\ WF_vars(Loop)
            /\ \A a \in Agents : WF_vars(Worker(a))

-----------------------------------------------------------------------------
(* Properties                                                              *)

\* The types of the loop, the queues and the executions.
TypeOK ==
  /\ pc \in {"top", "backoff", "post", "added", "wait", "result", "decide", "done"}
  /\ cur \in Agents /\ tried \subseteq Agents
  /\ attempt \in 0..MaxRetries + 1
  /\ flags \subseteq {"limited", "team", "stall"}
  /\ final \in BOOLEAN
  /\ result \in Results \cup {"none"}
  /\ job \in [Agents -> {"none", "waiting", "active"} \cup Finished]
  /\ kept \in [Agents -> Results \cup {"none"}]
  /\ exec \in [Agents -> {"none", "gate", "running", "aborted"}]
  /\ offered \subseteq Agents
  /\ closed \in BOOLEAN /\ late \in BOOLEAN /\ scan \in 0..Over
  /\ launches \in Nat

Executing == {a \in Agents : exec[a] \in {"running", "aborted"}}

\* However attempts, timeouts and removed jobs overlap, one provider at a time
\* works on the task.
OneProvider == \A a, b \in Executing : a = b

\* Once abort() has returned, no provider works on undisturbed: it was stopped,
\* wherever between queue, gate and run the task was.
AbortReachesTheRunner == scan = Over => \A a \in Agents : exec[a] # "running"

\* The loop ends and answers its caller, whatever is removed, refused or lost.
EnqueueSettles == <>(pc = "done")

\* A task costs at most MAX_RETRIES + 2 provider runs, however its retries,
\* failovers and escalations combine.
RunsAreBounded == launches <= MaxRetries + 2
=============================================================================
