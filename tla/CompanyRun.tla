----------------------------- MODULE CompanyRun -----------------------------
(***************************************************************************)
(* One run of a company (src/src/core/company-orchestrator.ts): the stages *)
(* of its teams, the driver that executes them until all are accepted or   *)
(* the iterations are used up, the client that cancels the run, and the    *)
(* restarts of the process that resume it from company_runs.               *)
(*                                                                         *)
(* The driver posts one task row per attempt at a stage and polls it.  A   *)
(* step is what runs between two awaits, and nearly every step ends by     *)
(* saving the run; what is in memory and not saved is what a restart       *)
(* loses.  Rows are settled by others: TaskLifecycle opens that up.  No    *)
(* retry of the gateway stands beside a row of a company: its metadata     *)
(* forbid failover and quality retries (assignment mode "enforce").        *)
(***************************************************************************)
EXTENDS Integers

CONSTANTS N,              \* number of stages, in the order of the pipeline
          Gate,           \* the stage whose report decides on a port, or 0
          Modes,          \* the modes a run may be started in
          MaxAttempts,    \* MAX_STAGE_ATTEMPTS
          MaxIterations,  \* maxIterations of the run
          MaxResumes,     \* MAX_RUN_RESUMES
          MaxRestarts     \* bound: restarts of the process

Stages == 1..N

ASSUME StagesAreSome == N \in Nat \ {0} /\ Gate \in 0..N
ASSUME ModesAreKnown == Modes \subseteq {"pipeline", "parallel", "dry"}
ASSUME LimitsAreNat ==
  /\ {MaxAttempts, MaxIterations} \subseteq Nat \ {0}
  /\ {MaxResumes, MaxRestarts} \subseteq Nat

VARIABLES
  mode,
  \* ---- durable
  saved,      \* company_runs.run_json
  discussed,  \* the workflow stage "discussion" is completed
  row,        \* the task row last inserted for a stage
  \* ---- volatile
  run,        \* RUNS
  pc,         \* what the driver awaits
  at,         \* what the work on a stage awaits
  attempt,    \* the candidate a pipeline stage is at
  stopping,   \* stages whose rows cancelCompanyRun() has yet to cancel
  \* ---- history and bound
  rounds,     \* rounds in which a stage was taken up
  doubted,    \* stages a restart took for completed
  unwatched,  \* stages whose row was open at a restart that did not wait for it
  restarts

durable == <<discussed, row>>
driver  == <<run, saved, pc, at, attempt>>
past    == <<doubted, unwatched, restarts>>
vars    == <<mode, durable, driver, stopping, past, rounds>>

\* "active" stands for pending, decomposing, dispatching and running.
RunStatuses   == {"active", "completed", "partial", "failed", "cancelled", "planned"}
\* "failed" stands for failed and timed_out.
StageStatuses == {"pending", "running", "completed", "failed", "cancelled", "skipped", "blocked"}
\* taskId names the row last inserted for the stage, one before it, or none.
Tasks     == {"none", "newest", "older"}
Decisions == {"none", "approve", "reject", "vague"}
StageRecords == [status : StageStatuses, task : Tasks]

Runs == [status : RunStatuses, stage : [Stages -> StageRecords], decision : Decisions,
         designed : BOOLEAN, done : 0..MaxIterations, resumes : Nat,
         retried : SUBSET Stages]

\* What a row may end as.  An output is accepted, or too poor; a row that names
\* a verified blocker stops the run.  "open" includes lease_expired, which
\* waitForTask() does not know.
\* A company with a gate may only be run as a pipeline.
Gated(s)    == s = Gate /\ mode = "pipeline"
Accepted(s) == IF Gated(s) THEN {"approve", "reject", "vague"} ELSE {"good"}
Outcomes(s) == Accepted(s) \cup {"poor", "blocker", "failed", "cancelled"}
Rows(s)     == {"none", "open"} \cup Outcomes(s)

Phases == {"none", "reconcile", "planning", "designing", "round", "collect", "retry",
           "backoff", "quality"}
Steps  == {"idle", "choosing", "posting", "inserted", "staggering", "waiting", "aborting"}

AllIdle == [s \in Stages |-> "idle"]
Only(s, step) == [AllIdle EXCEPT ![s] = step]
First(S) == CHOOSE s \in S : \A t \in S : s <= t

Status(r, s)  == r.stage[s].status
Mark(r, S, status) ==
  [r EXCEPT !.stage = [s \in Stages |-> IF s \in S THEN [r.stage[s] EXCEPT !.status = status]
                                        ELSE r.stage[s]]]
With(r, s, status) == Mark(r, {s}, status)
AtWork(r, s)  == Status(r, s) \in {"pending", "running"}
Incomplete(r) == {s \in Stages : Status(r, s) # "completed"}

\* isCompanyRunCancelled(), isCompanyRunBlocked()
Cancelled(r) == r.status = "cancelled"
Blocked(r)   == \E s \in Stages : Status(r, s) = "blocked"

\* startCompanyRun() has stored the run and launched its driver.
Init ==
  /\ mode \in Modes
  /\ run = [status |-> "active",
            stage |-> [s \in Stages |-> [status |-> "pending", task |-> "none"]],
            decision |-> "none", designed |-> FALSE, done |-> 0, resumes |-> 0,
            retried |-> {}]
  /\ saved = run
  /\ discussed = FALSE
  /\ row = [s \in Stages |-> "none"]
  /\ pc = "planning"
  /\ at = AllIdle
  /\ attempt = 0
  /\ stopping = {}
  /\ rounds = 0
  /\ doubted = {}
  /\ unwatched = {}
  /\ restarts = 0

-----------------------------------------------------------------------------
(* The end of a round, and of the run                                      *)

\* touch(), and what is awaited next.
Go(r, phase, steps) ==
  run' = r /\ saved' = r /\ pc' = phase /\ at' = steps /\ attempt' = 0

End(r) == Go(r, "none", AllIdle)

\* applyCompanyRunDriverFailure(): work on other stages goes on.
Fail(r, steps) ==
  Go(IF Cancelled(r) THEN r ELSE [r EXCEPT !.status = "failed"], "none", steps)

Verdict(r) ==
  IF Blocked(r) THEN "partial"
  ELSE IF \A s \in Incomplete(r) : Status(r, s) = "skipped" THEN "completed"
  ELSE IF Incomplete(r) # Stages THEN "partial" ELSE "failed"

\* Mutant: a cancelled run is finalized as well.
FinalizedAnyway(r) == [r EXCEPT !.status = Verdict(r)]

\* finalizeRun()
Finalized(r) == IF Cancelled(r) THEN r ELSE [r EXCEPT !.status = Verdict(r)]

\* The iteration a round belongs to.
Iteration(r) == IF r.done < MaxIterations THEN r.done + 1 ELSE MaxIterations

\* What VERIFY asks for: the stages after a rejected port need not run.
Verified(r) == \A s \in Incomplete(r) : r.decision = "reject" /\ Status(r, s) = "skipped"

RoundEnds(r) ==
  LET over == [r EXCEPT !.done = Iteration(r)] IN
  IF Cancelled(r) THEN End(r)
  ELSE IF Blocked(r) THEN End(Finalized(over))
  ELSE IF Verified(r) THEN Go(over, "quality", AllIdle)
  ELSE IF over.done < MaxIterations THEN Go(over, "backoff", AllIdle)
  ELSE End(Finalized(over))

\* The stages `left` of a round, in order: the next one looks for an executor.
Take(r, left) ==
  IF left = {} THEN RoundEnds(r) ELSE Go(r, "round", Only(First(left), "choosing"))

\* executePipelineOnce(), executeParallelOnce()
Execute(r) == Take(r, Incomplete(r))

\* The row a stage gave up is forgotten: REFINE, and a retry.
Reopened(r, S) ==
  [r EXCEPT !.stage = [s \in Stages |-> IF s \in S THEN [status |-> "pending", task |-> "none"]
                                        ELSE r.stage[s]]]

\* Stages to which no provider may be assigned.
Unassigned(r, S) == S # {} /\ Fail(Mark(r, S, "failed"), AllIdle)

\* The loop engine: what is incomplete is reopened from the second iteration on.
Iterate(r) ==
  IF Cancelled(r) \/ Blocked(r) THEN End(r)
  ELSE IF Iteration(r) = 1 THEN Execute(r)
  ELSE \/ Execute(Reopened(r, Incomplete(r)))
       \/ \E S \in SUBSET Incomplete(r) : Unassigned(Reopened(r, Incomplete(r) \ S), S)

\* The executors are chosen anew once the subtasks are known.
Reselect(r) ==
  \/ IF mode = "dry" THEN End([r EXCEPT !.status = "planned"]) ELSE Iterate(r)
  \/ \E S \in SUBSET Stages : Unassigned(r, S)

\* driveRunBody(), as far as it gets without waiting.
Design(r) ==
  IF r.designed THEN Reselect(r) ELSE Go([r EXCEPT !.status = "active"], "designing", AllIdle)
Drive(r) ==
  IF discussed THEN Design(r) ELSE Go(r, "planning", AllIdle)

\* ensureCompanyPlanningDiscussion() returns, or throws.
DiscussionEnds ==
  /\ pc = "planning"
  /\ \/ discussed' = TRUE /\ Design(run)
     \/ UNCHANGED discussed /\ Fail(run, AllIdle)
  /\ UNCHANGED <<mode, row, stopping, past>>

\* The decomposition, or the template, gives every stage its subtask.
Designed ==
  /\ pc = "designing"
  /\ Reselect([run EXCEPT !.designed = TRUE])
  /\ UNCHANGED <<mode, durable, stopping, past>>

\* The pause between two iterations is over.
BackoffEnds ==
  /\ pc = "backoff"
  /\ Iterate(run)
  /\ UNCHANGED <<mode, durable, stopping, past>>

\* completeCompanyWorkflowQuality(): the review and the verification of the
\* outputs pass, or they do not and the loop goes on while it may.
QualityEnds ==
  /\ pc = "quality"
  /\ \/ End([run EXCEPT !.status = "completed"])
     \/ IF run.done < MaxIterations THEN Iterate(run) ELSE End(Finalized(run))
  /\ UNCHANGED <<mode, durable, stopping, past>>

-----------------------------------------------------------------------------
(* Posting the task of a stage                                             *)

\* The n-th candidate for a pipeline stage: its taskId is cleared and not saved.
Post(r, s, n) ==
  /\ run' = [r EXCEPT !.stage[s].task = "none"]
  /\ saved' = r
  /\ pc' = "round" /\ at' = Only(s, "posting")
  /\ attempt' = n

\* Mutant: the verdict over the last candidate is forgotten.
NextCandidateForgets(r, s) ==
  IF Cancelled(r) THEN RoundEnds(r)
  ELSE \/ attempt < MaxAttempts /\ Post(r, s, attempt + 1)
       \/ RoundEnds(r)

\* The next candidate, while there is one that is available.
NextCandidate(r, s) ==
  IF Cancelled(r) THEN RoundEnds(r)
  ELSE \/ attempt < MaxAttempts /\ Post(r, s, attempt + 1)
       \/ RoundEnds(With(r, s, "failed"))

\* applyBlockedStageOutcome()
BlockedBy(r, s) ==
  LET named == With(r, s, "blocked") IN
  IF mode = "parallel" THEN named
  ELSE [Mark(named, {t \in Incomplete(r) : t > s}, "skipped") EXCEPT !.status = "partial"]

\* The branch of one stage is over: Promise.all() waits for the others, unless
\* the driver has failed in the meantime.
Joined(r) ==
  LET again == {s \in Incomplete(r) \ r.retried : Status(r, s) # "cancelled"} IN
  IF pc = "retry" \/ Cancelled(r) \/ Blocked(r) \/ again = {} THEN RoundEnds(r)
  ELSE Go(r, "retry", [s \in Stages |-> IF s \in again THEN "choosing" ELSE "idle"])
Join(r, s) ==
  LET others == [at EXCEPT ![s] = "idle"] IN
  IF pc # "none" /\ others = AllIdle THEN Joined(r) ELSE Go(r, pc, others)

\* Every stage that has a task is collected.
Collect(r) ==
  LET has == {s \in Incomplete(r) : r.stage[s].task # "none"}
  IN IF has = {} THEN Joined(r)
     ELSE Go(Mark(r, has, "running"), "collect",
             [s \in Stages |-> IF s \in has THEN "waiting" ELSE "idle"])

\* providerModelDispatchable() has answered for the candidates.
ChosenInPipeline(s) ==
  /\ mode = "pipeline" /\ at[s] = "choosing"
  /\ \/ IF Cancelled(run) \/ Blocked(run) THEN RoundEnds(run) ELSE Post(run, s, 1)
     \/ RoundEnds(With(run, s, "failed"))
  /\ UNCHANGED <<mode, durable, stopping, past>>

ChosenInParallel(s) ==
  /\ mode = "parallel" /\ pc = "round" /\ at[s] = "choosing"
  /\ Go(run, pc, [at EXCEPT ![s] = IF Cancelled(run) \/ Blocked(run)
                                   THEN "staggering" ELSE "posting"])
  /\ UNCHANGED <<mode, durable, stopping, past>>

\* A failed stage is retried once, with an executor it has not had.
ChosenForRetry(s) ==
  /\ mode = "parallel" /\ pc # "round" /\ at[s] = "choosing"
  /\ LET again == [Reopened(run, {s}) EXCEPT !.retried = @ \cup {s}] IN
     \/ Join(run, s)
     \/ IF Cancelled(run) \/ Blocked(run) THEN Join(again, s)
        ELSE Go(again, pc, [at EXCEPT ![s] = "posting"])
  /\ UNCHANGED <<mode, durable, stopping, past>>

\* POST /api/task has inserted the row; what named the last one is outdated.
Older(r, s) == IF r.stage[s].task = "newest" THEN [r EXCEPT !.stage[s].task = "older"] ELSE r
RowInserted(s) ==
  /\ at[s] = "posting"
  /\ row' = [row EXCEPT ![s] = "open"]
  /\ unwatched' = unwatched \ {s}
  /\ run' = Older(run, s) /\ saved' = Older(saved, s)
  /\ at' = [at EXCEPT ![s] = "inserted"]
  /\ stopping' = stopping \ {s}
  /\ UNCHANGED <<mode, discussed, pc, attempt, doubted, restarts>>

\* The intake refuses, or the request fails.
Refused(s) ==
  LET r == With(run, s, "failed") IN
  /\ at[s] = "posting"
  /\ CASE mode = "pipeline" -> NextCandidate(r, s)
       [] mode = "parallel" /\ pc = "round" -> Go(r, pc, Only(s, "staggering"))
       [] OTHER -> Join(r, s)
  /\ UNCHANGED <<mode, durable, stopping, past>>

\* The answer of the intake names the task.
Answered(s) ==
  LET r == [run EXCEPT !.stage[s].task = "newest"]
      wait(phase) == /\ run' = With(r, s, "running") /\ saved' = With(r, s, "running")
                     /\ pc' = phase /\ at' = [at EXCEPT ![s] = "waiting"] /\ UNCHANGED attempt
  IN
  /\ at[s] = "inserted"
  /\ CASE mode = "pipeline" -> wait(pc)
       [] mode = "parallel" /\ pc = "round" -> Go(r, pc, Only(s, "staggering"))
       [] OTHER -> IF Blocked(r) THEN Join(r, s) ELSE wait(pc)
  /\ UNCHANGED <<mode, durable, stopping, past>>

\* The pause after a parallel dispatch is over.
Staggered(s) ==
  LET left == {t \in Incomplete(run) : t > s} IN
  /\ at[s] = "staggering"
  /\ IF Cancelled(run) THEN RoundEnds(run)
     ELSE IF left = {} THEN Collect(run) ELSE Take(run, left)
  /\ UNCHANGED <<mode, durable, stopping, past>>

-----------------------------------------------------------------------------
(* The result of a task                                                    *)

\* The row last inserted ends: its run, the sweeper, a client.
RowEnds(s) ==
  /\ row[s] = "open"
  /\ \E o \in Outcomes(s) : row' = [row EXCEPT ![s] = o]
  /\ UNCHANGED <<mode, discussed, driver, stopping, past>>

\* The report of the gate is accepted: runStageWithFailover() returned true.
Decided(r, s, o) ==
  LET read == [r EXCEPT !.decision = o]
      after == {t \in Stages : t > s}
  IN CASE o = "vague"   -> RoundEnds(With(read, s, "failed"))
       [] o = "reject"  -> RoundEnds(Mark(read, after, "skipped"))
       [] o = "approve" -> Take(read, after \cap Incomplete(r))

\* runStageWithFailover(): a poor output has been saved as completed when the
\* next candidate is asked.
JudgeInPipeline(s, o) ==
  LET done == With(run, s, "completed") IN
  CASE o = "blocker"   -> RoundEnds(BlockedBy(run, s))
    [] o = "cancelled" -> RoundEnds(With(run, s, "cancelled"))
    [] o = "poor"      -> NextCandidate(done, s)
    [] o = "failed"    -> NextCandidate(With(run, s, "failed"), s)
    [] o \in Accepted(s) ->
         IF Gated(s) THEN Decided(done, s, o)
         ELSE Take(done, {t \in Incomplete(done) : t > s})

\* collectStage()
JudgeInParallel(s, o) ==
  CASE o = "blocker"   -> Join(BlockedBy(run, s), s)
    [] o = "cancelled" -> Join(With(run, s, "cancelled"), s)
    [] o \in {"poor", "failed"} -> Join(With(run, s, "failed"), s)
    [] o \in Accepted(s) -> Join(With(run, s, "completed"), s)

\* Mutant: the restart is not counted.
ResumedUncounted(r) ==
  IF Incomplete(r) # {} /\ (r.resumes > MaxResumes \/ r.done >= MaxIterations)
  THEN End(Finalized(r)) ELSE Drive(r)

\* reconcilePersistedStages() waits for what the last process left at work, in
\* order, and the resumed run is driven unless a budget is used up.
Resumed(r) ==
  LET counted == [r EXCEPT !.resumes = @ + 1] IN
  IF Incomplete(r) # {} /\ (counted.resumes > MaxResumes \/ r.done >= MaxIterations)
  THEN End(Finalized(counted)) ELSE Drive(counted)
Reconcile(r, from) ==
  LET left == {s \in Stages : s > from /\ r.stage[s].task # "none" /\ AtWork(r, s)} IN
  IF left = {} THEN Resumed(r) ELSE Go(r, "reconcile", Only(First(left), "waiting"))

\* A recovered row that completed counts whatever its output, and a gate is not
\* read: the loop will not look at the stage again.
JudgeRecovered(s, o) ==
  CASE o = "blocker" -> Resumed(BlockedBy(run, s))
    [] o \in {"cancelled", "failed"} -> Reconcile(With(run, s, o), s)
    [] o \in Accepted(s) \cup {"poor"} -> Reconcile(With(run, s, "completed"), s)

Judge(s, o) ==
  CASE pc = "reconcile" -> JudgeRecovered(s, o)
    [] pc # "reconcile" /\ mode = "pipeline" -> JudgeInPipeline(s, o)
    [] OTHER -> JudgeInParallel(s, o)

\* What waitForTask() may return: the cancellation of the run comes first; a row
\* that was outdated had ended and was judged before.
Results(s) ==
  IF Cancelled(run) THEN {"cancelled"}
  ELSE IF run.stage[s].task = "newest" THEN {row[s]} \ {"none", "open"}
  ELSE {"failed", "cancelled"}

Poll(s) ==
  /\ at[s] = "waiting"
  /\ \E o \in Results(s) :
       /\ Judge(s, o)
       /\ doubted' = IF pc = "reconcile" /\ o = "poor" THEN doubted \cup {s} ELSE doubted
  /\ UNCHANGED <<mode, durable, stopping, unwatched, restarts>>

\* Mutant: a recovered stage may take its time.
DeadlineOfDriver(s) ==
  /\ at[s] = "waiting" /\ ~Cancelled(run) /\ pc # "reconcile"
  /\ run.stage[s].task = "newest" /\ row[s] = "open"
  /\ at' = [at EXCEPT ![s] = "aborting"]
  /\ UNCHANGED <<mode, durable, run, saved, pc, attempt, stopping, past>>

\* The stage's time is up: its row is cancelled before anything else is posted.
Deadline(s) ==
  /\ at[s] = "waiting" /\ ~Cancelled(run)
  /\ run.stage[s].task = "newest" /\ row[s] = "open"
  /\ at' = [at EXCEPT ![s] = "aborting"]
  /\ UNCHANGED <<mode, durable, run, saved, pc, attempt, stopping, past>>

\* Mutant: nobody asks the task to stop.
AbortedUnasked(s) ==
  /\ at[s] = "aborting"
  /\ Judge(s, "failed")
  /\ UNCHANGED <<mode, durable, stopping, past>>

\* abortTimedOutCompanyTask() is confirmed.  A row under audit has a response,
\* which may have named a blocker.
Aborted(s) ==
  /\ at[s] = "aborting"
  /\ row' = [row EXCEPT ![s] = IF @ = "open" THEN "cancelled" ELSE @]
  /\ \/ Judge(s, "blocker")
     \/ Judge(s, IF Cancelled(run) /\ mode = "pipeline" /\ pc # "reconcile"
                 THEN "cancelled" ELSE "failed")
  /\ UNCHANGED <<mode, discussed, stopping, past>>

\* It is not: the driver fails, and branches of other stages go on.
AbortFails(s) ==
  /\ at[s] = "aborting"
  /\ IF pc = "none" THEN Go(run, pc, [at EXCEPT ![s] = "idle"])
     ELSE Fail(run, [at EXCEPT ![s] = "idle"])
  /\ UNCHANGED <<mode, durable, stopping, past>>

-----------------------------------------------------------------------------
(* Cancellation and restart                                                *)

\* cancelCompanyRun() of a run that is not over; it goes on with the rows.
CancelRun ==
  LET active == {s \in Stages : AtWork(run, s)}
      r == [Mark(run, active, "cancelled") EXCEPT !.status = "cancelled"]
  IN
  /\ run.status = "active"
  /\ run' = r /\ saved' = r
  /\ stopping' = stopping \cup {s \in active : run.stage[s].task = "newest"}
  /\ UNCHANGED <<mode, durable, pc, at, attempt, past>>

\* The row of one stage is cancelled, unless it has ended or the request fails.
CancelRow(s) ==
  /\ s \in stopping
  /\ stopping' = stopping \ {s}
  /\ \/ row[s] = "open" /\ row' = [row EXCEPT ![s] = "cancelled"]
     \/ UNCHANGED row
  /\ UNCHANGED <<mode, discussed, driver, past>>

\* The process ends and starts again: resumeCompanyRuns().  Rows the saved run
\* does not name are nobody's any more.
Restart ==
  /\ restarts < MaxRestarts /\ restarts' = restarts + 1
  /\ row' = [s \in Stages |-> IF saved.stage[s].task = "newest" THEN row[s] ELSE "none"]
  /\ doubted' = doubted \cup {s \in Stages : /\ Status(saved, s) = "completed"
                                             /\ row'[s] \notin Accepted(s)}
  /\ unwatched' = {s \in Stages : row'[s] = "open" /\ ~AtWork(saved, s)}
  /\ stopping' = {}
  /\ IF saved.status # "active" THEN End(saved)
     ELSE \/ End([saved EXCEPT !.status = "failed"])
          \/ IF Blocked(saved) THEN End(Finalized(saved)) ELSE Reconcile(saved, 0)
  /\ UNCHANGED <<mode, discussed>>

-----------------------------------------------------------------------------
StageStep(s) ==
  \/ ChosenInPipeline(s) \/ ChosenInParallel(s) \/ ChosenForRetry(s)
  \/ RowInserted(s) \/ Refused(s) \/ Answered(s) \/ Staggered(s)
  \/ Poll(s) \/ Deadline(s) \/ Aborted(s) \/ AbortFails(s)

\* A round begins.
Count ==
  rounds' = IF pc' = "round" /\ (pc # "round" \/ restarts' # restarts) THEN rounds + 1 ELSE rounds

Work ==
  /\ \/ DiscussionEnds \/ Designed \/ BackoffEnds \/ QualityEnds
     \/ \E s \in Stages : StageStep(s)
  /\ Count

Others ==
  /\ \/ CancelRun \/ Restart
     \/ \E s \in Stages : RowEnds(s) \/ CancelRow(s)
  /\ Count

Next == Work \/ Others

Spec == Init /\ [][Next]_vars

\* Every wait of the driver is bounded by a timer or by its own requests; no
\* row need ever end by itself.
FairSpec == Spec /\ WF_vars(Work)

-----------------------------------------------------------------------------
(* Properties                                                              *)

\* The types, the limit on the attempts at a stage, and the bound.
TypeOK ==
  /\ mode \in Modes
  /\ run \in Runs /\ saved \in Runs
  /\ discussed \in BOOLEAN
  /\ DOMAIN row = Stages /\ \A s \in Stages : row[s] \in Rows(s)
  /\ pc \in Phases /\ at \in [Stages -> Steps] /\ attempt \in 0..MaxAttempts
  /\ stopping \subseteq Stages
  /\ rounds \in Nat
  /\ doubted \subseteq Stages
  /\ unwatched \subseteq Stages
  /\ restarts \in 0..MaxRestarts

\* A row is inserted for a stage.
Inserted(s) == at[s] = "posting" /\ at'[s] = "inserted"

\* One worker per stage: no task is posted for a stage whose last one may still
\* be editing the worktree, whatever timed out, failed over, was cancelled, or
\* was interrupted by a restart.  Not covered are the rows a restart finds open
\* and does not wait for, since the saved stage is neither pending nor running.
OneWorker ==
  [][\A s \in Stages : Inserted(s) => row[s] # "open" \/ s \in unwatched]_vars

\* Where the driver looks at the status of its run before it writes one: it does
\* not when it comes back from the discussion, the design or the quality phase,
\* and a blocker reported by a task that had to be aborted comes before it.
Heeding == pc \notin {"planning", "designing", "quality"} /\ \A s \in Stages : at[s] # "aborting"

\* A cancelled run stays cancelled, in memory and in company_runs, against every
\* late result, failure, deadline and restart.
CancelIsKept ==
  [][Cancelled(run) /\ Heeding => Cancelled(run') /\ Cancelled(saved')]_vars

\* A run is reported completed only if the last task of every stage delivered an
\* acceptable output, or the report of the gate rejected the port and the stage
\* stands after it.  Not covered are the stages a restart took for completed.
CompletedIsEarned ==
  run.status = "completed" =>
    \A s \in Stages \ doubted :
      \/ Status(run, s) = "completed" /\ row[s] \in Accepted(s)
      \/ Status(run, s) = "skipped" /\ s > Gate /\ row[Gate] = "reject"

\* However often the process restarts in whatever phase, stages are taken up in
\* no more rounds than the two budgets allow together.
WorkIsBounded == rounds <= MaxIterations + MaxResumes

\* A parallel run that is found blocked behind a restart has lost its driver.
Stranded == restarts > 0 /\ pc = "none" /\ mode = "parallel" /\ Blocked(run)

\* Every run comes to an end, even if none of its tasks ever does.
RunSettles == run.status = "active" ~> run.status # "active" \/ Stranded
=============================================================================
