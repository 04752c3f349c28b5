-------------------------- MODULE CompanyRunProofs --------------------------
(***************************************************************************)
(* Runs of a company keep their promises for any stages, modes and limits: *)
(* proofs about CompanyRun.                                                *)
(***************************************************************************)
EXTENDS CompanyRun, WellFoundedInduction, TLAPS

DriverTypes == /\ run \in Runs /\ saved \in Runs
               /\ pc \in Phases /\ at \in [Stages -> Steps] /\ attempt \in 0..MaxAttempts

-----------------------------------------------------------------------------
(* Types                                                                   *)

LEMMA StepTypes ==
  /\ AllIdle \in [Stages -> Steps]
  /\ \A s : \A step \in Steps : Only(s, step) \in [Stages -> Steps]
BY DEF AllIdle, Only, Steps

LEMMA MarkTypes ==
  ASSUME NEW r \in Runs, NEW S, NEW status \in StageStatuses
  PROVE  /\ Mark(r, S, status) \in Runs
         /\ \A s : With(r, s, status) \in Runs
BY DEF Mark, With, Runs, StageRecords

LEMMA ReopenedTypes ==
  ASSUME NEW r \in Runs, NEW S PROVE Reopened(r, S) \in Runs
BY DEF Reopened, Runs, StageRecords, StageStatuses, Tasks

LEMMA IterationTypes ==
  ASSUME NEW r \in Runs
  PROVE  /\ Iteration(r) \in 1..MaxIterations
         /\ [r EXCEPT !.done = Iteration(r)] \in Runs
<1>1. Iteration(r) \in 1..MaxIterations
  BY LimitsAreNat DEF Iteration, Runs
<1>2. QED
  BY <1>1 DEF Runs

LEMMA FinalTypes ==
  ASSUME NEW r \in Runs PROVE Finalized(r) \in Runs
<1>1. Verdict(r) \in RunStatuses
  BY DEF Verdict, RunStatuses
<1>2. QED
  BY <1>1 DEF Finalized, Runs

LEMMA GoTypes ==
  ASSUME NEW r \in Runs, NEW phase \in Phases, NEW steps \in [Stages -> Steps],
         Go(r, phase, steps)
  PROVE  DriverTypes'
BY LimitsAreNat DEF Go, DriverTypes

LEMMA EndTypes ==
  ASSUME NEW r \in Runs, End(r) PROVE DriverTypes'
BY GoTypes, StepTypes DEF End, Phases

LEMMA FailTypes ==
  ASSUME NEW r \in Runs, NEW steps \in [Stages -> Steps], Fail(r, steps) PROVE DriverTypes'
<1>1. [r EXCEPT !.status = "failed"] \in Runs
  BY DEF Runs, RunStatuses
<1>2. QED
  BY <1>1, GoTypes DEF Fail, Phases

LEMMA RoundEndsTypes ==
  ASSUME NEW r \in Runs, RoundEnds(r) PROVE DriverTypes'
BY IterationTypes, FinalTypes, EndTypes, GoTypes, StepTypes DEF RoundEnds, Phases

LEMMA TakeTypes ==
  ASSUME NEW r \in Runs, NEW left, Take(r, left) PROVE DriverTypes'
BY RoundEndsTypes, GoTypes, StepTypes DEF Take, Phases, Steps

LEMMA UnassignedTypes ==
  ASSUME NEW r \in Runs, NEW S, Unassigned(r, S) PROVE DriverTypes'
BY MarkTypes, FailTypes, StepTypes DEF Unassigned, StageStatuses

LEMMA IterateTypes ==
  ASSUME NEW r \in Runs, Iterate(r) PROVE DriverTypes'
BY EndTypes, TakeTypes, ReopenedTypes, UnassignedTypes DEF Iterate, Execute

LEMMA ReselectTypes ==
  ASSUME NEW r \in Runs, Reselect(r) PROVE DriverTypes'
<1>1. [r EXCEPT !.status = "planned"] \in Runs
  BY DEF Runs, RunStatuses
<1>2. QED
  BY <1>1, EndTypes, IterateTypes, UnassignedTypes DEF Reselect

LEMMA DriveTypes ==
  ASSUME NEW r \in Runs, Design(r) \/ Drive(r) PROVE DriverTypes'
<1>1. [r EXCEPT !.status = "active"] \in Runs
  BY DEF Runs, RunStatuses
<1>2. QED
  BY <1>1, ReselectTypes, GoTypes, StepTypes DEF Design, Drive, Phases

\* A stage gets another task, or its taskId is forgotten.
LEMMA TaskTypes ==
  ASSUME NEW r \in Runs, NEW s
  PROVE  /\ [r EXCEPT !.stage[s].task = "none"] \in Runs
         /\ [r EXCEPT !.stage[s].task = "newest"] \in Runs
         /\ Older(r, s) \in Runs
BY DEF Older, Runs, StageRecords, Tasks

LEMMA PostTypes ==
  ASSUME NEW r \in Runs, NEW s, NEW n \in 0..MaxAttempts, Post(r, s, n) PROVE DriverTypes'
<1>1. Only(s, "posting") \in [Stages -> Steps]
  BY StepTypes DEF Steps
<1>2. QED
  BY <1>1, TaskTypes DEF Post, DriverTypes, Phases

LEMMA NextCandidateTypes ==
  ASSUME NEW r \in Runs, NEW s, attempt \in 0..MaxAttempts, NextCandidate(r, s)
  PROVE  DriverTypes'
<1>1. ASSUME attempt < MaxAttempts PROVE attempt + 1 \in 0..MaxAttempts
  BY <1>1, LimitsAreNat
<1>2. QED
  BY <1>1, PostTypes, RoundEndsTypes, MarkTypes DEF NextCandidate, StageStatuses

LEMMA BlockedTypes ==
  ASSUME NEW r \in Runs, NEW s PROVE BlockedBy(r, s) \in Runs
<1>1. With(r, s, "blocked") \in Runs
  BY MarkTypes DEF StageStatuses
<1>2. \A S : Mark(With(r, s, "blocked"), S, "skipped") \in Runs
  BY <1>1, MarkTypes DEF StageStatuses
<1>3. \A q \in Runs : [q EXCEPT !.status = "partial"] \in Runs
  BY DEF Runs, RunStatuses
<1>4. QED
  BY <1>1, <1>2, <1>3 DEF BlockedBy

LEMMA JoinTypes ==
  ASSUME NEW r \in Runs, NEW s, DriverTypes, Joined(r) \/ Join(r, s) PROVE DriverTypes'
<1>1. ASSUME Joined(r) PROVE DriverTypes'
  BY <1>1, RoundEndsTypes, GoTypes DEF Joined, Phases, Steps
<1>2. QED
  BY <1>1, GoTypes DEF Join, DriverTypes, Steps

LEMMA CollectTypes ==
  ASSUME NEW r \in Runs, DriverTypes, Collect(r) PROVE DriverTypes'
BY JoinTypes, GoTypes, MarkTypes DEF Collect, Phases, Steps, StageStatuses

LEMMA DecidedTypes ==
  ASSUME NEW r \in Runs, NEW s, NEW o \in {"vague", "reject", "approve"}, Decided(r, s, o)
  PROVE  DriverTypes'
<1>1. [r EXCEPT !.decision = o] \in Runs
  BY DEF Runs, Decisions
<1>2. QED
  BY <1>1, MarkTypes, RoundEndsTypes, TakeTypes DEF Decided, StageStatuses

LEMMA ResumedTypes ==
  ASSUME NEW r \in Runs, Resumed(r) PROVE DriverTypes'
<1>1. [r EXCEPT !.resumes = @ + 1] \in Runs
  BY DEF Runs
<1>2. QED
  BY <1>1, FinalTypes, EndTypes, DriveTypes DEF Resumed

LEMMA ReconcileTypes ==
  ASSUME NEW r \in Runs, NEW from, Reconcile(r, from) PROVE DriverTypes'
BY ResumedTypes, GoTypes, StepTypes DEF Reconcile, Phases, Steps

LEMMA JudgeTypes ==
  ASSUME DriverTypes, NEW s \in Stages, NEW o \in Outcomes(s), Judge(s, o) PROVE DriverTypes'
<1>. USE DEF DriverTypes
<1>1. \A status \in {"cancelled", "failed", "completed"} : With(run, s, status) \in Runs
  BY MarkTypes DEF StageStatuses
<1>2. BlockedBy(run, s) \in Runs
  BY BlockedTypes
<1>3. ASSUME JudgeRecovered(s, o) PROVE DriverTypes'
  BY <1>1, <1>2, <1>3, ResumedTypes, ReconcileTypes DEF JudgeRecovered, Outcomes
<1>4. ASSUME JudgeInParallel(s, o) PROVE DriverTypes'
  BY <1>1, <1>2, <1>4, JoinTypes DEF JudgeInParallel, Outcomes
<1>5. ASSUME JudgeInPipeline(s, o) PROVE DriverTypes'
  <2>1. CASE Gated(s) /\ o \in Accepted(s)
    BY <1>1, <1>5, <2>1, DecidedTypes DEF JudgeInPipeline, Accepted
  <2>2. CASE ~(Gated(s) /\ o \in Accepted(s))
    BY <1>1, <1>2, <1>5, <2>2, RoundEndsTypes, NextCandidateTypes, TakeTypes
      DEF JudgeInPipeline, Outcomes
  <2>3. QED
    BY <2>1, <2>2
<1>6. QED
  BY <1>3, <1>4, <1>5 DEF Judge

Types == /\ DriverTypes
         /\ mode \in Modes
         /\ discussed \in BOOLEAN
         /\ row = [s \in Stages |-> row[s]] /\ \A s \in Stages : row[s] \in Rows(s)
         /\ stopping \subseteq Stages
         /\ doubted \subseteq Stages /\ unwatched \subseteq Stages
         /\ restarts \in 0..MaxRestarts

LEMMA ResultTypes ==
  ASSUME Types, NEW s \in Stages PROVE Results(s) \subseteq Outcomes(s)
BY DEF Types, Results, Rows, Outcomes

\* What the driver and its branches do leaves the rest of the types alone.
LEMMA StepKeepsTypes ==
  ASSUME Types, DriverTypes', UNCHANGED <<mode, durable, stopping, past>>
  PROVE  Types'
BY DEF Types, Rows, Outcomes, Accepted, Gated, durable, past

LEMMA DriverStepTypes ==
  ASSUME Types, DiscussionEnds \/ Designed \/ BackoffEnds \/ QualityEnds PROVE Types'
<1>. USE DEF Types
<1>1. CASE DiscussionEnds
  <2>1. DriverTypes'
    BY <1>1, DriveTypes, FailTypes, StepTypes DEF DiscussionEnds, DriverTypes
  <2>2. QED
    BY <1>1, <2>1 DEF DiscussionEnds, past, Rows, Outcomes, Accepted, Gated
<1>2. CASE Designed
  <2>1. [run EXCEPT !.designed = TRUE] \in Runs
    BY DEF DriverTypes, Runs
  <2>2. QED
    BY <1>2, <2>1, ReselectTypes, StepKeepsTypes DEF Designed
<1>3. CASE BackoffEnds
  BY <1>3, IterateTypes, StepKeepsTypes DEF BackoffEnds, DriverTypes
<1>4. CASE QualityEnds
  <2>1. run \in Runs /\ [run EXCEPT !.status = "completed"] \in Runs
    BY DEF DriverTypes, Runs, RunStatuses
  <2>2. QED
    BY <1>4, <2>1, EndTypes, IterateTypes, FinalTypes, StepKeepsTypes DEF QualityEnds
<1>5. QED
  BY <1>1, <1>2, <1>3, <1>4

LEMMA PostingTypes ==
  ASSUME Types, NEW s \in Stages,
         \/ ChosenInPipeline(s) \/ ChosenInParallel(s) \/ ChosenForRetry(s)
         \/ Refused(s) \/ Answered(s) \/ Staggered(s)
  PROVE  Types'
<1>. USE DEF Types
<1>0. /\ DriverTypes /\ run \in Runs /\ pc \in Phases /\ at \in [Stages -> Steps] 
      /\ attempt \in 0..MaxAttempts
      /\ \A step \in Steps : [at EXCEPT ![s] = step] \in [Stages -> Steps]
  BY DEF DriverTypes
<1>1. With(run, s, "failed") \in Runs
  BY <1>0, MarkTypes DEF StageStatuses
<1>2. CASE ChosenInPipeline(s)
  BY <1>0, <1>1, <1>2, LimitsAreNat, PostTypes, RoundEndsTypes, StepKeepsTypes DEF ChosenInPipeline
<1>3. CASE ChosenInParallel(s)
  BY <1>0, <1>3, GoTypes, StepKeepsTypes DEF ChosenInParallel, Steps
<1>4. CASE ChosenForRetry(s)
  <2>1. [Reopened(run, {s}) EXCEPT !.retried = @ \cup {s}] \in Runs
    BY <1>0, ReopenedTypes DEF Runs
  <2>2. QED
    BY <1>0, <1>4, <2>1, JoinTypes, GoTypes, StepKeepsTypes DEF ChosenForRetry, Steps
<1>5. CASE Refused(s)
  BY <1>0, <1>1, <1>5, NextCandidateTypes, StepTypes, GoTypes, JoinTypes, StepKeepsTypes
    DEF Refused, Steps
<1>6. CASE Answered(s)
  <2>1. /\ [run EXCEPT !.stage[s].task = "newest"] \in Runs
        /\ With([run EXCEPT !.stage[s].task = "newest"], s, "running") \in Runs
    BY <1>0, TaskTypes, MarkTypes DEF StageStatuses
  <2>2. QED
    BY <1>0, <1>6, <2>1, StepTypes, GoTypes, JoinTypes, StepKeepsTypes
      DEF Answered, Steps, Phases, DriverTypes
<1>7. CASE Staggered(s)
  BY <1>0, <1>7, RoundEndsTypes, CollectTypes, TakeTypes, StepKeepsTypes DEF Staggered
<1>8. QED
  BY <1>2, <1>3, <1>4, <1>5, <1>6, <1>7

LEMMA ResultStepTypes ==
  ASSUME Types, NEW s \in Stages,
         RowInserted(s) \/ Poll(s) \/ Deadline(s) \/ Aborted(s) \/ AbortFails(s)
  PROVE  Types'
<1>. USE DEF Types
<1>0. /\ DriverTypes /\ run \in Runs /\ saved \in Runs /\ pc \in Phases
      /\ at \in [Stages -> Steps] /\ attempt \in 0..MaxAttempts
      /\ \A step \in Steps : [at EXCEPT ![s] = step] \in [Stages -> Steps]
  BY DEF DriverTypes
<1>1. CASE RowInserted(s)
  <2>1. DriverTypes'
    BY <1>0, <1>1, TaskTypes DEF RowInserted, DriverTypes, Steps
  <2>2. QED
    BY <1>1, <2>1 DEF RowInserted, Rows, Outcomes, Accepted, Gated
<1>2. CASE Poll(s)
  <2>1. DriverTypes'
    BY <1>0, <1>2, ResultTypes, JudgeTypes DEF Poll
  <2>2. QED
    BY <1>2, <2>1 DEF Poll, durable, Rows, Outcomes, Accepted, Gated
<1>3. CASE Deadline(s)
  <2>1. DriverTypes'
    BY <1>0, <1>3 DEF Deadline, DriverTypes, Steps
  <2>2. QED
    BY <1>3, <2>1, StepKeepsTypes DEF Deadline
<1>4. CASE Aborted(s)
  <2>1. {"blocker", "cancelled", "failed"} \subseteq Outcomes(s)
    BY DEF Outcomes
  <2>2. DriverTypes'
    BY <1>0, <1>4, <2>1, JudgeTypes DEF Aborted
  <2>3. QED
    BY <1>4, <2>1, <2>2 DEF Aborted, past, Rows, Outcomes, Accepted, Gated
<1>5. CASE AbortFails(s)
  BY <1>0, <1>5, GoTypes, FailTypes, StepKeepsTypes DEF AbortFails, Steps
<1>6. QED
  BY <1>1, <1>2, <1>3, <1>4, <1>5

LEMMA OtherStepTypes ==
  ASSUME Types, \/ CancelRun \/ Restart
                \/ \E s \in Stages : RowEnds(s) \/ CancelRow(s)
  PROVE  Types'
<1>. USE DEF Types
<1>1. CASE CancelRun
  <2>1. Mark(run, {s \in Stages : AtWork(run, s)}, "cancelled") \in Runs
    BY MarkTypes DEF DriverTypes, StageStatuses
  <2>2. \A r \in Runs : [r EXCEPT !.status = "cancelled"] \in Runs
    BY DEF Runs, RunStatuses
  <2>3. DriverTypes'
    BY <1>1, <2>1, <2>2 DEF CancelRun, DriverTypes
  <2>4. QED
    BY <1>1, <2>3 DEF CancelRun, durable, past, Rows, Outcomes, Accepted, Gated
<1>2. CASE Restart
  <2>1. saved \in Runs /\ [saved EXCEPT !.status = "failed"] \in Runs
    BY DEF DriverTypes, Runs, RunStatuses
  <2>2. DriverTypes'
    BY <1>2, <2>1, EndTypes, FinalTypes, ReconcileTypes DEF Restart
  <2>3. restarts' \in 0..MaxRestarts
    BY <1>2, LimitsAreNat DEF Restart
  <2>4. QED
    BY <1>2, <2>2, <2>3 DEF Restart, Rows, Outcomes, Accepted, Gated
<1>3. ASSUME NEW s \in Stages, RowEnds(s) \/ CancelRow(s) PROVE Types'
  <2>1. DriverTypes'
    BY <1>3 DEF RowEnds, CancelRow, driver, DriverTypes
  <2>2. QED
    BY <1>3, <2>1 DEF RowEnds, CancelRow, driver, past, Rows, Outcomes, Accepted, Gated
<1>4. QED
  BY <1>1, <1>2, <1>3

LEMMA InitTypes == Init => Types
<1>. SUFFICES ASSUME Init PROVE Types
  OBVIOUS
<1>1. run \in Runs
  BY LimitsAreNat DEF Init, Runs, RunStatuses, StageRecords, StageStatuses, Tasks, Decisions
<1>2. DriverTypes
  BY <1>1, StepTypes, LimitsAreNat DEF Init, DriverTypes, Phases
<1>3. row = [s \in Stages |-> row[s]] /\ \A s \in Stages : row[s] \in Rows(s)
  <2>1. row = [s \in Stages |-> "none"]
    BY DEF Init
  <2>2. QED
    BY <2>1 DEF Rows
<1>4. mode \in Modes /\ discussed \in BOOLEAN /\ stopping = {} /\ doubted = {} /\ unwatched = {}
  BY DEF Init
<1>5. restarts \in 0..MaxRestarts
  BY LimitsAreNat DEF Init
<1>6. QED
  BY <1>2, <1>3, <1>4, <1>5 DEF Types

LEMMA NextTypes == Types /\ [Next]_vars => Types'
<1>. SUFFICES ASSUME Types, [Next]_vars PROVE Types'
  OBVIOUS
<1>1. CASE Work
  BY <1>1, DriverStepTypes, PostingTypes, ResultStepTypes DEF Work, StageStep
<1>2. CASE Others
  BY <1>2, OtherStepTypes DEF Others
<1>3. CASE UNCHANGED vars
  BY <1>3 DEF vars, durable, driver, past, Types, DriverTypes, Rows, Outcomes, Accepted, Gated
<1>4. QED
  BY <1>1, <1>2, <1>3 DEF Next

\* The run in memory and the run in company_runs are always a run the code can
\* read, and no stage is ever at a candidate beyond the limit on its attempts.
THEOREM CompanyTypes == Spec => []TypeOK
<1>. DEFINE Inv == Types /\ rounds \in Nat
<1>1. Init => Inv
  BY InitTypes DEF Init
<1>2. Inv /\ [Next]_vars => Inv'
  <2>. SUFFICES ASSUME Inv, [Next]_vars PROVE Inv'
    OBVIOUS
  <2>1. Types'
    BY NextTypes
  <2>2. rounds' \in Nat
    BY DEF Next, Work, Others, Count, vars
  <2>3. QED
    BY <2>1, <2>2
<1>3. Inv => TypeOK
  BY DEF Types, DriverTypes, TypeOK
<1>4. QED
  BY <1>1, <1>2, <1>3, PTL DEF Spec

-----------------------------------------------------------------------------
(* A cancelled run stays cancelled                                         *)

\* The saved run differs from the one in memory in its stages at most.
Alike == /\ saved.status = run.status /\ saved.designed = run.designed
         /\ saved.done = run.done /\ saved.resumes = run.resumes

\* Nothing stands between a run and its next iteration.
Ready(r) == r.designed /\ discussed /\ mode # "dry"

\* Only a run that is ready has been taken up, and has tasks.
Underway ==
  \/ pc \notin {"none", "planning", "designing"}
  \/ \E s \in Stages : \/ at[s] # "idle"
                       \/ run.stage[s].task # "none" \/ saved.stage[s].task # "none"
Prepared == /\ Underway => Ready(run)
            /\ pc = "designing" => discussed

\* What is kept of the run r that an operator starts from.
Carried(r) ==
  /\ Alike'
  /\ run'.designed = r.designed
  /\ Cancelled(r) /\ Ready(r) => Cancelled(run')
  /\ \A s \in Stages : \/ r.stage[s].task # "none"
                       \/ run'.stage[s].task = "none" /\ saved'.stage[s].task = "none"

\* The fields an operator on stages leaves alone.
Kin(q, r) == /\ q.status = r.status /\ q.designed = r.designed
             /\ q.done = r.done /\ q.resumes = r.resumes
             /\ \A s \in Stages : q.stage[s].task \in {r.stage[s].task, "none"}

LEMMA MarkKin ==
  ASSUME NEW r \in Runs, NEW S, NEW status \in StageStatuses
  PROVE  Kin(Mark(r, S, status), r) /\ \A s : Kin(With(r, s, status), r)
BY DEF Kin, Mark, With, Runs, StageRecords

LEMMA ReopenedKin ==
  ASSUME NEW r \in Runs, NEW S PROVE Kin(Reopened(r, S), r)
BY DEF Kin, Reopened, Runs, StageRecords

LEMMA KinCarried ==
  ASSUME NEW r \in Runs, NEW q \in Runs, Kin(q, r), Carried(q) PROVE Carried(r)
BY DEF Kin, Carried, Cancelled, Ready

LEMMA GoCarried ==
  ASSUME NEW r \in Runs, NEW phase, NEW steps, Go(r, phase, steps) PROVE Carried(r)
BY DEF Go, Carried, Alike

LEMMA EndCarried ==
  ASSUME NEW r \in Runs, End(r) PROVE Carried(r)
BY GoCarried DEF End

LEMMA FinalKin ==
  ASSUME NEW r \in Runs
  PROVE  /\ Finalized(r).designed = r.designed /\ Finalized(r).stage = r.stage
         /\ Finalized(r).done = r.done /\ Finalized(r).resumes = r.resumes
         /\ Cancelled(r) => Cancelled(Finalized(r))
BY DEF Finalized, Runs

LEMMA RoundEndsCarried ==
  ASSUME NEW r \in Runs, RoundEnds(r) PROVE Carried(r)
<1>. DEFINE over == [r EXCEPT !.done = Iteration(r)]
<1>1. /\ over \in Runs /\ over.designed = r.designed /\ over.stage = r.stage
      /\ over.status = r.status
  BY IterationTypes DEF Runs
<1>2. Finalized(over) \in Runs
  BY <1>1, FinalTypes
<1>3. /\ Carried(over) => Carried(r)
      /\ Carried(Finalized(over)) => Carried(r)
  BY <1>1, FinalKin DEF Carried, Cancelled, Ready
<1>4. CASE Cancelled(r) /\ End(r)
  BY <1>4, EndCarried
<1>5. CASE End(Finalized(over))
  BY <1>2, <1>3, <1>5, EndCarried
<1>6. CASE Go(over, "quality", AllIdle) \/ Go(over, "backoff", AllIdle)
  BY <1>1, <1>3, <1>6, GoCarried
<1>7. QED
  BY <1>4, <1>5, <1>6 DEF RoundEnds

LEMMA TakeCarried ==
  ASSUME NEW r \in Runs, NEW left, Take(r, left) PROVE Carried(r)
BY RoundEndsCarried, GoCarried DEF Take

LEMMA FailCarried ==
  ASSUME NEW r \in Runs, NEW steps, Fail(r, steps) PROVE Carried(r)
<1>1. CASE Cancelled(r)
  BY <1>1, GoCarried DEF Fail
<1>2. CASE ~Cancelled(r)
  <2>1. [r EXCEPT !.status = "failed"] \in Runs
    BY DEF Runs, RunStatuses
  <2>2. QED
    BY <1>2, <2>1, GoCarried DEF Fail, Carried, Runs
<1>3. QED
  BY <1>1, <1>2

LEMMA UnassignedCarried ==
  ASSUME NEW r \in Runs, NEW S, Unassigned(r, S) PROVE Carried(r)
<1>1. Mark(r, S, "failed") \in Runs /\ Kin(Mark(r, S, "failed"), r)
  BY MarkTypes, MarkKin DEF StageStatuses
<1>2. QED
  BY <1>1, FailCarried, KinCarried DEF Unassigned

LEMMA IterateCarried ==
  ASSUME NEW r \in Runs, Iterate(r) PROVE Carried(r)
<1>1. \A S : Reopened(r, S) \in Runs /\ (Carried(Reopened(r, S)) => Carried(r))
  BY ReopenedTypes, ReopenedKin, KinCarried
<1>2. QED
  BY <1>1, EndCarried, TakeCarried, UnassignedCarried DEF Iterate, Execute

\* A dry run is over, and so is one to which no executor was assigned.
LEMMA ReselectCarried ==
  ASSUME NEW r \in Runs, Reselect(r)
  PROVE  /\ Carried(r)
         /\ mode = "dry" => pc' = "none" /\ at' = AllIdle
<1>1. CASE mode = "dry" /\ End([r EXCEPT !.status = "planned"])
  <2>1. [r EXCEPT !.status = "planned"] \in Runs
    BY DEF Runs, RunStatuses
  <2>2. QED
    BY <1>1, <2>1, EndCarried DEF Carried, Ready, Runs, End, Go
<1>2. CASE mode # "dry" /\ Iterate(r)
  BY <1>2, IterateCarried
<1>3. CASE \E S \in SUBSET Stages : Unassigned(r, S)
  BY <1>3, UnassignedCarried DEF Unassigned, Fail, Go
<1>4. QED
  BY <1>1, <1>2, <1>3 DEF Reselect

LEMMA ReadyPrepared ==
  ASSUME NEW r, Carried(r), r.designed, discussed', mode' # "dry" PROVE Prepared'
BY DEF Carried, Prepared, Underway, Ready

LEMMA DesignCarried ==
  ASSUME NEW r \in Runs, Design(r), Ready(r) => discussed PROVE Carried(r)
<1>1. CASE r.designed
  BY <1>1, ReselectCarried DEF Design
<1>2. CASE ~r.designed
  <2>1. [r EXCEPT !.status = "active"] \in Runs
    BY DEF Runs, RunStatuses
  <2>2. QED
    BY <1>2, <2>1, GoCarried DEF Design, Carried, Ready, Runs
<1>3. QED
  BY <1>1, <1>2

\* Only a ready run has tasks.
Untouched(r) == \A s \in Stages : r.stage[s].task = "none"

LEMMA DesignPrepared ==
  ASSUME NEW r \in Runs, Design(r), discussed', mode' = mode,
         Untouched(r) \/ (r.designed /\ mode # "dry")
  PROVE  Carried(r) /\ Prepared'
<1>1. Carried(r)
  BY DesignCarried DEF Ready
<1>2. CASE r.designed /\ mode # "dry"
  BY <1>1, <1>2, ReadyPrepared
<1>3. CASE ~r.designed
  <2>1. Go([r EXCEPT !.status = "active"], "designing", AllIdle) /\ Untouched(r)
    BY <1>3 DEF Design
  <2>2. QED
    BY <1>1, <2>1 DEF Carried, Prepared, Underway, Go, AllIdle, Untouched
<1>4. CASE r.designed /\ mode = "dry"
  <2>1. pc' = "none" /\ at' = AllIdle
    BY <1>4, ReselectCarried DEF Design
  <2>2. QED
    BY <1>1, <1>4, <2>1 DEF Carried, Prepared, Underway, AllIdle, Untouched
<1>5. QED
  BY <1>2, <1>3, <1>4

LEMMA DrivePrepared ==
  ASSUME NEW r \in Runs, Drive(r), UNCHANGED <<discussed, mode>>, Untouched(r) \/ Ready(r)
  PROVE  Carried(r) /\ Prepared'
<1>1. CASE discussed
  <2>1. discussed' /\ mode' = mode
    BY <1>1, Zenon
  <2>2. Design(r)
    BY <1>1 DEF Drive
  <2>3. Untouched(r) \/ (r.designed /\ mode # "dry")
    BY Zenon DEF Ready
  <2>4. QED
    BY <2>1, <2>2, <2>3, DesignPrepared, Zenon
<1>2. CASE ~discussed
  <2>1. Go(r, "planning", AllIdle) /\ Untouched(r)
    BY <1>2 DEF Drive, Ready
  <2>2. QED
    BY <2>1, GoCarried DEF Prepared, Underway, Go, AllIdle, Untouched
<1>3. QED
  BY <1>1, <1>2

\* A step of a ready run keeps it ready, in step with the saved one, and cancelled.
Heeds(r) == Alike' /\ run'.designed /\ (Cancelled(r) => Cancelled(run'))

LEMMA CarriedHeeds ==
  ASSUME NEW r, Ready(r), Carried(r) PROVE Heeds(r)
BY DEF Carried, Heeds, Ready

LEMMA PostHeeds ==
  ASSUME NEW r \in Runs, NEW s, NEW n, r.designed, Post(r, s, n) PROVE Heeds(r)
BY DEF Post, Heeds, Alike, Runs, Cancelled

LEMMA NextCandidateHeeds ==
  ASSUME NEW r \in Runs, NEW s, Ready(r), NextCandidate(r, s) PROVE Heeds(r)
<1>1. /\ With(r, s, "failed") \in Runs
      /\ Carried(With(r, s, "failed")) => Carried(r)
  BY MarkTypes, MarkKin, KinCarried DEF StageStatuses
<1>2. QED
  BY <1>1, PostHeeds, RoundEndsCarried, CarriedHeeds DEF NextCandidate, Ready

\* The fields of a run that a step on its stages writes.
LEMMA StageHeeds ==
  ASSUME NEW r \in Runs, Ready(r)
  PROVE  /\ \A S : \A status \in StageStatuses :
              /\ Mark(r, S, status) \in Runs /\ Ready(Mark(r, S, status))
              /\ Heeds(Mark(r, S, status)) => Heeds(r)
         /\ \A s : \A status \in StageStatuses :
              /\ With(r, s, status) \in Runs /\ Ready(With(r, s, status))
              /\ Heeds(With(r, s, status)) => Heeds(r)
<1>1. \A q : Kin(q, r) => Ready(q) /\ (Heeds(q) => Heeds(r))
  BY DEF Kin, Ready, Heeds, Cancelled
<1>2. QED
  BY <1>1, MarkTypes, MarkKin

LEMMA GoHeeds ==
  ASSUME NEW r \in Runs, NEW phase, NEW steps, r.designed, Go(r, phase, steps) PROVE Heeds(r)
BY DEF Go, Heeds, Alike

LEMMA JoinHeeds ==
  ASSUME NEW r \in Runs, NEW s, Ready(r), Joined(r) \/ Join(r, s) PROVE Heeds(r)
<1>1. ASSUME Joined(r) PROVE Heeds(r)
  BY <1>1, RoundEndsCarried, CarriedHeeds, GoHeeds DEF Joined, Ready
<1>2. QED
  BY <1>1, GoHeeds DEF Join, Ready

LEMMA CollectHeeds ==
  ASSUME NEW r \in Runs, Ready(r), Collect(r) PROVE Heeds(r)
<1>. DEFINE has == {s \in Incomplete(r) : r.stage[s].task # "none"}
<1>1. CASE has = {}
  BY <1>1, JoinHeeds DEF Collect
<1>2. CASE has # {}
  <2>. DEFINE q == Mark(r, has, "running")
  <2>1. q \in Runs /\ Ready(q) /\ (Heeds(q) => Heeds(r))
    BY StageHeeds DEF StageStatuses
  <2>2. Go(q, "collect", [s \in Stages |-> IF s \in has THEN "waiting" ELSE "idle"])
    BY <1>2 DEF Collect
  <2>3. QED
    BY <2>1, <2>2, GoHeeds DEF Ready
<1>3. QED
  BY <1>1, <1>2

LEMMA DecidedHeeds ==
  ASSUME NEW r \in Runs, NEW s, NEW o \in {"vague", "reject", "approve"}, Ready(r),
         Decided(r, s, o)
  PROVE  Heeds(r)
<1>. DEFINE read == [r EXCEPT !.decision = o]
<1>1. read \in Runs /\ Ready(read) /\ (Heeds(read) => Heeds(r))
  BY DEF Runs, Decisions, Ready, Heeds, Cancelled
<1>2. \A S : \A status \in {"failed", "skipped"} :
        /\ Mark(read, S, status) \in Runs /\ Ready(Mark(read, S, status))
        /\ Heeds(Mark(read, S, status)) => Heeds(r)
  BY <1>1, StageHeeds DEF StageStatuses
<1>3. \A q \in Runs : \A left : Ready(q) /\ (RoundEnds(q) \/ Take(q, left)) => Heeds(q)
  BY RoundEndsCarried, TakeCarried, CarriedHeeds
<1>4. QED
  BY <1>1, <1>2, <1>3 DEF Decided, With

LEMMA ResumedHeeds ==
  ASSUME NEW r \in Runs, Ready(r), Resumed(r) PROVE Heeds(r)
<1>. DEFINE counted == [r EXCEPT !.resumes = @ + 1]
<1>1. counted \in Runs /\ Ready(counted) /\ (Heeds(counted) => Heeds(r))
  BY DEF Runs, Ready, Heeds, Cancelled
<1>2. CASE End(Finalized(counted))
  <2>1. Finalized(counted) \in Runs /\ Finalized(counted).designed
    BY <1>1, FinalTypes, FinalKin DEF Ready
  <2>2. Heeds(Finalized(counted))
    BY <1>2, <2>1, GoHeeds DEF End
  <2>3. QED
    BY <1>1, <2>2, FinalKin DEF Heeds
<1>3. CASE Drive(counted)
  BY <1>1, <1>3, DesignCarried, CarriedHeeds DEF Drive, Ready
<1>4. QED
  BY <1>2, <1>3 DEF Resumed

LEMMA ReconcileHeeds ==
  ASSUME NEW r \in Runs, NEW from, Ready(r), Reconcile(r, from) PROVE Heeds(r)
BY ResumedHeeds, GoHeeds DEF Reconcile, Ready

\* A blocker takes the place of the status of the run.
LEMMA JudgeHeeds ==
  ASSUME run \in Runs, Ready(run), NEW s \in Stages, NEW o \in Outcomes(s), Judge(s, o)
  PROVE  /\ Alike' /\ run'.designed
         /\ Cancelled(run) /\ o # "blocker" => Cancelled(run')
<1>1. \A status \in {"cancelled", "failed", "completed"} :
        /\ With(run, s, status) \in Runs /\ Ready(With(run, s, status))
        /\ Heeds(With(run, s, status)) => Heeds(run)
  BY StageHeeds DEF StageStatuses
<1>2. BlockedBy(run, s) \in Runs /\ Ready(BlockedBy(run, s))
  <2>1. \A q : Ready(q) => Ready([q EXCEPT !.status = "partial"]) \/ q \notin Runs
    BY DEF Ready, Runs
  <2>2. With(run, s, "blocked") \in Runs /\ Ready(With(run, s, "blocked"))
    BY StageHeeds DEF StageStatuses
  <2>3. \A S : /\ Mark(With(run, s, "blocked"), S, "skipped") \in Runs
               /\ Ready(Mark(With(run, s, "blocked"), S, "skipped"))
    BY <2>2, StageHeeds DEF StageStatuses
  <2>4. QED
    BY <2>1, <2>2, <2>3, BlockedTypes DEF BlockedBy
<1>3. \A q \in Runs : Ready(q) /\ (RoundEnds(q) \/ \E left : Take(q, left)) => Heeds(q)
  BY RoundEndsCarried, TakeCarried, CarriedHeeds
<1>4. CASE o = "blocker"
  <2>1. \/ Resumed(BlockedBy(run, s)) \/ RoundEnds(BlockedBy(run, s))
        \/ Join(BlockedBy(run, s), s)
    BY <1>4 DEF Judge, JudgeRecovered, JudgeInPipeline, JudgeInParallel, Accepted
  <2>2. Heeds(BlockedBy(run, s))
    BY <1>2, <1>3, <2>1, ResumedHeeds, JoinHeeds
  <2>3. QED
    BY <1>4, <2>2 DEF Heeds
<1>5. CASE o # "blocker" /\ JudgeRecovered(s, o)
  <2>1. Heeds(run)
    BY <1>1, <1>5, ReconcileHeeds DEF JudgeRecovered, Outcomes
  <2>2. QED
    BY <2>1 DEF Heeds
<1>6. CASE o # "blocker" /\ JudgeInParallel(s, o)
  <2>1. Heeds(run)
    BY <1>1, <1>6, JoinHeeds DEF JudgeInParallel, Outcomes
  <2>2. QED
    BY <2>1 DEF Heeds
<1>7. CASE o # "blocker" /\ JudgeInPipeline(s, o)
  <2>1. CASE Gated(s) /\ o \in Accepted(s)
    <3>1. Decided(With(run, s, "completed"), s, o) /\ o \in {"vague", "reject", "approve"}
      BY <1>7, <2>1 DEF JudgeInPipeline, Accepted
    <3>2. QED
      BY <1>1, <3>1, DecidedHeeds DEF Heeds
  <2>2. CASE ~(Gated(s) /\ o \in Accepted(s))
    <3>1. Heeds(run)
      BY <1>1, <1>3, <1>7, <2>2, NextCandidateHeeds DEF JudgeInPipeline, Outcomes
    <3>2. QED
      BY <3>1 DEF Heeds
  <2>3. QED
    BY <2>1, <2>2
<1>8. QED
  BY <1>4, <1>5, <1>6, <1>7 DEF Judge

\* The invariant on which a cancellation rests.
Heedful == Types /\ Alike /\ Prepared

\* A step of a run that is ready, and does not touch the discussion.
LEMMA ReadyStep ==
  ASSUME Ready(run), Alike', run'.designed, UNCHANGED <<mode, discussed>>
  PROVE  Prepared'
<1>1. mode' # "dry"
  BY DEF Ready
<1>2. discussed'
  BY Zenon DEF Ready
<1>3. QED
  BY <1>1, <1>2 DEF Prepared, Ready

LEMMA DriverStepHeedful ==
  ASSUME Heedful, DiscussionEnds \/ Designed \/ BackoffEnds \/ QualityEnds
  PROVE  /\ Alike' /\ Prepared'
         /\ Cancelled(run) /\ Heeding => Cancelled(run')
<1>0. run \in Runs /\ (Untouched(run) \/ Ready(run))
  BY DEF Heedful, Types, DriverTypes, Prepared, Underway, Untouched
<1>1. CASE DiscussionEnds
  <2>1. pc = "planning" /\ ~Heeding /\ mode' = mode
    BY <1>1 DEF DiscussionEnds, Heeding
  <2>2. CASE discussed' /\ Design(run)
    <3>1. Untouched(run) \/ (run.designed /\ mode # "dry")
      BY <1>0 DEF Ready
    <3>2. Carried(run) /\ Prepared'
      BY <1>0, <2>1, <2>2, <3>1, DesignPrepared
    <3>3. QED
      BY <2>1, <3>2 DEF Carried
  <2>3. CASE UNCHANGED discussed /\ Fail(run, AllIdle)
    <3>1. Carried(run)
      BY <1>0, <2>3, FailCarried
    <3>2. CASE Ready(run)
      <4>1. UNCHANGED <<mode, discussed>>
        BY <2>1, <2>3
      <4>2. QED
        BY <2>1, <3>1, <3>2, <4>1, ReadyStep DEF Carried, Ready
    <3>3. CASE Untouched(run)
      BY <2>1, <2>3, <3>1, <3>3 DEF Fail, Go, Carried, Prepared, Underway, Untouched, AllIdle
    <3>4. QED
      BY <1>0, <3>2, <3>3
  <2>4. QED
    BY <1>1, <2>2, <2>3 DEF DiscussionEnds
<1>2. CASE Designed
  <2>. DEFINE q == [run EXCEPT !.designed = TRUE]
  <2>1. pc = "designing" /\ ~Heeding /\ mode' = mode /\ discussed' = discussed
    BY <1>2 DEF Designed, Heeding, durable
  <2>2. discussed'
    <3>1. discussed
      BY <2>1 DEF Heedful, Prepared
    <3>2. QED
      BY <2>1, <3>1, Zenon
  <2>3. q \in Runs /\ q.designed /\ (Untouched(q) \/ mode # "dry")
    BY <1>0 DEF Runs, Untouched, Ready
  <2>4. Carried(q) /\ (mode = "dry" => pc' = "none" /\ at' = AllIdle)
    BY <1>2, <2>3, ReselectCarried DEF Designed
  <2>5. Prepared'
    <3>1. CASE mode # "dry"
      BY <2>1, <2>2, <2>3, <2>4, <3>1, ReadyPrepared
    <3>2. CASE mode = "dry"
      BY <2>3, <2>4, <3>2 DEF Carried, Prepared, Underway, Untouched, AllIdle
    <3>3. QED
      BY <3>1, <3>2
  <2>6. QED
    BY <2>1, <2>4, <2>5 DEF Carried
<1>3. CASE BackoffEnds \/ QualityEnds
  <2>1. Ready(run)
    BY <1>3 DEF BackoffEnds, QualityEnds, Heedful, Prepared, Underway
  <2>2. UNCHANGED <<mode, discussed>>
    BY <1>3 DEF BackoffEnds, QualityEnds, durable
  <2>3. Alike' /\ run'.designed /\ (pc # "quality" /\ Cancelled(run) => Cancelled(run'))
    <3>1. CASE Iterate(run)
      BY <1>0, <2>1, <3>1, IterateCarried DEF Carried, Ready
    <3>2. CASE pc = "quality" /\ End(Finalized(run))
      BY <1>0, <2>1, <3>2, FinalTypes, FinalKin, GoHeeds DEF End, Heeds, Ready
    <3>3. CASE pc = "quality" /\ End([run EXCEPT !.status = "completed"])
      <4>. DEFINE q == [run EXCEPT !.status = "completed"]
      <4>1. q \in Runs /\ q.designed
        BY <1>0, <2>1 DEF Runs, RunStatuses, Ready
      <4>2. QED
        BY <3>3, <4>1, GoHeeds DEF End, Heeds
    <3>4. QED
      BY <1>3, <3>1, <3>2, <3>3 DEF BackoffEnds, QualityEnds
  <2>4. QED
    BY <2>1, <2>2, <2>3, ReadyStep DEF Heeding
<1>4. QED
  BY <1>1, <1>2, <1>3

\* Work on a stage is work of a ready run.
LEMMA BusyReady ==
  ASSUME Heedful, NEW s \in Stages, at[s] # "idle"
  PROVE  run \in Runs /\ Ready(run)
BY DEF Heedful, Types, DriverTypes, Prepared, Underway

LEMMA PostingStepHeedful ==
  ASSUME Heedful, NEW s \in Stages,
         \/ ChosenInPipeline(s) \/ ChosenInParallel(s) \/ ChosenForRetry(s)
         \/ Refused(s) \/ Answered(s) \/ Staggered(s)
  PROVE  Prepared' /\ Heeds(run)
<1>0. run \in Runs /\ Ready(run) /\ run.designed
  BY BusyReady DEF ChosenInPipeline, ChosenInParallel, ChosenForRetry, Refused, Answered,
    Staggered, Ready
<1>1. UNCHANGED <<mode, discussed>>
  BY DEF ChosenInPipeline, ChosenInParallel, ChosenForRetry, Refused, Answered, Staggered, durable
<1>. SUFFICES Heeds(run)
  BY <1>0, <1>1, ReadyStep DEF Heeds
<1>2. /\ With(run, s, "failed") \in Runs /\ Ready(With(run, s, "failed"))
      /\ Heeds(With(run, s, "failed")) => Heeds(run)
  BY <1>0, StageHeeds DEF StageStatuses
<1>3. \A q \in Runs : Ready(q) /\ (RoundEnds(q) \/ \E left : Take(q, left)) => Heeds(q)
  BY RoundEndsCarried, TakeCarried, CarriedHeeds
<1>4. CASE ChosenInPipeline(s)
  BY <1>0, <1>2, <1>3, <1>4, PostHeeds DEF ChosenInPipeline
<1>5. CASE ChosenInParallel(s)
  BY <1>0, <1>5, GoHeeds DEF ChosenInParallel
<1>6. CASE ChosenForRetry(s)
  <2>. DEFINE q == [Reopened(run, {s}) EXCEPT !.retried = @ \cup {s}]
  <2>1. Reopened(run, {s}) \in Runs /\ Kin(Reopened(run, {s}), run)
    BY <1>0, ReopenedTypes, ReopenedKin
  <2>2. q \in Runs /\ Ready(q) /\ q.designed /\ (Heeds(q) => Heeds(run))
    BY <1>0, <2>1 DEF Runs, Kin, Ready, Heeds, Cancelled
  <2>3. QED
    BY <1>0, <1>6, <2>2, JoinHeeds, GoHeeds DEF ChosenForRetry
<1>7. CASE Refused(s)
  BY <1>0, <1>2, <1>7, NextCandidateHeeds, GoHeeds, JoinHeeds DEF Refused, Ready
<1>8. CASE Answered(s)
  <2>. DEFINE q == [run EXCEPT !.stage[s].task = "newest"]
  <2>1. q \in Runs /\ Ready(q) /\ (Heeds(q) => Heeds(run))
    <3>1. q \in Runs
      BY <1>0, TaskTypes
    <3>2. q.status = run.status /\ q.designed = run.designed
      BY <1>0 DEF Runs
    <3>3. QED
      BY <1>0, <3>1, <3>2 DEF Ready, Heeds, Cancelled
  <2>2. With(q, s, "running") \in Runs /\ Kin(With(q, s, "running"), q)
    BY <2>1, MarkTypes, MarkKin DEF StageStatuses
  <2>3. CASE run' = With(q, s, "running") /\ saved' = With(q, s, "running")
    BY <2>1, <2>2, <2>3 DEF Kin, Heeds, Alike, Ready, Cancelled
  <2>4. CASE Join(q, s) \/ Go(q, pc, Only(s, "staggering"))
    BY <2>1, <2>4, JoinHeeds, GoHeeds DEF Ready
  <2>5. QED
    BY <1>8, <2>3, <2>4 DEF Answered
<1>9. CASE Staggered(s)
  BY <1>0, <1>3, <1>9, CollectHeeds DEF Staggered
<1>10. QED
  BY <1>4, <1>5, <1>6, <1>7, <1>8, <1>9

LEMMA ResultStepHeedful ==
  ASSUME Heedful, NEW s \in Stages,
         RowInserted(s) \/ Poll(s) \/ Deadline(s) \/ Aborted(s) \/ AbortFails(s)
  PROVE  /\ Alike' /\ Prepared'
         /\ Cancelled(run) /\ Heeding => Cancelled(run')
<1>0. run \in Runs /\ saved \in Runs /\ Ready(run) /\ run.designed /\ Alike
  BY BusyReady DEF RowInserted, Poll, Deadline, Aborted, AbortFails, Ready, Heedful, Types,
    DriverTypes
<1>1. UNCHANGED <<mode, discussed>>
  BY DEF RowInserted, Poll, Deadline, Aborted, AbortFails, durable
<1>2. /\ Alike' /\ run'.designed
      /\ Cancelled(run) /\ Heeding => Cancelled(run')
  <2>1. CASE RowInserted(s)
    <3>1. \A r \in Runs : /\ Older(r, s).status = r.status /\ Older(r, s).designed = r.designed
                          /\ Older(r, s).done = r.done /\ Older(r, s).resumes = r.resumes
      BY DEF Older, Runs
    <3>2. QED
      BY <1>0, <2>1, <3>1 DEF RowInserted, Alike, Cancelled
  <2>2. CASE Poll(s)
    <3>1. PICK o \in Results(s) : Judge(s, o)
      BY <2>2 DEF Poll
    <3>2. o \in Outcomes(s) /\ (Cancelled(run) => o # "blocker")
      BY ResultTypes DEF Heedful, Results
    <3>3. QED
      BY <1>0, <3>1, <3>2, JudgeHeeds
  <2>3. CASE Deadline(s)
    BY <1>0, <2>3 DEF Deadline, Alike
  <2>4. CASE Aborted(s)
    <3>1. {"blocker", "cancelled", "failed"} \subseteq Outcomes(s) /\ ~Heeding
      BY <2>4 DEF Outcomes, Aborted, Heeding
    <3>2. QED
      BY <1>0, <2>4, <3>1, JudgeHeeds DEF Aborted
  <2>5. CASE AbortFails(s)
    BY <1>0, <2>5, GoHeeds, FailCarried, CarriedHeeds DEF AbortFails, Heeds
  <2>6. QED
    BY <2>1, <2>2, <2>3, <2>4, <2>5
<1>3. QED
  BY <1>0, <1>1, <1>2, ReadyStep

LEMMA RestartHeedful ==
  ASSUME Heedful, Restart
  PROVE  /\ Alike' /\ Prepared'
         /\ Cancelled(run) => Cancelled(run')
<1>0. /\ saved \in Runs /\ Alike /\ (Untouched(saved) \/ Ready(saved))
      /\ UNCHANGED <<mode, discussed>>
  BY DEF Heedful, Types, DriverTypes, Prepared, Underway, Untouched, Ready, Alike, Restart
<1>1. Cancelled(run) => saved.status = "cancelled"
  BY <1>0 DEF Alike, Cancelled
<1>2. ASSUME NEW q \in Runs, q.stage = saved.stage, q.designed = saved.designed, End(q)
      PROVE  Alike' /\ Prepared' /\ (Cancelled(q) => Cancelled(run'))
  <2>1. Carried(q)
    BY <1>2, EndCarried
  <2>2. CASE Ready(saved)
    <3>1. mode' # "dry"
      BY <1>0, <2>2 DEF Ready
    <3>2. discussed'
      BY <1>0, <2>2, Zenon DEF Ready
    <3>3. QED
      BY <1>2, <2>1, <2>2, <3>1, <3>2, ReadyPrepared DEF Ready, Carried, End, Go, Cancelled
  <2>3. CASE Untouched(saved)
    BY <1>2, <2>1, <2>3 DEF End, Go, Carried, Prepared, Underway, Untouched, AllIdle, Cancelled
  <2>4. QED
    BY <1>0, <2>2, <2>3
<1>3. CASE saved.status # "active" /\ End(saved)
  BY <1>0, <1>1, <1>2, <1>3 DEF Cancelled
<1>4. CASE saved.status = "active" /\ End([saved EXCEPT !.status = "failed"])
  BY <1>0, <1>1, <1>2, <1>4 DEF Runs, RunStatuses
<1>5. CASE saved.status = "active" /\ End(Finalized(saved))
  BY <1>0, <1>1, <1>2, <1>5, FinalTypes, FinalKin
<1>6. CASE saved.status = "active" /\ Reconcile(saved, 0)
  <2>. DEFINE left == {s \in Stages : s > 0 /\ saved.stage[s].task # "none" /\ AtWork(saved, s)}
  <2>. DEFINE counted == [saved EXCEPT !.resumes = @ + 1]
  <2>1. CASE left # {}
    <3>1. Ready(saved) /\ Go(saved, "reconcile", Only(First(left), "waiting"))
      BY <1>0, <1>6, <2>1 DEF Reconcile, Untouched
    <3>2. Carried(saved) /\ mode' # "dry"
      BY <1>0, <3>1, GoCarried DEF Ready
    <3>3. discussed'
      BY <1>0, <3>1, Zenon DEF Ready
    <3>4. QED
      BY <1>0, <1>1, <1>6, <3>1, <3>2, <3>3, ReadyPrepared DEF Carried, Ready
  <2>2. CASE left = {}
    <3>1. Resumed(saved)
      BY <1>6, <2>2 DEF Reconcile
    <3>2. /\ counted \in Runs /\ counted.stage = saved.stage
          /\ counted.designed = saved.designed
          /\ Untouched(counted) \/ Ready(counted)
      BY <1>0 DEF Runs, Untouched, Ready
    <3>3. CASE End(Finalized(counted))
      BY <1>1, <1>2, <1>6, <3>2, <3>3, FinalTypes, FinalKin
    <3>4. CASE Drive(counted)
      BY <1>0, <1>1, <1>6, <3>2, <3>4, DrivePrepared DEF Carried
    <3>5. QED
      BY <3>1, <3>3, <3>4 DEF Resumed
  <2>3. QED
    BY <2>1, <2>2
<1>7. QED
  BY <1>3, <1>4, <1>5, <1>6 DEF Restart

LEMMA OtherStepHeedful ==
  ASSUME Heedful, \/ CancelRun \/ Restart \/ UNCHANGED vars
                  \/ \E s \in Stages : RowEnds(s) \/ CancelRow(s)
  PROVE  /\ Alike' /\ Prepared'
         /\ Cancelled(run) => Cancelled(run')
<1>1. CASE CancelRun
  <2>. DEFINE q == Mark(run, {s \in Stages : AtWork(run, s)}, "cancelled")
  <2>1. run \in Runs /\ q \in Runs /\ Kin(q, run)
    BY MarkTypes, MarkKin DEF Heedful, Types, DriverTypes, StageStatuses
  <2>2. /\ run' = [q EXCEPT !.status = "cancelled"] /\ saved' = run'
        /\ UNCHANGED <<mode, discussed, pc, at>>
    BY <1>1 DEF CancelRun, durable
  <2>3. /\ run'.status = "cancelled" /\ run'.designed = run.designed
        /\ \A s \in Stages : run'.stage[s].task \in {run.stage[s].task, "none"}
    BY <2>1, <2>2 DEF Runs, Kin
  <2>4. Underway' => Underway
    BY <2>2, <2>3 DEF Underway
  <2>5. Prepared
    BY DEF Heedful
  <2>6. QED
    BY <2>2, <2>3, <2>4, <2>5 DEF Prepared, Ready, Alike, Cancelled
<1>2. CASE Restart
  BY <1>2, RestartHeedful
<1>3. CASE UNCHANGED <<mode, discussed, run, saved, pc, at>>
  BY <1>3 DEF Heedful, Alike, Prepared, Underway, Ready, Cancelled
<1>4. QED
  BY <1>1, <1>2, <1>3 DEF RowEnds, CancelRow, vars, durable, driver

LEMMA HeedfulStep ==
  ASSUME Heedful, [Next]_vars
  PROVE  /\ Heedful'
         /\ Cancelled(run) /\ Heeding => Cancelled(run') /\ Cancelled(saved')
<1>1. Types'
  BY NextTypes DEF Heedful
<1>2. /\ Alike' /\ Prepared'
      /\ Cancelled(run) /\ Heeding => Cancelled(run')
  BY DriverStepHeedful, PostingStepHeedful, ResultStepHeedful, OtherStepHeedful
    DEF Next, Work, Others, StageStep, Heeds
<1>3. QED
  BY <1>1, <1>2 DEF Heedful, Alike, Cancelled

\* A client who has cancelled a run does not see it completed, partial, failed
\* or resumed: no late result, deadline, refusal or restart writes another
\* status, in memory or in company_runs, except where the code does not look.
THEOREM CompanyCancelIsKept == Spec => CancelIsKept
<1>1. Init => Heedful
  BY InitTypes DEF Init, Heedful, Alike, Prepared, Underway, AllIdle
<1>2. Heedful /\ [Next]_vars => Heedful'
  BY HeedfulStep
<1>3. Heedful /\ [Next]_vars
        => [Cancelled(run) /\ Heeding => Cancelled(run') /\ Cancelled(saved')]_vars
  BY HeedfulStep
<1>4. QED
  BY <1>1, <1>2, <1>3, PTL DEF Spec, CancelIsKept

-----------------------------------------------------------------------------
(* The work on a run is bounded                                            *)

\* Where the work on stages may stand in each phase.
Places ==
  /\ pc \in {"planning", "designing", "backoff", "quality"} => at = AllIdle
  /\ pc = "none" /\ mode # "parallel" => at = AllIdle
  /\ pc = "reconcile" => \A s \in Stages : at[s] \in {"idle", "waiting", "aborting"}
  /\ pc \in {"collect", "retry"} => mode = "parallel"
  /\ pc \in {"round", "reconcile"} =>
       \A s, t \in Stages : at[s] # "idle" /\ at[t] # "idle" => s = t
  /\ \A s \in Stages : at[s] = "staggering" => pc = "round" /\ mode = "parallel"

\* Every round so far belongs to an iteration that is done, to a process that
\* is gone, or is the present one.
Counted(r) == /\ rounds \in Nat /\ rounds <= MaxIterations + MaxResumes
              /\ rounds <= r.done + r.resumes + 1

\* Both budgets have something left.
Affords(r) == r.done < MaxIterations /\ r.resumes <= MaxResumes

\* A round may begin, or be under way.
Fresh(r) == /\ Counted(r) /\ rounds <= r.done + r.resumes
            /\ Incomplete(r) = {} \/ Affords(r)
Mid(r)   == Counted(r) /\ Affords(r)

Within ==
  /\ Counted(run)
  /\ pc \in {"planning", "designing", "backoff"} => Fresh(run)
  /\ pc = "quality" => /\ rounds <= run.done + run.resumes
                       /\ Incomplete(run) = {} \/ run.resumes <= MaxResumes
  /\ pc \in {"round", "collect", "retry"} => Mid(run)

Placed == Places /\ Within

LEMMA EndPlaced ==
  ASSUME NEW r \in Runs, Count, Counted(r), End(r) \/ Fail(r, AllIdle) PROVE Placed'
<1>1. /\ pc' = "none" /\ at' = AllIdle /\ rounds' = rounds
      /\ run'.done = r.done /\ run'.resumes = r.resumes
  BY DEF End, Fail, Go, Count, Runs
<1>2. QED
  BY <1>1 DEF Placed, Places, Within, Counted, AllIdle

LEMMA FinalPlaced ==
  ASSUME NEW r \in Runs, Count, Counted(r), End(Finalized(r)) PROVE Placed'
<1>1. Finalized(r) \in Runs /\ Counted(Finalized(r))
  BY FinalTypes, FinalKin DEF Counted
<1>2. QED
  BY <1>1, EndPlaced

LEMMA RoundEndsPlaced ==
  ASSUME NEW r \in Runs, Count, RoundEnds(r),
         Mid(r) \/ (Fresh(r) /\ Incomplete(r) = {})
  PROVE  Placed'
<1>. DEFINE over == [r EXCEPT !.done = Iteration(r)]
<1>1. /\ over \in Runs /\ over.done = Iteration(r) /\ over.resumes = r.resumes
      /\ over.stage = r.stage
  BY IterationTypes DEF Runs
<1>2. /\ r.done \in Nat /\ r.resumes \in Nat /\ Iteration(r) \in 1..MaxIterations
      /\ MaxIterations \in Nat /\ MaxResumes \in Nat
  <2>1. MaxIterations \in Nat /\ MaxResumes \in Nat
    BY LimitsAreNat
  <2>2. r.done \in Nat /\ r.resumes \in Nat
    BY <2>1 DEF Runs
  <2>3. QED
    BY <2>1, <2>2, IterationTypes
<1>3. Counted(r) /\ Counted(over) /\ rounds <= over.done + over.resumes
  BY <1>1, <1>2 DEF Mid, Fresh, Counted, Affords, Iteration, Runs
<1>4. Incomplete(over) = Incomplete(r)
  BY <1>1 DEF Incomplete, Status
<1>5. CASE End(r)
  BY <1>3, <1>5, EndPlaced
<1>6. CASE End(Finalized(over))
  BY <1>1, <1>3, <1>6, FinalPlaced
<1>7. CASE Go(over, "quality", AllIdle)
  <2>1. Incomplete(over) = {} \/ over.resumes <= MaxResumes
    BY <1>1, <1>4 DEF Mid, Affords
  <2>2. QED
    BY <1>3, <1>7, <2>1 DEF Go, Count, Placed, Places, Within, AllIdle, Counted
<1>8. CASE ~Verified(r) /\ over.done < MaxIterations /\ Go(over, "backoff", AllIdle)
  <2>1. Affords(over)
    <3>1. Incomplete(r) # {}
      BY <1>8 DEF Verified
    <3>2. QED
      BY <1>1, <1>8, <3>1 DEF Mid, Affords
  <2>2. QED
    BY <1>3, <1>8, <2>1 DEF Go, Count, Placed, Places, Within, AllIdle, Counted, Fresh, Affords,
      Incomplete, Status
<1>9. QED
  BY <1>5, <1>6, <1>7, <1>8 DEF RoundEnds

LEMMA RoundPlaced ==
  ASSUME NEW r \in Runs, NEW s, NEW step \in {"choosing", "posting"}, Affords(r), Count,
         pc' = "round", at' = Only(s, step), run'.done = r.done, run'.resumes = r.resumes,
         \/ Counted(r) /\ pc = "round" /\ restarts' = restarts
         \/ Fresh(r)
  PROVE  Placed'
<1>1. r.done \in Nat /\ r.resumes \in Nat /\ MaxIterations \in Nat /\ MaxResumes \in Nat
  BY LimitsAreNat DEF Runs
<1>2. /\ rounds' \in Nat /\ rounds' <= MaxIterations + MaxResumes
      /\ rounds' <= r.done + r.resumes + 1
  BY <1>1 DEF Count, Fresh, Counted, Affords
<1>3. Within'
  BY <1>2 DEF Within, Counted, Mid, Affords
<1>4. QED
  BY <1>3 DEF Placed, Places, Only, AllIdle

LEMMA TakePlaced ==
  ASSUME NEW r \in Runs, NEW left, Take(r, left), Count,
         \/ Mid(r) /\ pc = "round" /\ restarts' = restarts
         \/ Fresh(r) /\ left = Incomplete(r)
  PROVE  Placed'
<1>1. CASE left = {}
  BY <1>1, RoundEndsPlaced DEF Take
<1>2. CASE left # {}
  <2>1. Go(r, "round", Only(First(left), "choosing"))
    BY <1>2 DEF Take
  <2>2. Affords(r)
    BY <1>2 DEF Fresh, Mid
  <2>3. QED
    BY <2>1, <2>2, RoundPlaced DEF Go, Mid
<1>3. QED
  BY <1>1, <1>2

LEMMA ReopenedFresh ==
  ASSUME NEW r \in Runs, NEW S \in SUBSET Incomplete(r), Fresh(r)
  PROVE  Reopened(r, S) \in Runs /\ Fresh(Reopened(r, S))
<1>1. Reopened(r, S) \in Runs /\ Kin(Reopened(r, S), r)
  BY ReopenedTypes, ReopenedKin
<1>2. Incomplete(Reopened(r, S)) = Incomplete(r)
  BY DEF Reopened, Incomplete, Status, Runs
<1>3. QED
  BY <1>1, <1>2 DEF Fresh, Counted, Affords, Kin

LEMMA UnassignedPlaced ==
  ASSUME NEW r \in Runs, NEW S, Counted(r), Count, Unassigned(r, S) PROVE Placed'
<1>1. Mark(r, S, "failed") \in Runs /\ Kin(Mark(r, S, "failed"), r)
  BY MarkTypes, MarkKin DEF StageStatuses
<1>2. Counted(Mark(r, S, "failed"))
  BY <1>1 DEF Counted, Kin
<1>3. QED
  BY <1>1, <1>2, EndPlaced DEF Unassigned

LEMMA IteratePlaced ==
  ASSUME NEW r \in Runs, Fresh(r), Count, Iterate(r) PROVE Placed'
<1>1. CASE End(r)
  BY <1>1, EndPlaced DEF Fresh
<1>2. CASE Execute(r)
  BY <1>2, TakePlaced DEF Execute
<1>3. CASE Execute(Reopened(r, Incomplete(r)))
  BY <1>3, ReopenedFresh, TakePlaced DEF Execute
<1>4. ASSUME NEW S \in SUBSET Incomplete(r), Unassigned(Reopened(r, Incomplete(r) \ S), S)
      PROVE  Placed'
  <2>1. /\ Reopened(r, Incomplete(r) \ S) \in Runs
        /\ Fresh(Reopened(r, Incomplete(r) \ S))
    BY ReopenedFresh
  <2>2. QED
    BY <1>4, <2>1, UnassignedPlaced DEF Fresh
<1>5. QED
  BY <1>1, <1>2, <1>3, <1>4 DEF Iterate

LEMMA ReselectPlaced ==
  ASSUME NEW r \in Runs, Fresh(r), Count, Reselect(r) PROVE Placed'
<1>. DEFINE q == [r EXCEPT !.status = "planned"]
<1>1. q \in Runs /\ Counted(q)
  BY DEF Runs, RunStatuses, Fresh, Counted
<1>2. QED
  BY <1>1, EndPlaced, IteratePlaced, UnassignedPlaced DEF Reselect, Fresh

LEMMA DrivePlaced ==
  ASSUME NEW r \in Runs, Fresh(r), Count, Design(r) \/ Drive(r) PROVE Placed'
<1>1. ASSUME NEW q \in Runs, Fresh(q), NEW phase \in {"planning", "designing"},
             Go(q, phase, AllIdle)
      PROVE  Placed'
  BY <1>1 DEF Go, Count, Placed, Places, Within, AllIdle, Fresh, Counted, Affords, Incomplete,
    Status
<1>2. [r EXCEPT !.status = "active"] \in Runs /\ Fresh([r EXCEPT !.status = "active"])
  BY DEF Runs, RunStatuses, Fresh, Counted, Affords, Incomplete, Status
<1>3. QED
  BY <1>1, <1>2, ReselectPlaced DEF Design, Drive

\* The fields of a run that a step on its stages writes.
LEMMA StageMid ==
  ASSUME NEW r \in Runs, Mid(r)
  PROVE  /\ \A S : \A status \in StageStatuses :
              Mark(r, S, status) \in Runs /\ Mid(Mark(r, S, status))
         /\ \A s : \A status \in StageStatuses :
              With(r, s, status) \in Runs /\ Mid(With(r, s, status))
<1>1. \A q : Kin(q, r) => Mid(q)
  BY DEF Kin, Mid, Counted, Affords
<1>2. QED
  BY <1>1, MarkTypes, MarkKin

LEMMA NextCandidatePlaced ==
  ASSUME NEW r \in Runs, NEW s, Mid(r), Count, pc = "round", restarts' = restarts,
         NextCandidate(r, s)
  PROVE  Placed'
<1>1. With(r, s, "failed") \in Runs /\ Mid(With(r, s, "failed"))
  BY StageMid DEF StageStatuses
<1>2. ASSUME Post(r, s, attempt + 1) PROVE Placed'
  BY <1>2, RoundPlaced DEF Post, Mid, Runs
<1>3. QED
  BY <1>1, <1>2, RoundEndsPlaced DEF NextCandidate

\* The work on one stage goes on within its phase.
LEMMA MovePlaced ==
  ASSUME NEW s \in Stages, NEW step \in Steps, at[s] # "idle",
         at' = [at EXCEPT ![s] = step] \/ (pc = "round" /\ at' = Only(s, step)),
         Placed, DriverTypes, Count, UNCHANGED <<pc, mode, restarts>>,
         run'.done = run.done, run'.resumes = run.resumes,
         step = "staggering" => pc = "round" /\ mode = "parallel",
         pc = "reconcile" => step \in {"idle", "waiting", "aborting"}
  PROVE  Placed'
<1>1. rounds' = rounds
  BY DEF Count
<1>2. pc \notin {"planning", "designing", "backoff", "quality"}
  BY DEF Placed, Places, AllIdle
<1>3. Within'
  BY <1>1, <1>2 DEF Placed, Within, Counted, Mid, Affords
<1>4. \A t \in Stages : t # s => at'[t] \in {at[t], "idle"}
  BY DEF Only, AllIdle, DriverTypes
<1>5. at'[s] = step
  BY DEF Only, AllIdle, DriverTypes
<1>6. pc = "none" => mode = "parallel"
  BY DEF Placed, Places, AllIdle
<1>7. Places'
  BY <1>2, <1>4, <1>5, <1>6 DEF Placed, Places
<1>8. QED
  BY <1>3, <1>7 DEF Placed

LEMMA JoinedPlaced ==
  ASSUME NEW r \in Runs, Mid(r), Count, Joined(r), UNCHANGED <<mode, restarts>>,
         mode = "parallel"
  PROVE  Placed'
<1>. DEFINE again == {s \in Incomplete(r) \ r.retried : Status(r, s) # "cancelled"}
<1>1. CASE RoundEnds(r)
  BY <1>1, RoundEndsPlaced
<1>2. CASE Go(r, "retry", [s \in Stages |-> IF s \in again THEN "choosing" ELSE "idle"])
  BY <1>2 DEF Go, Count, Placed, Places, Within, Mid, Counted, Affords
<1>3. QED
  BY <1>1, <1>2 DEF Joined

LEMMA JoinPlaced ==
  ASSUME NEW r \in Runs, NEW s \in Stages, at[s] # "idle", Placed, DriverTypes, Count, Join(r, s),
         UNCHANGED <<mode, restarts>>, mode = "parallel", pc # "reconcile",
         r.done = run.done, r.resumes = run.resumes
  PROVE  Placed'
<1>. DEFINE others == [at EXCEPT ![s] = "idle"]
<1>1. CASE pc # "none" /\ others = AllIdle
  <2>1. pc \in {"round", "collect", "retry"}
    BY <1>1 DEF Placed, Places, AllIdle, DriverTypes, Phases
  <2>2. Mid(r)
    BY <2>1 DEF Placed, Within, Mid, Counted, Affords
  <2>3. QED
    BY <1>1, <2>2, JoinedPlaced DEF Join
<1>2. CASE ~(pc # "none" /\ others = AllIdle)
  <2>1. Go(r, pc, others)
    BY <1>2 DEF Join
  <2>2. QED
    BY <2>1, MovePlaced DEF Go, Steps
<1>3. QED
  BY <1>1, <1>2

LEMMA CollectPlaced ==
  ASSUME NEW r \in Runs, Mid(r), Count, Collect(r), UNCHANGED <<mode, restarts>>,
         mode = "parallel"
  PROVE  Placed'
<1>. DEFINE has == {s \in Incomplete(r) : r.stage[s].task # "none"}
<1>1. CASE has = {}
  BY <1>1, JoinedPlaced DEF Collect
<1>2. CASE has # {}
  <2>1. Mid(Mark(r, has, "running"))
    BY StageMid DEF StageStatuses
  <2>2. Go(Mark(r, has, "running"), "collect",
           [s \in Stages |-> IF s \in has THEN "waiting" ELSE "idle"])
    BY <1>2 DEF Collect
  <2>3. QED
    BY <2>1, <2>2 DEF Go, Count, Placed, Places, Within, Mid, Counted, Affords
<1>3. QED
  BY <1>1, <1>2

LEMMA DecidedPlaced ==
  ASSUME NEW r \in Runs, NEW s, NEW o \in {"vague", "reject", "approve"}, Mid(r), Count,
         Decided(r, s, o), pc = "round", restarts' = restarts
  PROVE  Placed'
<1>. DEFINE read == [r EXCEPT !.decision = o]
<1>1. read \in Runs /\ Mid(read)
  BY DEF Runs, Decisions, Mid, Counted, Affords
<1>2. \A S : \A status \in {"failed", "skipped"} :
        Mark(read, S, status) \in Runs /\ Mid(Mark(read, S, status))
  BY <1>1, StageMid DEF StageStatuses
<1>3. QED
  BY <1>1, <1>2, RoundEndsPlaced, TakePlaced DEF Decided, With

LEMMA ResumedPlaced ==
  ASSUME NEW r \in Runs, Counted(r), Count, Resumed(r) PROVE Placed'
<1>. DEFINE counted == [r EXCEPT !.resumes = @ + 1]
<1>1. /\ counted \in Runs /\ counted.done = r.done /\ counted.resumes = r.resumes + 1
      /\ counted.stage = r.stage
  BY DEF Runs
<1>2. r.done \in Nat /\ r.resumes \in Nat /\ MaxIterations \in Nat /\ MaxResumes \in Nat
  <2>1. MaxIterations \in Nat /\ MaxResumes \in Nat
    BY LimitsAreNat
  <2>2. QED
    BY <2>1 DEF Runs
<1>3. Counted(counted) /\ rounds <= counted.done + counted.resumes
  BY <1>1, <1>2 DEF Counted
<1>4. CASE End(Finalized(counted))
  BY <1>1, <1>3, <1>4, FinalPlaced
<1>5. CASE /\ ~(Incomplete(r) # {} /\ (counted.resumes > MaxResumes \/ r.done >= MaxIterations))
           /\ Drive(counted)
  <2>1. Incomplete(counted) = {} \/ Affords(counted)
    BY <1>1, <1>2, <1>5 DEF Incomplete, Status, Affords
  <2>2. QED
    BY <1>1, <1>3, <1>5, <2>1, DrivePlaced DEF Fresh
<1>6. QED
  BY <1>4, <1>5 DEF Resumed

LEMMA ReconcilePlaced ==
  ASSUME NEW r \in Runs, NEW from, Counted(r), Count, Reconcile(r, from) PROVE Placed'
<1>. DEFINE left == {s \in Stages : s > from /\ r.stage[s].task # "none" /\ AtWork(r, s)}
<1>1. CASE left = {}
  BY <1>1, ResumedPlaced DEF Reconcile
<1>2. CASE left # {}
  <2>1. Go(r, "reconcile", Only(First(left), "waiting"))
    BY <1>2 DEF Reconcile
  <2>2. QED
    BY <2>1 DEF Go, Count, Placed, Places, Within, Counted, Only, AllIdle
<1>3. QED
  BY <1>1, <1>2

\* The invariant on which the bound rests.
Frugal == Heedful /\ Placed

\* What is known of a run whose stage s is worked on.
LEMMA BusyPlaced ==
  ASSUME Frugal, NEW s \in Stages, at[s] # "idle"
  PROVE  /\ run \in Runs /\ DriverTypes /\ Ready(run) /\ Counted(run)
         /\ pc \in {"round", "collect", "retry", "reconcile", "none"}
         /\ pc \in {"round", "collect", "retry"} => Mid(run)
         /\ mode = "pipeline" => pc \in {"round", "reconcile"}
         /\ mode \in {"pipeline", "parallel"}
<1>1. /\ run \in Runs /\ DriverTypes /\ Ready(run) /\ Counted(run)
      /\ pc \in {"round", "collect", "retry", "reconcile", "none"}
      /\ pc \in {"round", "collect", "retry"} => Mid(run)
      /\ mode \in Modes /\ mode # "dry"
  BY DEF Frugal, Heedful, Types, DriverTypes, Prepared, Underway, Ready, Placed, Places, Within,
    Phases, AllIdle
<1>2. mode \in {"pipeline", "parallel"}
  BY <1>1, ModesAreKnown
<1>3. mode = "pipeline" => pc \in {"round", "reconcile"}
  BY <1>1 DEF Frugal, Placed, Places, AllIdle
<1>4. QED
  BY <1>1, <1>2, <1>3

LEMMA BlockedKin ==
  ASSUME NEW r \in Runs, NEW s
  PROVE  BlockedBy(r, s).done = r.done /\ BlockedBy(r, s).resumes = r.resumes
<1>1. With(r, s, "blocked") \in Runs /\ Kin(With(r, s, "blocked"), r)
  BY MarkTypes, MarkKin DEF StageStatuses
<1>2. \A S : /\ Mark(With(r, s, "blocked"), S, "skipped") \in Runs
             /\ Kin(Mark(With(r, s, "blocked"), S, "skipped"), With(r, s, "blocked"))
  BY <1>1, MarkTypes, MarkKin DEF StageStatuses
<1>3. \A q \in Runs : /\ [q EXCEPT !.status = "partial"].done = q.done
                      /\ [q EXCEPT !.status = "partial"].resumes = q.resumes
  BY DEF Runs
<1>4. QED
  BY <1>1, <1>2, <1>3 DEF BlockedBy, Kin

LEMMA JudgePlaced ==
  ASSUME Frugal, NEW s \in Stages, NEW o \in Outcomes(s), at[s] # "idle", Judge(s, o), Count,
         UNCHANGED <<mode, restarts>>
  PROVE  Placed'
<1>1. /\ run \in Runs /\ DriverTypes /\ Counted(run) /\ Placed
      /\ pc \in {"round", "collect", "retry", "reconcile", "none"}
      /\ pc \in {"round", "collect", "retry"} => Mid(run)
      /\ mode = "pipeline" => pc \in {"round", "reconcile"}
      /\ mode \in {"pipeline", "parallel"}
  BY BusyPlaced DEF Frugal
<1>2. \A status \in {"cancelled", "failed", "completed"} :
        LET q == With(run, s, status)
        IN  /\ q \in Runs /\ q.done = run.done /\ q.resumes = run.resumes /\ Counted(q)
            /\ Mid(run) => Mid(q)
  BY <1>1, MarkTypes, MarkKin DEF StageStatuses, Kin, Counted, Mid, Affords
<1>3. LET q == BlockedBy(run, s)
      IN  /\ q \in Runs /\ q.done = run.done /\ q.resumes = run.resumes /\ Counted(q)
          /\ Mid(run) => Mid(q)
  BY <1>1, BlockedTypes, BlockedKin DEF Counted, Mid, Affords
<1>4. CASE pc = "reconcile" /\ JudgeRecovered(s, o)
  BY <1>2, <1>3, <1>4, ResumedPlaced, ReconcilePlaced DEF JudgeRecovered, Outcomes
<1>5. CASE pc # "reconcile" /\ mode = "parallel" /\ JudgeInParallel(s, o)
  BY <1>1, <1>2, <1>3, <1>5, JoinPlaced DEF JudgeInParallel, Outcomes
<1>6. CASE pc # "reconcile" /\ mode = "pipeline" /\ JudgeInPipeline(s, o)
  <2>1. pc = "round" /\ Mid(run)
    BY <1>1, <1>6
  <2>2. CASE Gated(s) /\ o \in Accepted(s)
    <3>1. Decided(With(run, s, "completed"), s, o) /\ o \in {"vague", "reject", "approve"}
      BY <1>6, <2>2 DEF JudgeInPipeline, Accepted
    <3>2. QED
      BY <1>2, <2>1, <3>1, DecidedPlaced
  <2>3. CASE ~(Gated(s) /\ o \in Accepted(s))
    BY <1>2, <1>3, <1>6, <2>1, <2>3, RoundEndsPlaced, NextCandidatePlaced, TakePlaced
      DEF JudgeInPipeline, Outcomes
  <2>4. QED
    BY <2>2, <2>3
<1>7. QED
  BY <1>1, <1>4, <1>5, <1>6 DEF Judge

LEMMA DriverStepPlaced ==
  ASSUME Frugal, DiscussionEnds \/ Designed \/ BackoffEnds \/ QualityEnds, Count
  PROVE  Placed'
<1>1. run \in Runs /\ Placed
  BY DEF Frugal, Heedful, Types, DriverTypes
<1>2. CASE DiscussionEnds
  BY <1>1, <1>2, DrivePlaced, EndPlaced DEF DiscussionEnds, Placed, Within, Fresh
<1>3. CASE Designed
  <2>. DEFINE q == [run EXCEPT !.designed = TRUE]
  <2>1. q \in Runs /\ Fresh(q)
    BY <1>1, <1>3 DEF Designed, Placed, Within, Runs, Fresh, Counted, Affords, Incomplete, Status
  <2>2. QED
    BY <1>3, <2>1, ReselectPlaced DEF Designed
<1>4. CASE BackoffEnds
  BY <1>1, <1>4, IteratePlaced DEF BackoffEnds, Placed, Within
<1>5. CASE QualityEnds
  <2>. DEFINE q == [run EXCEPT !.status = "completed"]
  <2>1. q \in Runs /\ Counted(run) /\ Counted(q)
    BY <1>1 DEF Placed, Within, Runs, RunStatuses, Counted
  <2>2. ASSUME run.done < MaxIterations PROVE Fresh(run)
    BY <1>1, <1>5, <2>2 DEF QualityEnds, Placed, Within, Fresh, Affords
  <2>3. QED
    BY <1>1, <1>5, <2>1, <2>2, EndPlaced, FinalPlaced, IteratePlaced DEF QualityEnds
<1>6. QED
  BY <1>2, <1>3, <1>4, <1>5

LEMMA PostingStepPlaced ==
  ASSUME Frugal, NEW s \in Stages, Count,
         \/ ChosenInPipeline(s) \/ ChosenInParallel(s) \/ ChosenForRetry(s)
         \/ Refused(s) \/ Answered(s) \/ Staggered(s)
  PROVE  Placed'
<1>0. at[s] # "idle"
  BY DEF ChosenInPipeline, ChosenInParallel, ChosenForRetry, Refused, Answered, Staggered
<1>1. /\ run \in Runs /\ DriverTypes /\ Counted(run) /\ Placed
      /\ pc \in {"round", "collect", "retry", "reconcile", "none"}
      /\ pc \in {"round", "collect", "retry"} => Mid(run)
      /\ mode = "pipeline" => pc \in {"round", "reconcile"}
      /\ mode \in {"pipeline", "parallel"}
      /\ at[s] \in {"choosing", "posting", "inserted", "staggering"} => pc # "reconcile"
  BY <1>0, BusyPlaced DEF Frugal, Placed, Places
<1>2. UNCHANGED <<mode, restarts>>
  BY DEF ChosenInPipeline, ChosenInParallel, ChosenForRetry, Refused, Answered, Staggered, past
<1>3. LET q == With(run, s, "failed")
      IN  /\ q \in Runs /\ q.done = run.done /\ q.resumes = run.resumes
          /\ Mid(run) => Mid(q)
  BY <1>1, MarkTypes, MarkKin DEF StageStatuses, Kin, Counted, Mid, Affords
<1>4. CASE ChosenInPipeline(s)
  <2>1. pc = "round" /\ Mid(run)
    BY <1>1, <1>4 DEF ChosenInPipeline
  <2>2. ASSUME Post(run, s, 1) PROVE Placed'
    BY <1>1, <1>2, <2>1, <2>2, RoundPlaced DEF Post, Mid, Runs
  <2>3. QED
    BY <1>1, <1>3, <1>4, <2>1, <2>2, RoundEndsPlaced DEF ChosenInPipeline
<1>5. CASE ChosenInParallel(s)
  <2>. DEFINE step == IF Cancelled(run) \/ Blocked(run) THEN "staggering" ELSE "posting"
  <2>1. step \in Steps /\ pc = "round" /\ mode = "parallel" /\ Go(run, pc, [at EXCEPT ![s] = step])
    BY <1>5 DEF ChosenInParallel, Steps
  <2>2. QED
    BY <1>0, <1>1, <1>2, <2>1, MovePlaced DEF Go
<1>6. CASE ChosenForRetry(s)
  <2>. DEFINE q == [Reopened(run, {s}) EXCEPT !.retried = @ \cup {s}]
  <2>1. Reopened(run, {s}) \in Runs /\ Kin(Reopened(run, {s}), run)
    BY <1>1, ReopenedTypes, ReopenedKin
  <2>2. q \in Runs /\ q.done = run.done /\ q.resumes = run.resumes
    BY <2>1 DEF Runs, Kin
  <2>3. CASE Go(q, pc, [at EXCEPT ![s] = "posting"])
    BY <1>0, <1>1, <1>2, <1>6, <2>2, <2>3, MovePlaced DEF Go, Steps, ChosenForRetry
  <2>4. QED
    BY <1>0, <1>1, <1>2, <1>6, <2>2, <2>3, JoinPlaced DEF ChosenForRetry
<1>7. CASE Refused(s)
  <2>. DEFINE q == With(run, s, "failed")
  <2>1. CASE mode = "pipeline" /\ NextCandidate(q, s)
    <3>1. pc = "round"
      BY <1>1, <1>7, <2>1 DEF Refused
    <3>2. QED
      BY <1>1, <1>2, <1>3, <2>1, <3>1, NextCandidatePlaced
  <2>2. CASE mode = "parallel" /\ pc = "round" /\ Go(q, pc, Only(s, "staggering"))
    BY <1>0, <1>1, <1>2, <1>3, <2>2, MovePlaced DEF Go, Steps
  <2>3. CASE mode = "parallel" /\ Join(q, s)
    BY <1>0, <1>1, <1>2, <1>3, <1>7, <2>3, JoinPlaced DEF Refused
  <2>4. QED
    BY <1>1, <1>7, <2>1, <2>2, <2>3 DEF Refused
<1>8. CASE Answered(s)
  <2>. DEFINE q == [run EXCEPT !.stage[s].task = "newest"]
  <2>1. q \in Runs /\ q.done = run.done /\ q.resumes = run.resumes
    BY <1>1, TaskTypes DEF Runs
  <2>2. /\ With(q, s, "running").done = run.done
        /\ With(q, s, "running").resumes = run.resumes
    <3>. HIDE DEF q
    <3>1. Kin(With(q, s, "running"), q)
      BY <2>1, MarkKin DEF StageStatuses
    <3>2. QED
      BY <2>1, <3>1 DEF Kin
  <2>3. CASE /\ run' = With(q, s, "running") /\ pc' = pc
             /\ at' = [at EXCEPT ![s] = "waiting"]
    BY <1>0, <1>1, <1>2, <2>2, <2>3, MovePlaced DEF Steps
  <2>4. CASE mode = "parallel" /\ pc = "round" /\ Go(q, pc, Only(s, "staggering"))
    BY <1>0, <1>1, <1>2, <2>1, <2>4, MovePlaced DEF Go, Steps
  <2>5. CASE mode = "parallel" /\ Join(q, s)
    BY <1>0, <1>1, <1>2, <1>8, <2>1, <2>5, JoinPlaced DEF Answered
  <2>6. QED
    BY <1>1, <1>8, <2>3, <2>4, <2>5 DEF Answered
<1>9. CASE Staggered(s)
  <2>1. pc = "round" /\ mode = "parallel" /\ Mid(run)
    BY <1>1, <1>9 DEF Staggered, Placed, Places
  <2>2. QED
    BY <1>1, <1>2, <1>9, <2>1, RoundEndsPlaced, CollectPlaced, TakePlaced DEF Staggered
<1>10. QED
  BY <1>4, <1>5, <1>6, <1>7, <1>8, <1>9

LEMMA ResultStepPlaced ==
  ASSUME Frugal, NEW s \in Stages, Count,
         RowInserted(s) \/ Poll(s) \/ Deadline(s) \/ Aborted(s) \/ AbortFails(s)
  PROVE  Placed'
<1>0. at[s] # "idle"
  BY DEF RowInserted, Poll, Deadline, Aborted, AbortFails
<1>1. /\ run \in Runs /\ DriverTypes /\ Counted(run) /\ Placed
      /\ pc \in {"round", "collect", "retry", "reconcile", "none"}
      /\ mode = "pipeline" => pc \in {"round", "reconcile"}
      /\ mode \in {"pipeline", "parallel"}
  BY <1>0, BusyPlaced DEF Frugal
<1>2. UNCHANGED <<mode, restarts>>
  BY DEF RowInserted, Poll, Deadline, Aborted, AbortFails, past
<1>3. CASE RowInserted(s)
  <2>1. Older(run, s).done = run.done /\ Older(run, s).resumes = run.resumes
    BY <1>1 DEF Older, Runs
  <2>2. pc # "reconcile"
    BY <1>1, <1>3 DEF RowInserted, Placed, Places
  <2>3. QED
    BY <1>0, <1>1, <1>2, <1>3, <2>1, <2>2, MovePlaced DEF RowInserted, Steps
<1>4. CASE Poll(s)
  <2>1. PICK o \in Results(s) : Judge(s, o)
    BY <1>4 DEF Poll
  <2>2. o \in Outcomes(s)
    BY ResultTypes DEF Frugal, Heedful
  <2>3. QED
    BY <1>0, <1>2, <2>1, <2>2, JudgePlaced
<1>5. CASE Deadline(s)
  BY <1>0, <1>1, <1>2, <1>5, MovePlaced DEF Deadline, Steps
<1>6. CASE Aborted(s)
  <2>1. {"blocker", "cancelled", "failed"} \subseteq Outcomes(s)
    BY DEF Outcomes
  <2>2. QED
    BY <1>0, <1>2, <1>6, <2>1, JudgePlaced DEF Aborted
<1>7. CASE AbortFails(s)
  <2>. DEFINE others == [at EXCEPT ![s] = "idle"]
  <2>1. CASE pc = "none" /\ Go(run, pc, others)
    BY <1>0, <1>1, <1>2, <2>1, MovePlaced DEF Go, Steps
  <2>2. CASE pc # "none" /\ Fail(run, others)
    <3>1. /\ pc' = "none" /\ at' = others /\ rounds' = rounds
          /\ run'.done = run.done /\ run'.resumes = run.resumes
      BY <1>1, <2>2 DEF Fail, Go, Count, Runs
    <3>2. mode # "parallel" => at' = AllIdle
      BY <1>0, <1>1, <3>1 DEF Placed, Places, AllIdle, DriverTypes, Steps
    <3>3. \A t \in Stages : at'[t] # "staggering"
      BY <1>0, <1>1, <1>7, <3>1 DEF AbortFails, Placed, Places, DriverTypes
    <3>4. Within'
      BY <1>1, <3>1 DEF Within, Counted
    <3>5. QED
      BY <1>2, <3>1, <3>2, <3>3, <3>4 DEF Placed, Places
  <2>3. QED
    BY <1>7, <2>1, <2>2 DEF AbortFails
<1>8. QED
  BY <1>3, <1>4, <1>5, <1>6, <1>7

LEMMA OtherStepPlaced ==
  ASSUME Frugal, \/ /\ \/ CancelRun \/ Restart
                       \/ \E s \in Stages : RowEnds(s) \/ CancelRow(s)
                    /\ Count
                 \/ UNCHANGED vars
  PROVE  Placed'
<1>1. /\ run \in Runs /\ saved \in Runs /\ Placed /\ Counted(run) /\ Counted(saved)
      /\ restarts \in Nat
  BY LimitsAreNat DEF Frugal, Heedful, Types, DriverTypes, Placed, Within, Counted, Alike
<1>2. CASE CancelRun /\ Count
  <2>. DEFINE active == {s \in Stages : AtWork(run, s)}
  <2>. DEFINE q == Mark(run, active, "cancelled")
  <2>1. q \in Runs /\ Kin(q, run)
    BY <1>1, MarkTypes, MarkKin DEF StageStatuses
  <2>2. /\ run' = [q EXCEPT !.status = "cancelled"]
        /\ pc' = pc /\ at' = at /\ rounds' = rounds /\ mode' = mode
    BY <1>2 DEF CancelRun, past, Count
  <2>3. run'.stage = q.stage /\ run'.done = run.done /\ run'.resumes = run.resumes
    BY <2>1, <2>2 DEF Runs, Kin
  <2>4. Incomplete(run) = {} => Incomplete(run)' = {}
    BY <1>1, <2>3 DEF Incomplete, Status, Mark, AtWork, Runs
  <2>5. Within'
    BY <1>1, <2>2, <2>3, <2>4 DEF Placed, Within, Fresh, Mid, Counted, Affords
  <2>6. QED
    BY <1>1, <2>2, <2>5 DEF Placed, Places
<1>3. CASE Restart /\ Count
  <2>1. [saved EXCEPT !.status = "failed"] \in Runs /\ Counted([saved EXCEPT !.status = "failed"])
    BY <1>1 DEF Runs, RunStatuses, Counted
  <2>2. QED
    BY <1>1, <1>3, <2>1, EndPlaced, FinalPlaced, ReconcilePlaced DEF Restart
<1>4. CASE (\E s \in Stages : RowEnds(s) \/ CancelRow(s)) /\ Count
  <2>1. UNCHANGED <<mode, run, pc, at, restarts>>
    BY <1>4 DEF RowEnds, CancelRow, driver, past
  <2>2. rounds' = rounds
    BY <1>4, <2>1 DEF Count
  <2>3. QED
    BY <1>1, <2>1, <2>2 DEF Placed, Places, Within, Fresh, Mid, Counted, Affords, Incomplete,
      Status
<1>5. CASE UNCHANGED vars
  BY <1>1, <1>5 DEF vars, driver, Placed, Places, Within, Fresh, Mid, Counted, Affords,
    Incomplete, Status
<1>6. QED
  BY <1>2, <1>3, <1>4, <1>5

LEMMA FrugalInit == Init => Frugal
<1>. SUFFICES ASSUME Init PROVE Frugal
  OBVIOUS
<1>1. Heedful
  BY InitTypes DEF Init, Heedful, Alike, Prepared, Underway, AllIdle
<1>2. run.done = 0 /\ run.resumes = 0 /\ rounds = 0 /\ pc = "planning" /\ at = AllIdle
  BY DEF Init
<1>3. Fresh(run)
  BY <1>2, LimitsAreNat DEF Fresh, Counted, Affords
<1>4. QED
  BY <1>1, <1>2, <1>3 DEF Frugal, Placed, Places, Within, AllIdle, Fresh

LEMMA FrugalStep == Frugal /\ [Next]_vars => Frugal'
<1>. SUFFICES ASSUME Frugal, [Next]_vars PROVE Frugal'
  OBVIOUS
<1>1. Heedful'
  BY HeedfulStep DEF Frugal
<1>2. Placed'
  BY DriverStepPlaced, PostingStepPlaced, ResultStepPlaced, OtherStepPlaced
    DEF Next, Work, Others, StageStep
<1>3. QED
  BY <1>1, <1>2 DEF Frugal

\* A process that restarts again and again, in whatever phase of a run, does not
\* take its stages up more often than its iterations and resumes allow.
THEOREM CompanyWorkIsBounded == Spec => []WorkIsBounded
<1>1. Frugal => WorkIsBounded
  BY DEF Frugal, Placed, Within, Counted, WorkIsBounded
<1>2. QED
  BY <1>1, FrugalInit, FrugalStep, PTL DEF Spec

-----------------------------------------------------------------------------
(* One worker per stage                                                    *)

\* The stages come in order because every set of them has a first.
LEMMA FirstIsLeast ==
  ASSUME NEW S \in SUBSET Nat, S # {}
  PROVE  First(S) \in S /\ \A t \in S : First(S) <= t
<1>. DEFINE R == {ss \in Nat \X Nat : ss[1] < ss[2]}
<1>1. IsWellFoundedOn(R, Nat)
  BY NatLessThanWellFounded DEF OpToRel
<1>2. PICK x \in S : \A y \in S : ~(<<y, x>> \in R)
  BY <1>1, WFMin
<1>3. ASSUME NEW y \in S PROVE x <= y
  <2>1. <<y, x>> \in Nat \X Nat /\ <<y, x>>[1] = y /\ <<y, x>>[2] = x
    OBVIOUS
  <2>2. ~(y < x)
    BY <1>2, <2>1
  <2>3. QED
    BY <2>2
<1>4. QED
  BY <1>3 DEF First

\* The task of a stage may still be editing the worktree.
Live(s) == row[s] = "open" /\ s \notin unwatched

\* Who looks after the live row of the stage s in each phase.
Attended(s) ==
  /\ at[s] \notin {"choosing", "posting"}
  /\ at[s] \in {"waiting", "aborting"} /\ ~Cancelled(run)
       => run.stage[s].task = "newest"
  /\ pc \notin {"planning", "designing", "backoff", "quality"}
  /\ pc = "reconcile" => \/ Cancelled(run)
                         \/ /\ AtWork(run, s) /\ run.stage[s].task = "newest"
                            /\ \A t \in Stages : at[t] # "idle" => t <= s
  /\ pc = "round" /\ mode = "parallel" =>
       \/ at[s] = "inserted"
       \/ /\ s \in Incomplete(run) /\ run.stage[s].task = "newest"
          /\ \A t \in Stages : at[t] # "idle" => s <= t
  /\ pc = "round" /\ mode # "parallel" => at[s] \in {"inserted", "waiting", "aborting"}
  /\ pc \in {"collect", "retry"} => \/ at[s] \in {"inserted", "waiting", "aborting"}
                                    \/ Cancelled(run) \/ Blocked(run)

\* The stages that are worked on in parallel.
Sides ==
  /\ pc = "round" /\ mode = "parallel" =>
       \A s \in Stages : at[s] # "idle" => /\ s \in Incomplete(run)
                                           /\ at[s] \notin {"waiting", "aborting"}
  /\ pc \in {"collect", "retry"} =>
       \A s \in Stages : at[s] # "idle" => Status(run, s) # "blocked"

Watch == Sides /\ \A s \in Stages : Live(s) => Attended(s)

LEMMA ClearWatch ==
  ASSUME \A s \in Stages : ~Live(s)', Sides' PROVE Watch'
BY DEF Watch

LEMMA QuitWatch ==
  ASSUME pc' = "none", at' = AllIdle PROVE Watch'
BY DEF Watch, Sides, Attended, AllIdle

LEMMA IdleSides ==
  ASSUME at' = AllIdle PROVE Sides'
BY DEF Sides, AllIdle

LEMMA RoundEndsIdle ==
  ASSUME NEW r, RoundEnds(r)
  PROVE  /\ at' = AllIdle
         /\ Cancelled(r) \/ Blocked(r) => pc' = "none"
BY DEF RoundEnds, End, Go

LEMMA TakeSides ==
  ASSUME NEW r, NEW left \in SUBSET Incomplete(r), Take(r, left) PROVE Sides'
<1>1. CASE left = {}
  BY <1>1, RoundEndsIdle, IdleSides DEF Take
<1>2. CASE left # {}
  <2>1. left \in SUBSET Nat
    BY StagesAreSome DEF Incomplete, Stages
  <2>2. First(left) \in Incomplete(r)
    BY <1>2, <2>1, FirstIsLeast
  <2>3. run' = r /\ pc' = "round" /\ at' = Only(First(left), "choosing")
    BY <1>2 DEF Take, Go
  <2>4. QED
    BY <2>2, <2>3 DEF Sides, Only, AllIdle
<1>3. QED
  BY <1>1, <1>2

LEMMA IterateSides ==
  ASSUME NEW r, Iterate(r)
  PROVE  /\ Sides'
         /\ Cancelled(r) \/ Blocked(r) => pc' = "none" /\ at' = AllIdle
<1>1. CASE Cancelled(r) \/ Blocked(r)
  BY <1>1, IdleSides DEF Iterate, End, Go
<1>2. CASE ~(Cancelled(r) \/ Blocked(r))
  <2>1. CASE \E q : Execute(q)
    BY <1>2, <2>1, TakeSides DEF Execute
  <2>2. CASE \E q, S : Unassigned(q, S)
    BY <1>2, <2>2, IdleSides DEF Unassigned, Fail, Go
  <2>3. QED
    BY <1>2, <2>1, <2>2 DEF Iterate
<1>3. QED
  BY <1>1, <1>2

LEMMA ReselectSides ==
  ASSUME NEW r, Reselect(r)
  PROVE  /\ Sides'
         /\ Cancelled(r) \/ Blocked(r) => pc' = "none" /\ at' = AllIdle
BY IterateSides, IdleSides DEF Reselect, Unassigned, Fail, End, Go

LEMMA DriveSides ==
  ASSUME NEW r, Design(r) \/ Drive(r)
  PROVE  /\ Sides'
         /\ Ready(r) /\ (Cancelled(r) \/ Blocked(r)) => pc' = "none" /\ at' = AllIdle
BY ReselectSides, IdleSides DEF Design, Drive, Go, Ready

LEMMA ResumedSides ==
  ASSUME NEW r \in Runs, Resumed(r)
  PROVE  /\ Sides'
         /\ Ready(r) /\ (Cancelled(r) \/ Blocked(r)) => pc' = "none" /\ at' = AllIdle
<1>. DEFINE counted == [r EXCEPT !.resumes = @ + 1]
<1>1. /\ Ready(r) => Ready(counted)
      /\ Cancelled(r) => Cancelled(counted)
      /\ Blocked(r) => Blocked(counted)
  BY DEF Runs, Ready, Cancelled, Blocked, Status
<1>2. CASE Drive(counted)
  BY <1>1, <1>2, DriveSides
<1>3. CASE End(Finalized(counted))
  BY <1>3, IdleSides DEF End, Go
<1>4. QED
  BY <1>2, <1>3 DEF Resumed

LEMMA JoinedSides ==
  ASSUME NEW r, Joined(r)
  PROVE  /\ Sides'
         /\ Cancelled(r) \/ Blocked(r) => pc' = "none" /\ at' = AllIdle
<1>1. CASE RoundEnds(r)
  BY <1>1, RoundEndsIdle, IdleSides
<1>2. CASE ~Cancelled(r) /\ ~Blocked(r) /\ ~RoundEnds(r)
  <2>1. run' = r /\ pc' = "retry"
    BY <1>2 DEF Joined, Go
  <2>2. QED
    BY <1>2, <2>1 DEF Sides, Blocked, Status
<1>3. QED
  BY <1>1, <1>2 DEF Joined

LEMMA NextCandidateSides ==
  ASSUME NEW r, NEW s, mode' # "parallel", NextCandidate(r, s) PROVE Sides'
<1>1. CASE \E q : RoundEnds(q)
  BY <1>1, RoundEndsIdle, IdleSides
<1>2. CASE \E n : Post(r, s, n)
  BY <1>2 DEF Post, Sides
<1>3. QED
  BY <1>1, <1>2 DEF NextCandidate

LEMMA DecidedSides ==
  ASSUME NEW r \in Runs, NEW s, NEW o \in {"vague", "reject", "approve"}, Decided(r, s, o)
  PROVE  Sides'
<1>. DEFINE read == [r EXCEPT !.decision = o]
<1>1. read.stage = r.stage
  BY DEF Runs
<1>2. Incomplete(read) = Incomplete(r)
  BY <1>1 DEF Incomplete, Status
<1>3. CASE \E q : RoundEnds(q)
  BY <1>3, RoundEndsIdle, IdleSides
<1>4. CASE o = "approve"
  BY <1>2, <1>4, TakeSides DEF Decided
<1>5. QED
  BY <1>3, <1>4 DEF Decided

\* The invariant on which the single worker rests.
Watchful == Frugal /\ Watch

\* What is known of a run whose stage s is worked on.
LEMMA BusyWatched ==
  ASSUME Watchful, NEW s \in Stages, at[s] # "idle"
  PROVE  /\ run \in Runs /\ Ready(run) /\ at \in [Stages -> Steps]
         /\ pc \in {"round", "collect", "retry", "reconcile", "none"}
         /\ mode = "pipeline" => pc \in {"round", "reconcile"}
         /\ mode \in {"pipeline", "parallel"}
         /\ pc = "reconcile" => at[s] \in {"waiting", "aborting"}
         /\ at[s] = "staggering" => pc = "round" /\ mode = "parallel"
         /\ pc \in {"round", "reconcile"} => \A t \in Stages : t # s => at[t] = "idle"
         /\ pc \in {"collect", "retry"} => mode = "parallel" /\ Status(run, s) # "blocked"
         /\ pc = "round" /\ mode = "parallel" => /\ s \in Incomplete(run)
                                                 /\ at[s] \notin {"waiting", "aborting"}
<1>1. Frugal /\ Watch
  BY DEF Watchful
<1>2. /\ run \in Runs /\ DriverTypes /\ Ready(run)
      /\ pc \in {"round", "collect", "retry", "reconcile", "none"}
      /\ mode = "pipeline" => pc \in {"round", "reconcile"}
      /\ mode \in {"pipeline", "parallel"}
  BY <1>1, BusyPlaced
<1>3. QED
  BY <1>1, <1>2 DEF Frugal, Placed, Places, Watch, Sides, DriverTypes

\* The driver is not at work on a stage: there is no live row to lose.
LEMMA DriverStepWatch ==
  ASSUME Watchful, DiscussionEnds \/ Designed \/ BackoffEnds \/ QualityEnds PROVE Watch'
<1>1. pc \in {"planning", "designing", "backoff", "quality"} /\ UNCHANGED <<row, unwatched>>
  BY DEF DiscussionEnds, Designed, BackoffEnds, QualityEnds, durable, past
<1>2. \A s \in Stages : ~Live(s)
  BY <1>1 DEF Watchful, Watch, Attended
<1>3. \A s \in Stages : ~Live(s)'
  BY <1>1, <1>2 DEF Live
<1>4. Sides'
  BY DriveSides, ReselectSides, IterateSides, IdleSides
    DEF DiscussionEnds, Designed, BackoffEnds, QualityEnds, Fail, End, Go
<1>5. QED
  BY <1>3, <1>4, ClearWatch

\* In a pipeline only the stage that is worked on may have a live row.
LEMMA PipelineAlone ==
  ASSUME Watchful, mode = "pipeline", pc = "round", NEW s \in Stages, at[s] # "idle",
         UNCHANGED <<mode, unwatched>>, \A t \in Stages : t # s => row'[t] = row[t]
  PROVE  \A t \in Stages : t # s => ~Live(t)'
<1>1. ASSUME NEW t \in Stages, t # s PROVE ~Live(t)
  <2>1. at[t] = "idle"
    BY <1>1, BusyWatched
  <2>2. QED
    BY <1>1, <2>1 DEF Watchful, Watch, Attended
<1>2. QED
  BY <1>1 DEF Live

\* The work on a stage in a pipeline is over, and so is its row.
LEMMA PipelineWatch ==
  ASSUME Watchful, mode = "pipeline", pc = "round", NEW s \in Stages, at[s] # "idle",
         UNCHANGED <<mode, unwatched>>, \A t \in Stages : t # s => row'[t] = row[t],
         ~Live(s)', Sides'
  PROVE  Watch'
BY PipelineAlone, ClearWatch

\* The branch of the stage s is over.
LEMMA JoinWatch ==
  ASSUME Watchful, mode = "parallel", pc # "round", NEW s \in Stages, at[s] # "idle",
         pc # "reconcile", UNCHANGED <<mode, unwatched>>,
         \A t \in Stages : t # s => row'[t] = row[t],
         NEW r \in Runs, Join(r, s),
         \A t \in Stages : t # s => r.stage[t] = run.stage[t],
         Cancelled(run) => Cancelled(r),
         Live(s)' => Cancelled(r) \/ Blocked(r)
  PROVE  Watch'
<1>. DEFINE others == [at EXCEPT ![s] = "idle"]
<1>1. /\ at \in [Stages -> Steps] /\ pc \in {"collect", "retry", "none"}
      /\ pc # "none" => Status(run, s) # "blocked"
      /\ \A t \in Stages : Live(t) => Attended(t)
      /\ Sides
  BY BusyWatched DEF Watchful, Watch
<1>2. pc # "none" /\ Blocked(run) => Blocked(r)
  BY <1>1 DEF Blocked, Status
<1>3. \A t \in Stages : t # s /\ Live(t)' => Live(t) /\ Attended(t)
  BY <1>1 DEF Live
<1>4. CASE pc # "none" /\ others = AllIdle
  <2>1. Joined(r)
    BY <1>4 DEF Join
  <2>2. CASE Cancelled(r) \/ Blocked(r)
    BY <2>1, <2>2, JoinedSides, QuitWatch
  <2>3. CASE ~Cancelled(r) /\ ~Blocked(r)
    <3>1. ASSUME NEW t \in Stages, t # s PROVE ~Live(t)'
      <4>1. at[t] = "idle"
        BY <1>1, <1>4, <3>1 DEF AllIdle
      <4>2. QED
        BY <1>1, <1>2, <1>3, <1>4, <2>3, <3>1, <4>1 DEF Attended
    <3>2. QED
      BY <2>1, <2>3, <3>1, JoinedSides, ClearWatch
  <2>4. QED
    BY <2>2, <2>3
<1>5. CASE ~(pc # "none" /\ others = AllIdle)
  <2>1. Go(r, pc, others)
    BY <1>5 DEF Join
  <2>2. /\ run' = r /\ pc' = pc /\ at'[s] = "idle"
        /\ \A t \in Stages : t # s => at'[t] = at[t]
    BY <1>1, <2>1 DEF Go
  <2>3. Sides'
    BY <1>1, <2>2 DEF Sides, Status
  <2>4. ASSUME NEW t \in Stages, Live(t)' PROVE Attended(t)'
    BY <1>1, <1>2, <1>3, <2>2, <2>4 DEF Attended, Cancelled
  <2>5. QED
    BY <2>3, <2>4 DEF Watch
<1>6. QED
  BY <1>4, <1>5

\* The work on the stage s goes on in its phase; its row is not live when a
\* candidate is chosen or posted for it.
LEMMA MoveWatch ==
  ASSUME Watchful, NEW s \in Stages, at[s] # "idle", NEW step \in Steps,
         at' = [at EXCEPT ![s] = step], UNCHANGED <<pc, mode, unwatched, row>>,
         run'.status = run.status,
         \A t \in Stages : t # s => run'.stage[t] = run.stage[t],
         \A t \in Stages : t # s => (t \in Incomplete(run) => t \in Incomplete(run')),
         Status(run', s) = Status(run, s) \/ Status(run', s) \notin {"blocked", "completed"},
         pc = "round" /\ mode = "parallel" => step \notin {"waiting", "aborting"},
         Live(s) => Attended(s)', pc # "reconcile"
  PROVE  Watch'
<1>1. /\ at \in [Stages -> Steps] /\ at'[s] = step
      /\ \A t \in Stages : t # s => at'[t] = at[t]
      /\ \A t \in Stages : Live(t) => Attended(t)
      /\ Sides
  BY BusyWatched DEF Watchful, Watch
<1>2. ASSUME Blocked(run), pc \in {"collect", "retry"} PROVE Blocked(run')
  <2>1. Status(run, s) # "blocked"
    BY <1>2, BusyWatched
  <2>2. QED
    BY <1>2, <2>1 DEF Blocked, Status
<1>3. Sides'
  BY <1>1, BusyWatched DEF Sides, Status, Incomplete
<1>4. ASSUME NEW t \in Stages, t # s, Live(t)' PROVE Attended(t)'
  BY <1>1, <1>2, <1>4 DEF Live, Attended, Cancelled
<1>5. QED
  BY <1>3, <1>4 DEF Watch, Live

\* What With() and its kin leave of the other stages.
LEMMA WithOthers ==
  ASSUME NEW r \in Runs, NEW s \in Stages, NEW status \in StageStatuses
  PROVE  /\ With(r, s, status) \in Runs
         /\ Status(With(r, s, status), s) = status
         /\ With(r, s, status).stage[s].task = r.stage[s].task
         /\ With(r, s, status).status = r.status
         /\ \A t \in Stages : t # s => With(r, s, status).stage[t] = r.stage[t]
<1>1. With(r, s, status) \in Runs
  BY MarkTypes
<1>2. QED
  BY <1>1 DEF With, Mark, Status, Runs, StageRecords

LEMMA PostingStepWatch ==
  ASSUME Watchful, NEW s \in Stages,
         \/ ChosenInPipeline(s) \/ ChosenInParallel(s) \/ ChosenForRetry(s)
         \/ Refused(s) \/ Answered(s) \/ Staggered(s)
  PROVE  Watch'
<1>0. /\ at[s] \in {"choosing", "posting", "inserted", "staggering"}
      /\ UNCHANGED <<mode, row, unwatched>>
  BY DEF ChosenInPipeline, ChosenInParallel, ChosenForRetry, Refused, Answered, Staggered,
    durable, past
<1>1. /\ run \in Runs /\ Ready(run) /\ at \in [Stages -> Steps]
      /\ pc \in {"round", "collect", "retry", "none"}
      /\ mode = "pipeline" => pc = "round"
      /\ mode \in {"pipeline", "parallel"}
      /\ at[s] = "staggering" => pc = "round" /\ mode = "parallel"
      /\ pc = "round" => \A t \in Stages : t # s => at[t] = "idle"
      /\ pc = "round" /\ mode = "parallel" => s \in Incomplete(run)
  BY <1>0, BusyWatched
<1>2. /\ \A t \in Stages : Live(t) => Attended(t)
      /\ at[s] \in {"choosing", "posting"} => ~Live(s)
  BY DEF Watchful, Watch, Attended
<1>3. CASE mode = "pipeline" /\ at[s] \in {"choosing", "posting"}
  <2>1. ~Live(s)' /\ pc = "round"
    BY <1>0, <1>1, <1>2, <1>3 DEF Live
  <2>2. Sides'
    BY <1>0, <1>1, <1>3, RoundEndsIdle, IdleSides, NextCandidateSides
      DEF ChosenInPipeline, ChosenInParallel, ChosenForRetry, Refused, Answered, Staggered, Post,
          Sides
  <2>3. QED
    BY <1>0, <1>3, <2>1, <2>2, PipelineWatch
<1>4. CASE ChosenInParallel(s)
  <2>. DEFINE step == IF Cancelled(run) \/ Blocked(run) THEN "staggering" ELSE "posting"
  <2>1. step \in Steps /\ run' = run /\ pc' = pc /\ at' = [at EXCEPT ![s] = step]
        /\ step \notin {"waiting", "aborting"} /\ pc = "round" /\ ~Live(s)
    BY <1>2, <1>4 DEF ChosenInParallel, Go, Steps
  <2>. HIDE DEF step
  <2>2. QED
    BY <1>0, <2>1, MoveWatch
<1>5. CASE ChosenForRetry(s)
  <2>. DEFINE q == [Reopened(run, {s}) EXCEPT !.retried = @ \cup {s}]
  <2>1. q \in Runs /\ q.status = run.status /\ Status(q, s) = "pending"
        /\ \A t \in Stages : t # s => q.stage[t] = run.stage[t]
    BY <1>1 DEF Reopened, Runs, StageRecords, StageStatuses, Tasks, Status
  <2>2. mode = "parallel" /\ pc # "round" /\ pc # "reconcile" /\ ~Live(s) /\ ~Live(s)'
    BY <1>0, <1>1, <1>2, <1>5 DEF ChosenForRetry, Live
  <2>3. CASE Join(run, s)
    BY <1>0, <1>1, <2>2, <2>3, JoinWatch
  <2>4. CASE Join(q, s)
    <3>. HIDE DEF q
    <3>1. QED
      BY <1>0, <1>1, <2>1, <2>2, <2>4, JoinWatch DEF Cancelled
  <2>5. CASE Go(q, pc, [at EXCEPT ![s] = "posting"])
    <3>. HIDE DEF q
    <3>1. run' = q /\ pc' = pc /\ at' = [at EXCEPT ![s] = "posting"]
      BY <2>5 DEF Go
    <3>2. \A t \in Stages : t # s => (t \in Incomplete(run) => t \in Incomplete(run'))
      BY <2>1, <3>1 DEF Incomplete, Status
    <3>3. QED
      BY <1>0, <2>1, <2>2, <3>1, <3>2, MoveWatch DEF Steps
  <2>6. QED
    BY <1>5, <2>3, <2>4, <2>5 DEF ChosenForRetry
<1>6. CASE mode = "parallel" /\ Refused(s)
  <2>. DEFINE q == With(run, s, "failed")
  <2>1. q \in Runs /\ Status(q, s) = "failed" /\ q.status = run.status
        /\ \A t \in Stages : t # s => q.stage[t] = run.stage[t]
    BY <1>1, WithOthers DEF StageStatuses
  <2>2. ~Live(s) /\ ~Live(s)'
    BY <1>0, <1>2, <1>6 DEF Refused, Live
  <2>. HIDE DEF q
  <2>3. CASE pc # "round" /\ Join(q, s)
    BY <1>0, <1>1, <1>6, <2>1, <2>2, <2>3, JoinWatch DEF Cancelled
  <2>4. CASE pc = "round" /\ Go(q, pc, Only(s, "staggering"))
    <3>1. run' = q /\ pc' = pc /\ at' = [at EXCEPT ![s] = "staggering"]
      BY <1>1, <2>4 DEF Go, Only, AllIdle
    <3>2. \A t \in Stages : t # s => (t \in Incomplete(run) => t \in Incomplete(run'))
      BY <2>1, <3>1 DEF Incomplete, Status
    <3>3. QED
      BY <1>0, <2>1, <2>2, <2>4, <3>1, <3>2, MoveWatch DEF Steps
  <2>5. QED
    BY <1>6, <2>3, <2>4 DEF Refused, q
<1>7. CASE Answered(s)
  <2>. DEFINE q == [run EXCEPT !.stage[s].task = "newest"]
  <2>. DEFINE w == With(q, s, "running")
  <2>1. /\ q \in Runs /\ q.status = run.status /\ Status(q, s) = Status(run, s)
        /\ q.stage[s].task = "newest"
        /\ \A t \in Stages : t # s => q.stage[t] = run.stage[t]
    <3>1. q \in Runs
      BY <1>1, TaskTypes
    <3>2. run.stage[s] \in StageRecords /\ run.stage \in [Stages -> StageRecords]
      BY <1>1 DEF Runs
    <3>3. /\ q.status = run.status
          /\ q.stage = [run.stage EXCEPT ![s] = [run.stage[s] EXCEPT !.task = "newest"]]
      BY <1>1 DEF Runs
    <3>. HIDE DEF q
    <3>4. QED
      BY <3>1, <3>2, <3>3 DEF StageRecords, Status
  <2>2. \A t \in Stages : t # s => (t \in Incomplete(run) => t \in Incomplete(q))
    BY <2>1 DEF Incomplete, Status
  <2>. HIDE DEF q
  <2>3. /\ w \in Runs /\ w.status = q.status /\ Status(w, s) = "running"
        /\ w.stage[s].task = "newest"
        /\ \A t \in Stages : t # s => w.stage[t] = run.stage[t]
    <3>1. "running" \in StageStatuses
      BY DEF StageStatuses
    <3>2. /\ w \in Runs /\ w.status = q.status /\ Status(w, s) = "running"
          /\ w.stage[s].task = q.stage[s].task
          /\ \A t \in Stages : t # s => w.stage[t] = q.stage[t]
      BY <2>1, <3>1, WithOthers
    <3>. HIDE DEF w
    <3>3. QED
      BY <2>1, <3>2
  <2>4. \A t \in Stages : t # s => (t \in Incomplete(run) => t \in Incomplete(w))
    BY <2>3 DEF Incomplete, Status
  <2>. HIDE DEF w
  <2>5. CASE /\ run' = w /\ pc' = pc /\ at' = [at EXCEPT ![s] = "waiting"]
             /\ mode = "pipeline" \/ pc # "round"
    <3>1. Attended(s)'
      BY <1>0, <1>1, <2>3, <2>5 DEF Attended
    <3>2. QED
      BY <1>0, <1>1, <2>1, <2>3, <2>4, <2>5, <3>1, MoveWatch DEF Steps
  <2>6. CASE pc = "round" /\ mode = "parallel" /\ Go(q, pc, Only(s, "staggering"))
    <3>1. run' = q /\ pc' = pc /\ at' = [at EXCEPT ![s] = "staggering"]
      BY <1>1, <2>6 DEF Go, Only, AllIdle
    <3>2. Attended(s)'
      BY <1>0, <1>1, <2>1, <2>6, <3>1, StagesAreSome DEF Attended, Incomplete, Status, Stages
    <3>3. QED
      BY <1>0, <2>1, <2>2, <2>6, <3>1, <3>2, MoveWatch DEF Steps
  <2>7. CASE mode = "parallel" /\ pc # "round" /\ Blocked(q) /\ Join(q, s)
    BY <1>0, <1>1, <2>1, <2>7, JoinWatch DEF Cancelled
  <2>8. QED
    BY <1>1, <1>7, <2>5, <2>6, <2>7 DEF Answered, q, w
<1>8. CASE Staggered(s)
  <2>. DEFINE left == {t \in Incomplete(run) : t > s}
  <2>0. pc = "round" /\ mode = "parallel" /\ at[s] = "staggering"
    BY <1>1, <1>8 DEF Staggered
  <2>1. ASSUME NEW t \in Stages, Live(t)
        PROVE  t \in Incomplete(run) /\ run.stage[t].task = "newest" /\ t <= s
    BY <1>0, <1>1, <1>2, <2>0, <2>1 DEF Attended
  <2>2. CASE Cancelled(run) /\ RoundEnds(run)
    BY <2>2, RoundEndsIdle, QuitWatch
  <2>3. CASE Collect(run)
    <3>. DEFINE has == {t \in Incomplete(run) : run.stage[t].task # "none"}
    <3>1. CASE has = {} /\ Joined(run)
      <4>1. \A t \in Stages : ~Live(t)'
        BY <1>0, <2>1, <3>1 DEF Live
      <4>2. QED
        BY <3>1, <4>1, JoinedSides, ClearWatch
    <3>2. CASE Go(Mark(run, has, "running"), "collect",
                  [t \in Stages |-> IF t \in has THEN "waiting" ELSE "idle"])
      <4>1. /\ run' = Mark(run, has, "running") /\ pc' = "collect"
            /\ at' = [t \in Stages |-> IF t \in has THEN "waiting" ELSE "idle"]
        BY <3>2 DEF Go
      <4>2. \A t \in has : Status(run', t) = "running" /\ run'.stage[t].task = run.stage[t].task
        BY <1>1, <4>1 DEF Mark, Status, Incomplete, Runs, StageRecords
      <4>3. Sides'
        BY <4>1, <4>2 DEF Sides
      <4>4. ASSUME NEW t \in Stages, Live(t)' PROVE Attended(t)'
        <5>1. t \in has /\ run.stage[t].task = "newest"
          BY <1>0, <2>1, <4>4 DEF Live
        <5>2. QED
          BY <4>1, <4>2, <5>1 DEF Attended
      <4>5. QED
        BY <4>3, <4>4 DEF Watch
    <3>3. QED
      BY <2>3, <3>1, <3>2 DEF Collect
  <2>4. CASE left # {} /\ Take(run, left)
    <3>1. left \in SUBSET Nat /\ left \in SUBSET Incomplete(run)
      BY StagesAreSome DEF Incomplete, Stages
    <3>2. First(left) \in left
      BY <2>4, <3>1, FirstIsLeast
    <3>3. run' = run /\ pc' = "round" /\ at' = Only(First(left), "choosing")
      BY <2>4 DEF Take, Go
    <3>4. Sides'
      BY <2>4, <3>1, TakeSides
    <3>5. ASSUME NEW t \in Stages, Live(t)' PROVE Attended(t)'
      <4>1. t \in Incomplete(run) /\ run.stage[t].task = "newest" /\ t <= s
        BY <1>0, <2>1, <3>5 DEF Live
      <4>2. t < First(left)
        BY <3>1, <3>2, <4>1, StagesAreSome DEF Stages
      <4>3. at'[t] = "idle" /\ \A u \in Stages : at'[u] # "idle" => u = First(left)
        BY <3>1, <3>2, <3>3, <4>2 DEF Only, AllIdle
      <4>4. \A u \in Stages : at'[u] # "idle" => t <= u
        BY <4>2, <4>3, StagesAreSome DEF Stages
      <4>5. mode' = "parallel"
        BY <1>0, <2>0
      <4>6. QED
        BY <3>3, <4>1, <4>3, <4>4, <4>5 DEF Attended
    <3>6. QED
      BY <3>4, <3>5 DEF Watch
  <2>5. QED
    BY <1>8, <2>2, <2>3, <2>4 DEF Staggered
<1>9. QED
  BY <1>0, <1>1, <1>3, <1>4, <1>5, <1>6, <1>7, <1>8
    DEF ChosenInPipeline, ChosenInParallel, ChosenForRetry, Refused, Answered, Staggered

\* After a restart, or a recovered stage, the driver goes to the next one.
LEMMA ReconcileWatch ==
  ASSUME NEW r \in Runs, NEW from \in Nat, Reconcile(r, from),
         \/ Cancelled(r) /\ Ready(r)
         \/ \A t \in Stages : Live(t)' => t > from /\ AtWork(r, t) /\ r.stage[t].task = "newest"
  PROVE  Watch'
<1>. DEFINE left == {t \in Stages : t > from /\ r.stage[t].task # "none" /\ AtWork(r, t)}
<1>1. CASE left = {}
  <2>1. Resumed(r)
    BY <1>1 DEF Reconcile
  <2>2. CASE Cancelled(r) /\ Ready(r)
    BY <2>1, <2>2, ResumedSides, QuitWatch
  <2>3. CASE \A t \in Stages : ~Live(t)'
    BY <2>1, <2>3, ResumedSides, ClearWatch
  <2>4. QED
    BY <1>1, <2>2, <2>3
<1>2. CASE left # {}
  <2>1. left \in SUBSET Nat
    BY StagesAreSome DEF Stages
  <2>2. First(left) \in left /\ \A t \in left : First(left) <= t
    BY <1>2, <2>1, FirstIsLeast
  <2>3. run' = r /\ pc' = "reconcile" /\ at' = Only(First(left), "waiting")
    BY <1>2 DEF Reconcile, Go
  <2>4. \A t \in Stages : /\ at'[t] \in {"idle", "waiting"}
                          /\ at'[t] # "idle" => t = First(left)
    BY <2>2, <2>3 DEF Only, AllIdle
  <2>5. ASSUME NEW t \in Stages, Live(t)' PROVE Attended(t)'
    <3>1. CASE Cancelled(r)
      BY <2>3, <2>4, <3>1 DEF Attended
    <3>2. CASE ~Cancelled(r)
      <4>1. t > from /\ AtWork(r, t) /\ r.stage[t].task = "newest"
        BY <2>5, <3>2
      <4>2. First(left) <= t
        BY <2>2, <4>1
      <4>3. QED
        BY <2>3, <2>4, <4>1, <4>2 DEF Attended
    <3>3. QED
      BY <3>1, <3>2
  <2>6. QED
    BY <2>3, <2>5 DEF Watch, Sides
<1>3. QED
  BY <1>1, <1>2

\* A result is judged when the row has ended, or the run was cancelled.
LEMMA JudgeWatch ==
  ASSUME Watchful, NEW s \in Stages, at[s] \in {"waiting", "aborting"},
         NEW o \in Outcomes(s), Judge(s, o), UNCHANGED <<mode, unwatched>>,
         \A t \in Stages : t # s => row'[t] = row[t],
         Live(s)' => Cancelled(run) /\ o = "cancelled"
  PROVE  Watch'
<1>1. /\ run \in Runs /\ Ready(run) /\ at \in [Stages -> Steps]
      /\ pc \in {"collect", "retry", "reconcile", "none"} \/ (pc = "round" /\ mode = "pipeline")
      /\ mode = "pipeline" => pc \in {"round", "reconcile"}
      /\ mode \in {"pipeline", "parallel"}
  BY BusyWatched
<1>2. \A status \in {"cancelled", "failed", "completed"} :
        LET q == With(run, s, status)
        IN  /\ q \in Runs /\ q.status = run.status /\ Ready(q)
            /\ \A t \in Stages : t # s => q.stage[t] = run.stage[t]
  <2>1. ASSUME NEW status \in StageStatuses
        PROVE  LET q == With(run, s, status)
               IN  /\ q \in Runs /\ q.status = run.status /\ Ready(q)
                   /\ \A t \in Stages : t # s => q.stage[t] = run.stage[t]
    <3>1. Ready(With(run, s, status))
      BY <1>1, StageHeeds
    <3>2. QED
      BY <1>1, <3>1, WithOthers
  <2>2. {"cancelled", "failed", "completed"} \subseteq StageStatuses
    BY DEF StageStatuses
  <2>3. QED
    BY <2>1, <2>2
<1>3. CASE pc = "reconcile" /\ JudgeRecovered(s, o)
  <2>1. CASE o = "blocker"
    <3>. DEFINE q == BlockedBy(run, s)
    <3>1. Resumed(q)
      BY <1>3, <2>1 DEF JudgeRecovered, Accepted
    <3>2. /\ With(run, s, "blocked") \in Runs /\ Ready(With(run, s, "blocked"))
          /\ Status(With(run, s, "blocked"), s) = "blocked"
      BY <1>1, WithOthers, StageHeeds DEF StageStatuses
    <3>3. \A S : s \notin S =>
            LET m == Mark(With(run, s, "blocked"), S, "skipped")
            IN  m \in Runs /\ Ready(m) /\ Status(m, s) = "blocked"
      <4>. DEFINE b == With(run, s, "blocked")
      <4>. SUFFICES ASSUME NEW S, s \notin S
                    PROVE  LET m == Mark(b, S, "skipped")
                           IN  m \in Runs /\ Ready(m) /\ Status(m, s) = "blocked"
        OBVIOUS
      <4>1. b \in Runs /\ Ready(b) /\ Status(b, s) = "blocked"
        BY <3>2
      <4>. HIDE DEF b
      <4>2. Mark(b, S, "skipped") \in Runs /\ Ready(Mark(b, S, "skipped"))
        BY <4>1, StageHeeds DEF StageStatuses
      <4>3. Status(Mark(b, S, "skipped"), s) = "blocked"
        BY <4>1 DEF Mark, Status, Runs
      <4>4. QED
        BY <4>2, <4>3
    <3>4. s \notin {t \in Incomplete(run) : t > s}
      BY StagesAreSome DEF Stages
    <3>5. \A m \in Runs : LET p == [m EXCEPT !.status = "partial"]
                          IN  p.stage = m.stage /\ (Ready(m) => Ready(p))
      BY DEF Runs, Ready
    <3>6. Ready(q) /\ Status(q, s) = "blocked"
      BY <3>2, <3>3, <3>4, <3>5 DEF BlockedBy, Status
    <3>7. q \in Runs /\ Blocked(q)
      BY <1>1, <3>6, BlockedTypes DEF Blocked
    <3>. HIDE DEF q
    <3>8. QED
      BY <3>1, <3>6, <3>7, ResumedSides, QuitWatch
  <2>2. ASSUME NEW status \in {"cancelled", "failed", "completed"},
               Reconcile(With(run, s, status), s)
        PROVE  Watch'
    <3>. DEFINE q == With(run, s, status)
    <3>1. /\ q \in Runs /\ q.status = run.status /\ Ready(q)
          /\ \A t \in Stages : t # s => q.stage[t] = run.stage[t]
      BY <1>2
    <3>. HIDE DEF q
    <3>2. CASE Cancelled(run)
      BY <2>2, <3>1, <3>2, StagesAreSome, ReconcileWatch DEF Cancelled, Stages, q
    <3>3. CASE ~Cancelled(run)
      <4>1. ASSUME NEW t \in Stages, Live(t)'
            PROVE  t > s /\ AtWork(q, t) /\ q.stage[t].task = "newest"
        <5>1. t # s
          BY <3>3, <4>1
        <5>2. Live(t)
          BY <4>1, <5>1 DEF Live
        <5>3. AtWork(run, t) /\ run.stage[t].task = "newest" /\ s <= t
          BY <1>3, <3>3, <5>2 DEF Watchful, Watch, Attended
        <5>4. QED
          BY <3>1, <5>1, <5>3, StagesAreSome DEF AtWork, Status, Stages
      <4>2. QED
        BY <2>2, <3>1, <4>1, StagesAreSome, ReconcileWatch DEF Stages, q
    <3>4. QED
      BY <3>2, <3>3
  <2>3. QED
    BY <1>3, <2>1, <2>2 DEF JudgeRecovered, Outcomes
<1>4. CASE pc # "reconcile" /\ mode = "parallel" /\ JudgeInParallel(s, o)
  <2>1. ASSUME NEW status \in {"cancelled", "failed", "completed", "blocked"},
               Join(With(run, s, status), s)
        PROVE  Watch'
    <3>. DEFINE q == With(run, s, status)
    <3>1. /\ q \in Runs /\ q.status = run.status
          /\ \A t \in Stages : t # s => q.stage[t] = run.stage[t]
      <4>1. status \in StageStatuses
        BY DEF StageStatuses
      <4>2. QED
        BY <1>1, <4>1, WithOthers
    <3>. HIDE DEF q
    <3>2. Join(q, s)
      BY <2>1 DEF q
    <3>3. QED
      BY <1>1, <1>4, <3>1, <3>2, JoinWatch DEF Cancelled
  <2>2. BlockedBy(run, s) = With(run, s, "blocked")
    BY <1>4 DEF BlockedBy
  <2>3. QED
    BY <1>4, <2>1, <2>2 DEF JudgeInParallel, Outcomes
<1>5. CASE pc # "reconcile" /\ mode = "pipeline" /\ JudgeInPipeline(s, o)
  <2>0. pc = "round" /\ mode' # "parallel" /\ mode' = "pipeline"
    BY <1>1, <1>5
  <2>1. CASE Live(s)'
    <3>1. Cancelled(With(run, s, "cancelled")) /\ RoundEnds(With(run, s, "cancelled"))
      BY <1>2, <1>5, <2>1 DEF JudgeInPipeline, Cancelled, Accepted
    <3>2. QED
      BY <3>1, RoundEndsIdle, QuitWatch
  <2>2. CASE ~Live(s)'
    <3>1. Sides'
      <4>1. CASE \E q : RoundEnds(q)
        BY <4>1, RoundEndsIdle, IdleSides
      <4>2. CASE \E q : NextCandidate(q, s)
        BY <2>0, <4>2, NextCandidateSides
      <4>3. CASE Gated(s) /\ o \in Accepted(s)
        <5>1. Decided(With(run, s, "completed"), s, o) /\ o \in {"vague", "reject", "approve"}
          BY <1>5, <4>3 DEF JudgeInPipeline, Accepted
        <5>2. QED
          BY <1>2, <5>1, DecidedSides
      <4>4. CASE \E q : Take(q, {t \in Incomplete(q) : t > s})
        BY <4>4, TakeSides
      <4>5. QED
        BY <1>5, <4>1, <4>2, <4>3, <4>4 DEF JudgeInPipeline, Outcomes
    <3>2. QED
      BY <1>5, <2>0, <2>2, <3>1, PipelineWatch
  <2>3. QED
    BY <2>1, <2>2
<1>6. QED
  BY <1>1, <1>3, <1>4, <1>5 DEF Judge

LEMMA ResultStepWatch ==
  ASSUME Watchful, NEW s \in Stages,
         RowInserted(s) \/ Poll(s) \/ Deadline(s) \/ Aborted(s) \/ AbortFails(s)
  PROVE  Watch'
<1>0. at[s] # "idle" /\ mode' = mode
  BY DEF RowInserted, Poll, Deadline, Aborted, AbortFails
<1>1. /\ run \in Runs /\ at \in [Stages -> Steps]
      /\ pc = "reconcile" => at[s] \in {"waiting", "aborting"}
      /\ pc = "round" => \A t \in Stages : t # s => at[t] = "idle"
      /\ pc \in {"collect", "retry"} => Status(run, s) # "blocked"
      /\ pc = "round" /\ mode = "parallel" => /\ s \in Incomplete(run)
                                              /\ at[s] \notin {"waiting", "aborting"}
      /\ pc \in {"round", "collect", "retry", "reconcile", "none"}
  BY <1>0, BusyWatched
<1>2. Sides /\ \A t \in Stages : Live(t) => Attended(t)
  BY DEF Watchful, Watch
<1>3. CASE RowInserted(s)
  <2>1. /\ at' = [at EXCEPT ![s] = "inserted"] /\ pc' = pc /\ run' = Older(run, s)
        /\ pc # "reconcile"
        /\ \A t \in Stages : t # s => row'[t] = row[t] /\ (t \in unwatched' <=> t \in unwatched)
    BY <1>1, <1>3 DEF RowInserted
  <2>2. /\ run'.status = run.status
        /\ \A t \in Stages : /\ Status(run', t) = Status(run, t)
                             /\ t # s => run'.stage[t] = run.stage[t]
    BY <1>1, <2>1 DEF Older, Runs, Status, StageRecords
  <2>3. Sides'
    BY <1>0, <1>1, <1>2, <2>1, <2>2 DEF Sides, Incomplete
  <2>4. Attended(s)'
    BY <1>1, <2>1 DEF Attended
  <2>5. Blocked(run) => Blocked(run')
    BY <2>2 DEF Blocked
  <2>6. ASSUME NEW t \in Stages, t # s, Live(t)' PROVE Attended(t)'
    <3>1. Attended(t) /\ at'[t] = at[t] /\ run'.stage[t] = run.stage[t]
      BY <1>1, <1>2, <2>1, <2>2, <2>6 DEF Live
    <3>2. \A u \in Stages : at'[u] # "idle" => at[u] # "idle"
      BY <1>0, <1>1, <2>1
    <3>3. QED
      BY <1>0, <2>1, <2>2, <2>5, <3>1, <3>2 DEF Attended, Cancelled, Incomplete, Status
  <2>7. QED
    BY <2>3, <2>4, <2>6 DEF Watch
<1>4. CASE Poll(s)
  <2>1. PICK o \in Results(s) : Judge(s, o)
    BY <1>4 DEF Poll
  <2>2. o \in Outcomes(s)
    BY ResultTypes DEF Watchful, Frugal, Heedful
  <2>3. at[s] = "waiting" /\ UNCHANGED <<mode, row, unwatched>>
    BY <1>4 DEF Poll, durable
  <2>4. ASSUME Live(s)' PROVE Cancelled(run) /\ o = "cancelled"
    <3>1. Live(s) /\ row[s] = "open"
      BY <2>3, <2>4 DEF Live
    <3>2. CASE Cancelled(run)
      BY <2>1, <3>2 DEF Results
    <3>3. CASE ~Cancelled(run)
      <4>1. run.stage[s].task = "newest"
        BY <1>2, <2>3, <3>1, <3>3 DEF Attended
      <4>2. QED
        BY <2>1, <3>1, <3>3, <4>1 DEF Results
    <3>4. QED
      BY <3>2, <3>3
  <2>5. QED
    BY <2>1, <2>2, <2>3, <2>4, JudgeWatch
<1>5. CASE Deadline(s)
  <2>1. /\ at' = [at EXCEPT ![s] = "aborting"] /\ at[s] = "waiting"
        /\ UNCHANGED <<pc, run, row, unwatched>>
    BY <1>5 DEF Deadline, durable, past
  <2>2. Sides'
    BY <1>0, <1>1, <1>2, <2>1 DEF Sides
  <2>3. ASSUME NEW t \in Stages, Live(t)' PROVE Attended(t)'
    <3>1. Attended(t)
      BY <1>2, <2>1, <2>3 DEF Live
    <3>2. \A u \in Stages : at'[u] # "idle" <=> at[u] # "idle"
      BY <1>1, <2>1
    <3>3. QED
      BY <1>0, <1>1, <2>1, <3>1, <3>2 DEF Attended
  <2>4. QED
    BY <2>2, <2>3 DEF Watch
<1>6. CASE Aborted(s)
  <2>1. /\ at[s] = "aborting" /\ UNCHANGED <<mode, unwatched>>
        /\ \A t \in Stages : t # s => row'[t] = row[t]
        /\ row'[s] # "open"
    BY <1>6 DEF Aborted, past, Watchful, Frugal, Heedful, Types
  <2>2. \E o \in {"blocker", "cancelled", "failed"} : Judge(s, o)
    BY <1>6 DEF Aborted
  <2>3. {"blocker", "cancelled", "failed"} \subseteq Outcomes(s)
    BY DEF Outcomes
  <2>4. ~Live(s)'
    BY <2>1 DEF Live
  <2>5. QED
    BY <2>1, <2>2, <2>3, <2>4, JudgeWatch
<1>7. CASE AbortFails(s)
  <2>1. /\ pc' = "none" /\ at' = [at EXCEPT ![s] = "idle"] /\ UNCHANGED <<row, unwatched>>
        /\ run'.stage = run.stage
        /\ Cancelled(run) => Cancelled(run')
    BY <1>1, <1>7 DEF AbortFails, Fail, Go, durable, past, Runs
  <2>2. ASSUME NEW t \in Stages, Live(t)' PROVE Attended(t)'
    <3>1. Attended(t) /\ at'[t] \in {at[t], "idle"}
      BY <1>1, <1>2, <2>1, <2>2 DEF Live
    <3>2. QED
      BY <2>1, <3>1 DEF Attended, Cancelled
  <2>3. QED
    BY <2>1, <2>2 DEF Watch, Sides
<1>8. QED
  BY <1>3, <1>4, <1>5, <1>6, <1>7

LEMMA RestartWatch ==
  ASSUME Watchful, Restart PROVE Watch'
<1>0. saved \in Runs
  BY DEF Watchful, Frugal, Heedful, Types, DriverTypes
<1>1. \A q : End(q) => Watch'
  BY QuitWatch DEF End, Go
<1>2. CASE Reconcile(saved, 0)
  <2>1. ASSUME NEW t \in Stages, Live(t)'
        PROVE  t > 0 /\ AtWork(saved, t) /\ saved.stage[t].task = "newest"
    BY <2>1, StagesAreSome DEF Restart, Live, Stages
  <2>2. QED
    BY <1>0, <1>2, <2>1, ReconcileWatch
<1>3. QED
  BY <1>1, <1>2 DEF Restart

LEMMA OtherStepWatch ==
  ASSUME Watchful, \/ CancelRun \/ Restart \/ UNCHANGED vars
                   \/ \E s \in Stages : RowEnds(s) \/ CancelRow(s)
  PROVE  Watch'
<1>0. /\ run \in Runs /\ Sides /\ \A s \in Stages : Live(s) => Attended(s)
      /\ row = [s \in Stages |-> row[s]]
  BY DEF Watchful, Frugal, Heedful, Types, DriverTypes, Watch
<1>1. CASE CancelRun
  <2>. DEFINE active == {s \in Stages : AtWork(run, s)}
  <2>. DEFINE q == Mark(run, active, "cancelled")
  <2>1. /\ run' = [q EXCEPT !.status = "cancelled"]
        /\ UNCHANGED <<pc, at, mode, row, unwatched>>
    BY <1>1 DEF CancelRun, durable, past
  <2>2. /\ q \in Runs
        /\ \A s \in Stages : /\ Status(q, s) \in {Status(run, s), "cancelled"}
                             /\ q.stage[s].task = run.stage[s].task
    BY <1>0, MarkTypes DEF Mark, Status, Runs, StageStatuses, StageRecords
  <2>. HIDE DEF q
  <2>3. run'.stage = q.stage /\ Cancelled(run')
    BY <2>1, <2>2 DEF Runs, Cancelled
  <2>4. \A s \in Stages : /\ s \in Incomplete(run) => s \in Incomplete(run')
                          /\ Status(run, s) # "blocked" => Status(run', s) # "blocked"
                          /\ run'.stage[s].task = run.stage[s].task
    BY <2>2, <2>3 DEF Incomplete, Status
  <2>5. Sides'
    BY <1>0, <2>1, <2>4 DEF Sides
  <2>6. ASSUME NEW s \in Stages, Live(s)' PROVE Attended(s)'
    <3>1. Attended(s)
      BY <1>0, <2>1, <2>6 DEF Live
    <3>2. QED
      BY <2>1, <2>3, <2>4, <3>1 DEF Attended
  <2>7. QED
    BY <2>5, <2>6 DEF Watch
<1>2. CASE Restart
  BY <1>2, RestartWatch
<1>3. ASSUME UNCHANGED <<mode, run, pc, at, unwatched>>,
             \A s \in Stages : Live(s)' => Live(s)
      PROVE  Watch'
  BY <1>0, <1>3 DEF Watch, Sides, Attended, Status, Incomplete, AtWork, Cancelled, Blocked
<1>4. ASSUME NEW s \in Stages, RowEnds(s) \/ CancelRow(s) PROVE Watch'
  <2>1. /\ UNCHANGED <<mode, run, pc, at, unwatched>>
        /\ \A t \in Stages : row'[t] = row[t] \/ row'[t] # "open"
    BY <1>0, <1>4 DEF RowEnds, CancelRow, driver, past, Outcomes, Accepted
  <2>2. \A t \in Stages : Live(t)' => Live(t)
    BY <2>1 DEF Live
  <2>3. QED
    BY <1>3, <2>1, <2>2
<1>5. CASE UNCHANGED vars
  <2>1. UNCHANGED <<mode, run, pc, at, unwatched, row>>
    BY <1>5 DEF vars, durable, driver, past
  <2>2. \A t \in Stages : Live(t)' => Live(t)
    BY <2>1 DEF Live
  <2>3. QED
    BY <1>3, <2>1, <2>2
<1>6. QED
  BY <1>1, <1>2, <1>4, <1>5

\* A stage never has two workers: neither a deadline, a failover, a retry, a
\* cancellation, nor a restart posts a task for a stage whose last one may still
\* be editing the worktree, but for the rows a restart does not wait for.
THEOREM CompanyOneWorker == Spec => OneWorker
<1>1. Init => Watchful
  <2>. SUFFICES ASSUME Init PROVE Watchful
    OBVIOUS
  <2>1. Frugal
    BY FrugalInit
  <2>2. pc = "planning" /\ \A s \in Stages : row[s] = "none"
    BY DEF Init
  <2>3. QED
    BY <2>1, <2>2 DEF Watchful, Watch, Sides, Live
<1>2. Watchful /\ [Next]_vars => Watchful'
  <2>. SUFFICES ASSUME Watchful, [Next]_vars PROVE Watchful'
    OBVIOUS
  <2>1. Frugal'
    BY FrugalStep DEF Watchful
  <2>2. Watch'
    BY DriverStepWatch, PostingStepWatch, ResultStepWatch, OtherStepWatch
      DEF Next, Work, Others, StageStep
  <2>3. QED
    BY <2>1, <2>2 DEF Watchful
<1>3. Watchful /\ [Next]_vars
        => [\A s \in Stages : Inserted(s) => row[s] # "open" \/ s \in unwatched]_vars
  BY DEF Watchful, Watch, Live, Attended, Inserted
<1>4. QED
  BY <1>1, <1>2, <1>3, PTL DEF Spec, OneWorker

-----------------------------------------------------------------------------
(* A completed run has earned it                                           *)

\* The run is over without being completed: only a restart may write more than
\* its stages.
Closed == pc = "none" /\ run.status \notin {"active", "completed"}

\* A stage of a pipeline is between two candidates: its status is still the
\* verdict on the last one.
Trying(s) == mode = "pipeline" /\ pc = "round" /\ at[s] \in {"posting", "inserted"}

\* No stage was left out, or all that are incomplete were.
Whole(r)    == \A s \in Stages : Status(r, s) # "skipped"
Skipping(r) == \A s \in Incomplete(r) : Status(r, s) = "skipped"

\* The stage s stands after a gate whose report rejected the port.
Rejected(s) == /\ Gate \in Stages /\ s > Gate
               /\ row[Gate] = "reject" /\ Status(run, Gate) = "completed"
               /\ run.stage[Gate].task = "newest" /\ saved.stage[Gate].task = "newest"

\* What stands behind the statuses of the stages while the run can be completed.
Accounted ==
  /\ pc = "none" => at = AllIdle
  /\ \A s \in Stages \ doubted :
       Status(run, s) = "completed" => row[s] \in Accepted(s) \/ Trying(s)
  /\ \A s \in Stages : Status(run, s) = "skipped" => Rejected(s)
  /\ pc = "round" \/ run.done = 0 \/ mode = "parallel" => Whole(run)
  /\ \A s \in Stages : at[s] # "idle" => Status(run, s) # "completed" \/ Trying(s)
  /\ pc = "quality" => Skipping(run)
  /\ run.status = "completed" => pc = "none" /\ Skipping(run)
  /\ pc \in {"planning", "designing", "backoff"} /\ Iteration(run) = 1 => Whole(run)

Sound == /\ \A s \in Stages : Status(saved, s) = Status(run, s)
         /\ Closed \/ Accounted

\* What an operator needs of the run r it starts from.
Worth(r)  == \A s \in Stages \ doubted' : Status(r, s) = "completed" => row'[s] \in Accepted(s)'
Spared(r) == \A s \in Stages : Status(r, s) = "skipped" =>
               /\ Gate \in Stages /\ s > Gate
               /\ row'[Gate] = "reject" /\ Status(r, Gate) = "completed"
               /\ r.stage[Gate].task = "newest"
Fair(r)   == /\ r \in Runs /\ Worth(r) /\ Spared(r)
             /\ mode' = "parallel" => Whole(r)

\* Nothing was left out of a run whose first iteration is to come.
Sure(r)   == Fair(r) /\ (r.done = 0 \/ Iteration(r) = 1 => Whole(r))

LEMMA ClosedSound ==
  ASSUME NEW r, run' = r, saved' = r, pc' = "none", r.status \notin {"active", "completed"}
  PROVE  Sound'
BY DEF Sound, Closed, Status

LEMMA FailSound ==
  ASSUME NEW r \in Runs, NEW steps, Fail(r, steps) PROVE Sound'
<1>1. CASE Cancelled(r)
  BY <1>1, ClosedSound DEF Fail, Go, Cancelled
<1>2. CASE ~Cancelled(r)
  <2>1. [r EXCEPT !.status = "failed"].status = "failed"
    BY DEF Runs
  <2>2. QED
    BY <1>2, <2>1, ClosedSound DEF Fail, Go
<1>3. QED
  BY <1>1, <1>2

LEMMA SavedSound ==
  ASSUME NEW r, Fair(r), NEW phase, NEW steps,
         run' = r, saved' = r, pc' = phase, at' = steps,
         phase = "none" => steps = AllIdle,
         \A s \in Stages : steps[s] # "idle" => Status(r, s) # "completed",
         phase = "round" \/ r.done = 0 => Whole(r),
         phase = "quality" => Skipping(r),
         r.status = "completed" => phase = "none" /\ Skipping(r),
         phase \in {"planning", "designing", "backoff"} /\ Iteration(r) = 1 => Whole(r)
  PROVE  Sound'
<1>1. Accounted'
  BY DEF Accounted, Fair, Worth, Spared, Whole, Skipping, Rejected, Status, Incomplete, Iteration
<1>2. QED
  BY <1>1 DEF Sound, Status

LEMMA GoSound ==
  ASSUME NEW r, Fair(r), NEW phase, NEW steps, Go(r, phase, steps),
         phase = "none" => steps = AllIdle,
         \A s \in Stages : steps[s] # "idle" => Status(r, s) # "completed",
         phase = "round" \/ r.done = 0 => Whole(r),
         phase = "quality" => Skipping(r),
         r.status = "completed" => phase = "none" /\ Skipping(r),
         phase \in {"planning", "designing", "backoff"} /\ Iteration(r) = 1 => Whole(r)
  PROVE  Sound'
<1>1. run' = r /\ saved' = r /\ pc' = phase /\ at' = steps
  BY DEF Go
<1>2. QED
  BY <1>1, SavedSound

LEMMA EndSound ==
  ASSUME NEW r, Fair(r), End(r), r.done = 0 => Whole(r), r.status = "completed" => Skipping(r)
  PROVE  Sound'
BY GoSound DEF End, AllIdle

\* The statuses of the stages are all there is to it.
LEMMA SameFair ==
  ASSUME NEW r, Fair(r), NEW q \in Runs, q.stage = r.stage
  PROVE  /\ Fair(q)
         /\ Whole(q) <=> Whole(r)
         /\ Skipping(q) <=> Skipping(r)
         /\ Incomplete(q) = Incomplete(r)
         /\ Blocked(q) <=> Blocked(r)
BY DEF Fair, Worth, Spared, Whole, Skipping, Incomplete, Status, Blocked

\* A run is finalized as completed only if nothing but skipped stages is left.
LEMMA FinalizedSound ==
  ASSUME NEW r \in Runs, End(Finalized(r)), r.status # "completed",
         \/ Cancelled(r) \/ Blocked(r)
         \/ Fair(r) /\ (r.done = 0 => Whole(r))
  PROVE  Sound'
<1>. DEFINE q == Finalized(r)
<1>1. q \in Runs /\ q.stage = r.stage /\ q.done = r.done
  BY FinalTypes, FinalKin
<1>2. /\ q.status = IF Cancelled(r) THEN "cancelled" ELSE Verdict(r)
  BY DEF Finalized, Runs, Cancelled
<1>3. /\ Verdict(r) \in {"partial", "completed", "failed"}
      /\ Verdict(r) = "completed" => Skipping(r) /\ ~Blocked(r)
  BY DEF Verdict, Skipping
<1>. HIDE DEF q
<1>4. CASE q.status \in {"cancelled", "partial", "failed"}
  BY <1>4, ClosedSound DEF End, Go, q
<1>5. CASE q.status = "completed"
  <2>1. Fair(r) /\ (r.done = 0 => Whole(r)) /\ Skipping(r)
    BY <1>2, <1>3, <1>5
  <2>2. Fair(q) /\ Skipping(q) /\ (q.done = 0 => Whole(q))
    BY <1>1, <2>1, SameFair
  <2>3. QED
    BY <2>2, EndSound DEF q
<1>6. QED
  BY <1>2, <1>3, <1>4, <1>5

LEMMA RoundEndsSound ==
  ASSUME NEW r \in Runs, RoundEnds(r), r.status # "completed",
         Cancelled(r) \/ Blocked(r) \/ Fair(r)
  PROVE  Sound'
<1>. DEFINE over == [r EXCEPT !.done = Iteration(r)]
<1>1. /\ over \in Runs /\ over.stage = r.stage /\ over.status = r.status
      /\ over.done \in 1..MaxIterations
  BY IterationTypes DEF Runs
<1>2. Blocked(over) <=> Blocked(r)
  BY <1>1 DEF Blocked, Status
<1>3. over.done # 0 /\ (over.done < MaxIterations => Iteration(over) # 1)
  BY <1>1, LimitsAreNat DEF Iteration
<1>. HIDE DEF over
<1>4. CASE Cancelled(r)
  BY <1>4, ClosedSound DEF RoundEnds, End, Go, Cancelled
<1>5. CASE ~Cancelled(r) /\ Blocked(r)
  BY <1>1, <1>2, <1>5, FinalizedSound DEF RoundEnds, over
<1>6. CASE ~Cancelled(r) /\ ~Blocked(r)
  <2>1. Fair(over) /\ (Skipping(r) => Skipping(over))
    BY <1>1, <1>6, SameFair
  <2>2. CASE Verified(r) /\ Go(over, "quality", AllIdle)
    <3>1. Skipping(over)
      BY <2>1, <2>2 DEF Verified, Skipping
    <3>2. QED
      BY <1>1, <1>3, <2>1, <2>2, <3>1, GoSound DEF AllIdle
  <2>3. CASE over.done < MaxIterations /\ Go(over, "backoff", AllIdle)
    BY <1>1, <1>3, <2>1, <2>3, GoSound DEF AllIdle
  <2>4. CASE End(Finalized(over))
    BY <1>1, <1>3, <2>1, <2>4, FinalizedSound
  <2>5. QED
    BY <1>6, <2>2, <2>3, <2>4 DEF RoundEnds, over
<1>7. QED
  BY <1>4, <1>5, <1>6

LEMMA TakeSound ==
  ASSUME NEW r, NEW left \in SUBSET Incomplete(r), Take(r, left), Fair(r), Whole(r),
         r.status # "completed"
  PROVE  Sound'
<1>1. CASE left = {}
  BY <1>1, RoundEndsSound DEF Take, Fair
<1>2. CASE left # {}
  <2>1. Go(r, "round", Only(First(left), "choosing"))
    BY <1>2 DEF Take
  <2>2. First(left) \in Incomplete(r)
    <3>1. left \in SUBSET Nat
      BY StagesAreSome DEF Incomplete, Stages
    <3>2. QED
      BY <1>2, <3>1, FirstIsLeast
  <2>3. \A s \in Stages : Only(First(left), "choosing")[s] # "idle" => Status(r, s) # "completed"
    BY <2>2 DEF Only, AllIdle, Incomplete
  <2>4. QED
    BY <2>1, <2>3, GoSound
<1>3. QED
  BY <1>1, <1>2

LEMMA ReopenedFair ==
  ASSUME NEW r, NEW S \in SUBSET Incomplete(r), Fair(r)
  PROVE  /\ Reopened(r, S) \in Runs /\ Reopened(r, S).status = r.status
         /\ Worth(Reopened(r, S))
         /\ S = Incomplete(r) => Fair(Reopened(r, S)) /\ Whole(Reopened(r, S))
<1>. DEFINE q == Reopened(r, S)
<1>1. /\ q \in Runs /\ q.status = r.status
      /\ \A s \in Stages : q.stage[s] = IF s \in S THEN [status |-> "pending", task |-> "none"]
                                        ELSE r.stage[s]
  BY ReopenedTypes DEF Reopened, Fair, Runs
<1>. HIDE DEF q
<1>2. Worth(q)
  BY <1>1 DEF Fair, Worth, Status
<1>3. S = Incomplete(r) => Whole(q)
  BY <1>1 DEF Whole, Incomplete, Status
<1>4. QED
  BY <1>1, <1>2, <1>3 DEF Fair, Whole, Spared, q

LEMMA UnassignedSound ==
  ASSUME NEW r \in Runs, NEW S, Unassigned(r, S) PROVE Sound'
BY MarkTypes, FailSound DEF Unassigned, StageStatuses

LEMMA IterateSound ==
  ASSUME NEW r \in Runs, Iterate(r), r.status # "completed",
         Sure(r) \/ (Blocked(r) /\ r.status = "partial")
  PROVE  Sound'
<1>1. CASE Cancelled(r) \/ (Blocked(r) /\ r.status = "partial")
  BY <1>1, ClosedSound DEF Iterate, End, Go, Cancelled
<1>2. CASE ~Cancelled(r) /\ Blocked(r) /\ Sure(r)
  BY <1>2, EndSound DEF Iterate, Sure
<1>3. CASE ~Cancelled(r) /\ ~Blocked(r) /\ Sure(r)
  <2>1. CASE Iteration(r) = 1 /\ Execute(r)
    BY <1>3, <2>1, TakeSound DEF Execute, Sure
  <2>2. CASE Execute(Reopened(r, Incomplete(r)))
    <3>. DEFINE q == Reopened(r, Incomplete(r))
    <3>1. Fair(q) /\ Whole(q) /\ q.status # "completed"
      BY <1>3, ReopenedFair DEF Sure
    <3>. HIDE DEF q
    <3>2. QED
      BY <2>2, <3>1, TakeSound DEF Execute, q
  <2>3. CASE \E S \in SUBSET Incomplete(r) : Unassigned(Reopened(r, Incomplete(r) \ S), S)
    BY <2>3, ReopenedTypes, UnassignedSound
  <2>4. QED
    BY <1>3, <2>1, <2>2, <2>3 DEF Iterate
<1>4. QED
  BY <1>1, <1>2, <1>3

\* What an iteration may start from.
Startable(r) == /\ r \in Runs /\ r.status # "completed"
                /\ Sure(r) \/ (Blocked(r) /\ r.status = "partial")

LEMMA ReselectSound ==
  ASSUME NEW r, Startable(r), Reselect(r) PROVE Sound'
<1>1. CASE End([r EXCEPT !.status = "planned"])
  <2>1. [r EXCEPT !.status = "planned"].status = "planned"
    BY DEF Runs, Startable
  <2>2. QED
    BY <1>1, <2>1, ClosedSound DEF End, Go
<1>2. CASE Iterate(r)
  BY <1>2, IterateSound DEF Startable
<1>3. CASE \E S \in SUBSET Stages : Unassigned(r, S)
  BY <1>3, UnassignedSound DEF Startable
<1>4. QED
  BY <1>1, <1>2, <1>3 DEF Reselect

LEMMA DriveSound ==
  ASSUME NEW r, Startable(r), Design(r) \/ Drive(r),
         Sure(r) \/ Ready(r)
  PROVE  Sound'
<1>1. CASE Reselect(r)
  BY <1>1, ReselectSound
<1>2. CASE Go([r EXCEPT !.status = "active"], "designing", AllIdle) /\ ~r.designed
  <2>. DEFINE q == [r EXCEPT !.status = "active"]
  <2>1. q \in Runs /\ q.stage = r.stage /\ q.done = r.done /\ q.status = "active"
    BY DEF Startable, Runs, RunStatuses
  <2>2. Sure(r)
    BY <1>2 DEF Ready
  <2>. HIDE DEF q
  <2>3. Fair(q) /\ (Whole(r) => Whole(q)) /\ Iteration(q) = Iteration(r)
    BY <2>1, <2>2, SameFair DEF Sure, Iteration
  <2>4. Go(q, "designing", AllIdle)
    BY <1>2 DEF q
  <2>5. QED
    BY <2>1, <2>2, <2>3, <2>4, GoSound DEF Sure, AllIdle
<1>3. CASE Go(r, "planning", AllIdle) /\ ~discussed
  BY <1>3, GoSound DEF Startable, Sure, Ready, AllIdle
<1>4. QED
  BY <1>1, <1>2, <1>3 DEF Design, Drive

LEMMA ResumedSound ==
  ASSUME NEW r \in Runs, Resumed(r), r.status # "completed",
         \/ Fair(r) /\ (r.done = 0 => Whole(r))
         \/ Blocked(r) /\ r.status = "partial" /\ Ready(r)
  PROVE  Sound'
<1>. DEFINE q == [r EXCEPT !.resumes = @ + 1]
<1>1. /\ q \in Runs /\ q.stage = r.stage /\ q.status = r.status /\ q.done = r.done
      /\ q.designed = r.designed
  BY DEF Runs
<1>2. /\ Blocked(r) => Blocked(q)
      /\ Fair(r) => Fair(q) /\ (Whole(r) => Whole(q))
  BY <1>1, SameFair DEF Blocked, Status
<1>3. Incomplete(q) = Incomplete(r)
  BY <1>1 DEF Incomplete, Status
<1>. HIDE DEF q
<1>4. CASE End(Finalized(q))
  BY <1>1, <1>2, <1>4, FinalizedSound
<1>5. CASE Drive(q) /\ (Incomplete(r) = {} \/ r.done < MaxIterations)
  <2>1. CASE Blocked(r) /\ r.status = "partial" /\ Ready(r)
    BY <1>1, <1>2, <1>5, <2>1, DriveSound DEF Startable, Ready
  <2>2. CASE Fair(r) /\ (r.done = 0 => Whole(r))
    <3>1. Incomplete(q) = {} => Whole(q)
      BY DEF Whole, Incomplete
    <3>2. r.done < MaxIterations /\ Iteration(q) = 1 => r.done = 0
      BY <1>1, LimitsAreNat DEF Iteration, Runs
    <3>3. Sure(q)
      BY <1>1, <1>2, <1>3, <1>5, <2>2, <3>1, <3>2 DEF Sure
    <3>4. QED
      BY <1>1, <1>5, <3>3, DriveSound DEF Startable
  <2>3. QED
    BY <2>1, <2>2
<1>6. r.done >= MaxIterations \/ r.done < MaxIterations
  BY LimitsAreNat DEF Runs
<1>7. QED
  BY <1>4, <1>5, <1>6 DEF Resumed, q

LEMMA ReconcileSound ==
  ASSUME NEW r, NEW from, Reconcile(r, from), Fair(r), r.status # "completed",
         r.done = 0 => Whole(r)
  PROVE  Sound'
<1>. DEFINE left == {s \in Stages : s > from /\ r.stage[s].task # "none" /\ AtWork(r, s)}
<1>1. CASE left = {}
  BY <1>1, ResumedSound DEF Reconcile, Fair
<1>2. CASE left # {}
  <2>1. Go(r, "reconcile", Only(First(left), "waiting"))
    BY <1>2 DEF Reconcile
  <2>2. left \in SUBSET Nat
    BY StagesAreSome DEF Stages
  <2>3. First(left) \in left
    BY <1>2, <2>2, FirstIsLeast
  <2>4. \A s \in Stages : Only(First(left), "waiting")[s] # "idle" => Status(r, s) # "completed"
    BY <2>3 DEF Only, AllIdle, AtWork
  <2>5. QED
    BY <2>1, <2>4, GoSound
<1>3. QED
  BY <1>1, <1>2

LEMMA WholeFair ==
  ASSUME NEW r \in Runs, Worth(r), Whole(r) PROVE Fair(r)
BY DEF Fair, Spared, Whole

LEMMA WithStatus ==
  ASSUME NEW r \in Runs, NEW s \in Stages, NEW status \in StageStatuses
  PROVE  /\ With(r, s, status) \in Runs /\ With(r, s, status).status = r.status
         /\ Status(With(r, s, status), s) = status
         /\ \A t \in Stages : t # s => Status(With(r, s, status), t) = Status(r, t)
BY WithOthers DEF Status

\* The stage s gets another status.
LEMMA WithWorth ==
  ASSUME NEW r \in Runs, NEW s \in Stages, NEW status \in StageStatuses,
         \A t \in Stages \ doubted' :
           t # s /\ Status(r, t) = "completed" => row'[t] \in Accepted(t)',
         status = "completed" => s \in doubted' \/ row'[s] \in Accepted(s)'
  PROVE  /\ With(r, s, status) \in Runs /\ With(r, s, status).status = r.status
         /\ Worth(With(r, s, status))
         /\ Whole(r) /\ status # "skipped" => Fair(With(r, s, status)) /\ Whole(With(r, s, status))
<1>. DEFINE q == With(r, s, status)
<1>1. /\ q \in Runs /\ q.status = r.status /\ Status(q, s) = status
      /\ \A t \in Stages : t # s => Status(q, t) = Status(r, t)
  BY WithStatus
<1>. HIDE DEF q
<1>2. Worth(q)
  BY <1>1 DEF Worth
<1>3. Whole(r) /\ status # "skipped" => Whole(q)
  BY <1>1 DEF Whole
<1>4. QED
  BY <1>1, <1>2, <1>3, WholeFair DEF q

LEMMA PostSound ==
  ASSUME NEW r \in Runs, NEW s \in Stages, NEW n, Post(r, s, n), mode' = "pipeline", Whole(r),
         r.status # "completed",
         \A t \in Stages \ doubted' :
           t # s /\ Status(r, t) = "completed" => row'[t] \in Accepted(t)'
  PROVE  Sound'
<1>1. /\ saved' = r /\ run'.status = r.status /\ run'.done = r.done
      /\ \A t \in Stages : Status(run', t) = Status(r, t)
      /\ pc' = "round" /\ at' = Only(s, "posting")
  BY DEF Post, Runs, Status, StageRecords
<1>2. \A t \in Stages : at'[t] # "idle" => t = s
  BY <1>1 DEF Only, AllIdle
<1>3. at'[s] = "posting"
  BY <1>1 DEF Only, AllIdle
<1>4. Trying(s)'
  BY <1>1, <1>3 DEF Trying
<1>5. \A t \in Stages : Status(run', t) # "skipped"
  BY <1>1 DEF Whole
<1>6. Accounted'
  BY <1>1, <1>2, <1>4, <1>5 DEF Accounted, Whole, Status
<1>7. QED
  BY <1>1, <1>6 DEF Sound, Status

LEMMA NextCandidateSound ==
  ASSUME NEW r \in Runs, NEW s \in Stages, NextCandidate(r, s), mode' = "pipeline", Whole(r),
         r.status # "completed",
         \A t \in Stages \ doubted' :
           t # s /\ Status(r, t) = "completed" => row'[t] \in Accepted(t)'
  PROVE  Sound'
<1>1. CASE Cancelled(r) /\ RoundEnds(r)
  BY <1>1, RoundEndsSound
<1>2. CASE Post(r, s, attempt + 1)
  BY <1>2, PostSound
<1>3. CASE RoundEnds(With(r, s, "failed"))
  BY <1>3, WithWorth, RoundEndsSound DEF StageStatuses
<1>4. QED
  BY <1>1, <1>2, <1>3 DEF NextCandidate

LEMMA JoinedSound ==
  ASSUME NEW r \in Runs, Joined(r), Worth(r), Whole(r), r.status # "completed" PROVE Sound'
<1>1. Fair(r)
  BY WholeFair
<1>2. CASE RoundEnds(r)
  BY <1>1, <1>2, RoundEndsSound
<1>3. ASSUME NEW S \in SUBSET Incomplete(r),
             Go(r, "retry", [s \in Stages |-> IF s \in S THEN "choosing" ELSE "idle"])
      PROVE  Sound'
  BY <1>1, <1>3, GoSound DEF Incomplete
<1>4. QED
  BY <1>2, <1>3 DEF Joined

LEMMA JoinSound ==
  ASSUME Sound, mode = "parallel", pc \in {"collect", "retry", "none"}, at \in [Stages -> Steps],
         NEW s \in Stages, at[s] # "idle", NEW r \in Runs, Join(r, s), r.status = run.status,
         \/ Closed
         \/ /\ Worth(r) /\ Whole(r)
            /\ \A t \in Stages : t # s => Status(r, t) = Status(run, t)
  PROVE  Sound'
<1>. DEFINE others == [at EXCEPT ![s] = "idle"]
<1>1. CASE pc = "none"
  <2>1. Closed
    BY <1>1 DEF Sound, Accounted, AllIdle
  <2>2. QED
    BY <1>1, <2>1, ClosedSound DEF Closed, Join, Go
<1>2. CASE pc # "none"
  <2>1. Accounted /\ Worth(r) /\ Whole(r) /\ Fair(r) /\ r.status # "completed"
    BY <1>2, WholeFair DEF Sound, Closed, Accounted
  <2>2. CASE Joined(r)
    BY <2>1, <2>2, JoinedSound
  <2>3. CASE Go(r, pc, others)
    <3>1. \A t \in Stages : others[t] # "idle" => Status(r, t) # "completed"
      BY <1>2, <2>1 DEF Accounted, Trying, Closed
    <3>2. QED
      BY <1>2, <2>1, <2>3, <3>1, GoSound
  <2>4. QED
    BY <1>2, <2>2, <2>3 DEF Join
<1>3. QED
  BY <1>1, <1>2

LEMMA CollectSound ==
  ASSUME NEW r \in Runs, Collect(r), Worth(r), Whole(r), r.status # "completed" PROVE Sound'
<1>. DEFINE has == {s \in Incomplete(r) : r.stage[s].task # "none"}
<1>1. CASE has = {}
  BY <1>1, JoinedSound DEF Collect
<1>2. CASE has # {}
  <2>. DEFINE q == Mark(r, has, "running")
  <2>. DEFINE steps == [s \in Stages |-> IF s \in has THEN "waiting" ELSE "idle"]
  <2>1. /\ q \in Runs /\ q.status = r.status
        /\ \A s \in Stages : Status(q, s) = (IF s \in has THEN "running" ELSE Status(r, s))
    BY MarkTypes DEF Mark, Runs, Status, StageStatuses, StageRecords
  <2>2. Go(q, "collect", steps)
    BY <1>2 DEF Collect
  <2>. HIDE DEF q
  <2>3. Worth(q) /\ Whole(q) /\ Fair(q)
    BY <2>1, WholeFair DEF Worth, Whole
  <2>4. \A s \in Stages : steps[s] # "idle" => Status(q, s) # "completed"
    BY <2>1
  <2>5. QED
    BY <2>1, <2>2, <2>3, <2>4, GoSound
<1>3. QED
  BY <1>1, <1>2

LEMMA DecidedSound ==
  ASSUME NEW r \in Runs, NEW s \in Stages, NEW o \in {"vague", "reject", "approve"},
         Decided(r, s, o), s = Gate, mode' = "pipeline", Worth(r), Whole(r), r.status # "completed",
         Status(r, s) = "completed", r.stage[s].task = "newest", row'[s] = o
  PROVE  Sound'
<1>. DEFINE read == [r EXCEPT !.decision = o]
<1>. DEFINE after == {t \in Stages : t > s}
<1>1. read \in Runs /\ read.stage = r.stage /\ read.status = r.status
  BY DEF Runs, Decisions
<1>2. Worth(read) /\ Whole(read) /\ Fair(read) /\ Incomplete(read) = Incomplete(r)
  BY <1>1, WholeFair, SameFair DEF Fair
<1>. HIDE DEF read
<1>3. CASE o = "vague"
  <2>1. RoundEnds(With(read, s, "failed"))
    BY <1>3 DEF Decided, read
  <2>2. Fair(With(read, s, "failed")) /\ With(read, s, "failed").status = r.status
    BY <1>1, <1>2, WithWorth DEF StageStatuses, Worth
  <2>3. QED
    BY <2>1, <2>2, RoundEndsSound DEF Fair
<1>4. CASE o = "reject"
  <2>. DEFINE q == Mark(read, after, "skipped")
  <2>1. /\ q \in Runs /\ q.status = read.status
        /\ \A t \in Stages :
             /\ Status(q, t) = (IF t \in after THEN "skipped" ELSE Status(read, t))
             /\ q.stage[t].task = read.stage[t].task
    BY <1>1, MarkTypes DEF Mark, Runs, Status, StageStatuses, StageRecords
  <2>2. RoundEnds(q)
    BY <1>4 DEF Decided, read
  <2>. HIDE DEF q
  <2>3. s \notin after /\ Status(q, s) = "completed" /\ q.stage[s].task = "newest"
    BY <1>1, <2>1, StagesAreSome DEF Stages, Status
  <2>4. Worth(q)
    BY <1>2, <2>1 DEF Worth
  <2>5. Spared(q)
    BY <1>2, <1>4, <2>1, <2>3 DEF Spared, Whole
  <2>6. QED
    BY <1>1, <2>1, <2>2, <2>4, <2>5, RoundEndsSound DEF Fair
<1>5. CASE o = "approve"
  <2>1. Take(read, after \cap Incomplete(read))
    BY <1>2, <1>5 DEF Decided, read
  <2>2. QED
    BY <1>1, <1>2, <2>1, TakeSound
<1>6. QED
  BY <1>3, <1>4, <1>5

\* The invariant on which a completed run rests.
Honest == Watchful /\ Sound

\* What an operator finds when no stage is being tried, in a phase of the driver.
LEMMA RunFair ==
  ASSUME Accounted, run \in Runs, pc # "none", UNCHANGED <<mode, row, doubted>>,
         \A s \in Stages : ~Trying(s)
  PROVE  /\ Fair(run) /\ run.status # "completed"
         /\ run.done = 0 => Whole(run)
BY DEF Accounted, Rejected, Fair, Worth, Spared, Accepted, Gated, Status

LEMMA DriverStepSound ==
  ASSUME Honest, DiscussionEnds \/ Designed \/ BackoffEnds \/ QualityEnds PROVE Sound'
<1>1. pc \in {"planning", "designing", "backoff", "quality"} /\ UNCHANGED <<mode, row, doubted>>
  BY DEF DiscussionEnds, Designed, BackoffEnds, QualityEnds, durable, past
<1>2. run \in Runs /\ Accounted
  BY <1>1 DEF Honest, Watchful, Frugal, Heedful, Types, DriverTypes, Sound, Closed
<1>3. Fair(run) /\ run.status # "completed" /\ (run.done = 0 => Whole(run))
  BY <1>1, <1>2, RunFair DEF Trying
<1>4. pc # "quality" => Sure(run)
  BY <1>1, <1>2, <1>3 DEF Accounted, Sure
<1>5. CASE DiscussionEnds
  BY <1>2, <1>3, <1>4, <1>5, DriveSound, FailSound DEF DiscussionEnds, Startable
<1>6. CASE Designed
  <2>. DEFINE q == [run EXCEPT !.designed = TRUE]
  <2>1. q \in Runs /\ q.stage = run.stage /\ q.status = run.status /\ q.done = run.done
    BY <1>2 DEF Runs
  <2>2. Reselect(q) /\ Sure(run)
    BY <1>4, <1>6 DEF Designed
  <2>. HIDE DEF q
  <2>3. Sure(q)
    BY <2>1, <2>2, SameFair DEF Sure, Iteration
  <2>4. QED
    BY <1>3, <2>1, <2>2, <2>3, ReselectSound DEF Startable
<1>7. CASE BackoffEnds
  BY <1>2, <1>3, <1>4, <1>7, IterateSound DEF BackoffEnds
<1>8. CASE QualityEnds
  <2>1. CASE End([run EXCEPT !.status = "completed"])
    <3>. DEFINE q == [run EXCEPT !.status = "completed"]
    <3>1. q \in Runs /\ q.stage = run.stage /\ q.done = run.done
      BY <1>2 DEF Runs, RunStatuses
    <3>2. Skipping(run)
      BY <1>2, <1>8 DEF Accounted, QualityEnds
    <3>. HIDE DEF q
    <3>3. Fair(q) /\ Skipping(q) /\ (q.done = 0 => Whole(q))
      BY <1>3, <3>1, <3>2, SameFair
    <3>4. QED
      BY <2>1, <3>3, EndSound DEF q
  <2>2. CASE run.done < MaxIterations /\ Iterate(run)
    <3>1. Iteration(run) = 1 => run.done = 0
      BY <1>2, <2>2, LimitsAreNat DEF Iteration, Runs
    <3>2. QED
      BY <1>2, <1>3, <2>2, <3>1, IterateSound DEF Sure
  <2>3. CASE End(Finalized(run))
    BY <1>2, <1>3, <2>3, FinalizedSound
  <2>4. QED
    BY <1>8, <2>1, <2>2, <2>3 DEF QualityEnds
<1>9. QED
  BY <1>5, <1>6, <1>7, <1>8

\* What is known of a run while work on the stage s goes on: either it is over,
\* or what the other stages are taken for is right.
LEMMA BusySound ==
  ASSUME Honest, NEW s \in Stages, at[s] # "idle"
  PROVE  /\ pc = "none" => Closed /\ mode = "parallel"
         /\ pc # "none" => Accounted /\ run.status # "completed"
         /\ pc \in {"round", "collect", "retry"} => Whole(run)
         /\ mode # "pipeline" => \A t \in Stages : ~Trying(t)
         /\ \A t \in Stages : t # s => ~Trying(t)
         /\ pc # "none" /\ ~Trying(s) => Status(run, s) # "completed"
<1>1. /\ pc = "none" => Closed
      /\ pc # "none" => Accounted
  BY DEF Honest, Sound, Closed, Accounted, AllIdle
<1>2. /\ mode \in {"pipeline", "parallel"}
      /\ mode = "pipeline" => pc \in {"round", "reconcile"}
      /\ pc \in {"collect", "retry"} => mode = "parallel"
      /\ pc = "round" => \A t \in Stages : t # s => at[t] = "idle"
  BY BusyWatched DEF Honest
<1>3. QED
  BY <1>1, <1>2 DEF Accounted, Trying

\* The rows of stages that are not worked on say what their statuses say.
LEMMA OthersWorth ==
  ASSUME Honest, NEW s \in Stages, at[s] # "idle", pc # "none", mode' = mode,
         \A t \in Stages : t # s => row'[t] = row[t],
         doubted \subseteq doubted'
  PROVE  /\ \A t \in Stages \ doubted' :
              t # s /\ Status(run, t) = "completed" => row'[t] \in Accepted(t)'
         /\ Status(run, s) # "completed" => Worth(run)
<1>1. Accounted /\ \A t \in Stages : t # s => ~Trying(t)
  BY BusySound
<1>2. QED
  BY <1>1 DEF Accounted, Worth, Accepted, Gated

LEMMA PostingStepSound ==
  ASSUME Honest, NEW s \in Stages,
         \/ ChosenInPipeline(s) \/ ChosenInParallel(s) \/ ChosenForRetry(s)
         \/ Refused(s) \/ Answered(s) \/ Staggered(s)
  PROVE  Sound'
<1>0. at[s] # "idle" /\ UNCHANGED <<mode, row, doubted>>
  BY DEF ChosenInPipeline, ChosenInParallel, ChosenForRetry, Refused, Answered, Staggered,
    durable, past
<1>1. /\ run \in Runs /\ at \in [Stages -> Steps]
      /\ pc \in {"round", "collect", "retry", "reconcile", "none"}
      /\ mode = "pipeline" => pc \in {"round", "reconcile"}
      /\ mode \in {"pipeline", "parallel"}
      /\ pc = "reconcile" => at[s] \in {"waiting", "aborting"}
      /\ at[s] = "staggering" => pc = "round" /\ mode = "parallel"
  BY <1>0, BusyWatched DEF Honest
<1>2. /\ pc = "none" => Closed
      /\ pc # "none" => run.status # "completed"
      /\ pc \in {"round", "collect", "retry"} => Whole(run)
      /\ pc # "none" /\ ~Trying(s) => Status(run, s) # "completed"
  BY <1>0, BusySound
<1>3. /\ pc # "none" => \A t \in Stages \ doubted' :
           t # s /\ Status(run, t) = "completed" => row'[t] \in Accepted(t)'
      /\ pc # "none" /\ Status(run, s) # "completed" => Worth(run)
  BY <1>0, OthersWorth
<1>4. pc # "none" /\ pc # "reconcile" =>
        \A status \in StageStatuses \ {"completed", "skipped"} :
          LET q == With(run, s, status)
          IN  q \in Runs /\ q.status = run.status /\ Worth(q) /\ Whole(q) /\ Fair(q)
  BY <1>1, <1>2, <1>3, WithWorth
<1>5. Sound
  BY DEF Honest
<1>6. CASE ChosenInPipeline(s)
  <2>1. pc = "round" /\ Whole(run) /\ Worth(run) /\ Fair(run) /\ mode' = "pipeline"
    BY <1>0, <1>1, <1>2, <1>3, <1>6, WholeFair DEF ChosenInPipeline, Trying
  <2>2. QED
    BY <1>1, <1>2, <1>3, <1>4, <1>6, <2>1, RoundEndsSound, PostSound
      DEF ChosenInPipeline, StageStatuses
<1>7. CASE ChosenInParallel(s)
  <2>1. /\ pc = "round" /\ Whole(run) /\ Worth(run) /\ Fair(run) /\ run.status # "completed"
        /\ mode = "parallel" /\ Status(run, s) # "completed"
    BY <1>1, <1>2, <1>3, <1>7, WholeFair DEF ChosenInParallel, Trying
  <2>2. PICK step \in Steps : Go(run, pc, [at EXCEPT ![s] = step])
    BY <1>7 DEF ChosenInParallel, Steps
  <2>. DEFINE steps == [at EXCEPT ![s] = step]
  <2>3. \A t \in Stages : steps[t] # "idle" => Status(run, t) # "completed"
    BY <1>1, <1>5, <2>1 DEF Sound, Closed, Accounted, Trying
  <2>4. Go(run, pc, steps)
    BY <2>2
  <2>. HIDE DEF steps
  <2>5. QED
    BY <2>1, <2>3, <2>4, GoSound
<1>8. CASE Staggered(s)
  <2>1. pc = "round" /\ Whole(run) /\ Worth(run) /\ Fair(run) /\ run.status # "completed"
    BY <1>1, <1>2, <1>3, <1>8, WholeFair DEF Staggered, Trying
  <2>2. QED
    BY <1>1, <1>8, <2>1, RoundEndsSound, CollectSound, TakeSound DEF Staggered
<1>9. CASE ChosenForRetry(s)
  <2>1. mode = "parallel" /\ pc \in {"collect", "retry", "none"}
    BY <1>1, <1>9 DEF ChosenForRetry
  <2>. DEFINE q == [Reopened(run, {s}) EXCEPT !.retried = @ \cup {s}]
  <2>2. /\ q \in Runs /\ q.status = run.status /\ Status(q, s) = "pending"
        /\ \A t \in Stages : t # s => Status(q, t) = Status(run, t)
    BY <1>1 DEF Reopened, Runs, Status, StageRecords, StageStatuses, Tasks
  <2>3. CASE Join(run, s)
    <3>1. pc # "none" => Worth(run) /\ Whole(run)
      BY <1>2, <1>3, <2>1 DEF Trying
    <3>2. QED
      BY <1>0, <1>1, <1>2, <1>5, <2>1, <2>3, <3>1, JoinSound
  <2>. HIDE DEF q
  <2>4. pc # "none" => Worth(q) /\ Whole(q) /\ Fair(q)
    BY <1>2, <1>3, <2>1, <2>2, WholeFair DEF Worth, Whole
  <2>5. CASE Join(q, s)
    BY <1>0, <1>1, <1>2, <1>5, <2>1, <2>2, <2>4, <2>5, JoinSound
  <2>6. CASE Go(q, pc, [at EXCEPT ![s] = "posting"])
    <3>1. CASE pc = "none"
      BY <1>2, <2>2, <2>6, <3>1, ClosedSound DEF Closed, Go
    <3>2. CASE pc # "none"
      <4>1. \A t \in Stages :
              [at EXCEPT ![s] = "posting"][t] # "idle" => Status(q, t) # "completed"
        BY <1>1, <1>5, <2>1, <2>2, <3>2 DEF Sound, Closed, Accounted, Trying
      <4>2. QED
        BY <1>2, <2>1, <2>2, <2>4, <2>6, <3>2, <4>1, GoSound
    <3>3. QED
      BY <3>1, <3>2
  <2>7. QED
    BY <1>9, <2>3, <2>5, <2>6 DEF ChosenForRetry, q
<1>10. CASE Refused(s)
  <2>. DEFINE q == With(run, s, "failed")
  <2>1. /\ q \in Runs /\ q.status = run.status /\ Status(q, s) = "failed"
        /\ \A t \in Stages : t # s => Status(q, t) = Status(run, t)
    BY <1>1, WithStatus DEF StageStatuses
  <2>2. at[s] = "posting" /\ pc # "reconcile"
    BY <1>1, <1>10 DEF Refused
  <2>3. pc # "none" => Worth(q) /\ Whole(q) /\ Fair(q)
    BY <1>4, <2>2 DEF StageStatuses
  <2>. HIDE DEF q
  <2>4. CASE mode = "pipeline" /\ NextCandidate(q, s)
    BY <1>0, <1>1, <1>2, <2>1, <2>2, <2>3, <2>4, NextCandidateSound DEF Worth
  <2>5. CASE pc = "round" /\ Go(q, pc, Only(s, "staggering"))
    <3>1. \A t \in Stages : Only(s, "staggering")[t] # "idle" => Status(q, t) # "completed"
      BY <2>1 DEF Only, AllIdle
    <3>2. QED
      BY <1>2, <2>1, <2>3, <2>5, <3>1, GoSound
  <2>6. CASE mode = "parallel" /\ pc # "round" /\ Join(q, s)
    <3>1. pc \in {"collect", "retry", "none"}
      BY <1>1, <2>2, <2>6
    <3>2. QED
      BY <1>0, <1>1, <1>2, <1>5, <2>1, <2>3, <2>6, <3>1, JoinSound
  <2>7. QED
    BY <1>1, <1>10, <2>4, <2>5, <2>6 DEF Refused, q
<1>11. CASE Answered(s)
  <2>. DEFINE r == [run EXCEPT !.stage[s].task = "newest"]
  <2>. DEFINE q == With(r, s, "running")
  <2>1. /\ r \in Runs /\ r.status = run.status /\ r.done = run.done
        /\ \A t \in Stages : Status(r, t) = Status(run, t)
    <3>1. r \in Runs
      BY <1>1, TaskTypes
    <3>2. QED
      BY <1>1, <3>1 DEF Runs, Status, StageRecords
  <2>2. /\ q \in Runs /\ q.status = run.status /\ Status(q, s) = "running"
        /\ \A t \in Stages : t # s => Status(q, t) = Status(run, t)
    <3>. HIDE DEF r
    <3>1. QED
      BY <2>1, WithStatus DEF StageStatuses
  <2>3. at[s] = "inserted" /\ pc # "reconcile"
    BY <1>1, <1>11 DEF Answered
  <2>. HIDE DEF q, r
  <2>4. pc # "none" => Worth(q) /\ Whole(q) /\ Fair(q)
    BY <1>1, <1>2, <1>3, <2>2, <2>3, WholeFair DEF Worth, Whole
  <2>5. pc # "none" /\ mode = "parallel" => Worth(r) /\ Whole(r) /\ Fair(r)
    BY <1>1, <1>2, <1>3, <2>1, <2>3, WholeFair DEF Worth, Whole, Trying
  <2>6. CASE /\ run' = q /\ saved' = q /\ pc' = pc
             /\ at' = [at EXCEPT ![s] = "waiting"]
    <3>1. CASE pc = "none"
      BY <1>2, <2>2, <2>6, <3>1, ClosedSound DEF Closed
    <3>2. CASE pc # "none"
      <4>1. \A t \in Stages :
              [at EXCEPT ![s] = "waiting"][t] # "idle" => Status(q, t) # "completed"
        BY <1>0, <1>1, <1>5, <2>2, <3>2, BusySound DEF Sound, Closed, Accounted
      <4>2. QED
        BY <1>1, <1>2, <2>2, <2>3, <2>4, <2>6, <3>2, <4>1, SavedSound
    <3>3. QED
      BY <3>1, <3>2
  <2>7. CASE mode = "parallel" /\ pc = "round" /\ Go(r, pc, Only(s, "staggering"))
    <3>1. \A t \in Stages : Only(s, "staggering")[t] # "idle" => Status(r, t) # "completed"
      BY <1>2, <2>1, <2>7 DEF Only, AllIdle, Trying
    <3>2. QED
      BY <1>2, <2>1, <2>5, <2>7, <3>1, GoSound
  <2>8. CASE mode = "parallel" /\ pc # "round" /\ Join(r, s)
    <3>1. pc \in {"collect", "retry", "none"}
      BY <1>1, <2>3, <2>8
    <3>2. QED
      BY <1>0, <1>1, <1>2, <1>5, <2>1, <2>5, <2>8, <3>1, JoinSound
  <2>9. QED
    BY <1>1, <1>11, <2>6, <2>7, <2>8 DEF Answered, q, r
<1>12. QED
  BY <1>6, <1>7, <1>8, <1>9, <1>10, <1>11

\* A blocker ends a pipeline, whatever becomes of the stages after it.
LEMMA BlockedPartial ==
  ASSUME NEW r \in Runs, NEW s \in Stages, Ready(r), mode # "parallel"
  PROVE  LET q == BlockedBy(r, s)
         IN  q \in Runs /\ Blocked(q) /\ q.status = "partial" /\ Ready(q)
<1>. DEFINE b == With(r, s, "blocked")
<1>. DEFINE S == {t \in Incomplete(r) : t > s}
<1>. DEFINE m == Mark(b, S, "skipped")
<1>1. b \in Runs /\ Ready(b) /\ Status(b, s) = "blocked"
  BY WithStatus, StageHeeds DEF StageStatuses
<1>2. s \notin S
  BY StagesAreSome DEF Stages
<1>. HIDE DEF b, S
<1>3. m \in Runs /\ Ready(m)
  BY <1>1, StageHeeds DEF StageStatuses
<1>4. Status(m, s) = "blocked"
  BY <1>1, <1>2 DEF Mark, Status, Runs
<1>. HIDE DEF m
<1>5. /\ [m EXCEPT !.status = "partial"] \in Runs
      /\ [m EXCEPT !.status = "partial"].status = "partial"
      /\ [m EXCEPT !.status = "partial"].stage = m.stage
      /\ Ready([m EXCEPT !.status = "partial"])
  BY <1>3 DEF Runs, RunStatuses, Ready
<1>6. BlockedBy(r, s) = [m EXCEPT !.status = "partial"]
  BY DEF BlockedBy, m, b, S
<1>7. QED
  BY <1>4, <1>5, <1>6 DEF Blocked, Status

\* The result of a stage that the last process left at work.
LEMMA ResumeJudged ==
  ASSUME Honest, NEW s \in Stages, at[s] # "idle", pc = "reconcile",
         NEW o \in Outcomes(s), JudgeRecovered(s, o), mode' = mode,
         \A t \in Stages : t # s => row'[t] = row[t],
         doubted \subseteq doubted',
         o \in Accepted(s) \cup {"poor"} => s \in doubted' \/ row'[s] \in Accepted(s)'
  PROVE  Sound'
<1>1. /\ run \in Runs /\ Ready(run) /\ mode \in {"pipeline", "parallel"}
  BY BusyWatched DEF Honest
<1>2. /\ Accounted /\ run.status # "completed" /\ Status(run, s) # "completed"
      /\ Worth(run)
  BY BusySound, OthersWorth DEF Trying
<1>3. /\ run.done = 0 \/ mode = "parallel" => Whole(run)
      /\ \A t \in Stages : Status(run, t) = "skipped" =>
           /\ Gate \in Stages /\ t > Gate /\ Gate # s
           /\ row'[Gate] = "reject" /\ Status(run, Gate) = "completed"
           /\ run.stage[Gate].task = "newest"
  BY <1>2 DEF Accounted, Rejected
<1>4. ASSUME NEW status \in StageStatuses \ {"skipped"},
             status = "completed" => s \in doubted' \/ row'[s] \in Accepted(s)'
      PROVE  LET q == With(run, s, status)
             IN  /\ Fair(q) /\ q.status = run.status
                 /\ q.done = 0 => Whole(q)
  <2>. DEFINE q == With(run, s, status)
  <2>1. /\ q \in Runs /\ q.status = run.status /\ Worth(q) /\ Status(q, s) = status
        /\ \A t \in Stages : t # s => q.stage[t] = run.stage[t] /\ Status(q, t) = Status(run, t)
        /\ Whole(run) => Whole(q)
    BY <1>1, <1>2, <1>4, WithWorth, WithStatus, WithOthers DEF Worth
  <2>2. q.done = run.done
    BY <1>1, MarkKin DEF Kin
  <2>. HIDE DEF q
  <2>3. Spared(q)
    BY <1>3, <1>4, <2>1 DEF Spared
  <2>4. QED
    BY <1>3, <2>1, <2>2, <2>3 DEF Fair, q
<1>5. CASE o = "blocker"
  <2>. DEFINE q == BlockedBy(run, s)
  <2>1. Resumed(q)
    BY <1>5 DEF JudgeRecovered, Accepted
  <2>2. CASE mode = "parallel"
    <3>1. q = With(run, s, "blocked")
      BY <2>2 DEF BlockedBy
    <3>2. Fair(q) /\ q.status = run.status /\ (q.done = 0 => Whole(q))
      BY <1>4, <3>1 DEF StageStatuses
    <3>. HIDE DEF q
    <3>3. QED
      BY <1>2, <2>1, <3>2, ResumedSound DEF Fair
  <2>3. CASE mode # "parallel"
    <3>1. q \in Runs /\ Blocked(q) /\ q.status = "partial" /\ Ready(q)
      BY <1>1, <2>3, BlockedPartial
    <3>. HIDE DEF q
    <3>2. QED
      BY <2>1, <3>1, ResumedSound
  <2>4. QED
    BY <2>2, <2>3
<1>6. ASSUME NEW status \in {"cancelled", "failed", "completed"},
             Reconcile(With(run, s, status), s),
             status = "completed" => s \in doubted' \/ row'[s] \in Accepted(s)'
      PROVE  Sound'
  <2>. DEFINE q == With(run, s, status)
  <2>1. Fair(q) /\ q.status # "completed" /\ (q.done = 0 => Whole(q))
    BY <1>2, <1>4, <1>6 DEF StageStatuses
  <2>. HIDE DEF q
  <2>2. QED
    BY <1>6, <2>1, ReconcileSound DEF q
<1>7. QED
  BY <1>5, <1>6 DEF JudgeRecovered, Outcomes

LEMMA JudgeSound ==
  ASSUME Honest, NEW s \in Stages, at[s] \in {"waiting", "aborting"},
         NEW o \in Outcomes(s), Judge(s, o), mode' = mode,
         \A t \in Stages : t # s => row'[t] = row[t],
         doubted \subseteq doubted',
         o \in Accepted(s) => row'[s] = o /\ run.stage[s].task = "newest",
         pc = "reconcile" /\ o = "poor" => s \in doubted'
  PROVE  Sound'
<1>1. /\ run \in Runs /\ Ready(run) /\ at \in [Stages -> Steps]
      /\ pc \in {"collect", "retry", "reconcile", "none"} \/ (pc = "round" /\ mode = "pipeline")
      /\ mode = "pipeline" => pc \in {"round", "reconcile"}
      /\ mode \in {"pipeline", "parallel"}
  BY BusyWatched DEF Honest
<1>2. /\ pc = "none" => Closed
      /\ pc # "none" => run.status # "completed" /\ Status(run, s) # "completed" /\ Worth(run)
      /\ pc \in {"round", "collect", "retry"} => Whole(run)
  BY BusySound, OthersWorth DEF Trying
<1>3. Accepted(s)' = Accepted(s) /\ Sound
  BY DEF Accepted, Gated, Honest
<1>4. CASE pc = "reconcile" /\ JudgeRecovered(s, o)
  BY <1>3, <1>4, ResumeJudged
<1>5. CASE pc # "reconcile" /\ mode = "parallel" /\ JudgeInParallel(s, o)
  <2>1. ASSUME NEW status \in {"cancelled", "failed", "completed", "blocked"},
               Join(With(run, s, status), s),
               status = "completed" => row'[s] \in Accepted(s)'
        PROVE  Sound'
    <3>. DEFINE q == With(run, s, status)
    <3>1. /\ q \in Runs /\ q.status = run.status
          /\ \A t \in Stages : t # s => Status(q, t) = Status(run, t)
      <4>1. status \in StageStatuses
        BY DEF StageStatuses
      <4>2. QED
        BY <1>1, <4>1, WithStatus
    <3>2. pc # "none" => Worth(q) /\ Whole(q)
      BY <1>1, <1>2, <1>5, <2>1, WithWorth DEF StageStatuses, Worth
    <3>. HIDE DEF q
    <3>3. Join(q, s)
      BY <2>1 DEF q
    <3>4. QED
      BY <1>1, <1>2, <1>3, <1>5, <3>1, <3>2, <3>3, JoinSound
  <2>2. BlockedBy(run, s) = With(run, s, "blocked")
    BY <1>5 DEF BlockedBy
  <2>3. QED
    BY <1>3, <1>5, <2>1, <2>2 DEF JudgeInParallel, Outcomes
<1>6. CASE pc # "reconcile" /\ mode = "pipeline" /\ JudgeInPipeline(s, o)
  <2>1. pc = "round" /\ mode' = "pipeline" /\ Whole(run) /\ Worth(run) /\ run.status # "completed"
    BY <1>1, <1>2, <1>6
  <2>2. \A status \in {"cancelled", "failed"} :
          LET q == With(run, s, status)
          IN  q \in Runs /\ q.status = run.status /\ Worth(q) /\ Whole(q) /\ Fair(q)
    BY <1>1, <2>1, WithWorth DEF StageStatuses, Worth
  <2>. DEFINE done == With(run, s, "completed")
  <2>3. /\ done \in Runs /\ done.status = run.status /\ Status(done, s) = "completed"
        /\ done.stage[s].task = run.stage[s].task
        /\ \A t \in Stages : t # s => Status(done, t) = Status(run, t)
    BY <1>1, WithStatus, WithOthers DEF StageStatuses
  <2>. HIDE DEF done
  <2>4. Whole(done) /\ (row'[s] \in Accepted(s)' => Worth(done) /\ Fair(done))
    BY <2>1, <2>3, WholeFair DEF Whole, Worth
  <2>5. CASE o = "blocker"
    <3>1. BlockedBy(run, s) \in Runs /\ Blocked(BlockedBy(run, s)) 
          /\ BlockedBy(run, s).status = "partial"
      BY <1>1, <1>6, BlockedPartial
    <3>2. RoundEnds(BlockedBy(run, s))
      BY <1>6, <2>5 DEF JudgeInPipeline, Accepted
    <3>3. QED
      BY <3>1, <3>2, RoundEndsSound
  <2>6. CASE o = "cancelled"
    <3>1. RoundEnds(With(run, s, "cancelled"))
      BY <1>6, <2>6 DEF JudgeInPipeline, Accepted
    <3>2. QED
      BY <2>1, <2>2, <3>1, RoundEndsSound
  <2>7. CASE o = "failed"
    <3>1. NextCandidate(With(run, s, "failed"), s)
      BY <1>6, <2>7 DEF JudgeInPipeline, Accepted
    <3>2. QED
      BY <2>1, <2>2, <3>1, NextCandidateSound DEF Worth
  <2>8. CASE o = "poor"
    <3>1. NextCandidate(done, s)
      BY <1>6, <2>8 DEF JudgeInPipeline, Accepted, done
    <3>2. \A t \in Stages \ doubted' :
            t # s /\ Status(done, t) = "completed" => row'[t] \in Accepted(t)'
      BY <2>1, <2>3 DEF Worth
    <3>3. QED
      BY <2>1, <2>3, <2>4, <3>1, <3>2, NextCandidateSound
  <2>9. CASE o \in Accepted(s) /\ Gated(s)
    <3>1. Decided(done, s, o) /\ o \in {"vague", "reject", "approve"} /\ s = Gate
      BY <1>6, <2>9 DEF JudgeInPipeline, Accepted, Gated, done
    <3>2. QED
      BY <1>3, <2>1, <2>3, <2>4, <2>9, <3>1, DecidedSound
  <2>10. CASE o \in Accepted(s) /\ ~Gated(s)
    <3>1. Take(done, {t \in Incomplete(done) : t > s})
      BY <1>6, <2>10 DEF JudgeInPipeline, Accepted, done
    <3>2. QED
      BY <1>3, <2>1, <2>3, <2>4, <2>10, <3>1, TakeSound
  <2>11. QED
    BY <2>5, <2>6, <2>7, <2>8, <2>9, <2>10 DEF Outcomes
<1>7. QED
  BY <1>1, <1>4, <1>5, <1>6 DEF Judge

LEMMA ResultStepSound ==
  ASSUME Honest, NEW s \in Stages,
         RowInserted(s) \/ Poll(s) \/ Deadline(s) \/ Aborted(s) \/ AbortFails(s)
  PROVE  Sound'
<1>0. at[s] # "idle" /\ mode' = mode
  BY DEF RowInserted, Poll, Deadline, Aborted, AbortFails
<1>1. /\ run \in Runs /\ saved \in Runs /\ at \in [Stages -> Steps] /\ Types
      /\ pc \in {"round", "collect", "retry", "reconcile", "none"}
      /\ mode = "pipeline" => pc \in {"round", "reconcile"}
      /\ mode \in {"pipeline", "parallel"}
      /\ pc = "reconcile" => at[s] \in {"waiting", "aborting"}
  BY <1>0, BusyWatched DEF Honest, Watchful, Frugal, Heedful, Types, DriverTypes
<1>2. /\ pc = "none" => Closed
      /\ pc # "none" => Accounted /\ run.status # "completed"
      /\ pc \in {"round", "collect", "retry"} => Whole(run)
      /\ \A t \in Stages : t # s => ~Trying(t)
      /\ pc # "none" /\ ~Trying(s) => Status(run, s) # "completed"
      /\ Sound
  BY <1>0, BusySound DEF Honest
<1>3. CASE RowInserted(s)
  <2>1. /\ at' = [at EXCEPT ![s] = "inserted"] /\ pc' = pc /\ doubted' = doubted
        /\ \A t \in Stages : t # s => row'[t] = row[t]
        /\ at[s] = "posting" /\ run' = Older(run, s) /\ saved' = Older(saved, s)
    BY <1>3 DEF RowInserted
  <2>2. /\ run'.status = run.status /\ run'.done = run.done
        /\ \A t \in Stages : Status(run', t) = Status(run, t)
        /\ \A t \in Stages : Status(saved', t) = Status(saved, t)
    BY <1>1, <2>1 DEF Older, Runs, Status, StageRecords
  <2>3. \A t \in Stages : Status(saved', t) = Status(run', t)
    BY <1>2, <2>2 DEF Sound
  <2>4. CASE pc = "none"
    BY <1>2, <2>1, <2>2, <2>3, <2>4 DEF Sound, Closed, Status
  <2>5. CASE pc # "none"
    <3>1. /\ pc \in {"round", "collect", "retry"} /\ Whole(run)
          /\ Accounted /\ run.status # "completed"
      BY <1>1, <1>2, <2>1, <2>5
    <3>2. Trying(s) => Trying(s)'
      BY <1>0, <1>1, <2>1 DEF Trying
    <3>3. \A t \in Stages : at'[t] # "idle" => t = s \/ at[t] # "idle"
      BY <1>1, <2>1
    <3>4. \A t \in Stages \ doubted' :
            Status(run', t) = "completed" => row'[t] \in Accepted(t)' \/ Trying(t)'
      BY <1>0, <1>2, <2>1, <2>2, <2>5, <3>1, <3>2 DEF Accounted, Accepted, Gated
    <3>5. \A t \in Stages : at'[t] # "idle" => Status(run', t) # "completed" \/ Trying(t)'
      BY <1>2, <2>2, <2>5, <3>1, <3>2, <3>3 DEF Accounted
    <3>6. \A t \in Stages : Status(run', t) # "skipped"
      BY <2>2, <3>1 DEF Whole
    <3>7. Accounted'
      BY <2>1, <2>2, <3>1, <3>4, <3>5, <3>6 DEF Accounted, Whole, Status
    <3>8. QED
      BY <2>3, <3>7 DEF Sound, Status
  <2>6. QED
    BY <2>4, <2>5
<1>4. CASE Poll(s)
  <2>1. PICK o \in Results(s) :
          /\ Judge(s, o)
          /\ doubted' = IF pc = "reconcile" /\ o = "poor" THEN doubted \cup {s} ELSE doubted
    BY <1>4 DEF Poll
  <2>2. o \in Outcomes(s)
    BY <1>1, ResultTypes
  <2>3. at[s] = "waiting" /\ row' = row
    BY <1>4 DEF Poll, durable
  <2>4. o \in Accepted(s) => row[s] = o /\ run.stage[s].task = "newest"
    BY <2>1 DEF Results, Accepted
  <2>5. QED
    BY <1>0, <2>1, <2>2, <2>3, <2>4, JudgeSound
<1>5. CASE Deadline(s)
  <2>1. /\ at' = [at EXCEPT ![s] = "aborting"] /\ at[s] = "waiting"
        /\ UNCHANGED <<pc, run, saved, row, doubted>>
    BY <1>5 DEF Deadline, durable, past
  <2>2. CASE pc = "none"
    BY <1>2, <2>1, <2>2 DEF Sound, Closed, Status
  <2>3. CASE pc # "none"
    <3>1. \A t \in Stages : /\ at'[t] # "idle" => at[t] # "idle"
                            /\ Trying(t) <=> Trying(t)'
      BY <1>0, <1>1, <2>1 DEF Trying
    <3>2. Accounted'
      BY <1>0, <1>2, <2>1, <2>3, <3>1
        DEF Accounted, Rejected, Accepted, Gated, Status, Whole, Skipping, Incomplete, Iteration
    <3>3. QED
      BY <1>2, <2>1, <3>2 DEF Sound, Status
  <2>4. QED
    BY <2>2, <2>3
<1>6. CASE Aborted(s)
  <2>1. /\ at[s] = "aborting" /\ doubted' = doubted
        /\ \A t \in Stages : t # s => row'[t] = row[t]
    BY <1>1, <1>6 DEF Aborted, past, Types
  <2>2. PICK o \in {"blocker", "cancelled", "failed"} : Judge(s, o)
    BY <1>6 DEF Aborted
  <2>3. o \in Outcomes(s) /\ o \notin Accepted(s) /\ o # "poor"
    BY DEF Outcomes, Accepted
  <2>4. QED
    BY <1>0, <2>1, <2>2, <2>3, JudgeSound
<1>7. CASE AbortFails(s)
  <2>1. CASE pc = "none" /\ Go(run, pc, [at EXCEPT ![s] = "idle"])
    BY <1>2, <2>1, ClosedSound DEF Closed, Go
  <2>2. CASE Fail(run, [at EXCEPT ![s] = "idle"])
    BY <1>1, <2>2, FailSound
  <2>3. QED
    BY <1>7, <2>1, <2>2 DEF AbortFails
<1>8. QED
  BY <1>3, <1>4, <1>5, <1>6, <1>7

LEMMA RestartSound ==
  ASSUME Honest, Restart PROVE Sound'
<1>1. /\ run \in Runs /\ saved \in Runs /\ Alike
      /\ \A s \in Stages : Status(saved, s) = Status(run, s)
      /\ Closed \/ Accounted
      /\ row = [s \in Stages |-> row[s]]
      /\ mode' = mode
  BY DEF Honest, Watchful, Frugal, Heedful, Types, DriverTypes, Sound, Restart
<1>2. \A s \in Stages : row'[s] = IF saved.stage[s].task = "newest" THEN row[s] ELSE "none"
  BY DEF Restart
<1>3. Worth(saved)
  BY <1>1 DEF Restart, Worth, Accepted, Gated
<1>4. CASE saved.status \notin {"active", "completed"}
  BY <1>4, ClosedSound DEF Restart, End, Go
<1>5. CASE saved.status \in {"active", "completed"}
  <2>1. Accounted
    BY <1>1, <1>5 DEF Closed, Alike
  <2>2. Spared(saved)
    BY <1>1, <1>2, <2>1 DEF Accounted, Rejected, Spared
  <2>3. (saved.done = 0 \/ mode = "parallel" => Whole(saved))
    BY <1>1, <2>1 DEF Accounted, Alike, Whole
  <2>4. Fair(saved)
    BY <1>1, <1>3, <2>2, <2>3 DEF Fair
  <2>5. CASE saved.status = "completed"
    <3>1. End(saved)
      BY <2>5 DEF Restart
    <3>2. Skipping(saved)
      BY <1>1, <2>1, <2>5 DEF Accounted, Alike, Skipping, Incomplete
    <3>3. QED
      BY <2>3, <2>4, <3>1, <3>2, EndSound
  <2>6. CASE saved.status = "active"
    <3>1. CASE End([saved EXCEPT !.status = "failed"])
      <4>1. [saved EXCEPT !.status = "failed"].status = "failed"
        BY <1>1 DEF Runs
      <4>2. QED
        BY <3>1, <4>1, ClosedSound DEF End, Go
    <3>2. CASE End(Finalized(saved))
      BY <1>1, <2>3, <2>4, <2>6, <3>2, FinalizedSound
    <3>3. CASE Reconcile(saved, 0)
      BY <2>3, <2>4, <2>6, <3>3, ReconcileSound
    <3>4. QED
      BY <2>6, <3>1, <3>2, <3>3 DEF Restart
  <2>7. QED
    BY <1>5, <2>5, <2>6
<1>6. QED
  BY <1>4, <1>5

\* A cancellation leaves the stages that are over as they are.
LEMMA CancelSound ==
  ASSUME Honest, CancelRun PROVE Sound'
<1>. DEFINE active == {s \in Stages : AtWork(run, s)}
<1>. DEFINE q == Mark(run, active, "cancelled")
<1>1. /\ run \in Runs /\ Sound
  BY DEF Honest, Watchful, Frugal, Heedful, Types, DriverTypes
<1>2. /\ run' = [q EXCEPT !.status = "cancelled"] /\ saved' = run' /\ run.status = "active"
      /\ UNCHANGED <<pc, at, mode, row, doubted>>
  BY DEF CancelRun, durable, past
<1>3. /\ q \in Runs /\ q.done = run.done
      /\ \A s \in Stages :
           /\ Status(q, s) = (IF AtWork(run, s) THEN "cancelled" ELSE Status(run, s))
           /\ q.stage[s].task = run.stage[s].task
  BY <1>1, MarkTypes DEF Mark, Status, Runs, StageStatuses, StageRecords
<1>. HIDE DEF q
<1>4. run'.stage = q.stage /\ run'.status = "cancelled" /\ run'.done = run.done
  BY <1>2, <1>3 DEF Runs
<1>5. CASE pc = "none"
  BY <1>2, <1>4, <1>5 DEF Sound, Closed, Status
<1>6. CASE pc # "none"
  <2>1. Accounted
    BY <1>1, <1>6 DEF Sound, Closed
  <2>2. /\ \A s \in Stages : /\ Status(run', s) = "completed" <=> Status(run, s) = "completed"
                             /\ Status(run', s) = "skipped" <=> Status(run, s) = "skipped"
                             /\ run'.stage[s].task = run.stage[s].task
    BY <1>3, <1>4 DEF AtWork, Status
  <2>3. \A s \in Stages : Trying(s)' <=> Trying(s)
    BY <1>2 DEF Trying
  <2>4. /\ Whole(run) => Whole(run')
        /\ Skipping(run) => Skipping(run')
        /\ Iteration(run') = Iteration(run)
    BY <1>4, <2>2 DEF Whole, Skipping, Incomplete, Iteration
  <2>5. \A s \in Stages : Rejected(s) => Rejected(s)'
    BY <1>2, <2>2 DEF Rejected, Status
  <2>6. /\ \A s \in Stages \ doubted' :
             Status(run', s) = "completed" => row'[s] \in Accepted(s)' \/ Trying(s)'
        /\ \A s \in Stages : Status(run', s) = "skipped" => Rejected(s)'
        /\ \A s \in Stages : at'[s] # "idle" => Status(run', s) # "completed" \/ Trying(s)'
    BY <1>2, <2>1, <2>2, <2>3, <2>5 DEF Accounted, Accepted, Gated
  <2>7. Accounted'
    BY <1>2, <1>4, <1>6, <2>1, <2>4, <2>6
      DEF Accounted, Whole, Skipping, Incomplete, Status, Iteration
  <2>8. QED
    BY <1>2, <2>7 DEF Sound, Status
<1>7. QED
  BY <1>5, <1>6

LEMMA OtherStepSound ==
  ASSUME Honest, \/ CancelRun \/ Restart \/ UNCHANGED vars
                 \/ \E s \in Stages : RowEnds(s) \/ CancelRow(s)
  PROVE  Sound'
<1>1. ASSUME UNCHANGED <<mode, run, saved, pc, at, doubted>>,
             \A s \in Stages : row'[s] = row[s] \/ row[s] = "open"
      PROVE  Sound'
  <2>1. Sound
    BY DEF Honest
  <2>2. \A s \in Stages : /\ Trying(s)' <=> Trying(s)
                          /\ row[s] \in Accepted(s) => row'[s] \in Accepted(s)'
                          /\ Rejected(s) => Rejected(s)'
    BY <1>1 DEF Trying, Accepted, Gated, Rejected, Status
  <2>3. Accounted => Accounted'
    BY <1>1, <2>2 DEF Accounted, Whole, Skipping, Incomplete, Status, Iteration
  <2>4. QED
    BY <1>1, <2>1, <2>3 DEF Sound, Closed, Status
<1>2. CASE UNCHANGED vars
  <2>1. UNCHANGED <<mode, run, saved, pc, at, doubted, row>>
    BY <1>2 DEF vars, durable, driver, past
  <2>2. QED
    BY <1>1, <2>1
<1>3. ASSUME NEW s \in Stages, RowEnds(s) \/ CancelRow(s) PROVE Sound'
  <2>1. /\ UNCHANGED <<mode, run, saved, pc, at, doubted>>
        /\ \A t \in Stages : row'[t] = row[t] \/ row[t] = "open"
    BY <1>3 DEF RowEnds, CancelRow, driver, past, Honest, Watchful, Frugal, Heedful, Types
  <2>2. QED
    BY <1>1, <2>1
<1>4. QED
  BY <1>2, <1>3, RestartSound, CancelSound

LEMMA InitHonest == Init => Honest
<1>. SUFFICES ASSUME Init PROVE Honest
  OBVIOUS
<1>1. Frugal
  BY FrugalInit
<1>2. /\ pc = "planning" /\ at = AllIdle /\ \A s \in Stages : row[s] = "none"
      /\ run.status = "active" /\ saved = run /\ \A s \in Stages : Status(run, s) = "pending"
  BY DEF Init, Status
<1>3. Watchful
  BY <1>1, <1>2 DEF Watchful, Watch, Sides, Live
<1>4. Sound
  BY <1>2 DEF Sound, Accounted, Whole, AllIdle
<1>5. QED
  BY <1>3, <1>4 DEF Honest

LEMMA HonestStep == Honest /\ [Next]_vars => Honest'
<1>. SUFFICES ASSUME Honest, [Next]_vars PROVE Honest'
  OBVIOUS
<1>1. Frugal'
  BY FrugalStep DEF Honest, Watchful
<1>2. Watch'
  BY DriverStepWatch, PostingStepWatch, ResultStepWatch, OtherStepWatch
    DEF Honest, Next, Work, Others, StageStep
<1>3. Sound'
  BY DriverStepSound, PostingStepSound, ResultStepSound, OtherStepSound
    DEF Next, Work, Others, StageStep
<1>4. QED
  BY <1>1, <1>2, <1>3 DEF Honest, Watchful

\* A run is reported completed only if every stage that no restart took for
\* completed has delivered an acceptable output, or stands after a gate whose
\* report rejected the port: whatever failed over, was retried, timed out, was
\* cancelled too late, or was interrupted in the meantime.
THEOREM CompanyCompletedIsEarned == Spec => []CompletedIsEarned
<1>1. Honest => CompletedIsEarned
  <2>. SUFFICES ASSUME Honest, run.status = "completed", NEW s \in Stages \ doubted
                PROVE  \/ Status(run, s) = "completed" /\ row[s] \in Accepted(s)
                       \/ Status(run, s) = "skipped" /\ s > Gate /\ row[Gate] = "reject"
    BY DEF CompletedIsEarned
  <2>1. Accounted
    BY DEF Honest, Sound, Closed
  <2>2. pc = "none" /\ ~Trying(s) /\ Skipping(run)
    BY <2>1 DEF Accounted, Trying
  <2>3. CASE Status(run, s) = "completed"
    BY <2>1, <2>2, <2>3 DEF Accounted
  <2>4. CASE Status(run, s) # "completed"
    BY <2>1, <2>2, <2>4 DEF Accounted, Skipping, Incomplete, Rejected
  <2>5. QED
    BY <2>3, <2>4
<1>2. QED
  BY <1>1, InitHonest, HonestStep, PTL DEF Spec
=============================================================================
