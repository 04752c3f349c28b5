------------------------------ MODULE Workflow ------------------------------
(***************************************************************************)
(* One workflow run of the conductor (core/workflow-gate.ts): its stages,  *)
(* the tasks that carry them out, the discussion that prepares them        *)
(* (core/discussion-engine.ts), and the handlers of server/gateway.ts and  *)
(* index.ts that keep the three tables tasks, workflow_stages and          *)
(* discussions in line.  A run with planning: discussion and design before *)
(* implementation.  Review and verification ask for the same two stages    *)
(* and are not told apart from implementation.                             *)
(*                                                                         *)
(* A step is what runs between two awaits, except that the process may die *)
(* between two writes of a step: `turn` is what the step still has to      *)
(* write, and only the death of the process may come in between.           *)
(***************************************************************************)
EXTENDS Integers, FiniteSets

CONSTANTS Participants, Spares,  \* providers: invited, and kept for replacement
          Posts,                 \* bound: the stages that clients post tasks of
          MaxTasks,              \* bound: rows of table tasks for this run
          MaxCrashes             \* bound: deaths of the process

ASSUME ProvidersAreApart == Participants \cap Spares = {} /\ Participants # {}
ASSUME WorkflowIsBounded ==
  /\ Posts \subseteq {"discussion", "design", "implementation"}
  /\ MaxTasks \in Nat \ {0} /\ MaxCrashes \in Nat

Tasks == 1 .. MaxTasks
None  == 0
Root  == 1      \* the conductor's task: its discussion, and the design that comes of it

Stages == {"discussion", "design", "implementation"}

VARIABLES
  row,        \* table tasks
  of,         \* its column workflow_stage
  root,       \* the first task of a lineage of retries
  stage,      \* workflow_stages: status
  holder,     \* workflow_stages: task_id
  talk,       \* discussions: status of the conductor's discussion
  session,    \* where startDiscussion() is
  asked,      \* providers that work for the session
  proposed,   \* successfulParticipants
  after,      \* what comes when the abort of a task's execution has been awaited
  source,     \* the task that replaceActiveTask() replaces by this one
  turn,       \* what a step that has begun still writes
  up,         \* the process lives
  offTask,    \* tasks whose mode is not 'task': the gate does not see them
  judged,     \* tasks whose response passed the quality gate; it says so every time
  crashes,    \* bounded
  earned,     \* history: stages a quorum or a completed task has completed
  forgotten   \* history: expired tasks whose stage nobody told before the process died

tables   == <<row, of, root, stage, holder, talk>>
meeting  == <<session, asked, proposed>>
requests == <<after, source, offTask, judged>>
ghosts   == <<crashes, earned, forgotten>>
vars     == <<tables, meeting, requests, turn, up, ghosts>>

Open   == {"open", "reviewing"}
Late   == {"timed_out", "lease_expired"}
Closed == {"completed", "failed", "cancelled"} \cup Late

Idle   == [do |-> "nothing", task |-> None]
Free   == up /\ turn = Idle

Init ==
  /\ row = [t \in Tasks |-> "none"]
  /\ of = [t \in Tasks |-> "design"]
  /\ root = [t \in Tasks |-> t]
  /\ stage = [s \in Stages |-> "pending"]
  /\ holder = [s \in Stages |-> None]
  /\ talk = "none"
  /\ session = "idle" /\ asked = {} /\ proposed = {}
  /\ after = [t \in Tasks |-> "nothing"]
  /\ source = [t \in Tasks |-> None]
  /\ turn = Idle
  /\ up = TRUE
  /\ offTask = {} /\ judged = {}
  /\ crashes = 0 /\ earned = {} /\ forgotten = {}

-----------------------------------------------------------------------------
(* workflow-gate.ts                                                        *)

Prerequisites(s) == CASE s = "discussion" -> {}
                      [] s = "design" -> {"discussion"}
                      [] OTHER -> {"discussion", "design"}

\* Mutant: the design alone lets the implementation begin.
PassesByDesign(s) == \A p \in Prerequisites(s) \ {"discussion"} : stage[p] = "completed"

\* enforceWorkflowPrerequisites()
Passes(s) == \A p \in Prerequisites(s) : stage[p] = "completed"

\* syncWorkflowTask(): what a closed row says of its stage.
Shown(status) == IF status \in {"completed", "cancelled"} THEN status ELSE "failed"

Sync(t, status) ==
  /\ stage' = [stage EXCEPT ![of[t]] = Shown(status)]
  /\ holder' = [holder EXCEPT ![of[t]] = t]
  /\ forgotten' = forgotten \ {t}

-----------------------------------------------------------------------------
(* The session: startDiscussion()                                          *)

Quorum == 2     \* DISCUSSION_MIN_VALID_PROPOSALS
HasQuorum == Cardinality(proposed) >= Quorum

Waves == {"first", "again", "replaced"}

\* The conductor creates the run, its task, and starts the discussion.
Conduct ==
  /\ Free
  /\ row[Root] = "none" /\ stage["design"] = "pending"
  /\ row' = [row EXCEPT ![Root] = "open"]
  /\ of' = [of EXCEPT ![Root] = "design"]
  /\ offTask' = offTask \cup {Root}
  /\ stage' = [stage EXCEPT !["design"] = "running"]
  /\ holder' = [holder EXCEPT !["design"] = Root]
  /\ turn' = [do |-> "start", task |-> Root]
  /\ UNCHANGED <<root, talk, meeting, after, source, judged, up, ghosts>>

Start ==
  /\ up /\ turn.do = "start"
  /\ talk' = "active"
  /\ stage' = [stage EXCEPT !["discussion"] = "running"]
  /\ holder' = [holder EXCEPT !["discussion"] = Root]
  /\ session' = "first" /\ asked' = Participants
  /\ turn' = Idle
  /\ UNCHANGED <<row, of, root, proposed, requests, up, ghosts>>

Answer(p) ==
  /\ Free
  /\ p \in asked
  /\ asked' = asked \ {p}
  /\ proposed' = proposed \cup {p}
  /\ UNCHANGED <<tables, session, requests, turn, up, ghosts>>

\* An error, an empty answer, a timeout, or the session was aborted.
Fails(p) ==
  /\ Free
  /\ p \in asked
  /\ asked' = asked \ {p}
  /\ UNCHANGED <<tables, session, proposed, requests, turn, up, ghosts>>

\* selectDiscussionReplacementProviders(): what is missing, and one to spare.
Replacements == {S \in SUBSET Spares : Cardinality(S) <= Quorum - Cardinality(proposed) + 1}

\* Mutant: the same participants are asked until they answer.
NextWaveForEver ==
  /\ session' = "again" /\ asked' = Participants \ proposed
  /\ UNCHANGED <<talk, turn>>

\* The round closed without a quorum.
NextWave ==
  \/ /\ session = "first" /\ Participants \ proposed # {}
     /\ session' = "again" /\ asked' = Participants \ proposed
     /\ UNCHANGED <<talk, turn>>
  \/ /\ session = "again" \/ (session = "first" /\ Participants \subseteq proposed)
     /\ \E S \in Replacements \ {{}} : session' = "replaced" /\ asked' = S
     /\ UNCHANGED <<talk, turn>>
  \/ /\ session # "first" \/ Participants \subseteq proposed
     /\ talk' = "failed" /\ turn' = [do |-> "mark", task |-> None]
     /\ session' = "thrown" /\ asked' = {}

\* collectResponses() returns: everybody settled, or a quorum and the time of
\* grace is over; then assertSessionActive().
RoundEnds ==
  /\ Free
  /\ session \in Waves
  /\ asked = {} \/ HasQuorum
  /\ \/ /\ talk # "active"
        /\ session' = "thrown" /\ asked' = {}
        /\ UNCHANGED <<talk, turn>>
     \/ /\ talk = "active" /\ HasQuorum
        /\ session' = "evaluating" /\ asked' = {}
        /\ UNCHANGED <<talk, turn>>
     \/ /\ talk = "active" /\ ~HasQuorum
        /\ NextWave
  /\ UNCHANGED <<row, of, root, stage, holder, proposed, requests, up, ghosts>>

\* Evaluations and the synthesis: whether they succeed or not, the discussion
\* goes on, unless it was closed meanwhile.
Evaluated ==
  /\ Free
  /\ session = "evaluating"
  /\ session' = IF talk = "active" THEN "synthesizing" ELSE "thrown"
  /\ UNCHANGED <<tables, asked, proposed, requests, turn, up, ghosts>>

\* The report is written, and then its stage.
Conclude ==
  /\ Free
  /\ session = "synthesizing"
  /\ \/ /\ talk # "active"
        /\ session' = "thrown"
        /\ UNCHANGED <<talk, turn, earned>>
     \/ /\ talk = "active"
        /\ talk' = "completed" /\ turn' = [do |-> "mark", task |-> None]
        /\ session' = "concluded"
        /\ earned' = IF HasQuorum THEN earned \cup {"discussion"} ELSE earned
  /\ UNCHANGED <<row, of, root, stage, holder, asked, proposed, requests, up, crashes, forgotten>>

\* markWorkflowStage() of the discussion, by the session.
Mark ==
  /\ up /\ turn.do = "mark"
  /\ stage' = [stage EXCEPT !["discussion"] = talk]
  /\ turn' = Idle
  /\ UNCHANGED <<row, of, root, holder, talk, meeting, requests, up, ghosts>>

\* The .then() of the conductor.
Report ==
  /\ Free
  /\ session = "concluded"
  /\ session' = "idle" /\ proposed' = {}
  /\ IF row[Root] = "open"
     THEN /\ \E r \in {"completed", "reviewing", "failed"} : row' = [row EXCEPT ![Root] = r]
          /\ earned' = IF row'[Root] = "completed" THEN earned \cup {"design"} ELSE earned
          /\ turn' = [do |-> "settle", task |-> Root]
     ELSE UNCHANGED <<row, earned, turn>>
  /\ UNCHANGED <<of, root, stage, holder, talk, asked, requests, up, crashes, forgotten>>

\* The .catch() of the conductor: transitionTask(), then the stage, then settle.
Thrown ==
  /\ Free
  /\ session = "thrown"
  /\ session' = "idle" /\ proposed' = {}
  /\ IF row[Root] \in Open
     THEN row' = [row EXCEPT ![Root] = "failed"] /\ turn' = [do |-> "blame", task |-> Root]
     ELSE UNCHANGED <<row, turn>>
  /\ UNCHANGED <<of, root, stage, holder, talk, asked, requests, up, ghosts>>

Blame ==
  /\ up /\ turn.do = "blame"
  /\ stage' = [stage EXCEPT !["discussion"] = "failed"]
  /\ holder' = [holder EXCEPT !["discussion"] = Root]
  /\ turn' = [do |-> "settle", task |-> Root]
  /\ UNCHANGED <<row, of, root, talk, meeting, requests, up, ghosts>>

-----------------------------------------------------------------------------
(* Tasks of the run                                                        *)

\* settlePersistedTaskTerminal(): the stage, then the quality gate.
Settling(t) ==
  \/ /\ row[t] \in {"completed", "reviewing"} /\ t \notin judged
     /\ row' = [row EXCEPT ![t] = "failed"]
     /\ Sync(t, "failed")
     /\ UNCHANGED judged
  \/ /\ row[t] = "reviewing"
     /\ judged' = judged \cup {t}
     /\ UNCHANGED <<row, stage, holder, forgotten>>
  \/ /\ row[t] # "reviewing"
     /\ Sync(t, row[t])
     /\ judged' = IF row[t] = "completed" THEN judged \cup {t} ELSE judged
     /\ UNCHANGED row

Settle ==
  /\ up /\ turn.do = "settle"
  /\ Settling(turn.task)
  /\ turn' = Idle
  /\ UNCHANGED <<of, root, talk, meeting, after, source, offTask, up, crashes, earned>>

\* The queue's result for a task; the conductor's own comes from its session.
Result(t) ==
  /\ Free
  /\ row[t] = "open" /\ (t = Root => session = "idle")
  /\ \E r \in Closed \cup {"reviewing"} : row' = [row EXCEPT ![t] = r]
  /\ earned' = IF row'[t] = "completed" THEN earned \cup {of[t]} ELSE earned
  /\ turn' = [do |-> "settle", task |-> t]
  /\ UNCHANGED <<of, root, stage, holder, talk, meeting, requests, up, crashes, forgotten>>

\* The audit's verdict arrives, or its task is one of the audit itself.
Audited(t) ==
  /\ Free
  /\ row[t] = "reviewing"
  /\ \E r \in {"completed", "cancelled"} : row' = [row EXCEPT ![t] = r]
  /\ earned' = IF row'[t] = "completed" THEN earned \cup {of[t]} ELSE earned
  /\ turn' = [do |-> "sync", task |-> t]
  /\ UNCHANGED <<of, root, stage, holder, talk, meeting, requests, up, crashes, forgotten>>

SyncTurn ==
  /\ up /\ turn.do = "sync"
  /\ Sync(turn.task, row[turn.task])
  /\ turn' = Idle
  /\ UNCHANGED <<row, of, root, talk, meeting, requests, up, crashes, earned>>

\* cancelTaskById(): a closed task is settled once more.
Cancel(t) ==
  /\ Free
  /\ \/ /\ row[t] \in Open
        /\ row' = [row EXCEPT ![t] = "cancelled"]
        /\ after' = [after EXCEPT ![t] = "cancel"]
        /\ UNCHANGED <<stage, holder, judged, forgotten>>
     \/ /\ row[t] \in Closed
        /\ Settling(t)
        /\ UNCHANGED after
  /\ UNCHANGED <<of, root, talk, meeting, source, offTask, turn, up, crashes, earned>>

\* Mutant: the discussion is told, the stage is not.
CancelEndsWithoutStage(t) ==
  /\ Free
  /\ after[t] = "cancel"
  /\ after' = [after EXCEPT ![t] = "nothing"]
  /\ talk' = IF t = Root /\ talk = "active" THEN "cancelled" ELSE talk
  /\ UNCHANGED <<row, of, root, stage, holder, meeting, source, offTask, judged, turn, up, ghosts>>

\* Behind the await: cancelTaskDiscussions(), then syncWorkflowTask().
CancelEnds(t) ==
  /\ Free
  /\ after[t] = "cancel"
  /\ after' = [after EXCEPT ![t] = "nothing"]
  /\ talk' = IF t = Root /\ talk = "active" THEN "cancelled" ELSE talk
  /\ turn' = [do |-> "sync", task |-> t]
  /\ UNCHANGED <<row, of, root, stage, holder, meeting, source, offTask, judged, up, ghosts>>

\* The lease sweeper closes a row: for the second time in a lineage as failed.
\* The conductor's own row has no lease and expires as never claimed.
Expire(t) ==
  /\ Free
  /\ row[t] = "open"
  /\ row' = [row EXCEPT ![t] =
       IF \E u \in Tasks : root[u] = root[t] /\ row[u] = "lease_expired"
       THEN "failed" ELSE "lease_expired"]
  /\ after' = [after EXCEPT ![t] = "expire"]
  /\ UNCHANGED <<of, root, stage, holder, talk, meeting, source, offTask, judged, turn, up, ghosts>>

\* onLeaseExpired() behind the await.
ExpireEnds(t) ==
  /\ Free
  /\ after[t] = "expire"
  /\ after' = [after EXCEPT ![t] = "nothing"]
  /\ Sync(t, "failed")
  /\ UNCHANGED <<row, of, root, talk, meeting, source, offTask, judged, turn, up, crashes, earned>>

\* replaceActiveTask(): the row is closed, its stage is left to the replacement.
Replace(t) ==
  /\ Free
  /\ row[t] \in Open
  /\ row' = [row EXCEPT ![t] = "failed"]
  /\ after' = [after EXCEPT ![t] = "replace"]
  /\ UNCHANGED <<of, root, stage, holder, talk, meeting, source, offTask, judged, turn, up, ghosts>>

-----------------------------------------------------------------------------
(* Intake: POST /api/task checks the gate, awaits the readiness of the     *)
(* providers, and attaches the task in the transaction that inserts it.    *)

Unused == {t \in Tasks \ {Root} : row[t] = "none"}
NextId == CHOOSE t \in Unused : TRUE

\* A task of a stage is posted; `off` says that its mode is not 'task'.
Posted(s, off) ==
  /\ Unused # {} /\ (off \/ Passes(s))
  /\ row' = [row EXCEPT ![NextId] = "asked"]
  /\ of' = [of EXCEPT ![NextId] = s]
  /\ offTask' = IF off THEN offTask \cup {NextId} ELSE offTask \ {NextId}

\* createRetryTask(): refused while a member of the lineage has a live row.  The
\* payload has the mode of its source, unless it comes from a dead letter.
Inject(t, replaced) ==
  /\ row[t] \in {"failed"} \cup Late
  /\ \A u \in Tasks : root[u] = root[t] => row[u] \notin Open
  /\ \E off \in BOOLEAN : (off => t \in offTask) /\ Posted(of[t], off)
  /\ root' = [root EXCEPT ![NextId] = root[t]]
  /\ source' = [source EXCEPT ![NextId] = replaced]

\* A client's task of a stage, with the id of the run.
Ask(s) ==
  /\ Free
  /\ row[Root] # "none"
  /\ Posted(s, FALSE)
  /\ root' = [root EXCEPT ![NextId] = NextId]
  /\ source' = [source EXCEPT ![NextId] = None]
  /\ UNCHANGED <<stage, holder, talk, meeting, after, judged, turn, up, ghosts>>

\* createRetryTask() for a failover, the quality gate or a client.
Retry(t) ==
  /\ Free
  /\ Inject(t, None)
  /\ UNCHANGED <<stage, holder, talk, meeting, after, judged, turn, up, ghosts>>

\* Behind the await of replaceActiveTask(): the retry, or it is refused.
ReplaceEnds(t) ==
  /\ Free
  /\ after[t] = "replace"
  /\ after' = [after EXCEPT ![t] = "nothing"]
  /\ \/ /\ Inject(t, t)
        /\ UNCHANGED turn
     \/ /\ turn' = [do |-> "settle", task |-> t]
        /\ UNCHANGED <<row, of, root, offTask, source>>
  /\ UNCHANGED <<stage, holder, talk, meeting, judged, up, ghosts>>

\* No provider is ready: 409 or 503, and no row.
Refuse(u) ==
  /\ Free
  /\ row[u] = "asked"
  /\ row' = [row EXCEPT ![u] = "none"]
  /\ of' = [of EXCEPT ![u] = "design"] /\ root' = [root EXCEPT ![u] = u]
  /\ source' = [source EXCEPT ![u] = None]
  /\ offTask' = offTask \ {u}
  /\ turn' = IF source[u] = None THEN Idle ELSE [do |-> "settle", task |-> source[u]]
  /\ UNCHANGED <<stage, holder, talk, meeting, after, judged, up, ghosts>>

\* attachWorkflowTask()
Attach(u) ==
  /\ Free
  /\ row[u] = "asked"
  /\ row' = [row EXCEPT ![u] = "open"]
  /\ stage' = [stage EXCEPT ![of[u]] = "running"]
  /\ holder' = [holder EXCEPT ![of[u]] = u]
  /\ source' = [source EXCEPT ![u] = None]
  /\ UNCHANGED <<of, root, talk, meeting, after, offTask, judged, turn, up, ghosts>>

-----------------------------------------------------------------------------
(* Death and boot                                                          *)

Crash ==
  /\ up /\ crashes < MaxCrashes
  /\ up' = FALSE /\ crashes' = crashes + 1
  /\ row' = [t \in Tasks |-> IF row[t] = "asked" THEN "none" ELSE row[t]]
  /\ session' = "idle" /\ asked' = {} /\ proposed' = {}
  /\ after' = [t \in Tasks |-> "nothing"]
  /\ source' = [t \in Tasks |-> None]
  /\ of' = [t \in Tasks |-> IF row[t] = "asked" THEN "design" ELSE of[t]]
  /\ root' = [t \in Tasks |-> IF row[t] = "asked" THEN t ELSE root[t]]
  /\ offTask' = {t \in offTask : row[t] # "asked"}
  /\ turn' = Idle
  /\ forgotten' = forgotten \cup
       {t \in Tasks : row[t] \in Late /\ (after[t] = "expire" \/ turn.task = t)}
  /\ UNCHANGED <<stage, holder, talk, judged, earned>>

\* recoverOrphanedTasks(): a task with a discussion is given up with it, others
\* are queued again, or given up after too many times.
Recovered(t, r) ==
  IF row[t] # "open" THEN r = row[t]
  ELSE r \in (IF t = Root /\ talk = "active" THEN {"failed"} ELSE {"open", "failed"})

\* reconcileTerminalWorkflowTasks(): the stage of the task it names, if that is
\* of this stage and its status one that the query lists.
Repaired(s) ==
  /\ holder[s] # None
  /\ of[holder[s]] = s
  /\ row'[holder[s]] \in {"completed", "failed", "cancelled"}

\* recoverOrphanedTasks(), reconcileTerminalWorkflowTasks(), failStaleDiscussions():
\* the last closes a discussion that has been silent for a day.
Boot ==
  /\ ~up
  /\ up' = TRUE
  /\ row' \in [Tasks -> Open \cup Closed \cup {"none"}]
  /\ \A t \in Tasks : Recovered(t, row'[t])
  /\ LET given == IF talk = "active" /\ row[Root] = "open" THEN "failed" ELSE talk
         told  == [s \in Stages |-> IF Repaired(s) THEN Shown(row'[holder[s]]) ELSE stage[s]]
     IN  \/ talk' = given /\ stage' = told
         \/ /\ given = "active" /\ talk' = "failed"
            /\ stage' = [told EXCEPT !["discussion"] =
                 IF @ \in {"pending", "running"} THEN "failed" ELSE @]
  /\ UNCHANGED <<of, root, holder, meeting, requests, turn, ghosts>>

-----------------------------------------------------------------------------
SessionNext ==
  \/ Conduct \/ Start \/ RoundEnds \/ Evaluated \/ Conclude \/ Mark \/ Report \/ Thrown \/ Blame
  \/ \E p \in Participants \cup Spares : Answer(p) \/ Fails(p)

TaskNext ==
  \/ Settle \/ SyncTurn
  \/ \E t \in Tasks :
       \/ Result(t) \/ Audited(t) \/ Cancel(t) \/ CancelEnds(t) \/ Expire(t) \/ ExpireEnds(t)
       \/ Replace(t) \/ ReplaceEnds(t) \/ Retry(t) \/ Refuse(t) \/ Attach(t)
  \/ \E s \in Posts : Ask(s)

Next == SessionNext \/ TaskNext \/ Crash \/ Boot

Spec == Init /\ [][Next]_vars

\* Every call of a provider has a timeout, continuations run, and the process is
\* started again.  Nobody has to answer, cancel or post anything.
Fairness ==
  /\ WF_vars(RoundEnds) /\ WF_vars(Evaluated) /\ WF_vars(Conclude)
  /\ WF_vars(Start) /\ WF_vars(Mark) /\ WF_vars(Settle) /\ WF_vars(SyncTurn) /\ WF_vars(Blame)
  /\ \A p \in Participants \cup Spares : WF_vars(Answer(p) \/ Fails(p))
  /\ WF_vars(Boot)

FairSpec == Spec /\ Fairness

-----------------------------------------------------------------------------
(* Properties                                                              *)

TypeOK ==
  /\ row \in [Tasks -> {"none", "asked"} \cup Open \cup Closed]
  /\ of \in [Tasks -> Stages] /\ root \in [Tasks -> Tasks]
  /\ stage \in [Stages -> {"pending", "running", "completed", "failed", "cancelled"}]
  /\ holder \in [Stages -> Tasks \cup {None}]
  /\ talk \in {"none", "active", "completed", "failed", "cancelled"}
  /\ session \in Waves \cup {"idle", "evaluating", "synthesizing", "concluded", "thrown"}
  /\ asked \cup proposed \subseteq Participants \cup Spares
  /\ after \in [Tasks -> {"nothing", "cancel", "expire", "replace"}]
  /\ source \in [Tasks -> Tasks \cup {None}]
  /\ turn \in [do : {"nothing", "start", "mark", "blame", "settle", "sync"},
              task : Tasks \cup {None}]
  /\ up \in BOOLEAN /\ crashes \in 0 .. MaxCrashes
  /\ offTask \cup judged \cup forgotten \subseteq Tasks /\ earned \subseteq Stages

\* Whatever is cancelled, expires, is replaced, retried or lost meanwhile: a
\* stage shows completed, and the implementation has begun, only if the stages
\* before were once completed by a task or, the discussion, by a quorum of
\* proposals (enforceWorkflowPrerequisites, collectResponses, the reconciliation).
WorkIsPrepared ==
  /\ \A s \in Stages : stage[s] = "completed" => s \in earned
  /\ stage["implementation"] # "pending" => Prerequisites("implementation") \subseteq earned

\* Nothing that concerns t is under way.
AtRest(t) ==
  /\ Free
  /\ after[t] = "nothing" /\ t \notin forgotten
  /\ \A u \in Tasks : row[u] = "asked" => source[u] # t

\* The stage of a closed task shows how the task ended, as soon as everything
\* that was begun for the task is done, and after every crash and boot (but for
\* an expired row that died unsynchronised).  The discussion's stage is left
\* out: the session writes it too.
StageShowsItsTask ==
  \A s \in Stages \ {"discussion"} :
    LET t == holder[s] IN
    t # None /\ row[t] \in Closed /\ AtRest(t) => stage[s] = Shown(row[t])

\* Nobody speaks any more, and no boot closes it until it is a day old: the task
\* was closed before the process died, so nobody looked for its discussion.
Abandoned == up /\ session = "idle" /\ row[Root] \in Closed

\* A discussion ends: every wave is bounded and there are three of them, a
\* cancelled one stops at the next check, an interrupted one is closed by the boot.
DiscussionEnds == (talk = "active") ~> (talk # "active" \/ Abandoned)
=============================================================================
