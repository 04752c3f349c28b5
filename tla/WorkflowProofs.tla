--------------------------- MODULE WorkflowProofs ---------------------------
(***************************************************************************)
(* What a stage of a run may show, for every number of participants, of    *)
(* tasks and of crashes.  The invariant follows three threads: what was    *)
(* earned by work (Earnings, Permits), what is under way for a task and    *)
(* how its row stands meanwhile (Duties), and who holds a stage and what   *)
(* the stage may show of it until it has been told (Holders, Shows).       *)
(***************************************************************************)
EXTENDS Workflow, TLAPS

\* The stages that tasks work on.
Behind == {"design", "implementation"}

\* A row that was attached to its stage, and may be closed since.
Attached == Open \cup Closed

\* A turn that ends with the stage of its task.
Telling == {"settle", "sync", "blame"}

\* What is completed was earned; a session that goes on behind a round has its
\* quorum, and nobody answers it any more; its stage is marked when it has ended.
Earnings ==
  /\ \A s \in Stages : stage[s] = "completed" => s \in earned
  /\ \A t \in Tasks : row[t] = "completed" => of[t] \in earned
  /\ talk = "completed" => "discussion" \in earned
  /\ session \in {"evaluating", "synthesizing"} => HasQuorum /\ asked = {}
  /\ turn.do = "mark" => talk \in {"completed", "failed"}

\* Who works on the implementation was let in, or retries a task that was.
Permits ==
  /\ \A t \in Tasks : of[t] = "implementation" => {"discussion", "design"} \subseteq earned
  /\ stage["implementation"] # "pending" => {"discussion", "design"} \subseteq earned
  /\ of[Root] = "design"

\* What is under way for a task, and how its row stands meanwhile.
Duties ==
  /\ turn.do \in Telling => turn.task \in Tasks /\ row[turn.task] \in Attached
  /\ turn.do = "blame" => turn.task = Root
  /\ \A t \in Tasks :
       /\ after[t] = "cancel" => row[t] = "cancelled"
       /\ after[t] = "expire" => row[t] \in {"failed", "lease_expired"}
       /\ after[t] = "replace" => row[t] = "failed"
       /\ row[t] = "asked" /\ source[t] # None =>
            row[source[t]] = "failed" /\ of[source[t]] = of[t]

\* Something is under way that ends with the stage of t, or with its successor's.
Owed(t) ==
  \/ turn.do \in Telling /\ turn.task = t
  \/ after[t] # "nothing"
  \/ \E u \in Tasks : row[u] = "asked" /\ source[u] = t

\* A stage is held by a task of its own that was attached.
Holders ==
  \A s \in Behind : holder[s] # None => of[holder[s]] = s /\ row[holder[s]] \in Attached

\* What stage s may show of its task t.
ShowsOf(s, t) ==
  \/ stage[s] = Shown(row[t])
  \/ t \in forgotten
  \/ up /\ Owed(t)
  \/ ~up /\ row[t] \notin Late

\* A stage shows how its task ended, or somebody will still tell it.
Shows ==
  \A s \in Behind : holder[s] # None /\ row[holder[s]] \in Closed => ShowsOf(s, holder[s])

WorkflowInv == TypeOK /\ Earnings /\ Permits /\ Duties /\ Holders /\ Shows

-----------------------------------------------------------------------------
\* The ids of tasks.
LEMMA TasksAre == Tasks \subseteq Int /\ Root \in Tasks /\ None \notin Tasks
BY WorkflowIsBounded DEF Tasks, Root, None

\* The types, variable by variable.
LEMMA TypesAre ==
  ASSUME TypeOK
  PROVE  /\ row \in [Tasks -> {"none", "asked"} \cup Open \cup Closed]
         /\ of \in [Tasks -> Stages] /\ root \in [Tasks -> Tasks]
         /\ stage \in [Stages -> {"pending", "running", "completed", "failed", "cancelled"}]
         /\ holder \in [Stages -> Tasks \cup {None}]
         /\ after \in [Tasks -> {"nothing", "cancel", "expire", "replace"}]
         /\ source \in [Tasks -> Tasks \cup {None}]
         /\ turn.task \in Tasks \cup {None}
BY DEF TypeOK

\* Nothing is earned, held or under way at the beginning.
LEMMA InitWorkflow == Init => WorkflowInv
<1>. SUFFICES ASSUME Init PROVE WorkflowInv
  OBVIOUS
<1>1. TypeOK
  BY TasksAre, WorkflowIsBounded DEF Init, TypeOK, Stages, Idle, Waves
<1>2. QED
  BY <1>1, TasksAre DEF Init, WorkflowInv, Earnings, Permits, Duties, Holders, Shows, Stages,
    Behind, Idle, Telling

\* The steps of a session leave the tasks and the stages behind it alone.
LEMMA SessionSpares ==
  ASSUME WorkflowInv, turn.do \notin Telling, turn'.do \notin Telling,
         UNCHANGED <<row, of, after, source, forgotten, up>>, earned \subseteq earned',
         \A s \in Behind : stage'[s] = stage[s] /\ holder'[s] = holder[s]
  PROVE  Permits' /\ Duties' /\ Holders' /\ Shows'
<1>. USE DEF WorkflowInv
<1>1. Permits'
  BY DEF Permits, Behind
<1>2. Duties'
  BY DEF Duties, Telling
<1>3. Holders'
  BY DEF Holders
<1>4. ASSUME NEW s \in Behind, holder'[s] # None, row'[holder'[s]] \in Closed
      PROVE  ShowsOf(s, holder[s])'
  <2>1. holder'[s] = holder[s] /\ stage'[s] = stage[s]
    OBVIOUS
  <2>2. ShowsOf(s, holder[s])
    BY <1>4, <2>1 DEF Shows
  <2>3. QED
    BY <2>1, <2>2 DEF ShowsOf, Owed
<1>5. QED
  BY <1>1, <1>2, <1>3, <1>4 DEF Shows

\* startDiscussion(): the session begins, and the stage runs.
LEMMA StartKeeps == ASSUME WorkflowInv, Start PROVE WorkflowInv'
<1>. USE DEF WorkflowInv
<1>1. /\ up /\ turn.do = "start" /\ talk' = "active"
      /\ stage' = [stage EXCEPT !["discussion"] = "running"]
      /\ holder' = [holder EXCEPT !["discussion"] = Root]
      /\ session' = "first" /\ asked' = Participants /\ turn' = Idle
      /\ UNCHANGED <<row, of, root, proposed, after, source, offTask, judged, up, crashes, earned,
                     forgotten>>
  BY DEF Start, requests, ghosts
<1>2. TypeOK'
  BY <1>1, TasksAre DEF TypeOK, Stages, Idle, Waves
<1>3. Earnings'
  BY <1>1 DEF Earnings, TypeOK, Idle
<1>4. \A s \in Behind : stage'[s] = stage[s] /\ holder'[s] = holder[s]
  BY <1>1, TypesAre DEF Behind, Stages
<1>5. turn.do \notin Telling /\ turn'.do \notin Telling
  BY <1>1 DEF Telling, Idle
<1>6. QED
  BY <1>1, <1>2, <1>3, <1>4, <1>5, SessionSpares

\* A participant, or its replacement, has answered or not.
LEMMA AskedKeeps ==
  ASSUME WorkflowInv, NEW p, Answer(p) \/ Fails(p) PROVE WorkflowInv'
<1>. USE DEF WorkflowInv
<1>1. /\ turn = Idle /\ p \in asked /\ asked' = asked \ {p}
      /\ proposed' = proposed \cup {p} \/ proposed' = proposed
      /\ UNCHANGED <<row, of, root, stage, holder, talk, session, after, source, offTask, judged,
                     turn, up, crashes, earned, forgotten>>
  BY DEF Answer, Fails, Free, tables, requests, ghosts
<1>2. TypeOK'
  BY <1>1 DEF TypeOK
<1>3. Earnings'
  BY <1>1 DEF Earnings
<1>4. turn.do \notin Telling /\ turn'.do \notin Telling
  BY <1>1 DEF Telling, Idle
<1>5. QED
  BY <1>1, <1>2, <1>3, <1>4, SessionSpares

\* A wave has ended: the next one, the judgement, or the end.
LEMMA RoundEndsKeeps == ASSUME WorkflowInv, RoundEnds PROVE WorkflowInv'
<1>. USE DEF WorkflowInv
<1>1. /\ turn = Idle
      /\ UNCHANGED <<row, of, root, stage, holder, proposed, after, source, offTask, judged, up,
                     crashes, earned, forgotten>>
  BY DEF RoundEnds, Free, requests, ghosts
<1>2. /\ session' \in {"again", "replaced", "thrown", "evaluating"}
      /\ asked' \subseteq Participants \cup Spares
      /\ talk' \in {talk, "failed"}
      /\ \/ turn' = turn
         \/ turn' = [do |-> "mark", task |-> None] /\ talk' = "failed"
      /\ session' = "evaluating" => HasQuorum /\ asked' = {}
  BY DEF RoundEnds, NextWave, Replacements
<1>3. TypeOK'
  BY <1>1, <1>2 DEF TypeOK, Waves
<1>4. Earnings'
  BY <1>1, <1>2 DEF Earnings, HasQuorum, Idle
<1>5. turn.do \notin Telling /\ turn'.do \notin Telling
  BY <1>1, <1>2 DEF Telling, Idle
<1>6. QED
  BY <1>1, <1>3, <1>4, <1>5, SessionSpares

\* The proposals have been evaluated.
LEMMA EvaluatedKeeps == ASSUME WorkflowInv, Evaluated PROVE WorkflowInv'
<1>. USE DEF WorkflowInv
<1>1. /\ turn = Idle /\ session = "evaluating" /\ session' \in {"synthesizing", "thrown"}
      /\ UNCHANGED <<row, of, root, stage, holder, talk, asked, proposed, after, source, offTask,
                     judged, turn, up, crashes, earned, forgotten>>
  BY DEF Evaluated, Free, tables, requests, ghosts
<1>2. TypeOK'
  BY <1>1 DEF TypeOK
<1>3. Earnings'
  BY <1>1 DEF Earnings, HasQuorum
<1>4. turn.do \notin Telling /\ turn'.do \notin Telling
  BY <1>1 DEF Telling, Idle
<1>5. QED
  BY <1>1, <1>2, <1>3, <1>4, SessionSpares

\* The session concludes: with a quorum behind it, the discussion is earned.
LEMMA ConcludeKeeps == ASSUME WorkflowInv, Conclude PROVE WorkflowInv'
<1>. USE DEF WorkflowInv
<1>0. HasQuorum /\ session = "synthesizing"
  BY DEF Conclude, Earnings
<1>1. /\ turn = Idle
      /\ UNCHANGED <<row, of, root, stage, holder, asked, proposed, after, source, offTask,
                     judged, up, crashes, forgotten>>
      /\ \/ session' = "thrown" /\ UNCHANGED <<talk, turn, earned>>
         \/ /\ session' = "concluded" /\ talk' = "completed"
            /\ turn' = [do |-> "mark", task |-> None]
            /\ earned' = earned \cup {"discussion"}
  BY <1>0 DEF Conclude, Free, requests
<1>2. TypeOK'
  <2>1. earned' \subseteq Stages
    BY <1>1 DEF TypeOK, Stages
  <2>2. turn' \in [do : {"nothing", "start", "mark", "blame", "settle", "sync"},
                   task : Tasks \cup {None}]
    BY <1>1 DEF TypeOK
  <2>3. QED
    BY <1>1, <2>1, <2>2 DEF TypeOK
<1>3. Earnings'
  BY <1>1 DEF Earnings
<1>4. turn.do \notin Telling /\ turn'.do \notin Telling
  BY <1>1 DEF Telling, Idle
<1>5. earned \subseteq earned'
  BY <1>1
<1>6. QED
  BY <1>1, <1>2, <1>3, <1>4, <1>5, SessionSpares

\* The stage of the discussion shows how the session ended.
LEMMA MarkKeeps == ASSUME WorkflowInv, Mark PROVE WorkflowInv'
<1>. USE DEF WorkflowInv
<1>1. /\ up /\ turn.do = "mark" /\ turn' = Idle
      /\ stage' = [stage EXCEPT !["discussion"] = talk]
      /\ UNCHANGED <<row, of, root, holder, talk, session, asked, proposed, after, source, offTask,
                     judged, up, crashes, earned, forgotten>>
  BY DEF Mark, meeting, requests, ghosts
<1>2. talk \in {"completed", "failed"}
  BY <1>1 DEF Earnings
<1>3. TypeOK'
  BY <1>1, <1>2 DEF TypeOK, Idle
<1>4. Earnings'
  BY <1>1, TypesAre DEF Earnings, HasQuorum, TypeOK
<1>5. \A s \in Behind : stage'[s] = stage[s] /\ holder'[s] = holder[s]
  BY <1>1, TypesAre DEF Behind, Stages
<1>6. turn.do \notin Telling /\ turn'.do \notin Telling
  BY <1>1 DEF Telling, Idle
<1>7. QED
  BY <1>1, <1>3, <1>4, <1>5, <1>6, SessionSpares

-----------------------------------------------------------------------------
(* Tasks                                                                     *)

Turns == [do : {"nothing", "start", "mark", "blame", "settle", "sync"}, task : Tasks \cup {None}]

\* A row that is live has nothing under way.
LEMMA LiveIsUntouched ==
  ASSUME WorkflowInv, NEW t \in Tasks, row[t] \in Open
  PROVE  /\ after[t] = "nothing"
         /\ \A u \in Tasks : row[u] = "asked" => source[u] # t
         /\ row[t] # "asked"
<1>1. after[t] \in {"nothing", "cancel", "expire", "replace"}
  BY TypesAre DEF WorkflowInv
<1>2. t # None
  BY TasksAre
<1>3. QED
  BY <1>1, <1>2 DEF WorkflowInv, Duties, Open

\* A live row moves on, and what is begun with that is remembered.
LEMMA MovesOn ==
  ASSUME WorkflowInv, Free, NEW t \in Tasks, row[t] \in Open,
         NEW r \in Attached, row' = [row EXCEPT ![t] = r],
         \/ /\ after' = after
            /\ \E do \in Telling :
                 turn' = [do |-> do, task |-> t] /\ (do = "blame" => t = Root)
         \/ /\ turn' = turn
            /\ \E a \in {"cancel", "expire", "replace"} :
                 /\ after' = [after EXCEPT ![t] = a]
                 /\ a = "cancel" => r = "cancelled"
                 /\ a = "expire" => r \in {"failed", "lease_expired"}
                 /\ a = "replace" => r = "failed",
         earned' \in {earned, earned \cup {of[t]}}, r = "completed" => of[t] \in earned',
         UNCHANGED <<session, proposed>> \/ (session' = "idle" /\ proposed' = {}),
         UNCHANGED <<of, root, stage, holder, talk, asked, source, offTask, judged, up, crashes,
                     forgotten>>
  PROVE  WorkflowInv'
<1>. USE DEF WorkflowInv
<1>0. /\ turn = Idle /\ up
      /\ row \in [Tasks -> {"none", "asked"} \cup Open \cup Closed]
      /\ of \in [Tasks -> Stages] /\ after \in [Tasks -> {"nothing", "cancel", "expire", "replace"}]
      /\ row'[t] = r /\ \A u \in Tasks : u # t => row'[u] = row[u]
  BY TypesAre DEF Free
<1>1. TypeOK'
  <2>1. row' \in [Tasks -> {"none", "asked"} \cup Open \cup Closed]
    BY <1>0 DEF Attached
  <2>2. after' \in [Tasks -> {"nothing", "cancel", "expire", "replace"}]
    BY <1>0
  <2>3. turn' \in Turns
    BY <1>0 DEF Turns, Telling, Idle
  <2>4. earned' \subseteq Stages
    BY <1>0 DEF TypeOK
  <2>5. QED
    BY <2>1, <2>2, <2>3, <2>4 DEF TypeOK, Turns
<1>2. Earnings'
  <2>1. turn'.do # "mark"
    BY <1>0 DEF Telling, Idle
  <2>2. \A u \in Tasks : row'[u] = "completed" => of[u] \in earned'
    BY <1>0 DEF Earnings
  <2>3. session' \in {"evaluating", "synthesizing"} => UNCHANGED <<session, proposed>>
    OBVIOUS
  <2>4. QED
    BY <2>1, <2>2, <2>3 DEF Earnings, HasQuorum
<1>3. Permits'
  BY DEF Permits
<1>4. Duties'
  <2>1. ASSUME NEW u \in Tasks
        PROVE  /\ after'[u] = "cancel" => row'[u] = "cancelled"
               /\ after'[u] = "expire" => row'[u] \in {"failed", "lease_expired"}
               /\ after'[u] = "replace" => row'[u] = "failed"
    <3>1. CASE u = t
      BY <1>0, <3>1, LiveIsUntouched
    <3>2. CASE u # t
      <4>1. after'[u] = after[u] /\ row'[u] = row[u]
        BY <1>0, <3>2
      <4>2. QED
        BY <4>1 DEF Duties
    <3>3. QED
      BY <3>1, <3>2
  <2>2. ASSUME NEW u \in Tasks, row'[u] = "asked", source[u] # None
        PROVE  row'[source[u]] = "failed" /\ of[source[u]] = of[u]
    <3>1. row[u] = "asked" /\ u # t
      BY <1>0, <2>2 DEF Attached, Open, Closed, Late
    <3>2. source[u] \in Tasks /\ source[u] # t
      BY <2>2, <3>1, LiveIsUntouched, TypesAre
    <3>3. QED
      BY <1>0, <2>2, <3>1, <3>2 DEF Duties
  <2>3. /\ turn'.do \in Telling => turn'.task \in Tasks /\ row'[turn'.task] \in Attached
        /\ turn'.do = "blame" => turn'.task = Root
    BY <1>0 DEF Idle, Telling
  <2>4. QED
    BY <2>1, <2>2, <2>3 DEF Duties
<1>5. Holders'
  BY <1>0, TypesAre DEF Holders, Behind, Stages
<1>6. ASSUME NEW s \in Behind, holder[s] # None, row'[holder[s]] \in Closed
      PROVE  ShowsOf(s, holder[s])'
  <2>1. holder[s] \in Tasks
    BY <1>6, TypesAre DEF Behind, Stages
  <2>2. CASE holder[s] = t
    <3>1. \/ turn'.do \in Telling /\ turn'.task = t
          \/ after'[t] # "nothing"
      BY <1>0
    <3>2. QED
      BY <1>0, <2>2, <3>1 DEF ShowsOf, Owed
  <2>3. CASE holder[s] # t
    <3>1. row'[holder[s]] = row[holder[s]] /\ after'[holder[s]] = after[holder[s]]
      BY <1>0, <2>1, <2>3
    <3>2. ShowsOf(s, holder[s])
      BY <1>6, <3>1 DEF Shows
    <3>3. turn.do \notin Telling
      BY <1>0 DEF Idle, Telling
    <3>4. \A u \in Tasks : row[u] = "asked" => row'[u] = "asked"
      BY <1>0, LiveIsUntouched
    <3>5. QED
      BY <1>0, <3>1, <3>2, <3>3, <3>4 DEF ShowsOf, Owed
  <2>4. QED
    BY <2>2, <2>3
<1>7. QED
  BY <1>1, <1>2, <1>3, <1>4, <1>5, <1>6 DEF Shows

\* syncWorkflowTask(): the stage shows how its task has ended.
LEMMA SyncKeeps ==
  ASSUME WorkflowInv, up, NEW t \in Tasks, row[t] \in Attached, NEW st, Sync(t, st),
         \/ row' = row
         \/ row[t] \in {"completed", "reviewing"} /\ row' = [row EXCEPT ![t] = "failed"],
         row'[t] \in Closed => Shown(st) = Shown(row'[t]),
         st = "completed" => row[t] = "completed",
         after' = after \/ after' = [after EXCEPT ![t] = "nothing"],
         turn' = Idle, turn.do \in Telling => turn.task = t,
         judged' \subseteq Tasks,
         UNCHANGED <<of, root, talk, session, asked, proposed, source, offTask, up, crashes,
                     earned>>
  PROVE  WorkflowInv'
<1>. USE DEF WorkflowInv
<1>0. /\ row \in [Tasks -> {"none", "asked"} \cup Open \cup Closed]
      /\ of \in [Tasks -> Stages] /\ after \in [Tasks -> {"nothing", "cancel", "expire", "replace"}]
      /\ stage \in [Stages -> {"pending", "running", "completed", "failed", "cancelled"}]
      /\ holder \in [Stages -> Tasks \cup {None}]
      /\ stage' = [stage EXCEPT ![of[t]] = Shown(st)] /\ holder' = [holder EXCEPT ![of[t]] = t]
      /\ forgotten' = forgotten \ {t}
      /\ \A u \in Tasks : u # t => row'[u] = row[u] /\ after'[u] = after[u]
  BY TypesAre DEF Sync
<1>1. /\ row' \in [Tasks -> {"none", "asked"} \cup Open \cup Closed]
      /\ row'[t] \in Attached
      /\ row'[t] # "asked"
      /\ \A u \in Tasks : row'[u] = "completed" => row[u] = "completed"
      /\ \A u \in Tasks : row[u] = "asked" <=> row'[u] = "asked"
  BY <1>0 DEF Attached, Open, Closed, Late
<1>2. TypeOK'
  <2>1. Shown(st) \in {"completed", "cancelled", "failed"}
    BY DEF Shown
  <2>2. stage' \in [Stages -> {"pending", "running", "completed", "failed", "cancelled"}]
    BY <1>0, <2>1
  <2>3. holder' \in [Stages -> Tasks \cup {None}]
    BY <1>0
  <2>4. after' \in [Tasks -> {"nothing", "cancel", "expire", "replace"}]
    BY <1>0
  <2>5. turn' \in Turns
    BY DEF Turns, Idle
  <2>6. QED
    BY <1>0, <1>1, <2>2, <2>3, <2>4, <2>5 DEF TypeOK, Turns
<1>3. Earnings'
  <2>1. Shown(st) = "completed" => st = "completed"
    BY DEF Shown
  <2>2. \A s \in Stages : stage'[s] = "completed" => s \in earned
    BY <1>0, <2>1 DEF Earnings
  <2>3. QED
    BY <1>0, <1>1, <2>2 DEF Earnings, HasQuorum, Idle
<1>4. Permits'
  <2>1. of[t] # "implementation" => stage'["implementation"] = stage["implementation"]
    BY <1>0 DEF Stages
  <2>2. QED
    BY <2>1 DEF Permits
<1>5. Duties'
  <2>1. ASSUME NEW u \in Tasks
        PROVE  /\ after'[u] = "cancel" => row'[u] = "cancelled"
               /\ after'[u] = "expire" => row'[u] \in {"failed", "lease_expired"}
               /\ after'[u] = "replace" => row'[u] = "failed"
    <3>1. after'[u] = "nothing" \/ after'[u] = after[u]
      BY <1>0
    <3>2. CASE row' = row
      BY <3>1, <3>2 DEF Duties
    <3>3. CASE row[t] \in {"completed", "reviewing"} /\ row' = [row EXCEPT ![t] = "failed"]
      <4>1. CASE u = t
        BY <3>1, <3>3, <4>1 DEF Duties
      <4>2. CASE u # t
        BY <1>0, <4>2 DEF Duties
      <4>3. QED
        BY <4>1, <4>2
    <3>4. QED
      BY <3>2, <3>3
  <2>2. ASSUME NEW u \in Tasks, row'[u] = "asked", source[u] # None
        PROVE  row'[source[u]] = "failed" /\ of[source[u]] = of[u]
    <3>1. row[u] = "asked" /\ source[u] \in Tasks
      BY <1>1, <2>2, TypesAre
    <3>2. row[source[u]] = "failed" /\ of[source[u]] = of[u]
      BY <2>2, <3>1 DEF Duties
    <3>3. row'[source[u]] = "failed"
      BY <1>0, <3>1, <3>2
    <3>4. QED
      BY <3>2, <3>3
  <2>3. turn'.do \notin Telling /\ turn'.do # "blame"
    BY DEF Idle, Telling
  <2>4. QED
    BY <2>1, <2>2, <2>3 DEF Duties
<1>6. ASSUME NEW s \in Behind, s # of[t], holder[s] # None
      PROVE  holder'[s] = holder[s] /\ stage'[s] = stage[s] /\ holder[s] \in Tasks /\ holder[s] # t
  BY <1>0, <1>6 DEF Holders, Behind, Stages
<1>7. ASSUME NEW s \in Behind, s = of[t]
      PROVE  holder'[s] = t /\ stage'[s] = Shown(st)
  BY <1>0, <1>7 DEF Behind, Stages
<1>8. ASSUME NEW s \in Behind, holder'[s] # None
      PROVE  of[holder'[s]] = s /\ row'[holder'[s]] \in Attached
  <2>1. CASE s = of[t]
    BY <1>7, <1>1, <2>1
  <2>2. CASE s # of[t]
    <3>1. holder[s] # None
      BY <1>0, <1>8, <2>2 DEF Behind, Stages
    <3>2. QED
      BY <1>0, <1>6, <2>2, <3>1 DEF Holders
  <2>3. QED
    BY <2>1, <2>2
<1>9. ASSUME NEW s \in Behind, holder'[s] # None, row'[holder'[s]] \in Closed
      PROVE  \/ stage'[s] = Shown(row'[holder'[s]])
             \/ holder'[s] \in forgotten'
             \/ after'[holder'[s]] # "nothing"
             \/ \E u \in Tasks : row'[u] = "asked" /\ source'[u] = holder'[s]
  <2>1. CASE s = of[t]
    BY <1>7, <1>9, <2>1
  <2>2. CASE s # of[t]
    <3>1. holder[s] # None
      BY <1>0, <1>9, <2>2 DEF Behind, Stages
    <3>2. /\ holder'[s] = holder[s] /\ stage'[s] = stage[s] /\ holder[s] \in Tasks
          /\ holder[s] # t
      BY <1>6, <2>2, <3>1
    <3>3. row'[holder[s]] = row[holder[s]] /\ after'[holder[s]] = after[holder[s]]
      BY <1>0, <3>2
    <3>4. ShowsOf(s, holder[s])
      BY <1>9, <3>1, <3>2, <3>3 DEF Shows
    <3>5. QED
      BY <1>0, <1>1, <3>2, <3>3, <3>4 DEF ShowsOf, Owed
  <2>3. QED
    BY <2>1, <2>2
<1>10. Holders' /\ Shows'
  BY <1>8, <1>9 DEF Holders, Shows, ShowsOf, Owed
<1>11. QED
  BY <1>2, <1>3, <1>4, <1>5, <1>10

\* settlePersistedTaskTerminal() tells the stage, unless the row waits for its audit.
LEMMA SettlingKeeps ==
  ASSUME WorkflowInv, up, NEW t \in Tasks, row[t] \in Attached, Settling(t),
         turn' = Idle, turn.do \in Telling => turn.task = t,
         UNCHANGED <<of, root, talk, session, asked, proposed, after, source, offTask, up, crashes,
                     earned>>
  PROVE  WorkflowInv'
<1>. USE DEF WorkflowInv
<1>0. judged \subseteq Tasks
  BY DEF TypeOK
<1>1. CASE /\ row[t] \in {"completed", "reviewing"} /\ row' = [row EXCEPT ![t] = "failed"]
           /\ Sync(t, "failed") /\ UNCHANGED judged
  <2>1. row'[t] = "failed"
    BY <1>1, TypesAre
  <2>2. QED
    BY <1>0, <1>1, <2>1, SyncKeeps
<1>2. CASE /\ row[t] # "reviewing" /\ Sync(t, row[t]) /\ UNCHANGED row
           /\ judged' = IF row[t] = "completed" THEN judged \cup {t} ELSE judged
  <2>1. judged' \subseteq Tasks
    BY <1>0, <1>2
  <2>2. QED
    BY <1>2, <2>1, SyncKeeps
<1>3. CASE /\ row[t] = "reviewing" /\ judged' = judged \cup {t}
           /\ UNCHANGED <<row, stage, holder, forgotten>>
  <2>1. TypeOK'
    BY <1>0, <1>3 DEF TypeOK, Idle
  <2>2. Earnings' /\ Permits' /\ Holders'
    BY <1>3 DEF Earnings, Permits, Holders, HasQuorum, Idle
  <2>3. Duties'
    BY <1>3 DEF Duties, Idle, Telling
  <2>4. ASSUME NEW s \in Behind, holder[s] # None, row[holder[s]] \in Closed
        PROVE  ShowsOf(s, holder[s])'
    <3>1. holder[s] # t
      BY <1>3, <2>4 DEF Closed, Late
    <3>2. ShowsOf(s, holder[s])
      BY <2>4 DEF Shows
    <3>3. QED
      BY <1>3, <3>1, <3>2 DEF ShowsOf, Owed
  <2>5. QED
    BY <1>3, <2>1, <2>2, <2>3, <2>4 DEF Shows
<1>4. QED
  BY <1>1, <1>2, <1>3 DEF Settling

\* What was begun for a task ends, and its stage is told in the same turn.
LEMMA HandsOver ==
  ASSUME WorkflowInv, Free, NEW t \in Tasks, after[t] \in {"cancel", "replace"},
         after' = [after EXCEPT ![t] = "nothing"],
         NEW do \in {"settle", "sync"}, turn' = [do |-> do, task |-> t],
         talk' = talk \/ talk' = "cancelled",
         UNCHANGED <<row, of, root, stage, holder, session, asked, proposed, source, offTask,
                     judged, up, crashes, earned, forgotten>>
  PROVE  WorkflowInv'
<1>. USE DEF WorkflowInv
<1>0. /\ turn = Idle /\ up /\ after \in [Tasks -> {"nothing", "cancel", "expire", "replace"}]
      /\ row[t] \in Attached
      /\ \A u \in Tasks : after'[u] = "nothing" \/ after'[u] = after[u]
      /\ \A u \in Tasks : u # t => after'[u] = after[u]
  BY TypesAre DEF Free, Duties, Attached, Closed
<1>1. TypeOK'
  BY <1>0 DEF TypeOK
<1>2. Earnings' /\ Permits' /\ Holders'
  BY DEF Earnings, Permits, Holders, HasQuorum
<1>3. Duties'
  BY <1>0 DEF Duties
<1>4. ASSUME NEW s \in Behind, holder[s] # None, row[holder[s]] \in Closed
      PROVE  ShowsOf(s, holder[s])'
  <2>1. holder[s] \in Tasks
    BY <1>4, TypesAre DEF Behind, Stages
  <2>2. CASE holder[s] = t
    BY <1>0, <2>2 DEF ShowsOf, Owed, Telling
  <2>3. CASE holder[s] # t
    <3>1. ShowsOf(s, holder[s])
      BY <1>4 DEF Shows
    <3>2. turn.do \notin Telling
      BY <1>0 DEF Idle, Telling
    <3>3. QED
      BY <1>0, <2>1, <2>3, <3>1, <3>2 DEF ShowsOf, Owed
  <2>4. QED
    BY <2>2, <2>3
<1>5. QED
  BY <1>1, <1>2, <1>3, <1>4 DEF Shows

\* The conductor creates the run and its task, and starts the discussion.
LEMMA ConductKeeps == ASSUME WorkflowInv, Conduct PROVE WorkflowInv'
<1>. USE DEF WorkflowInv
<1>0. /\ turn = Idle /\ up /\ row[Root] = "none"
      /\ row' = [row EXCEPT ![Root] = "open"] /\ of' = [of EXCEPT ![Root] = "design"]
      /\ offTask' = offTask \cup {Root}
      /\ stage' = [stage EXCEPT !["design"] = "running"]
      /\ holder' = [holder EXCEPT !["design"] = Root]
      /\ turn' = [do |-> "start", task |-> Root]
      /\ UNCHANGED <<root, talk, session, asked, proposed, after, source, judged, up, crashes,
                     earned, forgotten>>
  BY DEF Conduct, Free, meeting, ghosts
<1>1. /\ Root \in Tasks
      /\ row \in [Tasks -> {"none", "asked"} \cup Open \cup Closed]
      /\ of \in [Tasks -> Stages]
      /\ row'[Root] = "open" /\ \A u \in Tasks : u # Root => row'[u] = row[u]
      /\ of'[Root] = "design" /\ \A u \in Tasks : u # Root => of'[u] = of[u]
  BY <1>0, TypesAre, TasksAre DEF Stages
<1>2. TypeOK'
  <2>1. row' \in [Tasks -> {"none", "asked"} \cup Open \cup Closed]
    BY <1>0, <1>1 DEF Open
  <2>2. of' \in [Tasks -> Stages]
    BY <1>0, <1>1 DEF Stages
  <2>3. QED
    BY <1>0, <1>1, <2>1, <2>2 DEF TypeOK, Stages
<1>3. Earnings'
  <2>1. \A s \in Stages : stage'[s] = "completed" => stage[s] = "completed"
    BY <1>0, TypesAre
  <2>2. QED
    BY <1>0, <1>1, <2>1 DEF Earnings, HasQuorum
<1>4. Permits'
  BY <1>0, <1>1, TypesAre DEF Permits, Stages
<1>5. Duties'
  <2>1. ASSUME NEW u \in Tasks, row'[u] = "asked", source[u] # None
        PROVE  row'[source[u]] = "failed" /\ of'[source[u]] = of'[u]
    <3>1. row[u] = "asked" /\ u # Root /\ source[u] \in Tasks
      BY <1>0, <1>1, <2>1, TypesAre
    <3>2. row[source[u]] = "failed" /\ of[source[u]] = of[u]
      BY <2>1, <3>1 DEF Duties
    <3>3. QED
      BY <1>0, <1>1, <3>1, <3>2
  <2>2. QED
    BY <1>0, <1>1, <2>1 DEF Duties, Telling
<1>6. ASSUME NEW s \in Behind
      PROVE  \/ s = "design" /\ holder'[s] = Root
             \/ holder'[s] = holder[s] /\ stage'[s] = stage[s] /\ holder[s] \in Tasks \cup {None}
  BY <1>0, TypesAre DEF Behind, Stages
<1>7. ASSUME NEW s \in Behind, holder'[s] # None, holder'[s] # Root
      PROVE  /\ holder'[s] = holder[s] /\ stage'[s] = stage[s]
             /\ row'[holder[s]] = row[holder[s]] /\ of'[holder[s]] = of[holder[s]]
  BY <1>1, <1>6, <1>7
<1>8. ASSUME NEW s \in Behind, holder'[s] # None
      PROVE  of'[holder'[s]] = s /\ row'[holder'[s]] \in Attached
  <2>1. CASE holder'[s] = Root
    <3>1. holder[s] # Root
      BY <1>0, TasksAre DEF Holders, Attached, Open, Closed, Late
    <3>2. s = "design"
      BY <1>6, <2>1, <3>1
    <3>3. QED
      BY <1>1, <2>1, <3>2 DEF Attached, Open
  <2>2. CASE holder'[s] # Root
    BY <1>7, <1>8, <2>2 DEF Holders
  <2>3. QED
    BY <2>1, <2>2
<1>9. ASSUME NEW s \in Behind, holder'[s] # None, row'[holder'[s]] \in Closed
      PROVE  \/ stage'[s] = Shown(row'[holder'[s]])
             \/ holder'[s] \in forgotten'
             \/ after'[holder'[s]] # "nothing"
             \/ \E u \in Tasks : row'[u] = "asked" /\ source'[u] = holder'[s]
  <2>1. holder'[s] # Root
    BY <1>1, <1>9 DEF Closed, Late
  <2>2. ShowsOf(s, holder[s])
    BY <1>7, <1>9, <2>1 DEF Shows
  <2>3. turn.do \notin Telling
    BY <1>0 DEF Idle, Telling
  <2>4. QED
    BY <1>0, <1>1, <1>7, <1>9, <2>1, <2>2, <2>3 DEF ShowsOf, Owed
<1>10. Holders' /\ Shows'
  BY <1>0, <1>8, <1>9 DEF Holders, Shows, ShowsOf, Owed
<1>11. QED
  BY <1>2, <1>3, <1>4, <1>5, <1>10

\* The conductor hears of the end of its session, if its row is still open.
LEMMA ReportKeeps == ASSUME WorkflowInv, Report PROVE WorkflowInv'
<1>. USE DEF WorkflowInv
<1>0. /\ Free /\ session' = "idle" /\ proposed' = {}
      /\ UNCHANGED <<of, root, stage, holder, talk, asked, after, source, offTask, judged, up,
                     crashes, forgotten>>
  BY DEF Report, requests
<1>1. CASE row[Root] = "open"
  <2>1. PICK r \in {"completed", "reviewing", "failed"} : row' = [row EXCEPT ![Root] = r]
    BY <1>1 DEF Report
  <2>2. /\ earned' = IF row'[Root] = "completed" THEN earned \cup {"design"} ELSE earned
        /\ turn' = [do |-> "settle", task |-> Root]
    BY <1>1 DEF Report
  <2>3. Root \in Tasks /\ of[Root] = "design" /\ row[Root] \in Open /\ r \in Attached
        /\ row'[Root] = r /\ "settle" \in Telling
    BY <1>1, <2>1, TasksAre, TypesAre DEF Permits, Open, Attached, Closed, Telling
  <2>4. earned' \in {earned, earned \cup {of[Root]}} /\ (r = "completed" => of[Root] \in earned')
    BY <2>2, <2>3
  <2>5. QED
    BY <1>0, <2>1, <2>2, <2>3, <2>4, MovesOn
<1>2. CASE row[Root] # "open"
  <2>1. UNCHANGED <<row, earned, turn>> /\ turn = Idle
    BY <1>0, <1>2 DEF Report, Free
  <2>2. TypeOK'
    BY <1>0, <2>1 DEF TypeOK
  <2>3. Earnings'
    BY <1>0, <2>1 DEF Earnings, Idle
  <2>4. turn.do \notin Telling /\ turn'.do \notin Telling
    BY <2>1 DEF Telling, Idle
  <2>5. QED
    BY <1>0, <2>1, <2>2, <2>3, <2>4, SessionSpares
<1>3. QED
  BY <1>1, <1>2

\* The session has thrown: the conductor's row fails.
LEMMA ThrownKeeps == ASSUME WorkflowInv, Thrown PROVE WorkflowInv'
<1>. USE DEF WorkflowInv
<1>0. /\ Free /\ session' = "idle" /\ proposed' = {}
      /\ UNCHANGED <<of, root, stage, holder, talk, asked, after, source, offTask, judged, up,
                     crashes, earned, forgotten>>
  BY DEF Thrown, requests, ghosts
<1>1. CASE row[Root] \in Open
  <2>1. row' = [row EXCEPT ![Root] = "failed"] /\ turn' = [do |-> "blame", task |-> Root]
    BY <1>1 DEF Thrown
  <2>2. Root \in Tasks /\ "failed" \in Attached /\ "blame" \in Telling
    BY TasksAre DEF Attached, Closed, Telling
  <2>3. QED
    BY <1>0, <1>1, <2>1, <2>2, MovesOn
<1>2. CASE row[Root] \notin Open
  <2>1. UNCHANGED <<row, turn>> /\ turn = Idle
    BY <1>0, <1>2 DEF Thrown, Free
  <2>2. TypeOK'
    BY <1>0, <2>1 DEF TypeOK
  <2>3. Earnings'
    BY <1>0, <2>1 DEF Earnings, Idle
  <2>4. turn.do \notin Telling /\ turn'.do \notin Telling
    BY <2>1 DEF Telling, Idle
  <2>5. QED
    BY <1>0, <2>1, <2>2, <2>3, <2>4, SessionSpares
<1>3. QED
  BY <1>1, <1>2

\* A session that threw fails the stage.
LEMMA BlameKeeps == ASSUME WorkflowInv, Blame PROVE WorkflowInv'
<1>. USE DEF WorkflowInv
<1>1. /\ up /\ turn.do = "blame" /\ turn' = [do |-> "settle", task |-> Root]
      /\ stage' = [stage EXCEPT !["discussion"] = "failed"]
      /\ holder' = [holder EXCEPT !["discussion"] = Root]
      /\ UNCHANGED <<row, of, root, talk, session, asked, proposed, after, source, offTask, judged,
                     up, crashes, earned, forgotten>>
  BY DEF Blame, meeting, requests, ghosts
<1>2. turn.task = Root
  BY <1>1 DEF Duties
<1>3. TypeOK'
  BY <1>1, TasksAre DEF TypeOK, Stages
<1>4. Earnings'
  BY <1>1, TypesAre DEF Earnings, HasQuorum
<1>5. \A s \in Behind : stage'[s] = stage[s] /\ holder'[s] = holder[s]
  BY <1>1, TypesAre DEF Behind, Stages
<1>6. Permits' /\ Holders'
  BY <1>1, <1>5 DEF Permits, Holders, Behind
<1>7. Duties'
  BY <1>1, <1>2 DEF Duties, Telling
<1>8. ASSUME NEW s \in Behind, holder[s] # None, row[holder[s]] \in Closed
      PROVE  ShowsOf(s, holder[s])'
  <2>1. ShowsOf(s, holder[s])
    BY <1>8 DEF Shows
  <2>2. QED
    BY <1>1, <1>2, <1>5, <2>1 DEF ShowsOf, Owed, Telling
<1>9. Shows'
  BY <1>1, <1>5, <1>8 DEF Shows
<1>10. QED
  BY <1>3, <1>4, <1>6, <1>7, <1>9

\* The continuation of a closed row settles it.
LEMMA SettleKeeps == ASSUME WorkflowInv, Settle PROVE WorkflowInv'
<1>1. /\ up /\ turn.do = "settle" /\ Settling(turn.task) /\ turn' = Idle
      /\ UNCHANGED <<of, root, talk, session, asked, proposed, after, source, offTask, up, crashes,
                     earned>>
  BY DEF Settle, meeting
<1>2. turn.task \in Tasks /\ row[turn.task] \in Attached
  BY <1>1 DEF WorkflowInv, Duties, Telling
<1>3. QED
  BY <1>1, <1>2, SettlingKeeps

\* A result, and what the auditor says of it, move a live row on.
LEMMA ResultKeeps ==
  ASSUME WorkflowInv, NEW t \in Tasks, Result(t) \/ Audited(t) PROVE WorkflowInv'
<1>1. /\ Free /\ row[t] \in Open
      /\ \E r \in Closed \cup {"reviewing"} : row' = [row EXCEPT ![t] = r]
      /\ earned' = IF row'[t] = "completed" THEN earned \cup {of[t]} ELSE earned
      /\ \E do \in {"settle", "sync"} : turn' = [do |-> do, task |-> t]
      /\ UNCHANGED <<of, root, stage, holder, talk, session, asked, proposed, after, source,
                     offTask, judged, up, crashes, forgotten>>
  BY DEF Result, Audited, Open, Closed, meeting, requests
<1>2. PICK r \in Closed \cup {"reviewing"} : row' = [row EXCEPT ![t] = r]
  BY <1>1
<1>3. r \in Attached /\ row'[t] = r
  BY <1>2, TypesAre DEF Attached, Open, WorkflowInv
<1>4. earned' \in {earned, earned \cup {of[t]}} /\ (r = "completed" => of[t] \in earned')
  BY <1>1, <1>3
<1>5. \E do \in Telling : turn' = [do |-> do, task |-> t] /\ (do = "blame" => t = Root)
  BY <1>1 DEF Telling
<1>6. QED
  BY <1>1, <1>2, <1>3, <1>4, <1>5, MovesOn

\* A verdict of the audit or a cancellation, behind its await, tells the stage.
LEMMA SyncTurnKeeps == ASSUME WorkflowInv, SyncTurn PROVE WorkflowInv'
<1>1. /\ up /\ turn.do = "sync" /\ Sync(turn.task, row[turn.task]) /\ turn' = Idle
      /\ UNCHANGED <<row, of, root, talk, session, asked, proposed, after, source, offTask, judged,
                     up, crashes, earned>>
  BY DEF SyncTurn, meeting, requests
<1>2. turn.task \in Tasks /\ row[turn.task] \in Attached
  BY <1>1 DEF WorkflowInv, Duties, Telling
<1>3. judged' \subseteq Tasks
  BY <1>1 DEF WorkflowInv, TypeOK
<1>4. QED
  BY <1>1, <1>2, <1>3, SyncKeeps

\* A row is cancelled, its stage is left to the await; a closed one is settled again.
LEMMA CancelKeeps == ASSUME WorkflowInv, NEW t \in Tasks, Cancel(t) PROVE WorkflowInv'
<1>1. /\ Free
      /\ UNCHANGED <<of, root, talk, session, asked, proposed, source, offTask, turn, up, crashes,
                     earned>>
  BY DEF Cancel, meeting
<1>2. CASE /\ row[t] \in Open /\ row' = [row EXCEPT ![t] = "cancelled"]
           /\ after' = [after EXCEPT ![t] = "cancel"]
           /\ UNCHANGED <<stage, holder, judged, forgotten>>
  <2>1. "cancelled" \in Attached
    BY DEF Attached, Closed
  <2>2. QED
    BY <1>1, <1>2, <2>1, MovesOn
<1>3. CASE row[t] \in Closed /\ Settling(t) /\ UNCHANGED after
  <2>1. up /\ turn' = Idle /\ turn.do \notin Telling /\ row[t] \in Attached
    BY <1>1, <1>3 DEF Free, Idle, Telling, Attached
  <2>2. QED
    BY <1>1, <1>3, <2>1, SettlingKeeps
<1>4. QED
  BY <1>2, <1>3 DEF Cancel

\* A cancelled task closes its discussion, and its stage comes next.
LEMMA CancelEndsKeeps == ASSUME WorkflowInv, NEW t \in Tasks, CancelEnds(t) PROVE WorkflowInv'
<1>1. /\ Free /\ after[t] = "cancel" /\ after' = [after EXCEPT ![t] = "nothing"]
      /\ talk' = talk \/ talk' = "cancelled"
      /\ turn' = [do |-> "sync", task |-> t]
      /\ UNCHANGED <<row, of, root, stage, holder, session, asked, proposed, source, offTask,
                     judged, up, crashes, earned, forgotten>>
  BY DEF CancelEnds, meeting, ghosts
<1>2. QED
  BY <1>1, HandsOver

\* A lease or a deadline expires.
LEMMA ExpireKeeps == ASSUME WorkflowInv, NEW t \in Tasks, Expire(t) PROVE WorkflowInv'
<1>1. PICK r \in {"failed", "lease_expired"} :
        /\ Free /\ row[t] \in Open /\ row' = [row EXCEPT ![t] = r]
        /\ after' = [after EXCEPT ![t] = "expire"]
        /\ UNCHANGED <<of, root, stage, holder, talk, session, asked, proposed, source, offTask,
                       judged, turn, up, crashes, earned, forgotten>>
  BY DEF Expire, Open, meeting, ghosts
<1>2. r \in Attached
  BY DEF Attached, Closed, Late
<1>3. QED
  BY <1>1, <1>2, MovesOn

\* The expiry tells the stage.
LEMMA ExpireEndsKeeps == ASSUME WorkflowInv, NEW t \in Tasks, ExpireEnds(t) PROVE WorkflowInv'
<1>1. /\ Free /\ after[t] = "expire" /\ after' = [after EXCEPT ![t] = "nothing"]
      /\ Sync(t, "failed")
      /\ UNCHANGED <<row, of, root, talk, session, asked, proposed, source, offTask, judged, turn,
                     up, crashes, earned>>
  BY DEF ExpireEnds, meeting
<1>2. row[t] \in {"failed", "lease_expired"}
  BY <1>1 DEF WorkflowInv, Duties
<1>3. row[t] \in Attached /\ Shown("failed") = Shown(row[t])
  BY <1>2 DEF Attached, Closed, Late, Shown
<1>4. up /\ turn' = Idle /\ turn.do \notin Telling
  BY <1>1 DEF Free, Idle, Telling
<1>5. judged' \subseteq Tasks
  BY <1>1 DEF WorkflowInv, TypeOK
<1>6. QED
  BY <1>1, <1>3, <1>4, <1>5, SyncKeeps

\* A live row is closed to be replaced.
LEMMA ReplaceKeeps == ASSUME WorkflowInv, NEW t \in Tasks, Replace(t) PROVE WorkflowInv'
<1>1. /\ Free /\ row[t] \in Open /\ row' = [row EXCEPT ![t] = "failed"]
      /\ after' = [after EXCEPT ![t] = "replace"]
      /\ UNCHANGED <<of, root, stage, holder, talk, session, asked, proposed, source, offTask,
                     judged, turn, up, crashes, earned, forgotten>>
  BY DEF Replace, meeting, ghosts
<1>2. "failed" \in Attached
  BY DEF Attached, Closed
<1>3. QED
  BY <1>1, <1>2, MovesOn

-----------------------------------------------------------------------------
(* Intake                                                                    *)

\* A new task has an id nobody has.
LEMMA NextIdIs ==
  ASSUME Unused # {} PROVE NextId \in Tasks /\ NextId # Root /\ row[NextId] = "none"
BY DEF NextId, Unused

\* A task is let in by the gate, or in the name of one that was.
LEMMA PostedKeeps ==
  ASSUME WorkflowInv, Free, NEW s \in Stages, NEW off \in BOOLEAN, Posted(s, off),
         off /\ s = "implementation" => {"discussion", "design"} \subseteq earned,
         NEW x \in Tasks \cup {None}, source' = [source EXCEPT ![NextId] = x],
         x # None => row[x] = "failed" /\ of[x] = s,
         \/ after' = after
         \/ x # None /\ after' = [after EXCEPT ![x] = "nothing"],
         NEW r \in Tasks, root' = [root EXCEPT ![NextId] = r],
         UNCHANGED <<stage, holder, talk, session, asked, proposed, judged, turn, up, crashes,
                     earned, forgotten>>
  PROVE  WorkflowInv'
<1>. USE DEF WorkflowInv
<1>. DEFINE n == NextId
<1>0. /\ turn = Idle /\ up /\ n \in Tasks /\ n # Root /\ row[n] = "none"
      /\ row' = [row EXCEPT ![n] = "asked"] /\ of' = [of EXCEPT ![n] = s]
      /\ off \/ Passes(s)
      /\ offTask' \subseteq offTask \cup {n}
  BY NextIdIs DEF Posted, Free
<1>. HIDE DEF n
<1>1. /\ row \in [Tasks -> {"none", "asked"} \cup Open \cup Closed]
      /\ of \in [Tasks -> Stages] /\ source \in [Tasks -> Tasks \cup {None}]
      /\ after \in [Tasks -> {"nothing", "cancel", "expire", "replace"}]
      /\ row'[n] = "asked" /\ of'[n] = s
      /\ \A u \in Tasks : u # n => row'[u] = row[u] /\ of'[u] = of[u]
      /\ x # None => x \in Tasks /\ x # n
      /\ \A u \in Tasks : after'[u] = "nothing" \/ after'[u] = after[u]
      /\ \A u \in Tasks : u # x => after'[u] = after[u]
  BY <1>0, TypesAre
<1>2. source'[n] = x /\ \A u \in Tasks : u # n => source'[u] = source[u]
  BY <1>0, <1>1 DEF n
<1>3. TypeOK'
  <2>1. row' \in [Tasks -> {"none", "asked"} \cup Open \cup Closed]
    BY <1>0, <1>1
  <2>2. of' \in [Tasks -> Stages] /\ root' \in [Tasks -> Tasks]
    BY <1>0, <1>1, TypesAre
  <2>3. source' \in [Tasks -> Tasks \cup {None}]
    BY <1>1
  <2>4. after' \in [Tasks -> {"nothing", "cancel", "expire", "replace"}]
    BY <1>1
  <2>5. QED
    BY <1>0, <2>1, <2>2, <2>3, <2>4 DEF TypeOK
<1>4. Earnings'
  <2>1. \A u \in Tasks : row'[u] = "completed" => of'[u] \in earned
    BY <1>1 DEF Earnings
  <2>2. QED
    BY <2>1 DEF Earnings, HasQuorum
<1>5. Permits'
  <2>1. s = "implementation" => {"discussion", "design"} \subseteq earned
    BY <1>0 DEF Passes, Prerequisites, Earnings, Stages
  <2>2. QED
    BY <1>0, <1>1, <2>1, TasksAre DEF Permits
<1>6. Duties'
  <2>1. ASSUME NEW u \in Tasks
        PROVE  /\ after'[u] = "cancel" => row'[u] = "cancelled"
               /\ after'[u] = "expire" => row'[u] \in {"failed", "lease_expired"}
               /\ after'[u] = "replace" => row'[u] = "failed"
    BY <1>0, <1>1 DEF Duties
  <2>2. ASSUME NEW u \in Tasks, row'[u] = "asked", source'[u] # None
        PROVE  row'[source'[u]] = "failed" /\ of'[source'[u]] = of'[u]
    <3>1. CASE u = n
      BY <1>1, <1>2, <2>2, <3>1
    <3>2. CASE u # n
      <4>1. row[u] = "asked" /\ source[u] \in Tasks /\ source'[u] = source[u]
        BY <1>1, <1>2, <2>2, <3>2
      <4>2. row[source[u]] = "failed" /\ of[source[u]] = of[u]
        BY <2>2, <4>1 DEF Duties
      <4>3. source[u] # n
        BY <1>0, <4>2
      <4>4. QED
        BY <1>1, <3>2, <4>1, <4>2, <4>3
    <3>3. QED
      BY <3>1, <3>2
  <2>3. turn'.do \notin Telling /\ turn'.do # "blame"
    BY <1>0 DEF Idle, Telling
  <2>4. QED
    BY <2>1, <2>2, <2>3 DEF Duties
<1>7. ASSUME NEW p \in Behind, holder[p] # None
      PROVE  holder[p] \in Tasks /\ holder[p] # n
  BY <1>0, <1>7, TypesAre DEF Holders, Behind, Stages, Attached, Open, Closed, Late
<1>8. Holders'
  BY <1>1, <1>7 DEF Holders
<1>9. ASSUME NEW p \in Behind, holder[p] # None, row'[holder[p]] \in Closed
      PROVE  ShowsOf(p, holder[p])'
  <2>1. ShowsOf(p, holder[p]) /\ row'[holder[p]] = row[holder[p]]
    BY <1>1, <1>7, <1>9 DEF Shows
  <2>2. turn.do \notin Telling
    BY <1>0 DEF Idle, Telling
  <2>3. CASE holder[p] = x
    <3>1. row'[n] = "asked" /\ source'[n] = holder[p]
      BY <1>1, <1>2, <2>3
    <3>2. QED
      BY <1>0, <3>1 DEF ShowsOf, Owed
  <2>4. CASE holder[p] # x
    <3>1. after'[holder[p]] = after[holder[p]]
      BY <1>1, <1>7, <1>9, <2>4
    <3>2. \A u \in Tasks : row[u] = "asked" => row'[u] = "asked" /\ source'[u] = source[u]
      BY <1>0, <1>1, <1>2
    <3>3. QED
      BY <2>1, <2>2, <3>1, <3>2 DEF ShowsOf, Owed
  <2>5. QED
    BY <2>3, <2>4
<1>10. QED
  BY <1>3, <1>4, <1>5, <1>6, <1>8, <1>9 DEF Shows

\* A client posts a task of a stage: the gate was asked.
LEMMA AskKeeps == ASSUME WorkflowInv, NEW s \in Posts, Ask(s) PROVE WorkflowInv'
<1>1. /\ Free /\ Posted(s, FALSE)
      /\ root' = [root EXCEPT ![NextId] = NextId] /\ source' = [source EXCEPT ![NextId] = None]
      /\ UNCHANGED <<stage, holder, talk, session, asked, proposed, after, judged, turn, up,
                     crashes, earned, forgotten>>
  BY DEF Ask, meeting, ghosts
<1>2. s \in Stages
  BY WorkflowIsBounded DEF Stages
<1>3. NextId \in Tasks
  BY <1>1, NextIdIs DEF Posted
<1>4. QED
  BY <1>1, <1>2, <1>3, PostedKeeps

\* A retry inherits the stage of its task, and what that was let in by.
LEMMA InjectKeeps ==
  ASSUME WorkflowInv, Free, NEW t \in Tasks, NEW x \in {None, t}, Inject(t, x),
         x = t => row[t] = "failed",
         after' = after \/ (x = t /\ after' = [after EXCEPT ![t] = "nothing"]),
         UNCHANGED <<stage, holder, talk, session, asked, proposed, judged, turn, up, crashes,
                     earned, forgotten>>
  PROVE  WorkflowInv'
<1>1. PICK off \in BOOLEAN : (off => t \in offTask) /\ Posted(of[t], off)
  BY DEF Inject
<1>2. of[t] \in Stages /\ root[t] \in Tasks /\ t # None
  BY TypesAre, TasksAre DEF WorkflowInv
<1>3. root' = [root EXCEPT ![NextId] = root[t]] /\ source' = [source EXCEPT ![NextId] = x]
  BY DEF Inject
<1>4. of[t] = "implementation" => {"discussion", "design"} \subseteq earned
  BY DEF WorkflowInv, Permits
<1>5. x \in Tasks \cup {None} /\ (x # None => x = t)
  OBVIOUS
<1>6. QED
  BY <1>1, <1>2, <1>3, <1>4, <1>5, PostedKeeps

\* A closed task is retried.
LEMMA RetryKeeps == ASSUME WorkflowInv, NEW t \in Tasks, Retry(t) PROVE WorkflowInv'
<1>1. /\ Free /\ Inject(t, None)
      /\ UNCHANGED <<stage, holder, talk, session, asked, proposed, after, judged, turn, up,
                     crashes, earned, forgotten>>
  BY DEF Retry, meeting, ghosts
<1>2. t # None
  BY TasksAre
<1>3. QED
  BY <1>1, <1>2, InjectKeeps

\* The replacement of a task is posted.
LEMMA ReplaceEndsKeeps ==
  ASSUME WorkflowInv, NEW t \in Tasks, ReplaceEnds(t) PROVE WorkflowInv'
<1>1. /\ Free /\ after[t] = "replace" /\ after' = [after EXCEPT ![t] = "nothing"]
      /\ UNCHANGED <<stage, holder, talk, session, asked, proposed, judged, up, crashes, earned,
                     forgotten>>
  BY DEF ReplaceEnds, meeting, ghosts
<1>2. row[t] = "failed"
  BY <1>1 DEF WorkflowInv, Duties
<1>3. CASE Inject(t, t) /\ UNCHANGED turn
  BY <1>1, <1>2, <1>3, InjectKeeps
<1>4. CASE /\ turn' = [do |-> "settle", task |-> t]
           /\ UNCHANGED <<row, of, root, offTask, source>>
  BY <1>1, <1>4, HandsOver
<1>5. QED
  BY <1>3, <1>4 DEF ReplaceEnds

\* An intake is refused, and its task never was.
LEMMA RefuseKeeps == ASSUME WorkflowInv, NEW u \in Tasks, Refuse(u) PROVE WorkflowInv'
<1>. USE DEF WorkflowInv
<1>0. /\ turn = Idle /\ up /\ row[u] = "asked"
      /\ row' = [row EXCEPT ![u] = "none"] /\ of' = [of EXCEPT ![u] = "design"]
      /\ root' = [root EXCEPT ![u] = u] /\ source' = [source EXCEPT ![u] = None]
      /\ offTask' = offTask \ {u}
      /\ turn' = IF source[u] = None THEN Idle ELSE [do |-> "settle", task |-> source[u]]
      /\ UNCHANGED <<stage, holder, talk, session, asked, proposed, after, judged, up, crashes,
                     earned, forgotten>>
  BY DEF Refuse, Free, meeting, ghosts
<1>1. /\ row \in [Tasks -> {"none", "asked"} \cup Open \cup Closed]
      /\ of \in [Tasks -> Stages] /\ source \in [Tasks -> Tasks \cup {None}]
      /\ row'[u] = "none" /\ of'[u] = "design" /\ source'[u] = None
      /\ \A v \in Tasks : v # u => row'[v] = row[v] /\ of'[v] = of[v] /\ source'[v] = source[v]
      /\ source[u] # None => source[u] \in Tasks /\ row[source[u]] = "failed" /\ source[u] # u
  BY <1>0, TypesAre DEF Duties, Stages
<1>2. TypeOK'
  <2>1. row' \in [Tasks -> {"none", "asked"} \cup Open \cup Closed] /\ of' \in [Tasks -> Stages]
    BY <1>0, <1>1 DEF Stages
  <2>2. root' \in [Tasks -> Tasks] /\ source' \in [Tasks -> Tasks \cup {None}]
    BY <1>0, TypesAre
  <2>3. turn' \in Turns
    BY <1>0, <1>1 DEF Turns, Idle
  <2>4. QED
    BY <1>0, <2>1, <2>2, <2>3 DEF TypeOK, Turns
<1>3. Earnings'
  <2>1. turn'.do # "mark"
    BY <1>0 DEF Idle
  <2>2. QED
    BY <1>0, <1>1, <2>1 DEF Earnings, HasQuorum
<1>4. Permits'
  BY <1>0, <1>1, TasksAre DEF Permits
<1>5. Duties'
  <2>1. /\ turn'.do \in Telling => turn'.task \in Tasks /\ row'[turn'.task] \in Attached
        /\ turn'.do # "blame"
    BY <1>0, <1>1 DEF Idle, Telling, Attached, Closed
  <2>2. ASSUME NEW v \in Tasks
        PROVE  /\ after'[v] = "cancel" => row'[v] = "cancelled"
               /\ after'[v] = "expire" => row'[v] \in {"failed", "lease_expired"}
               /\ after'[v] = "replace" => row'[v] = "failed"
    BY <1>0, <1>1 DEF Duties
  <2>3. ASSUME NEW v \in Tasks, row'[v] = "asked", source'[v] # None
        PROVE  row'[source'[v]] = "failed" /\ of'[source'[v]] = of'[v]
    <3>1. v # u /\ row[v] = "asked" /\ source'[v] = source[v] /\ source[v] \in Tasks
      BY <1>1, <2>3
    <3>2. row[source[v]] = "failed" /\ of[source[v]] = of[v]
      BY <2>3, <3>1 DEF Duties
    <3>3. QED
      BY <1>0, <1>1, <3>1, <3>2
  <2>4. QED
    BY <2>1, <2>2, <2>3 DEF Duties
<1>6. ASSUME NEW s \in Behind, holder[s] # None
      PROVE  holder[s] \in Tasks /\ holder[s] # u
  BY <1>0, <1>6, TypesAre DEF Holders, Behind, Stages, Attached, Open, Closed, Late
<1>7. Holders'
  BY <1>0, <1>1, <1>6 DEF Holders
<1>8. ASSUME NEW s \in Behind, holder[s] # None, row'[holder[s]] \in Closed
      PROVE  ShowsOf(s, holder[s])'
  <2>1. ShowsOf(s, holder[s]) /\ row'[holder[s]] = row[holder[s]]
    BY <1>1, <1>6, <1>8 DEF Shows
  <2>2. turn.do \notin Telling
    BY <1>0 DEF Idle, Telling
  <2>3. CASE holder[s] = source[u]
    BY <1>0, <1>8, <2>3 DEF ShowsOf, Owed, Telling
  <2>4. CASE holder[s] # source[u]
    BY <1>0, <1>1, <2>1, <2>2, <2>4 DEF ShowsOf, Owed
  <2>5. QED
    BY <2>3, <2>4
<1>9. QED
  BY <1>0, <1>2, <1>3, <1>4, <1>5, <1>7, <1>8 DEF Shows

\* The task of an intake is inserted and attached to its stage.
LEMMA AttachKeeps == ASSUME WorkflowInv, NEW u \in Tasks, Attach(u) PROVE WorkflowInv'
<1>. USE DEF WorkflowInv
<1>0. /\ turn = Idle /\ up /\ row[u] = "asked"
      /\ row' = [row EXCEPT ![u] = "open"] /\ source' = [source EXCEPT ![u] = None]
      /\ stage' = [stage EXCEPT ![of[u]] = "running"] /\ holder' = [holder EXCEPT ![of[u]] = u]
      /\ UNCHANGED <<of, root, talk, session, asked, proposed, after, offTask, judged, turn, up,
                     crashes, earned, forgotten>>
  BY DEF Attach, Free, meeting, ghosts
<1>1. /\ row \in [Tasks -> {"none", "asked"} \cup Open \cup Closed]
      /\ of \in [Tasks -> Stages] /\ source \in [Tasks -> Tasks \cup {None}]
      /\ stage \in [Stages -> {"pending", "running", "completed", "failed", "cancelled"}]
      /\ holder \in [Stages -> Tasks \cup {None}]
      /\ row'[u] = "open" /\ source'[u] = None
      /\ \A v \in Tasks : v # u => row'[v] = row[v] /\ source'[v] = source[v]
      /\ \A s \in Stages : s # of[u] => stage'[s] = stage[s] /\ holder'[s] = holder[s]
      /\ stage'[of[u]] = "running" /\ holder'[of[u]] = u
  BY <1>0, TypesAre
<1>2. TypeOK'
  <2>1. row' \in [Tasks -> {"none", "asked"} \cup Open \cup Closed]
    BY <1>0, <1>1 DEF Open
  <2>2. stage' \in [Stages -> {"pending", "running", "completed", "failed", "cancelled"}]
    BY <1>0, <1>1
  <2>3. holder' \in [Stages -> Tasks \cup {None}] /\ source' \in [Tasks -> Tasks \cup {None}]
    BY <1>0, <1>1
  <2>4. QED
    BY <1>0, <2>1, <2>2, <2>3 DEF TypeOK
<1>3. Earnings'
  <2>1. \A s \in Stages : stage'[s] = "completed" => stage[s] = "completed"
    BY <1>1
  <2>2. QED
    BY <1>0, <1>1, <2>1 DEF Earnings, HasQuorum
<1>4. Permits'
  BY <1>0, <1>1 DEF Permits, Stages
<1>5. Duties'
  <2>1. turn.do \notin Telling /\ turn.do # "blame"
    BY <1>0 DEF Idle, Telling
  <2>2. ASSUME NEW v \in Tasks, row'[v] = "asked", source'[v] # None
        PROVE  row'[source'[v]] = "failed" /\ of'[source'[v]] = of'[v]
    <3>1. v # u /\ row[v] = "asked" /\ source'[v] = source[v] /\ source[v] \in Tasks
      BY <1>1, <2>2
    <3>2. row[source[v]] = "failed" /\ of[source[v]] = of[v]
      BY <2>2, <3>1 DEF Duties
    <3>3. QED
      BY <1>0, <1>1, <3>1, <3>2
  <2>3. QED
    BY <1>0, <1>1, <2>1, <2>2 DEF Duties
<1>6. ASSUME NEW s \in Behind, holder[s] # None
      PROVE  holder[s] \in Tasks /\ holder[s] # u /\ of[holder[s]] = s
  BY <1>0, <1>1, <1>6 DEF Holders, Behind, Stages, Attached, Open, Closed, Late
<1>7. ASSUME NEW s \in Behind, holder'[s] # None
      PROVE  \/ s = of[u] /\ holder'[s] = u
             \/ /\ s # of[u] /\ holder'[s] = holder[s] /\ stage'[s] = stage[s]
                /\ row'[holder[s]] = row[holder[s]]
  BY <1>1, <1>6, <1>7 DEF Behind, Stages
<1>8. Holders'
  BY <1>0, <1>1, <1>7 DEF Holders, Attached, Open
<1>9. ASSUME NEW s \in Behind, holder'[s] # None, row'[holder'[s]] \in Closed
      PROVE  \/ stage'[s] = Shown(row'[holder'[s]])
             \/ holder'[s] \in forgotten'
             \/ after'[holder'[s]] # "nothing"
             \/ \E v \in Tasks : row'[v] = "asked" /\ source'[v] = holder'[s]
  <2>1. /\ s # of[u] /\ holder'[s] = holder[s] /\ stage'[s] = stage[s]
        /\ row'[holder[s]] = row[holder[s]]
    BY <1>1, <1>7, <1>9 DEF Closed, Late
  <2>2. ShowsOf(s, holder[s])
    BY <1>9, <2>1 DEF Shows
  <2>3. turn.do \notin Telling
    BY <1>0 DEF Idle, Telling
  <2>4. source[u] # holder[s]
    <3>1. source[u] # None => of[source[u]] = of[u]
      BY <1>0 DEF Duties
    <3>2. QED
      BY <1>6, <1>9, <2>1, <3>1
  <2>5. QED
    BY <1>0, <1>1, <2>1, <2>2, <2>3, <2>4 DEF ShowsOf, Owed
<1>10. Shows'
  BY <1>0, <1>9 DEF Shows, ShowsOf, Owed
<1>11. QED
  BY <1>2, <1>3, <1>4, <1>5, <1>8, <1>10

-----------------------------------------------------------------------------
(* Death and boot                                                            *)

\* The process dies: turns, sessions and intakes are gone.
LEMMA CrashKeeps == ASSUME WorkflowInv, Crash PROVE WorkflowInv'
<1>. USE DEF WorkflowInv
<1>0. /\ up /\ up' = FALSE /\ crashes < MaxCrashes /\ crashes' = crashes + 1
      /\ row' = [t \in Tasks |-> IF row[t] = "asked" THEN "none" ELSE row[t]]
      /\ session' = "idle" /\ asked' = {} /\ proposed' = {}
      /\ after' = [t \in Tasks |-> "nothing"] /\ source' = [t \in Tasks |-> None]
      /\ of' = [t \in Tasks |-> IF row[t] = "asked" THEN "design" ELSE of[t]]
      /\ root' = [t \in Tasks |-> IF row[t] = "asked" THEN t ELSE root[t]]
      /\ offTask' \subseteq offTask /\ turn' = Idle
      /\ forgotten' = forgotten \cup
           {t \in Tasks : row[t] \in Late /\ (after[t] = "expire" \/ turn.task = t)}
      /\ UNCHANGED <<stage, holder, talk, judged, earned>>
  BY DEF Crash
<1>1. /\ row' \in [Tasks -> {"none", "asked"} \cup Open \cup Closed]
      /\ of' \in [Tasks -> Stages] /\ root' \in [Tasks -> Tasks]
      /\ \A t \in Tasks : row[t] # "asked" => row'[t] = row[t] /\ of'[t] = of[t]
      /\ \A t \in Tasks : row[t] = "asked" => row'[t] = "none" /\ of'[t] = "design"
      /\ \A t \in Tasks : after'[t] = "nothing" /\ source'[t] = None
  BY <1>0, TypesAre DEF Stages
<1>2. TypeOK'
  <2>1. crashes' \in 0 .. MaxCrashes
    BY <1>0, WorkflowIsBounded DEF TypeOK
  <2>2. turn' \in Turns
    BY <1>0 DEF Turns, Idle
  <2>3. after' \in [Tasks -> {"nothing", "cancel", "expire", "replace"}]
    BY <1>0
  <2>4. source' \in [Tasks -> Tasks \cup {None}]
    BY <1>0
  <2>5. forgotten' \subseteq Tasks
    BY <1>0 DEF TypeOK
  <2>6. QED
    BY <1>0, <1>1, <2>1, <2>2, <2>3, <2>4, <2>5 DEF TypeOK, Turns
<1>3. Earnings'
  <2>1. turn'.do # "mark"
    BY <1>0 DEF Idle
  <2>2. \A t \in Tasks : row'[t] = "completed" => of'[t] \in earned
    BY <1>1 DEF Earnings
  <2>3. QED
    BY <1>0, <2>1, <2>2 DEF Earnings
<1>4. Permits'
  BY <1>0, <1>1, TasksAre DEF Permits
<1>5. Duties'
  <2>1. turn'.do \notin Telling /\ turn'.do # "blame"
    BY <1>0 DEF Idle, Telling
  <2>2. QED
    BY <1>1, <2>1 DEF Duties
<1>6. ASSUME NEW s \in Behind, holder[s] # None
      PROVE  /\ holder[s] \in Tasks
             /\ row'[holder[s]] = row[holder[s]] /\ of'[holder[s]] = of[holder[s]]
  BY <1>0, <1>1, <1>6, TypesAre DEF Holders, Behind, Stages, Attached, Open, Closed, Late
<1>7. Holders'
  BY <1>0, <1>6 DEF Holders
<1>8. ASSUME NEW s \in Behind, holder[s] # None, row'[holder[s]] \in Closed
      PROVE  ShowsOf(s, holder[s])'
  <2>1. ShowsOf(s, holder[s]) /\ row'[holder[s]] = row[holder[s]] /\ holder[s] \in Tasks
    BY <1>6, <1>8 DEF Shows
  <2>2. CASE row[holder[s]] \notin Late
    BY <1>0, <2>1, <2>2 DEF ShowsOf
  <2>3. CASE row[holder[s]] \in Late
    <3>1. after[holder[s]] # "nothing" => after[holder[s]] = "expire"
      <4>1. after[holder[s]] \in {"nothing", "cancel", "expire", "replace"}
        BY <2>1, TypesAre
      <4>2. QED
        BY <2>1, <2>3, <4>1 DEF Duties, Late
    <3>2. \A u \in Tasks : row[u] = "asked" => source[u] # holder[s]
      BY <1>8, <2>1, <2>3 DEF Duties, Late
    <3>3. Owed(holder[s]) => holder[s] \in forgotten'
      BY <1>0, <2>1, <2>3, <3>1, <3>2 DEF Owed
    <3>4. QED
      BY <1>0, <2>1, <2>3, <3>3 DEF ShowsOf
  <2>4. QED
    BY <2>2, <2>3
<1>9. QED
  BY <1>0, <1>2, <1>3, <1>4, <1>5, <1>7, <1>8 DEF Shows

\* The boot recovers rows, reconciles stages and closes stale discussions.
LEMMA BootKeeps == ASSUME WorkflowInv, Boot PROVE WorkflowInv'
<1>. USE DEF WorkflowInv
<1>. DEFINE told == [s \in Stages |-> IF Repaired(s) THEN Shown(row'[holder[s]]) ELSE stage[s]]
<1>0. /\ ~up /\ up' = TRUE /\ row' \in [Tasks -> Open \cup Closed \cup {"none"}]
      /\ \A t \in Tasks : Recovered(t, row'[t])
      /\ UNCHANGED <<of, root, holder, session, asked, proposed, after, source, offTask, judged,
                     turn, crashes, earned, forgotten>>
      /\ talk' \in {talk, "failed"}
      /\ \/ stage' = told
         \/ stage' = [told EXCEPT !["discussion"] =
              IF @ \in {"pending", "running"} THEN "failed" ELSE @]
  BY DEF Boot, meeting, requests, ghosts
<1>1. ASSUME NEW t \in Tasks
      PROVE  row'[t] = row[t] \/ (row[t] = "open" /\ row'[t] = "failed")
  BY <1>0 DEF Recovered
<1>2. ASSUME NEW s \in Stages
      PROVE  /\ told[s] \in {"pending", "running", "completed", "failed", "cancelled"}
             /\ told[s] = "completed" => s \in earned
             /\ told[s] = stage[s] \/ (of[holder[s]] = s /\ holder[s] \in Tasks)
  <2>1. CASE Repaired(s)
    <3>1. /\ holder[s] \in Tasks /\ of[holder[s]] = s
          /\ told[s] = Shown(row'[holder[s]])
      BY <2>1, TypesAre DEF Repaired
    <3>2. told[s] = "completed" => row[holder[s]] = "completed"
      BY <1>1, <3>1 DEF Shown
    <3>3. QED
      BY <3>1, <3>2 DEF Shown, Earnings
  <2>2. CASE ~Repaired(s)
    <3>1. told[s] = stage[s]
      BY <2>2
    <3>2. QED
      BY <3>1, TypesAre DEF Earnings
  <2>3. QED
    BY <2>1, <2>2
<1>3. /\ DOMAIN told = Stages
      /\ \A s \in Behind : s \in Stages /\ stage'[s] = told[s]
      /\ \A s \in Stages : stage'[s] = told[s] \/ stage'[s] = "failed"
      /\ stage' \in [Stages -> {"pending", "running", "completed", "failed", "cancelled"}]
  <2>1. told \in [Stages -> {"pending", "running", "completed", "failed", "cancelled"}]
    BY <1>2
  <2>. HIDE DEF told
  <2>2. QED
    BY <1>0, <2>1 DEF Behind, Stages
<1>4. TypeOK'
  <2>1. row' \in [Tasks -> {"none", "asked"} \cup Open \cup Closed]
    BY <1>0
  <2>2. QED
    BY <1>0, <1>3, <2>1 DEF TypeOK
<1>5. Earnings'
  <2>1. \A s \in Stages : stage'[s] = "completed" => s \in earned
    BY <1>2, <1>3
  <2>2. \A t \in Tasks : row'[t] = "completed" => of[t] \in earned
    BY <1>1 DEF Earnings
  <2>3. QED
    BY <1>0, <2>1, <2>2 DEF Earnings, HasQuorum
<1>6. Permits'
  <2>1. "implementation" \in Stages /\ stage'["implementation"] = told["implementation"]
    BY <1>3 DEF Behind
  <2>2. QED
    BY <1>0, <1>2, <2>1 DEF Permits
<1>7. Duties'
  <2>1. \A t \in Tasks : row'[t] # "asked"
    BY <1>0 DEF Open, Closed, Late
  <2>2. \A t \in Tasks : row[t] \in Attached => row'[t] \in Attached
    BY <1>1 DEF Attached, Closed
  <2>3. QED
    BY <1>0, <1>1, <2>1, <2>2 DEF Duties
<1>8. ASSUME NEW s \in Behind, holder[s] # None
      PROVE  /\ holder[s] \in Tasks /\ of[holder[s]] = s /\ row'[holder[s]] \in Attached
  <2>1. holder[s] \in Tasks
    BY <1>3, <1>8, TypesAre
  <2>2. of[holder[s]] = s /\ row[holder[s]] \in Attached
    BY <1>8 DEF Holders
  <2>3. row'[holder[s]] \in {row[holder[s]], "failed"}
    BY <1>1, <2>1
  <2>4. QED
    BY <2>1, <2>2, <2>3 DEF Attached, Closed
<1>9. ASSUME NEW s \in Behind, holder[s] # None, row'[holder[s]] \in Closed
      PROVE  stage'[s] = Shown(row'[holder[s]]) \/ holder[s] \in forgotten
  <2>1. CASE row'[holder[s]] \in {"completed", "failed", "cancelled"}
    BY <1>3, <1>8, <1>9, <2>1 DEF Repaired
  <2>2. CASE row'[holder[s]] \in Late
    <3>1. row'[holder[s]] = row[holder[s]]
      BY <1>1, <1>8, <1>9, <2>2 DEF Late
    <3>2. told[s] = stage[s]
      BY <1>3, <2>2 DEF Repaired, Late
    <3>3. ShowsOf(s, holder[s])
      BY <1>9, <3>1 DEF Shows
    <3>4. QED
      BY <1>0, <1>3, <2>2, <3>1, <3>2, <3>3 DEF ShowsOf
  <2>3. QED
    BY <1>9, <2>1, <2>2 DEF Closed
<1>10. Holders' /\ Shows'
  BY <1>0, <1>8, <1>9 DEF Holders, Shows, ShowsOf
<1>11. QED
  BY <1>4, <1>5, <1>6, <1>7, <1>10

\* Every step of the workflow keeps the invariant.
LEMMA WorkflowStep == WorkflowInv /\ [Next]_vars => WorkflowInv'
<1>. SUFFICES ASSUME WorkflowInv, [Next]_vars PROVE WorkflowInv'
  OBVIOUS
<1>1. CASE SessionNext
  BY <1>1, ConductKeeps, StartKeeps, RoundEndsKeeps, EvaluatedKeeps, ConcludeKeeps, MarkKeeps,
    ReportKeeps, ThrownKeeps, BlameKeeps, AskedKeeps DEF SessionNext
<1>2. CASE TaskNext
  <2>1. CASE Settle \/ SyncTurn
    BY <2>1, SettleKeeps, SyncTurnKeeps
  <2>2. ASSUME NEW t \in Tasks,
               \/ Result(t) \/ Audited(t) \/ Cancel(t) \/ CancelEnds(t) \/ Expire(t)
               \/ ExpireEnds(t) \/ Replace(t) \/ ReplaceEnds(t) \/ Retry(t) \/ Refuse(t)
               \/ Attach(t)
        PROVE  WorkflowInv'
    BY <2>2, ResultKeeps, CancelKeeps, CancelEndsKeeps, ExpireKeeps, ExpireEndsKeeps,
      ReplaceKeeps, ReplaceEndsKeeps, RetryKeeps, RefuseKeeps, AttachKeeps
  <2>3. CASE \E s \in Posts : Ask(s)
    BY <2>3, AskKeeps
  <2>4. QED
    BY <1>2, <2>1, <2>2, <2>3 DEF TaskNext
<1>3. CASE Crash \/ Boot
  BY <1>3, CrashKeeps, BootKeeps
<1>4. CASE UNCHANGED vars
  BY <1>4 DEF vars, tables, meeting, requests, ghosts, WorkflowInv, TypeOK, Earnings, Permits,
    Duties, Holders, Shows, ShowsOf, Owed, HasQuorum
<1>5. QED
  BY <1>1, <1>2, <1>3, <1>4 DEF Next

\* The invariant holds of every behaviour.
LEMMA WorkflowIsSound == Spec => []WorkflowInv
BY InitWorkflow, WorkflowStep, PTL DEF Spec

\* The variables of the workflow keep their types, for every number of
\* participants, tasks and crashes.
THEOREM WorkflowTypes == Spec => []TypeOK
<1>1. WorkflowInv => TypeOK
  BY DEF WorkflowInv
<1>2. QED
  BY <1>1, WorkflowIsSound, PTL

\* enforceWorkflowPrerequisites(), collectResponses() and the reconciliation: for
\* every number of participants, spares, tasks and crashes, no stage shows
\* completed, and no implementation begins, that was not earned by a completed task
\* or a quorum: retries inherit the permit of the task they repeat.
THEOREM NothingIsImplementedUnprepared == Spec => []WorkIsPrepared
<1>1. WorkflowInv => WorkIsPrepared
  BY DEF WorkflowInv, Earnings, Permits, WorkIsPrepared, Prerequisites
<1>2. QED
  BY <1>1, WorkflowIsSound, PTL

\* syncWorkflowTask() and reconcileTerminalWorkflowTasks(): once nothing is under
\* way for it, and after every crash and boot, the stage of a closed task shows how
\* the task ended, whatever the number of tasks that took the stage over.
THEOREM StagesShowTheirTasks == Spec => []StageShowsItsTask
<1>1. ASSUME WorkflowInv, NEW s \in Stages \ {"discussion"}, holder[s] # None,
             row[holder[s]] \in Closed, AtRest(holder[s])
      PROVE  stage[s] = Shown(row[holder[s]])
  <2>1. s \in Behind
    BY DEF Stages, Behind
  <2>2. ShowsOf(s, holder[s])
    BY <1>1, <2>1 DEF WorkflowInv, Shows
  <2>3. QED
    BY <1>1, <2>2 DEF ShowsOf, Owed, AtRest, Free, Idle, Telling
<1>2. WorkflowInv => StageShowsItsTask
  BY <1>1 DEF StageShowsItsTask
<1>3. QED
  BY <1>2, WorkflowIsSound, PTL
=============================================================================
