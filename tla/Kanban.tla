------------------------------- MODULE Kanban -------------------------------
(***************************************************************************)
(* The Kanban engine (src/src/core/kanban-engine.ts): the cards of one     *)
(* plan, the loops that execute them, and what the gateway, a person at    *)
(* the board and the plan synchronisation do to them meanwhile.            *)
(*                                                                         *)
(* A card names the task row that executes it.  That row is settled by     *)
(* others (a provider run, the lease sweeper, a cancelling client, the     *)
(* audit) and retried by others (failover, quality gate, a client), each   *)
(* of whom projects the row onto the card or hands the card to the retry;  *)
(* the loop polls the row and moves the card as well.  Nothing but the     *)
(* comparison of the card's task_id decides who may.  A step is what runs  *)
(* between two awaits.  The settlement of a row is opened up in            *)
(* TaskLifecycle, the retry of a row in RetryLineage.                      *)
(***************************************************************************)
EXTENDS Integers

CONSTANTS Cards,        \* kanban_tasks of the plan
          DependsOn,    \* depends_on_json of a card
          Runs,         \* executePlan() calls that may be in flight
          MaxRetries,   \* maxRetries of a card's description, at most 3
          MaxTasks,     \* bound: task rows ever inserted
          MaxTouches    \* bound: moves, synchronisations and purges by people

ASSUME DependenciesAreCards == DependsOn \in [Cards -> SUBSET Cards]
ASSUME BoundsAreNat == {MaxRetries, MaxTasks, MaxTouches} \subseteq Nat

VARIABLES
  \* ---- durable: kanban_tasks and plans
  column, owner,   \* column_status and task_id of a card
  plan,            \* plans.status
  \* ---- durable: tasks
  status,          \* one status for each class the engine tells apart
  cardOf,          \* metadata kanbanTaskId
  root,            \* the task a chain of retries began with
  \* ---- volatile: the gateway
  settling,        \* rows that were settled and are not yet projected
  posting,         \* rows a retry of which passed the look at its siblings
  handing,         \* <<source, retry>>: inserted, the card not yet handed over
  \* ---- volatile: the engine
  on,              \* executePlan() calls in flight
  pending,         \* the cards such a call has not claimed yet
  loop,            \* runKanbanTask() of a card, per call
  \* ---- history and bound
  hand,            \* a person has touched the card: never, before, last
  touches

board   == <<column, owner, plan>>
rows    == <<status, cardOf, root>>
gateway == <<settling, posting, handing>>
engine  == <<on, pending, loop>>
vars    == <<board, rows, gateway, engine, hand, touches>>

Columns == {"todo", "in_progress", "review", "done"}
Tasks   == 1..MaxTasks
NoTask  == 0
Loops   == Runs \X Cards

\* "active" stands for pending, queued, assigned, running and streaming,
\* "failed" for failed, timed_out and lease_expired; "purged" rows are gone.
Settled  == {"completed", "failed", "cancelled", "reviewing"}
Statuses == {"none", "active", "purged"} \cup Settled

Idle == [pc |-> "idle", task |-> NoTask, next |-> NoTask, tries |-> 0]
Card(l) == l[2]
Run(l)  == l[1]
At(l, step) == loop[l].pc = step
Made == {t \in Tasks : status[t] # "none"}
Room  == \E t \in Tasks : status[t] = "none"
Fresh == CHOOSE t \in Tasks : status[t] = "none"
Ended(pc) == pc \in {"idle", "done"}

\* projectKanbanColumn()
ColumnOf(s) == IF s = "completed" THEN "done"
               ELSE IF s \in Settled THEN "review" ELSE "in_progress"

Init ==
  /\ column = [c \in Cards |-> "todo"]
  /\ owner = [c \in Cards |-> NoTask]
  /\ plan = "draft"
  /\ status = [t \in Tasks |-> "none"]
  /\ cardOf = [t \in Tasks |-> NoTask]
  /\ root = [t \in Tasks |-> NoTask]
  /\ settling = {} /\ posting = {} /\ handing = {}
  /\ on = {}
  /\ pending = [r \in Runs |-> {}]
  /\ loop = [l \in Loops |-> Idle]
  /\ hand = [c \in Cards |-> "never"]
  /\ touches = 0

-----------------------------------------------------------------------------
(* Writing a card                                                          *)

Finished(col, t, st) == col = "done" /\ (t # NoTask => st[t] = "completed")

\* refreshPlanStatus(), of the cards as the step leaves them and the rows st.
Refresh(p, st) ==
  plan' = IF \A c \in Cards : Finished(column'[c], owner'[c], st) THEN "completed"
          ELSE IF p = "completed" THEN "active" ELSE p

\* The program has had its say about the row of the card.
Before(h) == IF h = "last" THEN "before" ELSE h

\* The UPDATE of one card and the refresh that follows it.
Put(c, t, col, st) ==
  /\ column' = [column EXCEPT ![c] = col]
  /\ owner' = [owner EXCEPT ![c] = t]
  /\ hand' = [hand EXCEPT ![c] = IF t # NoTask /\ col = ColumnOf(st[t]) THEN Before(@) ELSE @]
  /\ Refresh(plan, st)

Untouched == UNCHANGED <<board, hand>>

\* projectTaskStatus(): the row t has, or gets, status s.
ProjectTask(t, s) ==
  IF owner[cardOf[t]] = t
  THEN Put(cardOf[t], t, ColumnOf(s), [status EXCEPT ![t] = s])
  ELSE Untouched

\* bindRetryTask()
BindRetry(source, t) ==
  IF /\ source # t /\ status[t] # "purged" /\ owner[cardOf[t]] = source
  THEN Put(cardOf[t], t, ColumnOf(status[t]), status)
  ELSE Untouched

\* Mutant: the loop moves its card whoever owns it.
MoveAnyway(l, t, col) == Put(Card(l), owner[Card(l)], col, status)

\* moveTaskIfOwned()
MoveIfOwned(l, t, col) ==
  IF /\ owner[Card(l)] = t
     /\ (col = "done" /\ t # NoTask) => status[t] = "completed"
  THEN Put(Card(l), t, col, status)
  ELSE Untouched

End(l) == loop' = [loop EXCEPT ![l] = [Idle EXCEPT !.pc = "done"]]
Follow(l) == loop' = [loop EXCEPT ![l].pc = "polling", ![l].task = loop[l].next, ![l].next = NoTask]

\* bindExecutionTask(): the column stays, and the plan is not refreshed.
BindExecution(l) ==
  IF owner[Card(l)] \in {loop[l].next, loop[l].task}
  THEN /\ owner' = [owner EXCEPT ![Card(l)] = loop[l].next]
       /\ hand' = [hand EXCEPT ![Card(l)] = Before(@)]
       /\ Follow(l)
  ELSE UNCHANGED <<owner, hand>> /\ End(l)

-----------------------------------------------------------------------------
(* executePlan()                                                           *)

\* Mutant: a prerequisite need only be in the column.
DependenciesInColumn(c) == \A d \in DependsOn[c] : column[d] \in {"done", "review"}

\* dependenciesSatisfied()
DependenciesSatisfied(c) == \A d \in DependsOn[c] : Finished(column[d], owner[d], status)

\* Mutant: a card that is at work is claimed once more.
ClaimableAnyway(c) == column[c] \in {"todo", "in_progress"}

\* claimTaskForExecution(): the UPDATE asks for a card in todo.
Claimable(c) == column[c] = "todo"

\* One wave over the cards `left`: the look at the dependencies and the claim
\* are one turn.  Which of the runnable cards make up
\* the batch depends on the strategy; without any, the call returns.
Wave(r, left, p) ==
  LET runnable == {c \in left : Claimable(c) /\ DependenciesSatisfied(c)} IN
  \/ /\ runnable = {}
     /\ on' = on \ {r}
     /\ pending' = [pending EXCEPT ![r] = {}]
     /\ loop' = [l \in Loops |-> IF Run(l) = r THEN Idle ELSE loop[l]]
     /\ UNCHANGED <<column, owner, hand>>
     /\ Refresh(p, status)
  \/ \E batch \in SUBSET runnable \ {{}} :
       /\ on' = on \cup {r}
       /\ pending' = [pending EXCEPT ![r] = left \ batch]
       /\ column' = [c \in Cards |-> IF c \in batch THEN "in_progress" ELSE column[c]]
       /\ loop' = [l \in Loops |-> IF Run(l) = r /\ Card(l) \in batch
                                   THEN [Idle EXCEPT !.pc = "claimed", !.task = owner[Card(l)]]
                                   ELSE loop[l]]
       /\ plan' = p
       /\ UNCHANGED <<owner, hand>>

\* A call begins: only cards in todo are taken up.
ExecutePlan(r) ==
  /\ r \notin on
  /\ IF \A c \in Cards : column[c] = "done"
     THEN UNCHANGED <<column, owner, engine, hand>> /\ Refresh(plan, status)
     ELSE Wave(r, {c \in Cards : column[c] = "todo"}, "active")
  /\ UNCHANGED <<rows, gateway, touches>>

\* Every loop of the batch has ended.
NextWave(r) ==
  /\ r \in on
  /\ \A c \in Cards : Ended(loop[<<r, c>>].pc)
  /\ Wave(r, pending[r], plan)
  /\ UNCHANGED <<rows, gateway, touches>>

-----------------------------------------------------------------------------
(* runKanbanTask()                                                         *)

Insert(t, c, source) ==
  /\ status' = [status EXCEPT ![t] = "active"]
  /\ cardOf' = [cardOf EXCEPT ![t] = c]
  /\ root' = [root EXCEPT ![t] = IF source = NoTask THEN t ELSE root[source]]

\* createTaskRef(): POST /api/task has inserted the row; its answer is awaited.
Dispatch(l) ==
  /\ At(l, "claimed") /\ Room
  /\ Insert(Fresh, Card(l), NoTask)
  /\ loop' = [loop EXCEPT ![l].pc = "created", ![l].next = Fresh]
  /\ Untouched
  /\ UNCHANGED <<gateway, on, pending, touches>>

\* No provider, a routing error, an exception, or the intake refuses.
DispatchFails(l) ==
  /\ At(l, "claimed")
  /\ MoveIfOwned(l, loop[l].task, "review") /\ End(l)
  /\ UNCHANGED <<rows, gateway, on, pending, touches>>

\* The first attempt takes the card, or finds it taken and ends.
Bind(l) ==
  /\ At(l, "created")
  /\ BindExecution(l)
  /\ UNCHANGED <<column, plan, rows, gateway, on, pending, touches>>

MayRetry(l) == loop[l].tries < MaxRetries

\* A settled row is polled; after the last try a person is asked.
Poll(l) ==
  LET t == loop[l].task IN
  /\ At(l, "polling") /\ status[t] \in Settled
  /\ IF status[t] = "failed" /\ MayRetry(l)
     THEN /\ loop' = [loop EXCEPT ![l].pc = "asking", ![l].tries = @ + 1]
          /\ Untouched
     ELSE MoveIfOwned(l, t, ColumnOf(status[t])) /\ End(l)
  /\ UNCHANGED <<rows, gateway, on, pending, touches>>

\* Mutant: the deadline is only looked at while the row exists.
DeadlineOfRow(l) ==
  /\ At(l, "polling") /\ status[loop[l].task] = "active"
  /\ MoveIfOwned(l, loop[l].task, "review") /\ End(l)
  /\ UNCHANGED <<rows, gateway, on, pending, touches>>

\* The row is not settled, or gone, when the poll deadline passes.
Deadline(l) ==
  /\ At(l, "polling") /\ status[loop[l].task] \notin Settled
  /\ MoveIfOwned(l, loop[l].task, "review") /\ End(l)
  /\ UNCHANGED <<rows, gateway, on, pending, touches>>

-----------------------------------------------------------------------------
(* createRetryTask(), seen from the cards                                  *)

Siblings(t) == {u \in Tasks : root[u] = root[t] /\ u # root[t]}
Working(u)  == status[u] \in {"active", "reviewing"}
Busy(t)     == \E u \in Siblings(t) : Working(u)
\* A sibling of the same prompt and provider is handed out instead of a new one.
Reusable(t) == {u \in Siblings(t) : Working(u) \/ (~Busy(t) /\ status[u] = "completed")}

\* The loop asks for a retry: it is posted, answered with a sibling, or refused
\* (a sibling at work, the budget, a source that is no longer retryable).
AskRetry(l) ==
  LET t == loop[l].task IN
  /\ At(l, "asking")
  /\ \/ /\ status[t] = "failed" /\ ~Busy(t)
        /\ loop' = [loop EXCEPT ![l].pc = "posting"] /\ Untouched
     \/ /\ status[t] = "failed"
        /\ \E u \in Reusable(t) :
             /\ BindRetry(t, u)
             /\ loop' = [loop EXCEPT ![l].pc = "handed", ![l].next = u]
     \/ MoveIfOwned(l, t, "review") /\ End(l)
  /\ UNCHANGED <<rows, gateway, on, pending, touches>>

\* The posted retry is inserted, or refused at intake and escalated.
PostRetry(l) ==
  /\ At(l, "posting")
  /\ \/ /\ Room
        /\ Insert(Fresh, Card(l), loop[l].task)
        /\ loop' = [loop EXCEPT ![l].pc = "posted", ![l].next = Fresh] /\ Untouched
     \/ MoveIfOwned(l, loop[l].task, "review") /\ End(l) /\ UNCHANGED rows
  /\ UNCHANGED <<gateway, on, pending, touches>>

\* createRetryTask() returns to the loop, having handed over the card.
HandToLoop(l) ==
  /\ At(l, "posted")
  /\ BindRetry(loop[l].task, loop[l].next)
  /\ loop' = [loop EXCEPT ![l].pc = "handed"]
  /\ UNCHANGED <<rows, gateway, on, pending, touches>>

\* The loop goes on with the retry, unless somebody else has the card.
TakeRetry(l) ==
  /\ At(l, "handed")
  /\ BindExecution(l)
  /\ UNCHANGED <<column, plan, rows, gateway, on, pending, touches>>

LoopStep(l) == \/ Dispatch(l) \/ DispatchFails(l) \/ Bind(l) \/ Poll(l) \/ Deadline(l)
               \/ AskRetry(l) \/ PostRetry(l) \/ HandToLoop(l) \/ TakeRetry(l)

-----------------------------------------------------------------------------
(* The gateway: settlement and retries nobody at the board asked for       *)

\* A row is settled by its run, the lease sweeper, a client, a replacement or
\* the quality gate; what follows is awaited before the card is told.
Settle(t) ==
  /\ Working(t)
  /\ \E s \in {"failed", "cancelled"} \cup
              (IF status[t] = "active" THEN {"completed", "reviewing"} ELSE {}) :
       status' = [status EXCEPT ![t] = s]
  /\ settling' = settling \cup {t}
  /\ UNCHANGED <<board, cardOf, root, posting, handing, engine, hand, touches>>

\* A client cancels a row that is closed: its settlement is repeated.
SettleAgain(t) ==
  /\ status[t] \in Settled \ {"reviewing"}
  /\ settling' = settling \cup {t}
  /\ UNCHANGED <<board, rows, posting, handing, engine, hand, touches>>

\* settlePersistedTaskTerminal(), cancelTaskById() and onLeaseExpired() end
\* with the projection of the row as it is by then.
ProjectSettled(t) ==
  /\ t \in settling
  /\ IF status[t] = "purged" THEN Untouched ELSE ProjectTask(t, status[t])
  /\ settling' = settling \ {t}
  /\ UNCHANGED <<rows, posting, handing, engine, touches>>

\* The audit of a reviewing row is accepted and projected at once.
AuditPasses(t) ==
  /\ status[t] = "reviewing"
  /\ status' = [status EXCEPT ![t] = "completed"]
  /\ ProjectTask(t, "completed")
  /\ UNCHANGED <<cardOf, root, gateway, engine, touches>>

\* Failover, the quality gate, the supervisor or a client retry a failed row:
\* a sibling at work is reused or the request refused, else a retry is posted.
GatewayRetry(t) ==
  /\ status[t] = "failed" /\ t \notin posting
  /\ \/ ~Busy(t) /\ posting' = posting \cup {t} /\ Untouched
     \/ UNCHANGED posting /\ \E u \in Reusable(t) : BindRetry(t, u)
  /\ UNCHANGED <<rows, settling, handing, engine, touches>>

\* The row of that retry is inserted, or the intake refuses.
GatewayPosts(t) ==
  /\ t \in posting
  /\ posting' = posting \ {t}
  /\ \/ /\ Room
        /\ Insert(Fresh, cardOf[t], t)
        /\ handing' = handing \cup {<<t, Fresh>>}
     \/ UNCHANGED <<rows, handing>>
  /\ UNCHANGED <<board, settling, engine, hand, touches>>

\* The answer of the intake: the card goes from the source to the retry.
GatewayHands ==
  \E h \in handing :
    /\ BindRetry(h[1], h[2])
    /\ handing' = handing \ {h}
    /\ UNCHANGED <<rows, settling, posting, engine, touches>>

-----------------------------------------------------------------------------
(* People                                                                  *)

Touch(cs) ==
  /\ touches < MaxTouches /\ touches' = touches + 1
  /\ hand' = [c \in Cards |-> IF c \in cs THEN "last" ELSE hand[c]]

\* POST /api/kanban/move: done is refused while the card's row is not completed.
MoveCard(c) ==
  /\ Touch({c})
  /\ \E col \in Columns :
       /\ (col = "done" /\ owner[c] # NoTask) => status[owner[c]] = "completed"
       /\ column' = [column EXCEPT ![c] = col]
  /\ UNCHANGED owner /\ Refresh(plan, status)
  /\ UNCHANGED <<rows, gateway, engine>>

\* syncFromMarkdown(): refused while a card is at work; the checkboxes of the
\* plan's file decide, but cannot complete a card whose row is not completed.
SyncFromMarkdown ==
  /\ \A c \in Cards : /\ column[c] \in {"todo", "done"}
                      /\ owner[c] # NoTask => ~Working(owner[c])
  /\ \E ticked \in SUBSET Cards :
       /\ \A c \in ticked : owner[c] # NoTask => status[owner[c]] = "completed"
       /\ column' = [c \in Cards |-> IF c \in ticked THEN "done" ELSE "todo"]
       /\ Touch({c \in Cards : column'[c] # column[c]})
  /\ UNCHANGED owner /\ Refresh(plan, status)
  /\ UNCHANGED <<rows, gateway, engine>>

\* DELETE /api/kanban/tasks/:id of a failed or cancelled row returns its card
\* to todo.
Purge(t) ==
  /\ status[t] \in {"failed", "cancelled"}
  /\ status' = [status EXCEPT ![t] = "purged"]
  /\ Touch({c \in Cards : owner[c] = t})
  /\ column' = [c \in Cards |-> IF owner[c] = t THEN "todo" ELSE column[c]]
  /\ owner' = [c \in Cards |-> IF owner[c] = t THEN NoTask ELSE owner[c]]
  /\ plan' = IF plan = "completed" /\ owner' # owner THEN "active" ELSE plan
  /\ UNCHANGED <<cardOf, root, gateway, engine>>

-----------------------------------------------------------------------------
Next ==
  \/ \E r \in Runs : ExecutePlan(r) \/ NextWave(r)
  \/ \E l \in Loops : LoopStep(l)
  \/ \E t \in Tasks : \/ Settle(t) \/ SettleAgain(t) \/ ProjectSettled(t) \/ AuditPasses(t)
                      \/ GatewayRetry(t) \/ GatewayPosts(t) \/ Purge(t)
  \/ GatewayHands
  \/ \E c \in Cards : MoveCard(c)
  \/ SyncFromMarkdown

Spec == Init /\ [][Next]_vars

\* Node runs what it has scheduled: an awaited call answers, a timer fires.
FairSpec == /\ Spec
            /\ \A r \in Runs : WF_vars(NextWave(r))
            /\ \A l \in Loops : WF_vars(LoopStep(l))

-----------------------------------------------------------------------------
(* Properties                                                              *)

\* Every variable stays in its set.
TypeOK ==
  /\ column \in [Cards -> Columns]
  /\ owner \in [Cards -> Tasks \cup {NoTask}]
  /\ plan \in {"draft", "active", "completed"}
  /\ status \in [Tasks -> Statuses]
  /\ root \in [Tasks -> Tasks \cup {NoTask}]
  /\ \A t \in Made : cardOf[t] \in Cards
  /\ settling \subseteq Made /\ posting \subseteq Made /\ handing \subseteq Made \X Made
  /\ on \subseteq Runs
  /\ pending \in [Runs -> SUBSET Cards]
  /\ loop \in [Loops -> [pc : {"idle", "claimed", "created", "polling", "asking", "posting",
                               "posted", "handed", "done"},
                         task : Tasks \cup {NoTask}, next : Tasks \cup {NoTask},
                         tries : 0..MaxRetries]]
  /\ hand \in [Cards -> {"never", "before", "last"}]
  /\ touches \in 0..MaxTouches

Untroubled(c) == hand[c] = "never"
Held(c) == \E r \in Runs : /\ ~Ended(loop[<<r, c>>].pc)
                           /\ loop[<<r, c>>].task = owner[c]

\* A card at rest shows its row: when the row is settled and projected and no
\* loop holds the card, the column is the one the row asks for, unless a person
\* had the last word or the refusal of a repeated execution asks for one.  Late projections, losing loops and the race between the
\* two retries of one failure must not leave another column behind.
BoardShowsRows ==
  \A c \in Cards :
    (/\ owner[c] # NoTask /\ ~Held(c) /\ hand[c] # "last"
     /\ status[owner[c]] \in Settled /\ owner[c] \notin settling)
      => \/ column[c] = ColumnOf(status[owner[c]])
         \/ column[c] = "review" /\ ~Untroubled(c)

\* No work starts before its prerequisites are completed, and they stay so: a
\* card that has a row or a loop stands on finished cards, as long as nobody
\* touched them by hand, whatever older attempts of theirs still report.
PrerequisitesHold ==
  \A c \in Cards : \A d \in DependsOn[c] :
    (/\ Untroubled(c) /\ Untroubled(d)
     /\ owner[c] # NoTask \/ \E r \in Runs : ~At(<<r, c>>, "idle"))
      => Finished(column[d], owner[d], status)

\* A card is worked on once: however many executePlan() calls are in flight, at
\* most one of them has a loop on a card no person put back.
WorkedOnOnce ==
  \A c \in Cards : \A q, r \in Runs :
    (Untroubled(c) /\ q # r) => Ended(loop[<<q, c>>].pc) \/ Ended(loop[<<r, c>>].pc)

\* A finished card is not reopened by the program: no late failure, retry or
\* loop of an older attempt moves it or takes it over.
DoneStaysDone ==
  [][\A c \in Cards :
       (Finished(column[c], owner[c], status) /\ hand'[c] = "never")
         => column'[c] = "done" /\ owner'[c] = owner[c]]_vars

\* Every executePlan() call returns, even when rows never settle or are purged.
CallsReturn == \A r \in Runs : r \in on ~> r \notin on
=============================================================================
