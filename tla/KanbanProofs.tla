---------------------------- MODULE KanbanProofs ----------------------------
(***************************************************************************)
(* The board stays right for any cards, dependencies, calls, retries and   *)
(* touches: proofs about Kanban.                                           *)
(***************************************************************************)
EXTENDS Kanban, TLAPS

Steps == {"idle", "claimed", "created", "polling", "asking", "posting", "posted", "handed", "done"}
Loop  == [pc : Steps, task : Tasks \cup {NoTask}, next : Tasks \cup {NoTask},
          tries : 0..MaxRetries]

BoardTypes == /\ column \in [Cards -> Columns]
              /\ owner \in [Cards -> Tasks \cup {NoTask}]
              /\ plan \in {"draft", "active", "completed"}
              /\ hand \in [Cards -> {"never", "before", "last"}]
RowTypes == /\ status \in [Tasks -> Statuses]
            /\ cardOf = [t \in Tasks |-> cardOf[t]]
            /\ root \in [Tasks -> Tasks \cup {NoTask}]
            /\ \A t \in Made : cardOf[t] \in Cards
GatewayTypes == settling \subseteq Made /\ posting \subseteq Made /\ handing \subseteq Made \X Made
EngineTypes == /\ on \subseteq Runs
               /\ pending \in [Runs -> SUBSET Cards]
               /\ loop \in [Loops -> Loop]

Types == BoardTypes /\ RowTypes /\ GatewayTypes /\ EngineTypes /\ touches \in 0..MaxTouches

-----------------------------------------------------------------------------
(* Types                                                                   *)

LEMMA ColumnsOf == \A s : ColumnOf(s) \in Columns \ {"todo"}
BY DEF ColumnOf, Columns, Settled

LEMMA PutTypes ==
  ASSUME BoardTypes, NEW c, NEW t \in Tasks \cup {NoTask}, NEW col \in Columns, NEW st,
         Put(c, t, col, st)
  PROVE  BoardTypes'
BY DEF BoardTypes, Put, Refresh, Before

LEMMA ProjectTypes ==
  ASSUME BoardTypes, NEW t \in Tasks, NEW s, ProjectTask(t, s) PROVE BoardTypes'
BY PutTypes, ColumnsOf DEF ProjectTask, Untouched, board, BoardTypes

LEMMA BindRetryTypes ==
  ASSUME BoardTypes, NEW s, NEW t \in Tasks \cup {NoTask}, BindRetry(s, t) PROVE BoardTypes'
BY PutTypes, ColumnsOf DEF BindRetry, Untouched, board, BoardTypes

LEMMA MoveTypes ==
  ASSUME BoardTypes, NEW l, NEW t \in Tasks \cup {NoTask}, NEW col \in Columns,
         MoveIfOwned(l, t, col)
  PROVE  BoardTypes'
BY PutTypes DEF MoveIfOwned, Untouched, board, BoardTypes

\* The loop ends, or follows the row it names next.
LEMMA LoopTypes ==
  ASSUME loop \in [Loops -> Loop], NEW l \in Loops, End(l) \/ Follow(l), MaxRetries \in Nat
  PROVE  loop' \in [Loops -> Loop]
<1>1. Idle \in Loop /\ [Idle EXCEPT !.pc = "done"] \in Loop
  BY DEF Idle, Loop, Steps
<1>2. CASE End(l)
  BY <1>1, <1>2 DEF End
<1>3. CASE Follow(l)
  <2>1. loop[l] \in Loop
    OBVIOUS
  <2>2. [loop[l] EXCEPT !.pc = "polling", !.task = loop[l].next, !.next = NoTask] \in Loop
    BY <2>1 DEF Loop, Steps
  <2> QED BY <1>3, <2>2 DEF Follow, NoTask, Loop, Steps
<1> QED BY <1>2, <1>3

LEMMA FreshRow == Room => Fresh \in Tasks /\ status[Fresh] = "none"
BY DEF Room, Fresh

LEMMA InsertTypes ==
  ASSUME RowTypes, NEW t \in Tasks, NEW c \in Cards, NEW s \in Tasks \cup {NoTask},
         Insert(t, c, s)
  PROVE  RowTypes' /\ Made' = Made \cup {t}
<1>1. status' \in [Tasks -> Statuses] /\ root' \in [Tasks -> Tasks \cup {NoTask}]
  BY DEF RowTypes, Insert, Statuses, NoTask, Settled
<1>2. cardOf' = [x \in Tasks |-> IF x = t THEN c ELSE cardOf[x]]
  BY DEF RowTypes, Insert
<1>3. status' = [x \in Tasks |-> IF x = t THEN "active" ELSE status[x]]
  BY DEF RowTypes, Insert
<1>4. Made' = Made \cup {t}
  BY <1>3 DEF Made
<1>5. \A x \in Made' : cardOf'[x] \in Cards
  BY <1>2, <1>4 DEF RowTypes, Made
<1>6. cardOf' = [x \in Tasks |-> cardOf'[x]]
  BY <1>2
<1> QED BY <1>1, <1>4, <1>5, <1>6 DEF RowTypes

LEMMA WaveTypes ==
  ASSUME BoardTypes, EngineTypes, MaxRetries \in Nat,
         NEW r \in Runs, NEW left \in SUBSET Cards,
         NEW p \in {"draft", "active", "completed"}, Wave(r, left, p)
  PROVE  BoardTypes' /\ EngineTypes'
<1>0. Idle \in Loop
  BY DEF Idle, Loop, Steps
<1>1. ASSUME NEW c \in Cards PROVE [Idle EXCEPT !.pc = "claimed", !.task = owner[c]] \in Loop
  <2>1. Idle \in Loop /\ owner[c] \in Tasks \cup {NoTask}
    BY <1>0 DEF BoardTypes
  <2> QED BY <2>1 DEF Loop, Steps, NoTask
<1>2. \A l \in Loops : Card(l) \in Cards
  BY DEF Loops, Card
<1>3. ASSUME on' = on \ {r}, pending' = [pending EXCEPT ![r] = {}],
             loop' = [l \in Loops |-> IF Run(l) = r THEN Idle ELSE loop[l]],
             UNCHANGED <<column, owner, hand>>, Refresh(p, status)
      PROVE  BoardTypes' /\ EngineTypes'
  <2>1. BoardTypes'
    BY <1>3 DEF BoardTypes, Refresh
  <2>2. EngineTypes'
    BY <1>0, <1>3 DEF EngineTypes
  <2> QED BY <2>1, <2>2
<1>4. ASSUME NEW batch \in SUBSET left,
             on' = on \cup {r},
             pending' = [pending EXCEPT ![r] = left \ batch],
             column' = [c \in Cards |-> IF c \in batch THEN "in_progress" ELSE column[c]],
             loop' = [l \in Loops |-> IF Run(l) = r /\ Card(l) \in batch
                                      THEN [Idle EXCEPT !.pc = "claimed", !.task = owner[Card(l)]]
                                      ELSE loop[l]],
             plan' = p, UNCHANGED <<owner, hand>>
      PROVE BoardTypes' /\ EngineTypes'
  BY <1>1, <1>2, <1>4 DEF BoardTypes, EngineTypes, Columns
<1> QED BY <1>3, <1>4 DEF Wave

\* What a step leaves alone keeps its type.
LEMMA Kept ==
  /\ RowTypes /\ UNCHANGED rows => RowTypes' /\ Made' = Made
  /\ BoardTypes /\ UNCHANGED <<board, hand>> => BoardTypes'
BY DEF RowTypes, rows, BoardTypes, board, Made

LEMMA LoopStepTypes ==
  ASSUME Types, MaxRetries \in Nat, NEW l \in Loops, LoopStep(l)
  PROVE  Types'
<1> USE DEF Types
<1>0. loop[l] \in Loop /\ Card(l) \in Cards
  BY DEF EngineTypes, Loops, Card
<1>1. loop[l].task \in Tasks \cup {NoTask} /\ loop[l].next \in Tasks \cup {NoTask}
  BY <1>0 DEF Loop
<1>2. \A w \in {"review", "done", "in_progress"} : w \in Columns
  BY DEF Columns
<1>3. CASE Dispatch(l)
  <2>1. Fresh \in Tasks
    BY <1>3, FreshRow DEF Dispatch
  <2>2. RowTypes' /\ Made' = Made \cup {Fresh}
    BY <1>0, <1>3, <2>1, InsertTypes DEF Dispatch
  <2>3. loop' \in [Loops -> Loop]
    BY <1>0, <1>3, <2>1 DEF Dispatch, EngineTypes, Loop, Steps
  <2> QED BY <1>3, <2>2, <2>3, Kept
          DEF Dispatch, GatewayTypes, EngineTypes, gateway, Untouched
<1>4. CASE DispatchFails(l)
  <2>1. BoardTypes'
    BY <1>1, <1>2, <1>4, MoveTypes DEF DispatchFails
  <2>2. loop' \in [Loops -> Loop]
    BY <1>4, LoopTypes DEF DispatchFails, EngineTypes
  <2> QED BY <1>4, <2>1, <2>2, Kept DEF DispatchFails, GatewayTypes, EngineTypes, gateway
<1>5. CASE Bind(l) \/ TakeRetry(l)
  <2>1. BindExecution(l) /\ UNCHANGED <<column, plan, rows, gateway, on, pending, touches>>
    BY <1>5 DEF Bind, TakeRetry
  <2>2. BoardTypes'
    BY <1>0, <1>1, <2>1 DEF BindExecution, BoardTypes, Before
  <2>3. loop' \in [Loops -> Loop]
    BY <2>1, LoopTypes DEF BindExecution, EngineTypes
  <2> QED BY <2>1, <2>2, <2>3, Kept DEF GatewayTypes, EngineTypes, gateway
<1>6. CASE Poll(l)
  <2>1. BoardTypes'
    BY <1>1, <1>6, MoveTypes, ColumnsOf, Kept DEF Poll, Untouched
  <2>2. loop' \in [Loops -> Loop]
    <3>1. CASE End(l)
      BY <3>1, LoopTypes DEF EngineTypes
    <3>2. CASE MayRetry(l) /\ loop' = [loop EXCEPT ![l].pc = "asking", ![l].tries = @ + 1]
      BY <1>0, <3>2 DEF MayRetry, EngineTypes, Loop, Steps
    <3> QED BY <1>6, <3>1, <3>2 DEF Poll
  <2> QED BY <1>6, <2>1, <2>2, Kept DEF Poll, GatewayTypes, EngineTypes, gateway
<1>7. CASE Deadline(l)
  <2>1. BoardTypes'
    BY <1>1, <1>2, <1>7, MoveTypes DEF Deadline
  <2>2. loop' \in [Loops -> Loop]
    BY <1>7, LoopTypes DEF Deadline, EngineTypes
  <2> QED BY <1>7, <2>1, <2>2, Kept DEF Deadline, GatewayTypes, EngineTypes, gateway
<1>8. CASE AskRetry(l)
  <2>1. \A u \in Reusable(loop[l].task) : u \in Tasks
    BY DEF Reusable, Siblings
  <2>2. BoardTypes'
    BY <1>1, <1>2, <1>8, <2>1, MoveTypes, BindRetryTypes, Kept DEF AskRetry, Untouched
  <2>3. loop' \in [Loops -> Loop]
    <3>1. CASE End(l)
      BY <3>1, LoopTypes DEF EngineTypes
    <3>2. CASE loop' = [loop EXCEPT ![l].pc = "posting"]
      BY <1>0, <3>2 DEF EngineTypes, Loop, Steps
    <3>3. ASSUME NEW u \in Tasks, loop' = [loop EXCEPT ![l].pc = "handed", ![l].next = u]
          PROVE  loop' \in [Loops -> Loop]
      BY <1>0, <3>3 DEF EngineTypes, Loop, Steps
    <3> QED BY <1>8, <2>1, <3>1, <3>2, <3>3 DEF AskRetry
  <2> QED BY <1>8, <2>2, <2>3, Kept DEF AskRetry, GatewayTypes, EngineTypes, gateway
<1>9. CASE PostRetry(l)
  <2>1. CASE /\ Room /\ Insert(Fresh, Card(l), loop[l].task)
             /\ loop' = [loop EXCEPT ![l].pc = "posted", ![l].next = Fresh] /\ Untouched
    <3>1. Fresh \in Tasks
      BY <2>1, FreshRow
    <3>2. RowTypes' /\ Made' = Made \cup {Fresh}
      BY <1>0, <1>1, <2>1, <3>1, InsertTypes
    <3>3. loop' \in [Loops -> Loop]
      BY <1>0, <2>1, <3>1 DEF EngineTypes, Loop, Steps
    <3> QED BY <1>9, <2>1, <3>2, <3>3, Kept
            DEF PostRetry, GatewayTypes, EngineTypes, gateway, Untouched
  <2>2. CASE MoveIfOwned(l, loop[l].task, "review") /\ End(l) /\ UNCHANGED rows
    <3>1. BoardTypes'
      BY <1>1, <1>2, <2>2, MoveTypes
    <3>2. loop' \in [Loops -> Loop]
      BY <2>2, LoopTypes DEF EngineTypes
    <3> QED BY <1>9, <2>2, <3>1, <3>2, Kept DEF PostRetry, GatewayTypes, EngineTypes, gateway
  <2> QED BY <1>9, <2>1, <2>2 DEF PostRetry
<1>10. CASE HandToLoop(l)
  <2>1. BoardTypes'
    BY <1>1, <1>10, BindRetryTypes DEF HandToLoop
  <2>2. loop' \in [Loops -> Loop]
    BY <1>0, <1>10 DEF HandToLoop, EngineTypes, Loop, Steps
  <2> QED BY <1>10, <2>1, <2>2, Kept DEF HandToLoop, GatewayTypes, EngineTypes, gateway
<1> QED BY <1>3, <1>4, <1>5, <1>6, <1>7, <1>8, <1>9, <1>10 DEF LoopStep

\* The type invariant of the runs and the one of the proofs.
LEMMA TypesAreTypeOK == Types => TypeOK
BY DEF Types, BoardTypes, RowTypes, GatewayTypes, EngineTypes, TypeOK, Loop, Steps

LEMMA TypesStep ==
  ASSUME Types, [Next]_vars, MaxRetries \in Nat, MaxTouches \in Nat PROVE Types'
<1> USE DEF Types
<1>1. ASSUME NEW r \in Runs, ExecutePlan(r) PROVE Types'
  <2>1. CASE UNCHANGED <<column, owner, engine, hand>> /\ Refresh(plan, status)
    BY <1>1, <2>1, Kept
    DEF ExecutePlan, Refresh, BoardTypes, GatewayTypes, EngineTypes, gateway, engine
  <2>2. CASE Wave(r, {c \in Cards : column[c] = "todo"}, "active")
    <3>1. {c \in Cards : column[c] = "todo"} \in SUBSET Cards
      OBVIOUS
    <3>2. BoardTypes' /\ EngineTypes'
      BY <2>2, <3>1, WaveTypes
    <3> QED BY <1>1, <3>2, Kept DEF ExecutePlan, GatewayTypes, gateway
  <2> QED BY <1>1, <2>1, <2>2 DEF ExecutePlan
<1>2. ASSUME NEW r \in Runs, NextWave(r) PROVE Types'
  <2>1. pending[r] \in SUBSET Cards /\ plan \in {"draft", "active", "completed"}
    BY DEF EngineTypes, BoardTypes
  <2>2. BoardTypes' /\ EngineTypes'
    BY <1>2, <2>1, WaveTypes DEF NextWave
  <2> QED BY <1>2, <2>2, Kept DEF NextWave, GatewayTypes, gateway
<1>3. ASSUME NEW l \in Loops, LoopStep(l) PROVE Types'
  BY <1>3, LoopStepTypes
<1>4. ASSUME NEW t \in Tasks, Settle(t) PROVE Types'
  <2>1. \E s \in Statuses \ {"none"} : status' = [status EXCEPT ![t] = s]
    BY <1>4 DEF Settle, Statuses, Settled
  <2>2. t \in Made
    BY <1>4 DEF Settle, Working, Made
  <2>3. RowTypes' /\ Made' = Made
    BY <1>4, <2>1, <2>2 DEF Settle, RowTypes, Made
  <2> QED BY <1>4, <2>2, <2>3, Kept DEF Settle, GatewayTypes, EngineTypes, engine
<1>4a. ASSUME NEW t \in Tasks, SettleAgain(t) PROVE Types'
  <2>1. t \in Made
    BY <1>4a DEF SettleAgain, Settled, Made
  <2> QED BY <1>4a, <2>1, Kept DEF SettleAgain, GatewayTypes, EngineTypes, engine
<1>5. ASSUME NEW t \in Tasks, ProjectSettled(t) PROVE Types'
  <2>1. BoardTypes'
    BY <1>5, ProjectTypes, Kept DEF ProjectSettled, Untouched
  <2> QED BY <1>5, <2>1, Kept DEF ProjectSettled, GatewayTypes, EngineTypes, engine
<1>6. ASSUME NEW t \in Tasks, AuditPasses(t) PROVE Types'
  <2>1. BoardTypes'
    BY <1>6, ProjectTypes DEF AuditPasses
  <2>2. RowTypes' /\ Made' = Made
    BY <1>6 DEF AuditPasses, RowTypes, Made, Statuses, Settled
  <2> QED BY <1>6, <2>1, <2>2 DEF AuditPasses, GatewayTypes, EngineTypes, engine, gateway
<1>7. ASSUME NEW t \in Tasks, GatewayRetry(t) PROVE Types'
  <2>1. \A u \in Reusable(t) : u \in Tasks
    BY DEF Reusable, Siblings
  <2>2. BoardTypes'
    BY <1>7, <2>1, BindRetryTypes, Kept DEF GatewayRetry, Untouched
  <2>3. t \in Made
    BY <1>7 DEF GatewayRetry, Made
  <2> QED BY <1>7, <2>2, <2>3, Kept DEF GatewayRetry, GatewayTypes, EngineTypes, engine
<1>8. ASSUME NEW t \in Tasks, GatewayPosts(t) PROVE Types'
  <2>1. t \in Made /\ cardOf[t] \in Cards
    BY <1>8 DEF GatewayPosts, GatewayTypes, RowTypes
  <2>2. CASE /\ Room /\ Insert(Fresh, cardOf[t], t)
             /\ handing' = handing \cup {<<t, Fresh>>}
    <3>1. RowTypes' /\ Made' = Made \cup {Fresh}
      BY <2>1, <2>2, FreshRow, InsertTypes
    <3> QED BY <1>8, <2>1, <2>2, <3>1, Kept
            DEF GatewayPosts, GatewayTypes, EngineTypes, engine
  <2>3. CASE UNCHANGED <<rows, handing>>
    BY <1>8, <2>3, Kept DEF GatewayPosts, GatewayTypes, EngineTypes, engine
  <2> QED BY <1>8, <2>2, <2>3 DEF GatewayPosts
<1>9. CASE GatewayHands
  <2>1. PICK h \in handing : /\ BindRetry(h[1], h[2])
                             /\ handing' = handing \ {h}
                             /\ UNCHANGED <<rows, settling, posting, engine, touches>>
    BY <1>9 DEF GatewayHands
  <2>2. h[2] \in Tasks
    BY DEF GatewayTypes, Made
  <2>3. BoardTypes'
    BY <2>1, <2>2, BindRetryTypes
  <2> QED BY <2>1, <2>3, Kept DEF GatewayTypes, EngineTypes, engine
<1>10. ASSUME NEW cs, Touch(cs) PROVE /\ touches' \in 0..MaxTouches
                                      /\ hand' \in [Cards -> {"never", "before", "last"}]
  BY <1>10 DEF Touch, BoardTypes
<1>11. ASSUME NEW c \in Cards, MoveCard(c) PROVE Types'
  <2>1. BoardTypes'
    BY <1>10, <1>11 DEF MoveCard, BoardTypes, Refresh
  <2> QED BY <1>10, <1>11, <2>1, Kept DEF MoveCard, GatewayTypes, EngineTypes, engine, gateway
<1>12. CASE SyncFromMarkdown
  <2>1. \E cs : Touch(cs)
    BY <1>12 DEF SyncFromMarkdown
  <2>2. column' \in [Cards -> Columns]
    BY <1>12 DEF SyncFromMarkdown, Columns
  <2>3. BoardTypes'
    BY <1>10, <1>12, <2>1, <2>2 DEF SyncFromMarkdown, BoardTypes, Refresh
  <2> QED BY <1>10, <1>12, <2>1, <2>3, Kept
          DEF SyncFromMarkdown, GatewayTypes, EngineTypes, engine, gateway
<1>13. ASSUME NEW t \in Tasks, Purge(t) PROVE Types'
  <2>1. \E cs : Touch(cs)
    BY <1>13 DEF Purge
  <2>2. BoardTypes'
    BY <1>10, <1>13, <2>1 DEF Purge, BoardTypes, Columns, NoTask
  <2>3. RowTypes' /\ Made' = Made
    BY <1>13 DEF Purge, RowTypes, Made, Statuses
  <2> QED BY <1>10, <1>13, <2>1, <2>2, <2>3 DEF Purge, GatewayTypes, EngineTypes, engine, gateway
<1>14. CASE UNCHANGED vars
  BY <1>14, Kept DEF vars, GatewayTypes, EngineTypes, gateway, engine, board
<1> QED
  BY <1>1, <1>2, <1>3, <1>4, <1>4a, <1>5, <1>6, <1>7, <1>8, <1>9, <1>11, <1>12, <1>13, <1>14 DEF Next

LEMMA InitTypes ==
  ASSUME Init, MaxRetries \in Nat, MaxTouches \in Nat PROVE Types
<1>1. BoardTypes
  BY DEF Init, BoardTypes, Columns
<1>2. RowTypes /\ Made = {}
  BY DEF Init, RowTypes, Made, Statuses
<1>3. Idle \in Loop
  BY DEF Idle, Loop, Steps
<1> QED BY <1>1, <1>2, <1>3 DEF Init, Types, GatewayTypes, EngineTypes

\* Whatever the calls, the gateway and the people at the board do, cards, rows
\* and loops stay in their sets.
THEOREM KanbanTypes == Spec => []TypeOK
<1>1. Init => Types
  BY InitTypes, BoundsAreNat
<1>2. Types /\ [Next]_vars => Types'
  BY TypesStep, BoundsAreNat
<1> QED BY <1>1, <1>2, TypesAreTypeOK, PTL DEF Spec

-----------------------------------------------------------------------------
(* Work starts after its prerequisites, once, and is not undone            *)

Lost(t) == status[t] \in {"failed", "purged"}
Done(c) == Finished(column[c], owner[c], status)

Follows  == {"polling", "asking", "posting", "posted", "handed"}
Retries  == {"asking", "posting", "posted", "handed"}
Proposes == {"created", "posted", "handed"}

\* A loop knows its rows, and what is retried is lost for good: a card that
\* reached done with a completed row is nobody's source any more.
RowsAreKnown ==
  /\ \A l \in Loops : /\ loop[l].pc \in Follows => loop[l].task \in Made
                      /\ loop[l].pc \in Proposes => loop[l].next \in Made
                      /\ loop[l].pc \in Retries => Lost(loop[l].task)
  /\ \A t \in posting : Lost(t)
  /\ \A h \in handing : Lost(h[1])

\* A card no person touched gets its first row from the one loop that claimed
\* it, and is done only through a row.
CardsAreFresh ==
  \A c \in Cards : Untroubled(c) =>
    /\ column[c] = "todo" => /\ owner[c] = NoTask
                             /\ \A r \in Runs : Ended(loop[<<r, c>>].pc)
    /\ owner[c] = NoTask => column[c] # "done"
    /\ \A r \in Runs : loop[<<r, c>>].pc \in {"claimed", "created"}
                         => loop[<<r, c>>].task = NoTask

Inv == Types /\ RowsAreKnown /\ CardsAreFresh /\ WorkedOnOnce /\ PrerequisitesHold

\* What any step does to a row.
RowsGoOn == \A t \in Tasks : /\ status[t] = "completed" => status'[t] = "completed"
                             /\ Lost(t) => Lost(t)'
                             /\ t \in Made => t \in Made'

\* What any step does to a card no person has touched.
CardGoesOn(c) ==
  /\ hand[c] = "never"
  /\ Done(c) => column'[c] = "done" /\ owner'[c] = owner[c]
  /\ column'[c] = "todo" => column[c] = "todo" /\ owner'[c] = owner[c]
  /\ owner'[c] = NoTask => owner[c] = NoTask /\ (column'[c] = "done" => column[c] = "done")
  /\ owner'[c] # owner[c] => owner[c] # NoTask \/ \E r \in Runs : ~At(<<r, c>>, "idle")

\* A card that is neither written nor bound.
LEMMA Unmoved ==
  ASSUME NEW c, hand'[c] = "never" => hand[c] = "never",
         column'[c] = column[c], owner'[c] = owner[c]
  PROVE  hand'[c] = "never" => CardGoesOn(c)
BY DEF CardGoesOn, Done, Finished

\* The UPDATE of one card, if it completes nothing that has no row, takes no
\* finished card to another column or row, and finds the card with a row.
LEMMA PutGoesOn ==
  ASSUME BoardTypes, NEW k, NEW t, NEW col, NEW st, Put(k, t, col, st), col # "todo",
         t = NoTask => owner[k] = NoTask /\ (col = "done" => column[k] = "done"),
         Done(k) /\ Untroubled(k) => col = "done" /\ t = owner[k],
         t # owner[k] => owner[k] # NoTask,
         NEW c \in Cards, hand'[c] = "never"
  PROVE  CardGoesOn(c)
<1>1. hand[c] = "never"
  BY DEF Put, BoardTypes, Before
<1>2. CASE c = k
  BY <1>1, <1>2 DEF Put, BoardTypes, CardGoesOn, Untroubled, Done
<1>3. CASE c # k
  BY <1>1, <1>3, Unmoved DEF Put, BoardTypes
<1> QED BY <1>2, <1>3

LEMMA UntouchedGoesOn ==
  ASSUME Untouched, NEW c \in Cards, hand'[c] = "never" PROVE CardGoesOn(c)
BY Unmoved DEF Untouched, board

\* Projecting the status a row has or gets.
LEMMA ProjectGoesOn ==
  ASSUME Types, NEW t \in Tasks, NEW s, ProjectTask(t, s),
         status[t] = "completed" => s = "completed",
         NEW c \in Cards, hand'[c] = "never"
  PROVE  CardGoesOn(c)
<1>1. t # NoTask /\ ColumnOf(s) # "todo"
  BY ColumnsOf, BoundsAreNat DEF Tasks, NoTask
<1>2. s = "completed" => ColumnOf(s) = "done"
  BY DEF ColumnOf
<1>3. CASE owner[cardOf[t]] = t
  BY <1>1, <1>2, <1>3, PutGoesOn DEF ProjectTask, Types, Done, Finished
<1> QED BY <1>3, UntouchedGoesOn DEF ProjectTask

\* Handing a card from a lost row to its retry.
LEMMA BindRetryGoesOn ==
  ASSUME Types, NEW s \in Made, Lost(s), NEW t \in Tasks, BindRetry(s, t),
         NEW c \in Cards, hand'[c] = "never"
  PROVE  CardGoesOn(c)
<1>1. s # NoTask /\ t # NoTask /\ ColumnOf(status[t]) # "todo"
  BY ColumnsOf, BoundsAreNat DEF Made, Tasks, NoTask
<1>2. CASE Put(cardOf[t], t, ColumnOf(status[t]), status) /\ owner[cardOf[t]] = s
  BY <1>1, <1>2, PutGoesOn DEF Types, Lost, Done, Finished
<1> QED BY <1>2, UntouchedGoesOn DEF BindRetry

\* A loop that moves its card to review, or to where its row belongs.
LEMMA MoveGoesOn ==
  ASSUME Types, CardsAreFresh, NEW l \in Loops, NEW col \in {"review", "in_progress", "done"},
         MoveIfOwned(l, loop[l].task, col),
         \/ loop[l].pc = "claimed" /\ col # "done"
         \/ loop[l].task \in Made /\ (status[loop[l].task] = "completed" => col = "done"),
         NEW c \in Cards, hand'[c] = "never"
  PROVE  CardGoesOn(c)
<1> DEFINE k == Card(l)
<1>1. k \in Cards /\ Run(l) \in Runs /\ l = <<Run(l), k>>
  BY DEF Card, Run, Loops
<1>2. CASE owner[k] = loop[l].task /\ Put(k, loop[l].task, col, status)
  <2>1. CASE loop[l].pc = "claimed" /\ col # "done"
    <3>1. ~(Done(k) /\ Untroubled(k))
      BY <1>1, <1>2, <2>1 DEF CardsAreFresh, Done, Finished
    <3> HIDE DEF k
    <3> QED BY <1>2, <2>1, <3>1, PutGoesOn DEF Types
  <2>2. CASE loop[l].task \in Made /\ (status[loop[l].task] = "completed" => col = "done")
    <3>1. loop[l].task # NoTask
      BY <2>2, BoundsAreNat DEF Made, Tasks, NoTask
    <3>2. Done(k) => col = "done"
      BY <1>2, <2>2, <3>1 DEF Done, Finished
    <3> HIDE DEF k
    <3> QED BY <1>2, <3>1, <3>2, PutGoesOn DEF Types
  <2> QED BY <2>1, <2>2
<1> QED BY <1>2, UntouchedGoesOn DEF MoveIfOwned

\* A loop that binds its card to the row it has next.
LEMMA BindGoesOn ==
  ASSUME Types, RowsAreKnown, CardsAreFresh, NEW l \in Loops, BindExecution(l),
         loop[l].pc \in {"created", "handed"}, UNCHANGED column,
         NEW c \in Cards, hand'[c] = "never"
  PROVE  CardGoesOn(c)
<1> DEFINE k == Card(l)
<1>1. k \in Cards /\ Run(l) \in Runs /\ l = <<Run(l), k>>
  BY DEF Card, Run, Loops
<1>2. loop[l].next \in Made /\ loop[l].next # NoTask
  BY BoundsAreNat DEF RowsAreKnown, Proposes, Made, Tasks, NoTask
<1>3. CASE /\ owner[k] \in {loop[l].next, loop[l].task}
           /\ owner' = [owner EXCEPT ![k] = loop[l].next]
           /\ hand' = [hand EXCEPT ![k] = Before(@)]
  <2>1. hand[c] = "never"
    BY <1>3 DEF Before, Types, BoardTypes
  <2>2. CASE c # k
    BY <1>3, <2>1, <2>2, Unmoved DEF Types, BoardTypes
  <2>3. CASE c = k
    <3>1. column[k] # "todo"
      BY <1>1, <2>1, <2>3 DEF CardsAreFresh, Untroubled, Ended
    <3>2. ~At(<<Run(l), k>>, "idle")
      BY <1>1 DEF At
    <3>3. Done(k) => owner[k] = loop[l].next
      <4>1. CASE loop[l].pc = "created"
        BY <1>1, <1>3, <2>1, <2>3, <4>1 DEF CardsAreFresh, Untroubled, Done, Finished
      <4>2. CASE loop[l].pc = "handed"
        <5>1. Lost(loop[l].task) /\ loop[l].task \in Made
          BY <4>2 DEF RowsAreKnown, Retries, Follows
        <5>2. loop[l].task # NoTask
          BY <5>1, BoundsAreNat DEF Made, Tasks, NoTask
        <5> QED BY <1>3, <5>1, <5>2 DEF Lost, Done, Finished
      <4> QED BY <4>1, <4>2
    <3> HIDE DEF k
    <3> QED BY <1>1, <1>2, <1>3, <2>1, <2>3, <3>1, <3>2, <3>3
            DEF CardGoesOn, Done, Finished, Types, BoardTypes
  <2> QED BY <2>2, <2>3
<1>4. CASE UNCHANGED <<owner, hand>>
  BY <1>4, Unmoved
<1> QED BY <1>3, <1>4 DEF BindExecution

\* What any step does to the loops of a card: only a claim starts one.
LoopsGoOn(c) ==
  \A r \in Runs :
    /\ ~At(<<r, c>>, "idle")' => ~At(<<r, c>>, "idle") \/ (column[c] = "todo" /\ DependenciesSatisfied(c))
    /\ ~Ended(loop'[<<r, c>>].pc) =>
         \/ ~Ended(loop[<<r, c>>].pc)
         \/ /\ column[c] = "todo" /\ column'[c] = "in_progress"
            /\ \A q \in Runs \ {r} : loop'[<<q, c>>] = loop[<<q, c>>]
    /\ loop'[<<r, c>>].pc \in {"claimed", "created"} =>
         \/ /\ loop[<<r, c>>].pc \in {"claimed", "created"}
            /\ loop'[<<r, c>>].task = loop[<<r, c>>].task
         \/ column[c] = "todo" /\ loop'[<<r, c>>].task = owner[c]

GoesOn == /\ RowsGoOn
          /\ \A c \in Cards : hand'[c] = "never" => CardGoesOn(c)
          /\ \A c \in Cards : LoopsGoOn(c)

LEMMA RowsStay == UNCHANGED rows => RowsGoOn
BY DEF rows, RowsGoOn, Lost, Made

LEMMA LoopsStay == UNCHANGED loop => \A c \in Cards : LoopsGoOn(c)
BY DEF LoopsGoOn, At

\* A loop that moves on was at work and keeps what it was claimed with.
LEMMA LoopMoves ==
  ASSUME loop \in [Loops -> Loop], NEW l \in Loops, NEW x, loop' = [loop EXCEPT ![l] = x],
         ~Ended(loop[l].pc),
         x.pc \in {"claimed", "created"}
           => loop[l].pc \in {"claimed", "created"} /\ x.task = loop[l].task
  PROVE  \A c \in Cards : LoopsGoOn(c)
<1> SUFFICES ASSUME NEW c \in Cards, NEW r \in Runs
             PROVE  /\ ~At(<<r, c>>, "idle")' => ~At(<<r, c>>, "idle")
                    /\ ~Ended(loop'[<<r, c>>].pc) => ~Ended(loop[<<r, c>>].pc)
                    /\ loop'[<<r, c>>].pc \in {"claimed", "created"} =>
                         /\ loop[<<r, c>>].pc \in {"claimed", "created"}
                         /\ loop'[<<r, c>>].task = loop[<<r, c>>].task
  BY DEF LoopsGoOn
<1>1. <<r, c>> \in Loops
  BY DEF Loops
<1>2. CASE <<r, c>> = l
  BY <1>1, <1>2 DEF At, Ended
<1>3. CASE <<r, c>> # l
  BY <1>1, <1>3 DEF At
<1> QED BY <1>2, <1>3

LEMMA InsertGoesOn ==
  ASSUME RowTypes, NEW t \in Tasks, status[t] = "none", NEW c, NEW s, Insert(t, c, s)
  PROVE  RowsGoOn
BY DEF Insert, RowsGoOn, RowTypes, Lost, Made

LEMMA WaveGoesOn ==
  ASSUME Types, NEW r \in Runs, NEW left \in SUBSET Cards, NEW p, Wave(r, left, p)
  PROVE  /\ \A c \in Cards : hand'[c] = "never" => CardGoesOn(c)
         /\ \A c \in Cards : LoopsGoOn(c)
<1>0. \A q \in Runs, c \in Cards : <<q, c>> \in Loops /\ Run(<<q, c>>) = q /\ Card(<<q, c>>) = c
  BY DEF Loops, Run, Card
<1>1. CASE /\ loop' = [l \in Loops |-> IF Run(l) = r THEN Idle ELSE loop[l]]
           /\ UNCHANGED <<column, owner, hand>>
  <2>1. \A c \in Cards : hand'[c] = "never" => CardGoesOn(c)
    BY <1>1, Unmoved
  <2>2. \A q \in Runs, c \in Cards : loop'[<<q, c>>] = IF q = r THEN Idle ELSE loop[<<q, c>>]
    BY <1>0, <1>1
  <2> QED BY <2>1, <2>2 DEF LoopsGoOn, At, Idle, Ended
<1>2. ASSUME NEW batch \in SUBSET {c \in left : Claimable(c) /\ DependenciesSatisfied(c)},
             column' = [c \in Cards |-> IF c \in batch THEN "in_progress" ELSE column[c]],
             loop' = [l \in Loops |-> IF Run(l) = r /\ Card(l) \in batch
                                      THEN [Idle EXCEPT !.pc = "claimed", !.task = owner[Card(l)]]
                                      ELSE loop[l]],
             UNCHANGED <<owner, hand>>
      PROVE  /\ \A c \in Cards : hand'[c] = "never" => CardGoesOn(c)
             /\ \A c \in Cards : LoopsGoOn(c)
  <2>1. \A c \in batch : column[c] = "todo" /\ DependenciesSatisfied(c)
    BY DEF Claimable
  <2>2. ASSUME NEW c \in Cards, hand'[c] = "never" PROVE CardGoesOn(c)
    BY <1>2, <2>1, <2>2 DEF CardGoesOn, Done, Finished
  <2>3. ASSUME NEW c \in Cards PROVE LoopsGoOn(c)
    <3> DEFINE x == [Idle EXCEPT !.pc = "claimed", !.task = owner[c]]
    <3>1. x.pc = "claimed" /\ x.task = owner[c]
      BY DEF Idle
    <3>2. \A q \in Runs : loop'[<<q, c>>] = IF q = r /\ c \in batch THEN x ELSE loop[<<q, c>>]
      BY <1>0, <1>2
    <3>3. column'[c] = IF c \in batch THEN "in_progress" ELSE column[c]
      BY <1>2
    <3> HIDE DEF x
    <3> QED BY <2>1, <3>1, <3>2, <3>3 DEF LoopsGoOn, At
  <2> QED BY <2>2, <2>3
<1> QED BY <1>1, <1>2 DEF Wave

LEMMA LoopGoesOn ==
  ASSUME Types, RowsAreKnown, CardsAreFresh, NEW l \in Loops, LoopStep(l)
  PROVE  GoesOn
<1> USE DEF Types
<1>0. loop \in [Loops -> Loop] /\ loop[l] \in Loop
  BY DEF EngineTypes
<1>1. [Idle EXCEPT !.pc = "done"].pc = "done"
  BY DEF Idle
<1>2. ASSUME End(l), ~Ended(loop[l].pc) PROVE \A c \in Cards : LoopsGoOn(c)
  BY <1>0, <1>1, <1>2, LoopMoves DEF End
<1>3. CASE Dispatch(l)
  <2>1. RowsGoOn
    BY <1>3, FreshRow, InsertGoesOn DEF Dispatch
  <2>2. \A c \in Cards : LoopsGoOn(c)
    <3> DEFINE x == [loop[l] EXCEPT !.pc = "created", !.next = Fresh]
    <3>1. x.pc = "created" /\ x.task = loop[l].task
      BY <1>0 DEF Loop
    <3>2. loop' = [loop EXCEPT ![l] = x]
      BY <1>3 DEF Dispatch
    <3> HIDE DEF x
    <3> QED BY <1>0, <1>3, <3>1, <3>2, LoopMoves DEF Dispatch, At, Ended
  <2> QED BY <1>3, <2>1, <2>2, UntouchedGoesOn DEF Dispatch, GoesOn
<1>4. CASE DispatchFails(l)
  <2>1. \A c \in Cards : hand'[c] = "never" => CardGoesOn(c)
    BY <1>4, MoveGoesOn DEF DispatchFails, At
  <2> QED BY <1>2, <1>4, <2>1, RowsStay DEF DispatchFails, GoesOn, At, Ended
<1>5. CASE Bind(l) \/ TakeRetry(l)
  <2>1. /\ BindExecution(l) /\ UNCHANGED <<column, rows>>
        /\ loop[l].pc \in {"created", "handed"}
    BY <1>5 DEF Bind, TakeRetry, At
  <2>2. \A c \in Cards : hand'[c] = "never" => CardGoesOn(c)
    BY <2>1, BindGoesOn
  <2>3. ASSUME Follow(l) PROVE \A c \in Cards : LoopsGoOn(c)
    <3> DEFINE x == [loop[l] EXCEPT !.pc = "polling", !.task = loop[l].next, !.next = NoTask]
    <3>1. x.pc = "polling"
      BY <1>0 DEF Loop
    <3>2. loop' = [loop EXCEPT ![l] = x]
      BY <2>3 DEF Follow
    <3> HIDE DEF x
    <3> QED BY <1>0, <2>1, <3>1, <3>2, LoopMoves DEF Ended
  <2>4. \A c \in Cards : LoopsGoOn(c)
    BY <1>2, <2>1, <2>3 DEF BindExecution, Ended
  <2> QED BY <2>1, <2>2, <2>4, RowsStay DEF GoesOn
<1>6. CASE Poll(l)
  <2>1. loop[l].pc = "polling" /\ loop[l].task \in Made
    BY <1>6 DEF Poll, At, RowsAreKnown, Follows
  <2>2. CASE /\ loop' = [loop EXCEPT ![l].pc = "asking", ![l].tries = @ + 1]
             /\ Untouched
    <3> DEFINE x == [loop[l] EXCEPT !.pc = "asking", !.tries = @ + 1]
    <3>1. x.pc = "asking"
      BY <1>0 DEF Loop
    <3>2. loop' = [loop EXCEPT ![l] = x]
      BY <2>2
    <3> HIDE DEF x
    <3>3. \A c \in Cards : LoopsGoOn(c)
      BY <1>0, <2>1, <3>1, <3>2, LoopMoves DEF Ended
    <3> QED BY <1>6, <2>2, <3>3, RowsStay, UntouchedGoesOn DEF Poll, GoesOn
  <2>3. CASE MoveIfOwned(l, loop[l].task, ColumnOf(status[loop[l].task])) /\ End(l)
    <3>1. ColumnOf(status[loop[l].task]) \in {"review", "in_progress", "done"}
      BY ColumnsOf DEF Columns
    <3>2. status[loop[l].task] = "completed" => ColumnOf(status[loop[l].task]) = "done"
      BY DEF ColumnOf
    <3>3. \A c \in Cards : hand'[c] = "never" => CardGoesOn(c)
      BY <2>1, <2>3, <3>1, <3>2, MoveGoesOn
    <3> QED BY <1>2, <1>6, <2>1, <2>3, <3>3, RowsStay DEF Poll, GoesOn, Ended
  <2> QED BY <1>6, <2>2, <2>3 DEF Poll
<1>7. CASE Deadline(l)
  <2>1. loop[l].pc = "polling" /\ loop[l].task \in Made /\ status[loop[l].task] # "completed"
    BY <1>7 DEF Deadline, At, RowsAreKnown, Follows, Settled
  <2>2. \A c \in Cards : hand'[c] = "never" => CardGoesOn(c)
    BY <1>7, <2>1, MoveGoesOn DEF Deadline
  <2> QED BY <1>2, <1>7, <2>1, <2>2, RowsStay DEF Deadline, GoesOn, Ended
<1>8. CASE AskRetry(l)
  <2>1. loop[l].pc = "asking" /\ loop[l].task \in Made /\ Lost(loop[l].task)
    BY <1>8 DEF AskRetry, At, RowsAreKnown, Follows, Retries
  <2>2. CASE loop' = [loop EXCEPT ![l].pc = "posting"] /\ Untouched
    <3> DEFINE x == [loop[l] EXCEPT !.pc = "posting"]
    <3>1. x.pc = "posting"
      BY <1>0 DEF Loop
    <3>2. loop' = [loop EXCEPT ![l] = x]
      BY <2>2
    <3> HIDE DEF x
    <3>3. \A c \in Cards : LoopsGoOn(c)
      BY <1>0, <2>1, <3>1, <3>2, LoopMoves DEF Ended
    <3> QED BY <1>8, <2>2, <3>3, RowsStay, UntouchedGoesOn DEF AskRetry, GoesOn
  <2>3. ASSUME NEW u \in Tasks, BindRetry(loop[l].task, u),
               loop' = [loop EXCEPT ![l].pc = "handed", ![l].next = u]
        PROVE  GoesOn
    <3> DEFINE x == [loop[l] EXCEPT !.pc = "handed", !.next = u]
    <3>1. x.pc = "handed"
      BY <1>0 DEF Loop
    <3>2. loop' = [loop EXCEPT ![l] = x]
      BY <2>3
    <3> HIDE DEF x
    <3>3. \A c \in Cards : LoopsGoOn(c)
      BY <1>0, <2>1, <3>1, <3>2, LoopMoves DEF Ended
    <3>4. \A c \in Cards : hand'[c] = "never" => CardGoesOn(c)
      BY <2>1, <2>3, BindRetryGoesOn
    <3> QED BY <1>8, <3>3, <3>4, RowsStay DEF AskRetry, GoesOn
  <2>4. CASE MoveIfOwned(l, loop[l].task, "review") /\ End(l)
    <3>1. \A c \in Cards : hand'[c] = "never" => CardGoesOn(c)
      BY <2>1, <2>4, MoveGoesOn DEF Lost
    <3> QED BY <1>2, <1>8, <2>1, <2>4, <3>1, RowsStay DEF AskRetry, GoesOn, Ended
  <2> QED BY <1>8, <2>2, <2>3, <2>4 DEF AskRetry, Reusable, Siblings
<1>9. CASE PostRetry(l)
  <2>1. loop[l].pc = "posting" /\ loop[l].task \in Made /\ Lost(loop[l].task)
    BY <1>9 DEF PostRetry, At, RowsAreKnown, Follows, Retries
  <2>2. CASE /\ Room /\ Insert(Fresh, Card(l), loop[l].task)
             /\ loop' = [loop EXCEPT ![l].pc = "posted", ![l].next = Fresh] /\ Untouched
    <3> DEFINE x == [loop[l] EXCEPT !.pc = "posted", !.next = Fresh]
    <3>1. x.pc = "posted"
      BY <1>0 DEF Loop
    <3>2. loop' = [loop EXCEPT ![l] = x]
      BY <2>2
    <3> HIDE DEF x
    <3>3. \A c \in Cards : LoopsGoOn(c)
      BY <1>0, <2>1, <3>1, <3>2, LoopMoves DEF Ended
    <3>4. RowsGoOn
      BY <2>2, FreshRow, InsertGoesOn
    <3> QED BY <2>2, <3>3, <3>4, UntouchedGoesOn DEF GoesOn
  <2>3. CASE MoveIfOwned(l, loop[l].task, "review") /\ End(l) /\ UNCHANGED rows
    <3>1. \A c \in Cards : hand'[c] = "never" => CardGoesOn(c)
      BY <2>1, <2>3, MoveGoesOn DEF Lost
    <3> QED BY <1>2, <2>1, <2>3, <3>1, RowsStay DEF GoesOn, Ended
  <2> QED BY <1>9, <2>2, <2>3 DEF PostRetry
<1>10. CASE HandToLoop(l)
  <2>1. /\ loop[l].pc = "posted" /\ loop[l].task \in Made /\ Lost(loop[l].task)
        /\ loop[l].next \in Tasks
    BY <1>10 DEF HandToLoop, At, RowsAreKnown, Follows, Retries, Proposes, Made
  <2> DEFINE x == [loop[l] EXCEPT !.pc = "handed"]
  <2>2. x.pc = "handed"
    BY <1>0 DEF Loop
  <2>3. loop' = [loop EXCEPT ![l] = x]
    BY <1>10 DEF HandToLoop
  <2> HIDE DEF x
  <2>4. \A c \in Cards : LoopsGoOn(c)
    BY <1>0, <2>1, <2>2, <2>3, LoopMoves DEF Ended
  <2>5. \A c \in Cards : hand'[c] = "never" => CardGoesOn(c)
    BY <1>10, <2>1, BindRetryGoesOn DEF HandToLoop
  <2> QED BY <1>10, <2>4, <2>5, RowsStay DEF HandToLoop, GoesOn
<1> QED BY <1>3, <1>4, <1>5, <1>6, <1>7, <1>8, <1>9, <1>10 DEF LoopStep

\* What a person touches is touched.
LEMMA TouchGoesOn ==
  ASSUME BoardTypes, NEW cs, Touch(cs), NEW c \in Cards, hand'[c] = "never",
         c \notin cs => column'[c] = column[c] /\ owner'[c] = owner[c]
  PROVE  CardGoesOn(c)
<1>1. hand[c] = "never" /\ c \notin cs
  BY DEF Touch, BoardTypes
<1> QED BY <1>1, Unmoved

LEMMA StepGoesOn ==
  ASSUME Inv, [Next]_vars PROVE GoesOn
<1> USE DEF Inv, Types
<1>1. ASSUME NEW r \in Runs, ExecutePlan(r) PROVE GoesOn
  <2>1. CASE UNCHANGED <<column, owner, engine, hand>>
    BY <1>1, <2>1, RowsStay, LoopsStay, Unmoved DEF ExecutePlan, GoesOn, engine
  <2>2. CASE Wave(r, {c \in Cards : column[c] = "todo"}, "active")
    <3>1. {c \in Cards : column[c] = "todo"} \in SUBSET Cards
      OBVIOUS
    <3> QED BY <1>1, <2>2, <3>1, WaveGoesOn, RowsStay DEF ExecutePlan, GoesOn
  <2> QED BY <1>1, <2>1, <2>2 DEF ExecutePlan
<1>2. ASSUME NEW r \in Runs, NextWave(r) PROVE GoesOn
  <2>1. pending[r] \in SUBSET Cards
    BY DEF EngineTypes
  <2> QED BY <1>2, <2>1, WaveGoesOn, RowsStay DEF NextWave, GoesOn
<1>3. ASSUME NEW l \in Loops, LoopStep(l) PROVE GoesOn
  BY <1>3, LoopGoesOn
<1>4. ASSUME NEW t \in Tasks, Settle(t) PROVE GoesOn
  <2>1. RowsGoOn
    BY <1>4 DEF Settle, Working, RowsGoOn, Lost, Made, RowTypes
  <2> QED BY <1>4, <2>1, LoopsStay, Unmoved DEF Settle, GoesOn, engine, board
<1>4a. ASSUME NEW t \in Tasks, SettleAgain(t) PROVE GoesOn
  BY <1>4a, LoopsStay, RowsStay, Unmoved DEF SettleAgain, GoesOn, engine, board
<1>5. ASSUME NEW t \in Tasks, ProjectSettled(t) PROVE GoesOn
  <2>1. \A c \in Cards : hand'[c] = "never" => CardGoesOn(c)
    BY <1>5, ProjectGoesOn, UntouchedGoesOn DEF ProjectSettled
  <2> QED BY <1>5, <2>1, LoopsStay, RowsStay DEF ProjectSettled, GoesOn, engine
<1>6. ASSUME NEW t \in Tasks, AuditPasses(t) PROVE GoesOn
  <2>1. RowsGoOn
    BY <1>6 DEF AuditPasses, RowsGoOn, Lost, Made, RowTypes
  <2>2. \A c \in Cards : hand'[c] = "never" => CardGoesOn(c)
    BY <1>6, ProjectGoesOn DEF AuditPasses
  <2> QED BY <1>6, <2>1, <2>2, LoopsStay DEF AuditPasses, GoesOn, engine
<1>7. ASSUME NEW t \in Tasks, GatewayRetry(t) PROVE GoesOn
  <2>1. t \in Made /\ Lost(t) /\ \A u \in Reusable(t) : u \in Tasks
    BY <1>7 DEF GatewayRetry, Made, Lost, Reusable, Siblings
  <2>2. \A c \in Cards : hand'[c] = "never" => CardGoesOn(c)
    BY <1>7, <2>1, BindRetryGoesOn, UntouchedGoesOn DEF GatewayRetry
  <2> QED BY <1>7, <2>2, LoopsStay, RowsStay DEF GatewayRetry, GoesOn, engine
<1>8. ASSUME NEW t \in Tasks, GatewayPosts(t) PROVE GoesOn
  <2>1. RowsGoOn
    BY <1>8, FreshRow, InsertGoesOn, RowsStay DEF GatewayPosts, rows
  <2> QED BY <1>8, <2>1, LoopsStay, Unmoved DEF GatewayPosts, GoesOn, engine, board
<1>9. CASE GatewayHands
  <2>1. PICK h \in handing : BindRetry(h[1], h[2]) /\ UNCHANGED <<rows, engine>>
    BY <1>9 DEF GatewayHands
  <2>2. h[1] \in Made /\ h[2] \in Tasks /\ Lost(h[1])
    BY DEF GatewayTypes, Made, RowsAreKnown
  <2>3. \A c \in Cards : hand'[c] = "never" => CardGoesOn(c)
    BY <2>1, <2>2, BindRetryGoesOn
  <2> QED BY <2>1, <2>3, LoopsStay, RowsStay DEF GoesOn, engine
<1>10. ASSUME NEW k \in Cards, MoveCard(k) PROVE GoesOn
  <2>1. ASSUME NEW c \in Cards, hand'[c] = "never" PROVE CardGoesOn(c)
    <3>1. c \notin {k} => column'[c] = column[c] /\ owner'[c] = owner[c]
      BY <1>10 DEF MoveCard, BoardTypes
    <3> QED BY <1>10, <2>1, <3>1, TouchGoesOn DEF MoveCard
  <2> QED BY <1>10, <2>1, LoopsStay, RowsStay DEF MoveCard, GoesOn, engine
<1>11. CASE SyncFromMarkdown
  <2>1. ASSUME NEW c \in Cards, hand'[c] = "never" PROVE CardGoesOn(c)
    <3> DEFINE cs == {k \in Cards : column'[k] # column[k]}
    <3>1. c \notin cs => column'[c] = column[c] /\ owner'[c] = owner[c]
      BY <1>11 DEF SyncFromMarkdown
    <3>2. Touch(cs)
      BY <1>11 DEF SyncFromMarkdown
    <3> HIDE DEF cs
    <3> QED BY <2>1, <3>1, <3>2, TouchGoesOn
  <2> QED BY <1>11, <2>1, LoopsStay, RowsStay DEF SyncFromMarkdown, GoesOn, engine
<1>12. ASSUME NEW t \in Tasks, Purge(t) PROVE GoesOn
  <2>1. RowsGoOn
    BY <1>12 DEF Purge, RowsGoOn, Lost, Made, RowTypes
  <2>2. ASSUME NEW c \in Cards, hand'[c] = "never" PROVE CardGoesOn(c)
    <3> DEFINE cs == {k \in Cards : owner[k] = t}
    <3>1. c \notin cs => column'[c] = column[c] /\ owner'[c] = owner[c]
      BY <1>12 DEF Purge
    <3>2. Touch(cs)
      BY <1>12 DEF Purge
    <3> HIDE DEF cs
    <3> QED BY <2>2, <3>1, <3>2, TouchGoesOn
  <2> QED BY <1>12, <2>1, <2>2, LoopsStay DEF Purge, GoesOn, engine
<1>13. CASE UNCHANGED vars
  BY <1>13, LoopsStay, RowsStay, Unmoved DEF vars, GoesOn, board, engine
<1> QED
  BY <1>1, <1>2, <1>3, <1>4, <1>4a, <1>5, <1>6, <1>7, <1>8, <1>9, <1>10, <1>11, <1>12, <1>13 DEF Next

-----------------------------------------------------------------------------
(* The invariant is inductive                                              *)

LEMMA FreshStep ==
  ASSUME Inv, GoesOn PROVE CardsAreFresh'
<1> SUFFICES ASSUME NEW c \in Cards, hand'[c] = "never"
             PROVE /\ column'[c] = "todo" =>
                        owner'[c] = NoTask /\ \A r \in Runs : Ended(loop'[<<r, c>>].pc)
                   /\ owner'[c] = NoTask => column'[c] # "done"
                   /\ \A r \in Runs : loop'[<<r, c>>].pc \in {"claimed", "created"}
                                        => loop'[<<r, c>>].task = NoTask
  BY DEF CardsAreFresh, Untroubled, Ended
<1>1. CardGoesOn(c) /\ LoopsGoOn(c)
  BY DEF GoesOn
<1>2. /\ column[c] = "todo" => owner[c] = NoTask /\ \A r \in Runs : Ended(loop[<<r, c>>].pc)
      /\ owner[c] = NoTask => column[c] # "done"
      /\ \A r \in Runs : loop[<<r, c>>].pc \in {"claimed", "created"}
                           => loop[<<r, c>>].task = NoTask
  BY <1>1 DEF Inv, CardsAreFresh, Untroubled, CardGoesOn
<1>3. column'[c] = "todo" => owner'[c] = NoTask /\ \A r \in Runs : Ended(loop'[<<r, c>>].pc)
  BY <1>1, <1>2 DEF CardGoesOn, LoopsGoOn
<1>4. owner'[c] = NoTask => column'[c] # "done"
  BY <1>1, <1>2 DEF CardGoesOn
<1>5. \A r \in Runs : loop'[<<r, c>>].pc \in {"claimed", "created"}
                        => loop'[<<r, c>>].task = NoTask
  BY <1>1, <1>2 DEF LoopsGoOn
<1> QED BY <1>3, <1>4, <1>5

LEMMA OnceStep ==
  ASSUME Inv, GoesOn PROVE WorkedOnOnce'
<1> SUFFICES ASSUME NEW c \in Cards, NEW q \in Runs, NEW r \in Runs, hand'[c] = "never", q # r,
                    ~Ended(loop'[<<q, c>>].pc), ~Ended(loop'[<<r, c>>].pc)
             PROVE  FALSE
  BY DEF WorkedOnOnce, Untroubled, Ended
<1>1. hand[c] = "never" /\ LoopsGoOn(c)
  BY DEF GoesOn, CardGoesOn
<1>2. column[c] = "todo" => \A s \in Runs : Ended(loop[<<s, c>>].pc)
  BY <1>1 DEF Inv, CardsAreFresh, Untroubled
<1>3. Ended(loop[<<q, c>>].pc) \/ Ended(loop[<<r, c>>].pc)
  BY <1>1 DEF Inv, WorkedOnOnce, Untroubled
<1> QED BY <1>1, <1>2, <1>3 DEF LoopsGoOn

LEMMA PrerequisitesStep ==
  ASSUME Inv, GoesOn PROVE PrerequisitesHold'
<1> SUFFICES ASSUME NEW c \in Cards, NEW d \in DependsOn[c], hand'[c] = "never", hand'[d] = "never",
                    owner'[c] # NoTask \/ \E r \in Runs : ~At(<<r, c>>, "idle")'
             PROVE  Finished(column'[d], owner'[d], status')
  BY DEF PrerequisitesHold, Untroubled, At
<1>1. d \in Cards
  BY DependenciesAreCards
<1>2. CardGoesOn(c) /\ CardGoesOn(d) /\ LoopsGoOn(c) /\ RowsGoOn
  BY <1>1 DEF GoesOn
<1>3. \/ owner[c] # NoTask \/ \E r \in Runs : ~At(<<r, c>>, "idle")
      \/ DependenciesSatisfied(c)
  BY <1>2 DEF CardGoesOn, LoopsGoOn
<1>4. Done(d)
  BY <1>2, <1>3 DEF Inv, PrerequisitesHold, Untroubled, DependenciesSatisfied, Done, CardGoesOn
<1>5. owner[d] # NoTask => owner[d] \in Tasks
  BY <1>1 DEF Inv, Types, BoardTypes
<1> QED BY <1>2, <1>4, <1>5 DEF CardGoesOn, RowsGoOn, Done, Finished

\* What the invariant says of a loop x, before and after the step.
KnownTo(x) == /\ x.pc \in Follows => x.task \in Tasks /\ status[x.task] # "none"
              /\ x.pc \in Proposes => x.next \in Tasks /\ status[x.next] # "none"
              /\ x.pc \in Retries => status[x.task] \in {"failed", "purged"}
KnownThen(x) == /\ x.pc \in Follows => x.task \in Tasks /\ status'[x.task] # "none"
                /\ x.pc \in Proposes => x.next \in Tasks /\ status'[x.next] # "none"
                /\ x.pc \in Retries => status'[x.task] \in {"failed", "purged"}

LEMMA RowsSurvive ==
  ASSUME RowsGoOn, NEW t \in Tasks
  PROVE  /\ status[t] # "none" => status'[t] # "none"
         /\ status[t] \in {"failed", "purged"} => status'[t] \in {"failed", "purged"}
BY DEF RowsGoOn, Made, Lost

LEMMA KnownNow == ASSUME Inv PROVE \A l \in Loops : KnownTo(loop[l])
BY DEF Inv, RowsAreKnown, KnownTo, Made, Lost

\* A loop that stays what it was still knows its rows.
LEMMA KnownStays == ASSUME RowsGoOn, NEW x, KnownTo(x) PROVE KnownThen(x)
<1>1. x.pc \in Retries => x.pc \in Follows
  BY DEF Retries, Follows
<1> QED BY <1>1, RowsSurvive DEF KnownTo, KnownThen

LEMMA KnownOutside == ASSUME NEW x, x.pc \in {"idle", "done", "claimed"} PROVE KnownThen(x)
BY DEF KnownThen, Follows, Proposes, Retries

LEMMA LoopKnows ==
  ASSUME Inv, RowsGoOn, NEW l \in Loops, LoopStep(l) PROVE KnownThen(loop'[l])
<1>0. loop \in [Loops -> Loop] /\ loop[l] \in Loop /\ KnownTo(loop[l])
  BY KnownNow DEF Inv, Types, EngineTypes
<1>1. CASE End(l)
  <2>1. loop'[l].pc = "done"
    BY <1>0, <1>1 DEF End, Idle
  <2> QED BY <2>1, KnownOutside
<1>2. CASE Dispatch(l)
  <2>1. Fresh \in Tasks /\ status'[Fresh] = "active"
    BY <1>2, FreshRow DEF Dispatch, Insert, Inv, Types, RowTypes
  <2>2. loop'[l].pc = "created" /\ loop'[l].next = Fresh
    BY <1>0, <1>2 DEF Dispatch, Loop
  <2> QED BY <2>1, <2>2 DEF KnownThen, Follows, Proposes, Retries
<1>3. CASE DispatchFails(l) \/ Deadline(l)
  BY <1>1, <1>3 DEF DispatchFails, Deadline
<1>4. CASE Bind(l) \/ TakeRetry(l)
  <2>1. BindExecution(l) /\ loop[l].pc \in {"created", "handed"}
    BY <1>4 DEF Bind, TakeRetry, At
  <2>2. CASE Follow(l)
    <3>1. loop'[l].pc = "polling" /\ loop'[l].task = loop[l].next
      BY <1>0, <2>2 DEF Follow, Loop
    <3>2. loop[l].next \in Tasks /\ status'[loop[l].next] # "none"
      BY <1>0, <2>1, RowsSurvive DEF KnownTo, Proposes
    <3> QED BY <3>1, <3>2 DEF KnownThen, Follows, Proposes, Retries
  <2> QED BY <1>1, <2>1, <2>2 DEF BindExecution
<1>5. CASE Poll(l)
  <2>1. loop[l].task \in Tasks
    BY <1>0, <1>5 DEF Poll, At, KnownTo, Follows
  <2>2. CASE status[loop[l].task] = "failed"
             /\ loop' = [loop EXCEPT ![l].pc = "asking", ![l].tries = @ + 1]
    <3>1. loop'[l].pc = "asking" /\ loop'[l].task = loop[l].task
      BY <1>0, <2>2 DEF Loop
    <3>2. status'[loop[l].task] \in {"failed", "purged"}
      BY <2>1, <2>2, RowsSurvive
    <3> QED BY <2>1, <3>1, <3>2 DEF KnownThen, Follows, Proposes, Retries
  <2> QED BY <1>1, <1>5, <2>2 DEF Poll
<1>6. CASE AskRetry(l)
  <2>1. loop[l].task \in Tasks /\ status'[loop[l].task] \in {"failed", "purged"}
    BY <1>0, <1>6, RowsSurvive DEF AskRetry, At, KnownTo, Follows, Retries
  <2>2. CASE loop' = [loop EXCEPT ![l].pc = "posting"]
    <3>1. loop'[l].pc = "posting" /\ loop'[l].task = loop[l].task
      BY <1>0, <2>2 DEF Loop
    <3> QED BY <2>1, <3>1 DEF KnownThen, Follows, Proposes, Retries
  <2>3. ASSUME NEW u \in Reusable(loop[l].task),
               loop' = [loop EXCEPT ![l].pc = "handed", ![l].next = u]
        PROVE  KnownThen(loop'[l])
    <3>1. loop'[l].pc = "handed" /\ loop'[l].task = loop[l].task /\ loop'[l].next = u
      BY <1>0, <2>3 DEF Loop
    <3>2. u \in Tasks /\ status[u] # "none"
      BY DEF Reusable, Siblings, Working
    <3> QED BY <2>1, <3>1, <3>2, RowsSurvive DEF KnownThen, Follows, Proposes, Retries
  <2> QED BY <1>1, <1>6, <2>2, <2>3 DEF AskRetry
<1>7. CASE PostRetry(l)
  <2>1. loop[l].task \in Tasks /\ status'[loop[l].task] \in {"failed", "purged"}
    BY <1>0, <1>7, RowsSurvive DEF PostRetry, At, KnownTo, Follows, Retries
  <2>2. CASE /\ Room /\ Insert(Fresh, Card(l), loop[l].task)
             /\ loop' = [loop EXCEPT ![l].pc = "posted", ![l].next = Fresh]
    <3>1. Fresh \in Tasks /\ status'[Fresh] = "active"
      BY <2>2, FreshRow DEF Insert, Inv, Types, RowTypes
    <3>2. loop'[l].pc = "posted" /\ loop'[l].task = loop[l].task /\ loop'[l].next = Fresh
      BY <1>0, <2>2 DEF Loop
    <3> QED BY <2>1, <3>1, <3>2 DEF KnownThen, Follows, Proposes, Retries
  <2> QED BY <1>1, <1>7, <2>2 DEF PostRetry
<1>8. CASE HandToLoop(l)
  <2>1. /\ loop[l].task \in Tasks /\ status'[loop[l].task] \in {"failed", "purged"}
        /\ loop[l].next \in Tasks /\ status'[loop[l].next] # "none"
    BY <1>0, <1>8, RowsSurvive DEF HandToLoop, At, KnownTo, Follows, Retries, Proposes
  <2>2. loop'[l].pc = "handed" /\ loop'[l].task = loop[l].task /\ loop'[l].next = loop[l].next
    BY <1>0, <1>8 DEF HandToLoop, Loop
  <2> QED BY <2>1, <2>2 DEF KnownThen, Follows, Proposes, Retries
<1> QED BY <1>2, <1>3, <1>4, <1>5, <1>6, <1>7, <1>8 DEF LoopStep

\* The loops that a step other than their own leaves or starts.
LEMMA OthersKnow ==
  ASSUME Inv, RowsGoOn, NEW l \in Loops,
         loop'[l] = loop[l] \/ loop'[l].pc \in {"idle", "claimed"}
  PROVE  KnownThen(loop'[l])
BY KnownNow, KnownStays, KnownOutside

LEMMA WaveKnows ==
  ASSUME Inv, RowsGoOn, NEW r \in Runs, NEW left, NEW p, Wave(r, left, p)
  PROVE  \A l \in Loops : KnownThen(loop'[l])
<1> SUFFICES ASSUME NEW l \in Loops PROVE KnownThen(loop'[l])
  OBVIOUS
<1>1. CASE loop' = [m \in Loops |-> IF Run(m) = r THEN Idle ELSE loop[m]]
  <2>1. loop'[l] = loop[l] \/ loop'[l].pc = "idle"
    BY <1>1 DEF Idle
  <2> QED BY <2>1, OthersKnow
<1>2. ASSUME NEW batch,
             loop' = [m \in Loops |-> IF Run(m) = r /\ Card(m) \in batch
                                      THEN [Idle EXCEPT !.pc = "claimed", !.task = owner[Card(m)]]
                                      ELSE loop[m]]
      PROVE KnownThen(loop'[l])
  <2>1. loop'[l] = loop[l] \/ loop'[l].pc = "claimed"
    BY <1>2 DEF Idle
  <2> QED BY <2>1, OthersKnow
<1> QED BY <1>1, <1>2 DEF Wave

LEMMA KnownStep ==
  ASSUME Inv, [Next]_vars, GoesOn PROVE RowsAreKnown'
<1>1. RowsGoOn
  BY DEF GoesOn
<1>2. ASSUME NEW l \in Loops PROVE KnownThen(loop'[l])
  <2>1. CASE UNCHANGED loop
    BY <1>1, <2>1, OthersKnow
  <2>2. ASSUME NEW r \in Runs, ExecutePlan(r) \/ NextWave(r) PROVE KnownThen(loop'[l])
    BY <1>1, <2>1, <2>2, WaveKnows DEF ExecutePlan, NextWave, engine
  <2>3. ASSUME NEW m \in Loops, LoopStep(m) PROVE KnownThen(loop'[l])
    <3>1. CASE l = m
      BY <1>1, <2>3, <3>1, LoopKnows
    <3>2. CASE l # m
      <4>1. loop'[l] = loop[l]
        BY <2>3, <3>2
        DEF LoopStep, Dispatch, DispatchFails, Bind, Poll, Deadline, AskRetry, PostRetry,
            HandToLoop, TakeRetry, BindExecution, End, Follow, Inv, Types, EngineTypes
      <4> QED BY <1>1, <4>1, OthersKnow
    <3> QED BY <3>1, <3>2
  <2>4. CASE UNCHANGED vars
    BY <2>1, <2>4 DEF vars, engine
  <2>5. ASSUME NEW t \in Tasks,
               \/ Settle(t) \/ SettleAgain(t) \/ ProjectSettled(t) \/ AuditPasses(t)
               \/ GatewayRetry(t) \/ GatewayPosts(t) \/ Purge(t)
        PROVE  KnownThen(loop'[l])
    BY <2>1, <2>5 DEF Settle, SettleAgain, ProjectSettled, AuditPasses, GatewayRetry, GatewayPosts, Purge,
              engine
  <2>6. CASE GatewayHands \/ SyncFromMarkdown \/ \E c \in Cards : MoveCard(c)
    BY <2>1, <2>6 DEF GatewayHands, SyncFromMarkdown, MoveCard, engine
  <2> QED BY <2>2, <2>3, <2>4, <2>5, <2>6 DEF Next
<1>3. \A t \in posting' : t \in Tasks /\ status'[t] \in {"failed", "purged"}
  <2>1. \A t \in posting : t \in Tasks /\ status'[t] \in {"failed", "purged"}
    BY <1>1, RowsSurvive DEF Inv, Types, GatewayTypes, RowsAreKnown, Lost, Made
  <2>2. posting' \subseteq posting \/ \E t \in Tasks : GatewayRetry(t) /\ posting' = posting \cup {t}
    BY DEF Next, vars, gateway, ExecutePlan, NextWave, LoopStep, Dispatch, DispatchFails, Bind, Poll,
           Deadline, AskRetry, PostRetry, HandToLoop, TakeRetry, Settle, SettleAgain, ProjectSettled, AuditPasses,
           GatewayRetry, GatewayPosts, Purge, GatewayHands, SyncFromMarkdown, MoveCard
  <2>3. ASSUME NEW t \in Tasks, GatewayRetry(t) PROVE status'[t] \in {"failed", "purged"}
    BY <2>3 DEF GatewayRetry, rows
  <2> QED BY <2>1, <2>2, <2>3
<1>4. \A h \in handing' : h[1] \in Tasks /\ status'[h[1]] \in {"failed", "purged"}
  <2>1. \A h \in handing : h[1] \in Tasks /\ status'[h[1]] \in {"failed", "purged"}
    BY <1>1, RowsSurvive DEF Inv, Types, GatewayTypes, RowsAreKnown, Lost, Made
  <2>2. handing' \subseteq handing
        \/ \E t \in posting : \E u : handing' = handing \cup {<<t, u>>}
    BY DEF Next, vars, gateway, ExecutePlan, NextWave, LoopStep, Dispatch, DispatchFails, Bind, Poll,
           Deadline, AskRetry, PostRetry, HandToLoop, TakeRetry, Settle, SettleAgain, ProjectSettled, AuditPasses,
           GatewayRetry, GatewayPosts, Purge, GatewayHands, SyncFromMarkdown, MoveCard
  <2>3. \A t \in posting : t \in Tasks /\ status'[t] \in {"failed", "purged"}
    BY <1>1, RowsSurvive DEF Inv, Types, GatewayTypes, RowsAreKnown, Lost, Made
  <2> QED BY <2>1, <2>2, <2>3
<1> QED BY <1>2, <1>3, <1>4 DEF RowsAreKnown, KnownThen, Made, Lost

LEMMA InvStep == ASSUME Inv, [Next]_vars PROVE Inv' /\ GoesOn
<1>1. GoesOn
  BY StepGoesOn
<1>2. Types'
  BY TypesStep, BoundsAreNat DEF Inv
<1> QED BY <1>1, <1>2, KnownStep, FreshStep, OnceStep, PrerequisitesStep DEF Inv

LEMMA InitInv == Init => Inv
<1> SUFFICES ASSUME Init PROVE Inv
  OBVIOUS
<1>1. Types
  BY InitTypes, BoundsAreNat
<1>2. \A l \in Loops : loop[l].pc = "idle"
  BY DEF Init, Idle
<1>3. \A r \in Runs, c \in Cards : <<r, c>> \in Loops
  BY DEF Loops
<1>4. RowsAreKnown
  BY <1>2 DEF Init, RowsAreKnown, Follows, Proposes, Retries
<1>5. CardsAreFresh /\ WorkedOnOnce
  BY <1>2, <1>3 DEF Init, CardsAreFresh, WorkedOnOnce, Ended, Untroubled
<1>6. PrerequisitesHold
  BY <1>2, <1>3 DEF Init, PrerequisitesHold, At
<1> QED BY <1>1, <1>4, <1>5, <1>6 DEF Inv

LEMMA InvHolds == Spec => []Inv
BY InitInv, InvStep, PTL DEF Spec

-----------------------------------------------------------------------------
(* The board shows the rows                                                *)

\* The row of a card, of a retry and of a loop belongs to that card.
OwnersBelong == \A c \in Cards : owner[c] # NoTask => owner[c] \in Made /\ cardOf[owner[c]] = c
RetriesBelong == \A t \in Made : root[t] \in Made /\ cardOf[root[t]] = cardOf[t]
LoopsBelong ==
  \A l \in Loops : /\ loop[l].pc \in Follows => cardOf[loop[l].task] = Card(l)
                   /\ loop[l].pc \in Proposes => cardOf[loop[l].next] = Card(l)

\* A call that has returned has left no loop behind.
CallsHaveLoops == \A l \in Loops : Run(l) \notin on => Ended(loop[l].pc)

Shown(c) ==
  (/\ owner[c] # NoTask /\ ~Held(c) /\ hand[c] # "last"
   /\ status[owner[c]] \in Settled /\ owner[c] \notin settling)
    => \/ column[c] = ColumnOf(status[owner[c]])
       \/ column[c] = "review" /\ ~Untroubled(c)

BoardInv == /\ Inv /\ OwnersBelong /\ RetriesBelong /\ LoopsBelong /\ CallsHaveLoops
            /\ \A c \in Cards : Shown(c)

\* What a step may do to a card, so that it is shown afterwards: it puts the row
\* into its column; it leaves the card to a loop, or to a person; or it changes
\* nothing that counts.
ShownAnew(c) ==
  \/ column'[c] = ColumnOf(status'[owner'[c]])
  \/ column'[c] = "review" /\ hand'[c] # "never"
  \/ Held(c)' \/ hand'[c] = "last" \/ owner'[c] = NoTask
  \/ status'[owner'[c]] \notin Settled \/ owner'[c] \in settling'
  \/ /\ UNCHANGED <<column[c], owner[c], hand[c]>> /\ (Held(c) => Held(c)')
     /\ status'[owner[c]] = status[owner[c]] /\ (owner[c] \in settling => owner[c] \in settling')

LEMMA ShownAfter == ASSUME NEW c \in Cards, Shown(c), ShownAnew(c) PROVE Shown(c)'
BY DEF Shown, ShownAnew, Untroubled

\* What a step may do to the owner of a card.
OwnerMoves(c) ==
  owner'[c] \in {owner[c], NoTask} \/ (owner'[c] \in Made /\ cardOf[owner'[c]] = c)
GoesWell(c) == OwnerMoves(c) /\ ShownAnew(c)

\* The card keeps its loop as long as it keeps its row.
HoldsOn(c) == owner'[c] = owner[c] => (Held(c) => Held(c)')

\* The row of the card, if it has one, goes on as it is.
RowRests(c) == owner[c] # NoTask => /\ status'[owner[c]] = status[owner[c]]
                                    /\ owner[c] \in settling => owner[c] \in settling'

LEMMA RestsWell ==
  ASSUME NEW c, UNCHANGED <<column[c], owner[c], hand[c]>>, HoldsOn(c), RowRests(c)
  PROVE  GoesWell(c)
BY DEF GoesWell, OwnerMoves, ShownAnew, HoldsOn, RowRests

LEMMA UntouchedWell ==
  ASSUME NEW c, Untouched, HoldsOn(c), RowRests(c) PROVE GoesWell(c)
BY RestsWell DEF Untouched, board

\* Loops that are left alone, that go on with their row, and that end.
LEMMA LoopsHold == ASSUME NEW c, UNCHANGED loop PROVE HoldsOn(c)
BY DEF HoldsOn, Held

LEMMA GoingLoopHolds ==
  ASSUME NEW c \in Cards, loop \in [Loops -> Loop], NEW l \in Loops, NEW x,
         loop' = [loop EXCEPT ![l] = x], ~Ended(x.pc), x.task = loop[l].task
  PROVE  HoldsOn(c)
<1> SUFFICES ASSUME owner'[c] = owner[c], NEW r \in Runs, ~Ended(loop[<<r, c>>].pc),
                    loop[<<r, c>>].task = owner[c]
             PROVE  ~Ended(loop'[<<r, c>>].pc) /\ loop'[<<r, c>>].task = owner'[c]
  BY DEF HoldsOn, Held
<1>1. <<r, c>> \in Loops
  BY DEF Loops
<1> QED BY <1>1

LEMMA OtherLoopHolds ==
  ASSUME NEW c \in Cards, loop \in [Loops -> Loop], NEW l \in Loops, NEW x,
         loop' = [loop EXCEPT ![l] = x], Card(l) # c \/ loop[l].task # owner[c]
  PROVE  HoldsOn(c)
<1> SUFFICES ASSUME owner'[c] = owner[c], NEW r \in Runs, ~Ended(loop[<<r, c>>].pc),
                    loop[<<r, c>>].task = owner[c]
             PROVE  ~Ended(loop'[<<r, c>>].pc) /\ loop'[<<r, c>>].task = owner'[c]
  BY DEF HoldsOn, Held
<1>1. <<r, c>> \in Loops /\ Card(<<r, c>>) = c
  BY DEF Loops, Card
<1>2. <<r, c>> # l
  BY <1>1
<1> QED BY <1>1, <1>2

\* A row is put into the column it asks for.
LEMMA PutWell ==
  ASSUME BoardTypes, NEW k \in Cards, NEW t \in Tasks, NEW st, NEW col,
         Put(k, t, col, st), col = ColumnOf(status'[t]),
         t = owner[k] \/ (t \in Made /\ cardOf[t] = k),
         NEW c \in Cards, c # k => HoldsOn(c) /\ RowRests(c)
  PROVE  GoesWell(c)
<1>1. CASE c = k
  BY <1>1 DEF Put, BoardTypes, GoesWell, OwnerMoves, ShownAnew
<1>2. CASE c # k
  BY <1>2, RestsWell DEF Put, BoardTypes
<1> QED BY <1>1, <1>2

LEMMA ProjectWell ==
  ASSUME BoardTypes, OwnersBelong, NEW t \in Made, NEW s, ProjectTask(t, s), status'[t] = s,
         cardOf[t] \in Cards, NEW c \in Cards, HoldsOn(c), owner[c] # t => RowRests(c)
  PROVE  GoesWell(c)
<1>0. t \in Tasks /\ t # NoTask
  BY BoundsAreNat DEF Made, Tasks, NoTask
<1>1. CASE owner[c] = t
  <2>1. cardOf[t] = c
    BY <1>0, <1>1 DEF OwnersBelong
  <2> QED BY <1>0, <1>1, <2>1, PutWell DEF ProjectTask
<1>2. CASE owner[c] # t /\ owner[cardOf[t]] = t
  BY <1>0, <1>2, PutWell DEF ProjectTask
<1>3. CASE owner[cardOf[t]] # t
  <2>1. owner[c] # t
    BY <1>0, <1>3 DEF OwnersBelong
  <2> QED BY <1>3, <2>1, UntouchedWell DEF ProjectTask
<1> QED BY <1>1, <1>2, <1>3

LEMMA BindRetryWell ==
  ASSUME BoardTypes, RowTypes, NEW s, NEW t \in Made, BindRetry(s, t),
         UNCHANGED <<status, settling>>, NEW c \in Cards, HoldsOn(c)
  PROVE  GoesWell(c)
<1>1. RowRests(c) /\ t \in Tasks /\ cardOf[t] \in Cards
  BY DEF RowRests, Made, RowTypes
<1>2. CASE Put(cardOf[t], t, ColumnOf(status[t]), status)
  BY <1>1, <1>2, PutWell
<1> QED BY <1>1, <1>2, UntouchedWell DEF BindRetry

\* A loop that ends has put its card right, or was not the one that held it.
LEMMA MoveWell ==
  ASSUME BoardTypes, EngineTypes, NEW l \in Loops, NEW col,
         MoveIfOwned(l, loop[l].task, col), End(l), UNCHANGED <<status, settling>>,
         (col = "done" /\ loop[l].task # NoTask) => status[loop[l].task] = "completed",
         \/ loop[l].task = NoTask
         \/ col = ColumnOf(status[loop[l].task])
         \/ status[loop[l].task] \notin Settled
         \/ col = "review" /\ hand[Card(l)] # "never",
         NEW c \in Cards
  PROVE  GoesWell(c)
<1> DEFINE k == Card(l)
           t == loop[l].task
<1>0. k \in Cards /\ RowRests(c)
  BY DEF Card, Loops, RowRests
<1>1. CASE c # k \/ owner[c] # t
  <2>1. HoldsOn(c)
    BY <1>1, OtherLoopHolds DEF End, EngineTypes
  <2>2. UNCHANGED <<column[c], owner[c], hand[c]>>
    BY <1>0, <1>1 DEF MoveIfOwned, Put, Untouched, board, BoardTypes
  <2> QED BY <1>0, <2>1, <2>2, RestsWell
<1>2. CASE c = k /\ owner[c] = t
  <2>1. Put(k, t, col, status)
    BY <1>2 DEF MoveIfOwned
  <2>2. column'[c] = col /\ owner'[c] = t /\ (hand[c] # "never" => hand'[c] # "never")
    BY <1>0, <1>2, <2>1 DEF Put, BoardTypes, Before
  <2> QED BY <1>2, <2>2 DEF GoesWell, OwnerMoves, ShownAnew
<1> QED BY <1>1, <1>2

\* A loop that binds its card holds it; one that comes too late did not.
LEMMA BindWell ==
  ASSUME BoardTypes, EngineTypes, LoopsBelong, RowsAreKnown, NEW l \in Loops,
         loop[l].pc \in {"created", "handed"}, BindExecution(l), UNCHANGED <<column, status, settling>>,
         NEW c \in Cards
  PROVE  GoesWell(c)
<1> DEFINE k == Card(l)
<1>0. k \in Cards /\ Run(l) \in Runs /\ l = <<Run(l), k>> /\ RowRests(c)
  BY DEF Card, Run, Loops, RowRests
<1>1. loop[l] \in Loop /\ loop[l].next \in Made /\ cardOf[loop[l].next] = k
  BY DEF EngineTypes, RowsAreKnown, LoopsBelong, Proposes
<1>2. CASE /\ owner' = [owner EXCEPT ![k] = loop[l].next]
           /\ hand' = [hand EXCEPT ![k] = Before(@)]
           /\ Follow(l)
  <2>1. CASE c = k
    <3>1. owner'[c] = loop[l].next
      BY <1>0, <1>2, <2>1 DEF BoardTypes
    <3>2. ~Ended(loop'[l].pc) /\ loop'[l].task = loop[l].next
      BY <1>1, <1>2 DEF Follow, EngineTypes, Loop, Ended
    <3>3. Held(c)'
      BY <1>0, <2>1, <3>1, <3>2 DEF Held
    <3> QED BY <1>1, <2>1, <3>1, <3>3 DEF GoesWell, OwnerMoves, ShownAnew
  <2>2. CASE c # k
    BY <1>0, <1>2, <2>2, OtherLoopHolds, RestsWell DEF Follow, EngineTypes, BoardTypes
  <2> QED BY <2>1, <2>2
<1>3. CASE owner[k] # loop[l].task /\ UNCHANGED <<owner, hand>> /\ End(l)
  BY <1>0, <1>3, OtherLoopHolds, RestsWell DEF End, EngineTypes
<1> QED BY <1>2, <1>3 DEF BindExecution

LoopsEnded(r) == \A c \in Cards : Ended(loop[<<r, c>>].pc)

\* A wave takes a card up for its row, or leaves it and the loops of other calls.
TakenUp(r, c) == loop'[<<r, c>>].pc = "claimed" /\ loop'[<<r, c>>].task = owner[c]
LeftAlone(r, c) ==
  column'[c] = column[c] /\ \A q \in Runs \ {r} : loop'[<<q, c>>] = loop[<<q, c>>]

LEMMA WaveTakes ==
  ASSUME Types, NEW r \in Runs, NEW left \in SUBSET Cards, NEW p, Wave(r, left, p)
  PROVE  \A c \in Cards : TakenUp(r, c) \/ LeftAlone(r, c)
<1>0. \A q \in Runs, c \in Cards : <<q, c>> \in Loops /\ Run(<<q, c>>) = q /\ Card(<<q, c>>) = c
  BY DEF Loops, Run, Card
<1>1. CASE /\ loop' = [l \in Loops |-> IF Run(l) = r THEN Idle ELSE loop[l]]
           /\ UNCHANGED <<column, owner, hand>>
  <2>1. \A q \in Runs, c \in Cards : loop'[<<q, c>>] = IF q = r THEN Idle ELSE loop[<<q, c>>]
    BY <1>0, <1>1
  <2> QED BY <1>1, <2>1 DEF LeftAlone
<1>2. ASSUME NEW batch \in SUBSET {c \in left : Claimable(c) /\ DependenciesSatisfied(c)},
             column' = [c \in Cards |-> IF c \in batch THEN "in_progress" ELSE column[c]],
             loop' = [l \in Loops |-> IF Run(l) = r /\ Card(l) \in batch
                                      THEN [Idle EXCEPT !.pc = "claimed", !.task = owner[Card(l)]]
                                      ELSE loop[l]],
             UNCHANGED <<owner, hand>>
      PROVE  \A c \in Cards : TakenUp(r, c) \/ LeftAlone(r, c)
  <2>1. ASSUME NEW c \in Cards PROVE TakenUp(r, c) \/ LeftAlone(r, c)
    <3> DEFINE x == [Idle EXCEPT !.pc = "claimed", !.task = owner[c]]
    <3>1. x.pc = "claimed" /\ x.task = owner[c]
      BY DEF Idle
    <3>2. \A q \in Runs : loop'[<<q, c>>] = IF q = r /\ c \in batch THEN x ELSE loop[<<q, c>>]
      BY <1>0, <1>2
    <3>3. column'[c] = IF c \in batch THEN "in_progress" ELSE column[c]
      BY <1>2
    <3> HIDE DEF x
    <3> QED BY <3>1, <3>2, <3>3 DEF TakenUp, LeftAlone
  <2> QED BY <2>1
<1> QED BY <1>1, <1>2 DEF Wave

LEMMA WaveWell ==
  ASSUME Types, NEW r \in Runs, NEW left \in SUBSET Cards, NEW p, Wave(r, left, p),
         LoopsEnded(r), UNCHANGED <<status, settling>>, NEW c \in Cards
  PROVE  GoesWell(c)
<1>1. TakenUp(r, c) \/ LeftAlone(r, c)
  BY WaveTakes
<1>2. owner' = owner /\ hand' = hand
  BY DEF Wave
<1>3. CASE TakenUp(r, c)
  <2>1. Held(c)'
    BY <1>2, <1>3 DEF TakenUp, Held, Ended
  <2> QED BY <1>2, <2>1 DEF GoesWell, OwnerMoves, ShownAnew
<1>4. CASE LeftAlone(r, c)
  <2>1. HoldsOn(c)
    BY <1>4 DEF LeftAlone, LoopsEnded, HoldsOn, Held
  <2>2. RowRests(c)
    BY DEF RowRests
  <2> QED BY <1>2, <1>4, <2>1, <2>2, RestsWell DEF LeftAlone
<1> QED BY <1>1, <1>3, <1>4

\* A row that is inserted is nobody's yet.
LEMMA InsertRests ==
  ASSUME RowTypes, OwnersBelong, NEW t, status[t] = "none", NEW k, NEW s, Insert(t, k, s),
         UNCHANGED settling, NEW c \in Cards
  PROVE  RowRests(c)
BY DEF RowTypes, OwnersBelong, Insert, RowRests, Made

LEMMA LoopWell ==
  ASSUME BoardInv, NEW l \in Loops, LoopStep(l), NEW c \in Cards PROVE GoesWell(c)
<1> USE DEF BoardInv, Inv, Types
<1>0. /\ loop \in [Loops -> Loop] /\ loop[l] \in Loop
      /\ Card(l) \in Cards /\ Run(l) \in Runs /\ l = <<Run(l), Card(l)>>
  BY DEF EngineTypes, Loops, Card, Run
<1>1. UNCHANGED <<status, settling>> => RowRests(c)
  BY DEF RowRests
<1>2. CASE Dispatch(l)
  <2> DEFINE x == [loop[l] EXCEPT !.pc = "created", !.next = Fresh]
  <2>1. ~Ended(x.pc) /\ x.task = loop[l].task
    BY <1>0 DEF Loop, Ended
  <2>2. loop' = [loop EXCEPT ![l] = x]
    BY <1>2 DEF Dispatch
  <2> HIDE DEF x
  <2>3. HoldsOn(c)
    BY <1>0, <2>1, <2>2, GoingLoopHolds
  <2>4. RowRests(c)
    BY <1>2, FreshRow, InsertRests DEF Dispatch, gateway
  <2> QED BY <1>2, <2>3, <2>4, UntouchedWell DEF Dispatch
<1>3. CASE DispatchFails(l)
  <2>1. loop[l].task = NoTask \/ hand[Card(l)] # "never"
    BY <1>0, <1>3 DEF DispatchFails, At, CardsAreFresh, Untroubled
  <2> QED BY <1>3, <2>1, MoveWell DEF DispatchFails, rows, gateway
<1>4. CASE Bind(l) \/ TakeRetry(l)
  BY <1>4, BindWell DEF Bind, TakeRetry, At, rows, gateway
<1>5. CASE Poll(l)
  <2>1. UNCHANGED <<status, settling>>
    BY <1>5 DEF Poll, rows, gateway
  <2>2. CASE /\ loop' = [loop EXCEPT ![l].pc = "asking", ![l].tries = @ + 1]
             /\ Untouched
    <3> DEFINE x == [loop[l] EXCEPT !.pc = "asking", !.tries = @ + 1]
    <3>1. ~Ended(x.pc) /\ x.task = loop[l].task
      BY <1>0 DEF Loop, Ended
    <3>2. loop' = [loop EXCEPT ![l] = x]
      BY <2>2
    <3> HIDE DEF x
    <3> QED BY <1>0, <1>1, <2>1, <2>2, <3>1, <3>2, GoingLoopHolds, UntouchedWell
  <2>3. CASE MoveIfOwned(l, loop[l].task, ColumnOf(status[loop[l].task])) /\ End(l)
    <3>1. ColumnOf(status[loop[l].task]) = "done" => status[loop[l].task] = "completed"
      BY DEF ColumnOf
    <3> QED BY <2>1, <2>3, <3>1, MoveWell
  <2> QED BY <1>5, <2>2, <2>3 DEF Poll
<1>6. CASE Deadline(l)
  BY <1>6, MoveWell DEF Deadline, rows, gateway
<1>7. ASSUME loop[l].pc \in Retries, MoveIfOwned(l, loop[l].task, "review"), End(l),
             UNCHANGED <<status, settling>>
      PROVE  GoesWell(c)
  <2>1. Lost(loop[l].task)
    BY <1>7 DEF RowsAreKnown
  <2>2. status[loop[l].task] \notin Settled \/ "review" = ColumnOf(status[loop[l].task])
    BY <2>1 DEF Lost, Settled, ColumnOf
  <2> QED BY <1>7, <2>2, MoveWell
<1>8. CASE AskRetry(l)
  <2>1. UNCHANGED <<status, settling>> /\ loop[l].pc = "asking"
    BY <1>8 DEF AskRetry, rows, gateway, At
  <2>2. CASE loop' = [loop EXCEPT ![l].pc = "posting"] /\ Untouched
    <3> DEFINE x == [loop[l] EXCEPT !.pc = "posting"]
    <3>1. ~Ended(x.pc) /\ x.task = loop[l].task
      BY <1>0 DEF Loop, Ended
    <3>2. loop' = [loop EXCEPT ![l] = x]
      BY <2>2
    <3> HIDE DEF x
    <3> QED BY <1>0, <1>1, <2>1, <2>2, <3>1, <3>2, GoingLoopHolds, UntouchedWell
  <2>3. ASSUME NEW u \in Reusable(loop[l].task), BindRetry(loop[l].task, u),
               loop' = [loop EXCEPT ![l].pc = "handed", ![l].next = u]
        PROVE  GoesWell(c)
    <3> DEFINE x == [loop[l] EXCEPT !.pc = "handed", !.next = u]
    <3>1. ~Ended(x.pc) /\ x.task = loop[l].task
      BY <1>0 DEF Loop, Ended
    <3>2. loop' = [loop EXCEPT ![l] = x]
      BY <2>3
    <3> HIDE DEF x
    <3>3. u \in Made
      BY DEF Reusable, Siblings, Working, Made
    <3>4. HoldsOn(c)
      BY <1>0, <3>1, <3>2, GoingLoopHolds
    <3> QED BY <2>1, <2>3, <3>3, <3>4, BindRetryWell
  <2>4. CASE MoveIfOwned(l, loop[l].task, "review") /\ End(l)
    BY <1>7, <2>1, <2>4 DEF Retries
  <2> QED BY <1>8, <2>2, <2>3, <2>4 DEF AskRetry
<1>9. CASE PostRetry(l)
  <2>1. CASE /\ Room /\ Insert(Fresh, Card(l), loop[l].task)
             /\ loop' = [loop EXCEPT ![l].pc = "posted", ![l].next = Fresh] /\ Untouched
    <3> DEFINE x == [loop[l] EXCEPT !.pc = "posted", !.next = Fresh]
    <3>1. ~Ended(x.pc) /\ x.task = loop[l].task
      BY <1>0 DEF Loop, Ended
    <3>2. loop' = [loop EXCEPT ![l] = x]
      BY <2>1
    <3> HIDE DEF x
    <3>3. RowRests(c)
      BY <1>9, <2>1, FreshRow, InsertRests DEF PostRetry, gateway
    <3>4. HoldsOn(c)
      BY <1>0, <3>1, <3>2, GoingLoopHolds
    <3> QED BY <2>1, <3>3, <3>4, UntouchedWell
  <2>2. CASE MoveIfOwned(l, loop[l].task, "review") /\ End(l) /\ UNCHANGED rows
    BY <1>7, <1>9, <2>2 DEF PostRetry, At, Retries, rows, gateway
  <2> QED BY <1>9, <2>1, <2>2 DEF PostRetry
<1>10. CASE HandToLoop(l)
  <2> DEFINE x == [loop[l] EXCEPT !.pc = "handed"]
  <2>1. ~Ended(x.pc) /\ x.task = loop[l].task
    BY <1>0 DEF Loop, Ended
  <2>2. loop' = [loop EXCEPT ![l] = x]
    BY <1>10 DEF HandToLoop
  <2> HIDE DEF x
  <2>3. loop[l].next \in Made
    BY <1>10 DEF HandToLoop, At, RowsAreKnown, Proposes
  <2>4. HoldsOn(c)
    BY <1>0, <2>1, <2>2, GoingLoopHolds
  <2>5. UNCHANGED <<status, settling>>
    BY <1>10 DEF HandToLoop, rows, gateway
  <2> QED BY <1>10, <2>3, <2>4, <2>5, BindRetryWell DEF HandToLoop
<1> QED BY <1>2, <1>3, <1>4, <1>5, <1>6, <1>8, <1>9, <1>10 DEF LoopStep

LEMMA StepWell ==
  ASSUME BoardInv, [Next]_vars, NEW c \in Cards PROVE GoesWell(c)
<1> USE DEF BoardInv, Inv, Types
<1>0. UNCHANGED <<status, settling>> => RowRests(c)
  BY DEF RowRests
<1>1. ASSUME NEW r \in Runs, ExecutePlan(r) PROVE GoesWell(c)
  <2>1. LoopsEnded(r)
    BY <1>1 DEF ExecutePlan, CallsHaveLoops, LoopsEnded, Loops, Run
  <2>2. CASE UNCHANGED <<column, owner, engine, hand>>
    BY <1>0, <1>1, <2>2, LoopsHold, RestsWell DEF ExecutePlan, engine, rows, gateway
  <2>3. CASE Wave(r, {k \in Cards : column[k] = "todo"}, "active")
    <3>1. {k \in Cards : column[k] = "todo"} \in SUBSET Cards
      OBVIOUS
    <3> QED BY <1>1, <2>1, <2>3, <3>1, WaveWell DEF ExecutePlan, rows, gateway
  <2> QED BY <1>1, <2>2, <2>3 DEF ExecutePlan
<1>2. ASSUME NEW r \in Runs, NextWave(r) PROVE GoesWell(c)
  <2>1. pending[r] \in SUBSET Cards
    BY DEF EngineTypes
  <2>2. LoopsEnded(r)
    BY <1>2 DEF NextWave, LoopsEnded
  <2> QED BY <1>2, <2>1, <2>2, WaveWell DEF NextWave, rows, gateway
<1>3. ASSUME NEW l \in Loops, LoopStep(l) PROVE GoesWell(c)
  BY <1>3, LoopWell
<1>4. ASSUME NEW t \in Tasks, Settle(t) PROVE GoesWell(c)
  <2>1. CASE owner[c] = t
    BY <1>4, <2>1 DEF Settle, board, GoesWell, OwnerMoves, ShownAnew
  <2>2. CASE owner[c] # t
    BY <1>4, <2>2, LoopsHold, UntouchedWell DEF Settle, Untouched, RowRests, RowTypes, engine
  <2> QED BY <2>1, <2>2
<1>5. ASSUME NEW t \in Tasks, SettleAgain(t) PROVE GoesWell(c)
  BY <1>5, LoopsHold, UntouchedWell DEF SettleAgain, Untouched, RowRests, rows, engine
<1>6. ASSUME NEW t \in Tasks, ProjectSettled(t) PROVE GoesWell(c)
  <2>1. t \in Made /\ cardOf[t] \in Cards
    BY <1>6 DEF ProjectSettled, GatewayTypes, RowTypes
  <2>2. HoldsOn(c) /\ (owner[c] # t => RowRests(c))
    BY <1>6, LoopsHold DEF ProjectSettled, engine, rows, RowRests
  <2>3. CASE status[t] = "purged" /\ Untouched
    <3>1. CASE owner[c] = t
      BY <1>6, <2>3, <3>1
      DEF ProjectSettled, Untouched, board, rows, GoesWell, OwnerMoves, ShownAnew, Settled
    <3> QED BY <2>2, <2>3, <3>1, UntouchedWell
  <2>4. CASE ProjectTask(t, status[t])
    BY <1>6, <2>1, <2>2, <2>4, ProjectWell DEF ProjectSettled, rows
  <2> QED BY <1>6, <2>3, <2>4 DEF ProjectSettled
<1>7. ASSUME NEW t \in Tasks, AuditPasses(t) PROVE GoesWell(c)
  <2>1. t \in Made /\ cardOf[t] \in Cards /\ status'[t] = "completed"
    BY <1>7 DEF AuditPasses, Made, RowTypes
  <2>2. HoldsOn(c) /\ (owner[c] # t => RowRests(c))
    BY <1>7, LoopsHold DEF AuditPasses, engine, gateway, RowRests, RowTypes
  <2> QED BY <1>7, <2>1, <2>2, ProjectWell DEF AuditPasses
<1>8. ASSUME NEW t \in Tasks, GatewayRetry(t) PROVE GoesWell(c)
  <2>1. \A u \in Reusable(t) : u \in Made
    BY DEF Reusable, Siblings, Working, Made
  <2>2. HoldsOn(c) /\ UNCHANGED <<status, settling>>
    BY <1>8, LoopsHold DEF GatewayRetry, engine, rows
  <2> QED BY <1>0, <1>8, <2>1, <2>2, BindRetryWell, UntouchedWell DEF GatewayRetry
<1>9. ASSUME NEW t \in Tasks, GatewayPosts(t) PROVE GoesWell(c)
  <2>1. RowRests(c)
    BY <1>9, <1>0, FreshRow, InsertRests DEF GatewayPosts, rows
  <2> QED BY <1>9, <2>1, LoopsHold, UntouchedWell DEF GatewayPosts, Untouched, engine
<1>10. CASE GatewayHands
  <2>1. PICK h \in handing : BindRetry(h[1], h[2]) /\ UNCHANGED <<rows, settling, engine>>
    BY <1>10 DEF GatewayHands
  <2>2. h[2] \in Made
    BY DEF GatewayTypes
  <2>3. HoldsOn(c) /\ UNCHANGED <<status, settling>>
    BY <2>1, LoopsHold DEF engine, rows
  <2> QED BY <2>1, <2>2, <2>3, BindRetryWell
<1>11. ASSUME NEW cs, Touch(cs), UNCHANGED <<rows, gateway, engine>>,
              c \notin cs => column'[c] = column[c], owner' = owner
       PROVE  GoesWell(c)
  <2>1. CASE c \in cs
    BY <1>11, <2>1 DEF Touch, GoesWell, OwnerMoves, ShownAnew
  <2>2. CASE c \notin cs
    BY <1>0, <1>11, <2>2, LoopsHold, RestsWell DEF Touch, rows, gateway, engine
  <2> QED BY <2>1, <2>2
<1>12. ASSUME NEW k \in Cards, MoveCard(k) PROVE GoesWell(c)
  <2>1. c \notin {k} => column'[c] = column[c]
    BY <1>12 DEF MoveCard, BoardTypes
  <2> QED BY <1>11, <1>12, <2>1 DEF MoveCard
<1>13. CASE SyncFromMarkdown
  <2> DEFINE cs == {k \in Cards : column'[k] # column[k]}
  <2>1. Touch(cs) /\ (c \notin cs => column'[c] = column[c])
    BY <1>13 DEF SyncFromMarkdown
  <2> HIDE DEF cs
  <2> QED BY <1>11, <1>13, <2>1 DEF SyncFromMarkdown
<1>14. ASSUME NEW t \in Tasks, Purge(t) PROVE GoesWell(c)
  <2>1. CASE owner[c] = t
    BY <1>14, <2>1 DEF Purge, GoesWell, OwnerMoves, ShownAnew
  <2>2. CASE owner[c] # t
    <3>1. UNCHANGED <<column[c], owner[c], hand[c]>>
      BY <1>14, <2>2 DEF Purge, Touch
    <3>2. HoldsOn(c) /\ RowRests(c)
      BY <1>14, <2>2, LoopsHold DEF Purge, engine, gateway, RowRests, RowTypes
    <3> QED BY <3>1, <3>2, RestsWell
  <2> QED BY <2>1, <2>2
<1>15. CASE UNCHANGED vars
  BY <1>0, <1>15, LoopsHold, UntouchedWell DEF vars, Untouched, rows, gateway, engine
<1> QED
  BY <1>1, <1>2, <1>3, <1>4, <1>5, <1>6, <1>7, <1>8, <1>9, <1>10, <1>12, <1>13, <1>14, <1>15 DEF Next

\* What any step does to the rows there are: card and root of a row are for good.
RowsKeep == \A t \in Made : t \in Made' /\ cardOf'[t] = cardOf[t] /\ root'[t] = root[t]

LEMMA RowsAside ==
  ASSUME RetriesBelong, Made' = Made, UNCHANGED <<cardOf, root>>
  PROVE  RowsKeep /\ RetriesBelong'
BY DEF RowsKeep, RetriesBelong

\* A retry gets the root of its source, which is a row of the same card.
LEMMA InsertBelongs ==
  ASSUME RowTypes, RetriesBelong, NEW t \in Tasks, status[t] = "none", NEW k \in Cards,
         NEW s \in Tasks \cup {NoTask}, s = NoTask \/ (s \in Made /\ cardOf[s] = k), Insert(t, k, s)
  PROVE  RowsKeep /\ RetriesBelong' /\ t \in Made' /\ cardOf'[t] = k
<1>1. Made' = Made \cup {t}
  BY InsertTypes
<1>2. /\ t \notin Made
      /\ \A u \in Made : cardOf'[u] = cardOf[u] /\ root'[u] = root[u]
  BY DEF Insert, RowTypes, Made
<1>3. cardOf'[t] = k /\ root'[t] = IF s = NoTask THEN t ELSE root[s]
  BY DEF Insert, RowTypes
<1>4. s # NoTask => root[s] \in Made /\ cardOf[root[s]] = k
  BY DEF RetriesBelong
<1>5. \A u \in Made : root'[u] \in Made' /\ cardOf'[root'[u]] = cardOf'[u]
  BY <1>1, <1>2 DEF RetriesBelong
<1>6. root'[t] \in Made' /\ cardOf'[root'[t]] = cardOf'[t]
  BY <1>1, <1>2, <1>3, <1>4
<1> QED BY <1>1, <1>2, <1>3, <1>5, <1>6 DEF RowsKeep, RetriesBelong

\* A loop that follows a row retries it for its own card.
LEMMA LoopInserts ==
  ASSUME BoardInv, NEW l \in Loops, Room,
         \/ loop[l].pc = "posting" /\ Insert(Fresh, Card(l), loop[l].task)
         \/ Insert(Fresh, Card(l), NoTask)
  PROVE  RowsKeep /\ RetriesBelong' /\ Fresh \in Made' /\ cardOf'[Fresh] = Card(l)
<1>1. Fresh \in Tasks /\ status[Fresh] = "none" /\ Card(l) \in Cards
  BY FreshRow DEF Loops, Card
<1>2. RowTypes /\ RetriesBelong /\ RowsAreKnown /\ LoopsBelong
  BY DEF BoardInv, Inv, Types
<1>3. loop[l].pc = "posting" => loop[l].task \in Made /\ cardOf[loop[l].task] = Card(l)
  BY <1>2 DEF RowsAreKnown, LoopsBelong, Follows
<1> QED BY <1>1, <1>2, <1>3, InsertBelongs DEF Made

LEMMA RowsStep ==
  ASSUME BoardInv, [Next]_vars PROVE RowsKeep /\ RetriesBelong'
<1>0. RowTypes /\ GatewayTypes /\ RetriesBelong
  BY DEF BoardInv, Inv, Types
<1>1. CASE UNCHANGED rows
  BY <1>0, <1>1, Kept, RowsAside DEF rows
<1>2. ASSUME NEW l \in Loops, LoopStep(l) PROVE RowsKeep /\ RetriesBelong'
  BY <1>1, <1>2, LoopInserts
  DEF LoopStep, Dispatch, DispatchFails, Bind, Poll, Deadline, AskRetry, PostRetry, HandToLoop,
      TakeRetry, At
<1>3. ASSUME NEW t \in Tasks, Settle(t) \/ AuditPasses(t) \/ Purge(t)
      PROVE  RowsKeep /\ RetriesBelong'
  <2>1. t \in Made /\ UNCHANGED <<cardOf, root>>
    BY <1>3 DEF Settle, AuditPasses, Purge, Working, Made
  <2>2. \E x \in Statuses \ {"none"} : status' = [status EXCEPT ![t] = x]
    BY <1>3 DEF Settle, AuditPasses, Purge, Statuses, Settled
  <2>3. Made' = Made
    BY <1>0, <2>1, <2>2 DEF RowTypes, Made
  <2> QED BY <1>0, <2>1, <2>3, RowsAside
<1>4. ASSUME NEW t \in Tasks, GatewayPosts(t) PROVE RowsKeep /\ RetriesBelong'
  <2>1. t \in Made /\ t \in Tasks /\ cardOf[t] \in Cards
    BY <1>0, <1>4 DEF GatewayPosts, GatewayTypes, RowTypes, Made
  <2>2. CASE Room /\ Insert(Fresh, cardOf[t], t)
    BY <1>0, <2>1, <2>2, FreshRow, InsertBelongs
  <2> QED BY <1>1, <1>4, <2>2 DEF GatewayPosts
<1>5. ASSUME NEW r \in Runs, ExecutePlan(r) \/ NextWave(r) PROVE UNCHANGED rows
  BY <1>5 DEF ExecutePlan, NextWave
<1>6. ASSUME NEW t \in Tasks, SettleAgain(t) \/ ProjectSettled(t) \/ GatewayRetry(t)
      PROVE  UNCHANGED rows
  BY <1>6 DEF SettleAgain, ProjectSettled, GatewayRetry
<1>7. GatewayHands \/ SyncFromMarkdown \/ (\E c \in Cards : MoveCard(c)) \/ UNCHANGED vars
        => UNCHANGED rows
  BY DEF GatewayHands, SyncFromMarkdown, MoveCard, vars
<1> QED BY <1>1, <1>2, <1>3, <1>4, <1>5, <1>6, <1>7 DEF Next

\* What LoopsBelong says of a loop x of the card k after the step.
BelongsThen(x, k) == /\ x.pc \in Follows => cardOf'[x.task] = k
                     /\ x.pc \in Proposes => cardOf'[x.next] = k

LEMMA BelongsStays ==
  ASSUME BoardInv, RowsKeep, NEW l \in Loops,
         loop'[l] = loop[l] \/ loop'[l].pc \in {"idle", "claimed", "done"}
  PROVE  BelongsThen(loop'[l], Card(l))
<1>1. CASE loop'[l] = loop[l]
  BY <1>1 DEF BelongsThen, BoardInv, Inv, RowsAreKnown, LoopsBelong, RowsKeep
<1>2. CASE loop'[l].pc \in {"idle", "claimed", "done"}
  BY <1>2 DEF BelongsThen, Follows, Proposes
<1> QED BY <1>1, <1>2

\* A sibling that is handed out for a row is a row of the same card.
LEMMA SiblingBelongs ==
  ASSUME RetriesBelong, NEW t \in Made, NEW u \in Reusable(t)
  PROVE  u \in Made /\ cardOf[u] = cardOf[t]
<1>1. u \in Made /\ root[u] = root[t]
  BY DEF Reusable, Siblings, Working, Made
<1> QED BY <1>1 DEF RetriesBelong

LEMMA LoopBelongs ==
  ASSUME BoardInv, RowsKeep, NEW l \in Loops, LoopStep(l) PROVE BelongsThen(loop'[l], Card(l))
<1>0. loop \in [Loops -> Loop] /\ loop[l] \in Loop
  BY DEF BoardInv, Inv, Types, EngineTypes
<1>1. /\ loop[l].pc \in Follows =>
             /\ loop[l].task \in Made /\ cardOf[loop[l].task] = Card(l)
             /\ cardOf'[loop[l].task] = Card(l)
      /\ loop[l].pc \in Proposes => cardOf'[loop[l].next] = Card(l)
  BY DEF BoardInv, Inv, RowsAreKnown, LoopsBelong, RowsKeep
<1>2. CASE End(l)
  BY <1>0, <1>2, BelongsStays DEF End, Idle
<1>3. CASE Dispatch(l)
  <2>1. loop'[l].pc = "created" /\ loop'[l].next = Fresh
    BY <1>0, <1>3 DEF Dispatch, Loop
  <2>2. cardOf'[Fresh] = Card(l)
    BY <1>3, LoopInserts DEF Dispatch
  <2> QED BY <2>1, <2>2 DEF BelongsThen, Follows
<1>4. CASE (Bind(l) \/ TakeRetry(l)) /\ Follow(l)
  <2>1. loop'[l].pc = "polling" /\ loop'[l].task = loop[l].next
    BY <1>0, <1>4 DEF Follow, Loop
  <2>2. loop[l].pc \in Proposes
    BY <1>4 DEF Bind, TakeRetry, At, Proposes
  <2> QED BY <1>1, <2>1, <2>2 DEF BelongsThen, Proposes
<1>5. CASE Poll(l) /\ loop' = [loop EXCEPT ![l].pc = "asking", ![l].tries = @ + 1]
  <2>1. loop'[l].pc = "asking" /\ loop'[l].task = loop[l].task
    BY <1>0, <1>5 DEF Loop
  <2> QED BY <1>1, <1>5, <2>1 DEF BelongsThen, Proposes, Follows, Poll, At
<1>6. CASE AskRetry(l) /\ loop' = [loop EXCEPT ![l].pc = "posting"]
  <2>1. loop'[l].pc = "posting" /\ loop'[l].task = loop[l].task
    BY <1>0, <1>6 DEF Loop
  <2> QED BY <1>1, <1>6, <2>1 DEF BelongsThen, Proposes, Follows, AskRetry, At
<1>7. ASSUME AskRetry(l), NEW u \in Reusable(loop[l].task),
             loop' = [loop EXCEPT ![l].pc = "handed", ![l].next = u]
      PROVE  BelongsThen(loop'[l], Card(l))
  <2>1. loop'[l].pc = "handed" /\ loop'[l].task = loop[l].task /\ loop'[l].next = u
    BY <1>0, <1>7 DEF Loop
  <2>2. loop[l].pc \in Follows
    BY <1>7 DEF AskRetry, At, Follows
  <2>3. u \in Made /\ cardOf[u] = Card(l)
    BY <1>1, <2>2, SiblingBelongs DEF BoardInv
  <2> QED BY <1>1, <2>1, <2>2, <2>3 DEF BelongsThen, RowsKeep
<1>8. CASE /\ PostRetry(l) /\ Room /\ Insert(Fresh, Card(l), loop[l].task)
           /\ loop' = [loop EXCEPT ![l].pc = "posted", ![l].next = Fresh]
  <2>1. loop'[l].pc = "posted" /\ loop'[l].task = loop[l].task /\ loop'[l].next = Fresh
    BY <1>0, <1>8 DEF Loop
  <2>2. loop[l].pc = "posting"
    BY <1>8 DEF PostRetry, At
  <2>3. cardOf'[Fresh] = Card(l)
    BY <1>8, <2>2, LoopInserts
  <2> QED BY <1>1, <2>1, <2>2, <2>3 DEF BelongsThen, Follows
<1>9. CASE HandToLoop(l)
  <2>1. loop'[l].pc = "handed" /\ loop'[l].task = loop[l].task /\ loop'[l].next = loop[l].next
    BY <1>0, <1>9 DEF HandToLoop, Loop
  <2> QED BY <1>1, <1>9, <2>1 DEF BelongsThen, Follows, Proposes, HandToLoop, At
<1> QED
  BY <1>2, <1>3, <1>4, <1>5, <1>6, <1>7, <1>8, <1>9
  DEF LoopStep, DispatchFails, Bind, TakeRetry, BindExecution, Poll, Deadline, AskRetry, PostRetry

\* A wave of the call r ends its loops and the call, or starts some of them.
WaveMoves(r) ==
  /\ on \ {r} \subseteq on'
  /\ \A l \in Loops : \/ loop'[l] = loop[l] /\ (Run(l) # r \/ r \in on')
                      \/ loop'[l].pc = "idle"
                      \/ loop'[l].pc = "claimed" /\ Run(l) \in on'

\* A step leaves the loops alone, or is a step of one of them, or a wave.
LEMMA LoopsMove ==
  ASSUME BoardInv, [Next]_vars
  PROVE  \/ UNCHANGED <<on, loop>>
         \/ \E m \in Loops : /\ LoopStep(m) /\ UNCHANGED on /\ ~Ended(loop[m].pc)
                             /\ \A l \in Loops \ {m} : loop'[l] = loop[l]
         \/ \E r \in Runs : WaveMoves(r)
<1>1. ASSUME NEW m \in Loops, LoopStep(m)
      PROVE  /\ UNCHANGED on /\ ~Ended(loop[m].pc)
             /\ \A l \in Loops \ {m} : loop'[l] = loop[l]
  BY <1>1
  DEF LoopStep, Dispatch, DispatchFails, Bind, Poll, Deadline, AskRetry, PostRetry, HandToLoop,
      TakeRetry, BindExecution, End, Follow, At, Ended, BoardInv, Inv, Types, EngineTypes
<1>2. ASSUME NEW r \in Runs, ExecutePlan(r) \/ NextWave(r), ~UNCHANGED <<on, loop>>
      PROVE  WaveMoves(r)
  <2>1. PICK left, p : Wave(r, left, p)
    BY <1>2 DEF ExecutePlan, NextWave, engine
  <2>2. CASE /\ on' = on \ {r}
             /\ loop' = [l \in Loops |-> IF Run(l) = r THEN Idle ELSE loop[l]]
    <3>1. \A l \in Loops : loop'[l] = IF Run(l) = r THEN Idle ELSE loop[l]
      BY <2>2
    <3> QED BY <2>2, <3>1 DEF Idle, WaveMoves
  <2>3. ASSUME NEW batch, on' = on \cup {r},
               loop' = [l \in Loops |-> IF Run(l) = r /\ Card(l) \in batch
                                        THEN [Idle EXCEPT !.pc = "claimed", !.task = owner[Card(l)]]
                                        ELSE loop[l]]
        PROVE  WaveMoves(r)
    <3>1. ASSUME NEW l \in Loops
          PROVE  loop'[l] = loop[l] \/ (loop'[l].pc = "claimed" /\ Run(l) = r)
      BY <2>3 DEF Idle
    <3> QED BY <2>3, <3>1 DEF WaveMoves
  <2> QED BY <2>1, <2>2, <2>3 DEF Wave
<1>3. ASSUME NEW t \in Tasks,
             \/ Settle(t) \/ SettleAgain(t) \/ ProjectSettled(t) \/ AuditPasses(t)
             \/ GatewayRetry(t) \/ GatewayPosts(t) \/ Purge(t)
      PROVE  UNCHANGED engine
  BY <1>3 DEF Settle, SettleAgain, ProjectSettled, AuditPasses, GatewayRetry, GatewayPosts, Purge
<1>4. GatewayHands \/ SyncFromMarkdown \/ (\E c \in Cards : MoveCard(c)) \/ UNCHANGED vars
        => UNCHANGED engine
  BY DEF GatewayHands, SyncFromMarkdown, MoveCard, vars
<1>5. UNCHANGED engine => UNCHANGED <<on, loop>>
  BY DEF engine
<1> QED BY <1>1, <1>2, <1>3, <1>4, <1>5 DEF Next

LEMMA LoopsStep ==
  ASSUME BoardInv, [Next]_vars PROVE LoopsBelong' /\ CallsHaveLoops'
<1>1. RowsKeep
  BY RowsStep
<1>2. ASSUME NEW l \in Loops PROVE BelongsThen(loop'[l], Card(l))
  BY <1>1, LoopsMove, LoopBelongs, BelongsStays DEF WaveMoves
<1>3. ASSUME NEW l \in Loops, Run(l) \notin on' PROVE Ended(loop'[l].pc)
  <2>1. Run(l) \notin on => Ended(loop[l].pc)
    BY DEF BoardInv, CallsHaveLoops
  <2>2. ASSUME NEW m \in Loops, UNCHANGED on, ~Ended(loop[m].pc),
               \A k \in Loops \ {m} : loop'[k] = loop[k]
        PROVE  Ended(loop'[l].pc)
    BY <1>3, <2>1, <2>2
  <2>3. ASSUME NEW r \in Runs, WaveMoves(r) PROVE Ended(loop'[l].pc)
    BY <1>3, <2>1, <2>3 DEF WaveMoves, Ended
  <2> QED BY <1>3, <2>1, <2>2, <2>3, LoopsMove
<1> QED BY <1>2, <1>3 DEF LoopsBelong, BelongsThen, CallsHaveLoops, Ended

LEMMA OwnersStep ==
  ASSUME BoardInv, [Next]_vars PROVE OwnersBelong'
<1>1. RowsKeep
  BY RowsStep
<1>2. ASSUME NEW c \in Cards, owner'[c] # NoTask
      PROVE  owner'[c] \in Made' /\ cardOf'[owner'[c]] = c
  <2>1. owner'[c] = owner[c] \/ (owner'[c] \in Made /\ cardOf[owner'[c]] = c)
    BY <1>2, StepWell DEF GoesWell, OwnerMoves
  <2>2. owner'[c] \in Made /\ cardOf[owner'[c]] = c
    BY <1>2, <2>1 DEF BoardInv, OwnersBelong
  <2> QED BY <1>1, <2>2 DEF RowsKeep
<1> QED BY <1>2 DEF OwnersBelong, NoTask

LEMMA BoardStep == ASSUME BoardInv, [Next]_vars PROVE BoardInv'
<1>1. Inv'
  BY InvStep DEF BoardInv
<1>2. OwnersBelong' /\ RetriesBelong' /\ LoopsBelong' /\ CallsHaveLoops'
  BY RowsStep, LoopsStep, OwnersStep
<1>3. ASSUME NEW c \in Cards PROVE Shown(c)'
  BY StepWell, ShownAfter DEF BoardInv, GoesWell
<1> QED BY <1>1, <1>2, <1>3 DEF BoardInv

LEMMA InitBoard == Init => BoardInv
<1> SUFFICES ASSUME Init PROVE BoardInv
  OBVIOUS
<1>1. Inv
  BY InitInv
<1>2. \A l \in Loops : loop[l].pc = "idle"
  BY DEF Init, Idle
<1>3. OwnersBelong /\ RetriesBelong /\ \A c \in Cards : Shown(c)
  BY DEF Init, OwnersBelong, RetriesBelong, Shown, Made
<1>4. LoopsBelong /\ CallsHaveLoops
  BY <1>2 DEF LoopsBelong, CallsHaveLoops, Follows, Proposes, Ended
<1> QED BY <1>1, <1>3, <1>4 DEF BoardInv

-----------------------------------------------------------------------------
(* The theorems                                                            *)

\* Work on a card starts only when its prerequisites are completed, and none of
\* them is taken back by the program afterwards.
THEOREM WorkStartsInOrder == Spec => []PrerequisitesHold
BY InvHolds, PTL DEF Inv

\* However many calls execute the plan at once, a card is in the hands of one.
THEOREM CardsHaveOneLoop == Spec => []WorkedOnOnce
BY InvHolds, PTL DEF Inv

\* A card that no loop holds and no person moved last shows the row it names, or
\* waits in review for a person: whoever was late, lost the card or retried its
\* row has left no other column behind.
THEOREM BoardIsRight == Spec => []BoardShowsRows
<1>1. BoardInv => BoardShowsRows
  BY DEF BoardInv, Shown, BoardShowsRows
<1> QED BY <1>1, InitBoard, BoardStep, PTL DEF Spec

\* No late projection, retry or loop reopens a card whose row is completed.
THEOREM NothingReopensDone == Spec => DoneStaysDone
<1>1. ASSUME Inv, [Next]_vars
      PROVE  \A c \in Cards : (Finished(column[c], owner[c], status) /\ hand'[c] = "never")
                                => column'[c] = "done" /\ owner'[c] = owner[c]
  BY <1>1, InvStep DEF GoesOn, CardGoesOn, Done
<1>2. Inv /\ [Next]_vars =>
        [\A c \in Cards : (Finished(column[c], owner[c], status) /\ hand'[c] = "never")
                                => column'[c] = "done" /\ owner'[c] = owner[c]]_vars
  BY <1>1
<1> QED BY <1>2, InvHolds, PTL DEF Spec, DoneStaysDone
=============================================================================
