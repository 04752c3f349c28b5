------------------------ MODULE TaskLifecycleProofs ------------------------
(***************************************************************************)
(* Safety of TaskLifecycle for any number of tasks and any bounds.         *)
(*                                                                         *)
(* The properties are not inductive by themselves.  That a closed row has  *)
(* no unnoticed run rests on a row under review having no run at all, and  *)
(* on a row that waits for its dispatch having none either; the finality   *)
(* of a closed row across a restart rests on nobody writing a row between  *)
(* its selection at boot and its recovery; the bound on launches rests on  *)
(* an interrupted row being counted before it may be launched again.       *)
(* Each action preserves their conjunction, Inv; the theorems follow.      *)
(***************************************************************************)
EXTENDS TaskLifecycle, TLAPS

\* The sweep awaits the release of one row at a time.
OneExpires == \A a, b \in expiring : a = b

\* A row under review has no execution left in this process.
ReviewIsIdle == \A t \in Tasks : status[t] = "reviewing" => run[t] = "none"

\* A row waiting to be dispatched has no execution, and is queued or closed.
BacklogIsIdle ==
  \A t \in backlog : run[t] = "none" /\ status[t] \in {"queued"} \cup TERMINAL_STATES

\* Without a process there is no execution.
DeadRunsNothing == phase \in {"booting", "down"} => run = [t \in Tasks |-> "none"]

\* What the boot has selected is still what it saw.
OrphansAreOpen ==
  \A t \in orphans : phase = "booting" /\ status[t] \in Leased \cup {"queued"}

\* A row that may be launched has been launched at most once per requeue.
LaunchesAreCounted ==
  \A t \in Tasks : status[t] \in {"none", "pending", "assigned", "queued"} =>
                     launches[t] <= requeues[t]

\* An execution has a row, and nothing writes the states pending and streaming.
RunsHaveRows ==
  \A t \in Tasks : /\ run[t] # "none" => status[t] # "none"
                   /\ status[t] \notin {"pending", "streaming"}

\* Only rows of a team are ever sent to Nova-AX.
OnlyTeamsAsk == \A t \in Tasks : asking[t] > 0 => t \in TeamTasks

\* Bound of the model: a process that is down may be started again.
BootsLeft == phase = "down" => boots < MaxBoots

\* Without Redis no job outlives its attempt, and abort() reaches every provider.
SemaphoresOnly == ~Redis => leftover = {} /\ ClosedRowsAreReleased

Inv == /\ TypeOK /\ BootsLeft /\ OneExpires /\ ReviewIsIdle /\ BacklogIsIdle /\ DeadRunsNothing
       /\ OrphansAreOpen /\ RunsHaveRows /\ OnlyTeamsAsk /\ LaunchesAreCounted
       /\ PoisonIsBounded /\ SemaphoresOnly /\ TeamCompletionAudited

\* The vocabulary every step is written in: the tuples of UNCHANGED, the sets
\* of states, the transition table, and the parts of the invariant.
USE BoundsAreNat, SettingsAreBoolean, TeamsAreTasks
    DEF vars, row, sweep, audit, recovery, Alive, Terminal, IsOpen, Runs, Verdicts,
        Succeeded, Statuses, Open, TERMINAL_STATES, Leased, Moves, ALLOWED_TRANSITIONS,
        Inv, TypeOK, BootsLeft, OneExpires, ReviewIsIdle, BacklogIsIdle, DeadRunsNothing,
        OrphansAreOpen, RunsHaveRows, OnlyTeamsAsk, LaunchesAreCounted, PoisonIsBounded,
        SemaphoresOnly, ClosedRowsAreReleased, TeamCompletionAudited

LEMMA InitInv == Init => Inv
BY DEF Init

-----------------------------------------------------------------------------
(* Intake and execution                                                    *)

LEMMA CreateKeeps == ASSUME Inv, NEW t \in Tasks, Create(t) PROVE Inv'
BY DEF Create

LEMMA EnqueueKeeps == ASSUME Inv, NEW t \in Tasks, Enqueue(t) PROVE Inv'
BY DEF Enqueue

LEMMA StartKeeps == ASSUME Inv, NEW t \in Tasks, Start(t) PROVE Inv'
BY DEF Start

LEMMA GiveUpWaitingKeeps == ASSUME Inv, NEW t \in Tasks, GiveUpWaiting(t) PROVE Inv'
BY DEF GiveUpWaiting

LEMMA StaleResultKeeps == ASSUME Inv, NEW t \in Tasks, StaleResult(t) PROVE Inv'
BY DEF StaleResult

LEMMA TryAgainKeeps == ASSUME Inv, NEW t \in Tasks, TryAgain(t) PROVE Inv'
BY DEF TryAgain, JobIsKept

LEMMA FinishKeeps == ASSUME Inv, NEW t \in Tasks, Finish(t) PROVE Inv'
BY DEF Finish, JobIsKept

LEMMA HeartbeatKeeps == ASSUME Inv, NEW t \in Tasks, Heartbeat(t) PROVE Inv'
BY DEF Heartbeat

LEMMA LeaseLapsesKeeps == ASSUME Inv, NEW t \in Tasks, LeaseLapses(t) PROVE Inv'
BY DEF LeaseLapses

-----------------------------------------------------------------------------
(* Persisting and settling the result                                      *)

LEMMA PersistKeeps == ASSUME Inv, NEW t \in Tasks, Persist(t) PROVE Inv'
BY DEF Persist, Persisted, Target, Passes

LEMMA PersistRejectedKeeps == ASSUME Inv, NEW t \in Tasks, PersistRejected(t) PROVE Inv'
BY DEF PersistRejected, Target

LEMMA PersistUnsettledKeeps == ASSUME Inv, NEW t \in Tasks, PersistUnsettled(t) PROVE Inv'
BY DEF PersistUnsettled, Persisted, Target, Passes

LEMMA PersistDroppedKeeps == ASSUME Inv, NEW t \in Tasks, PersistDropped(t) PROVE Inv'
BY DEF PersistDropped

LEMMA ResettleKeeps == ASSUME Inv, NEW t \in Tasks, Resettle(t) PROVE Inv'
BY DEF Resettle

-----------------------------------------------------------------------------
(* The audit                                                               *)

LEMMA NotifiedKeeps == ASSUME Inv, NEW t \in Tasks, Notified(t) PROVE Inv'
BY DEF Notified, MarkQueued

LEMMA ReconcileKeeps == ASSUME Inv, NEW t \in Tasks, Reconcile(t) PROVE Inv'
BY DEF Reconcile

LEMMA VerifyKeeps == ASSUME Inv, NEW t \in Tasks, Verify(t) PROVE Inv'
BY DEF Verify

LEMMA VerifiedKeeps == ASSUME Inv, NEW t \in Tasks, Verified(t) PROVE Inv'
BY DEF Verified

-----------------------------------------------------------------------------
(* Closing from outside, and the sweeper                                   *)

LEMMA CancelKeeps == ASSUME Inv, NEW t \in Tasks, Cancel(t) PROVE Inv'
BY DEF Cancel, Close

LEMMA ReplaceKeeps == ASSUME Inv, NEW t \in Tasks, Replace(t) PROVE Inv'
BY DEF Replace, Close

LEMMA AbortDeliveredKeeps == ASSUME Inv, NEW t \in Tasks, AbortDelivered(t) PROVE Inv'
BY DEF AbortDelivered, Aborted

LEMMA SweepTickKeeps == ASSUME Inv, SweepTick PROVE Inv'
BY DEF SweepTick, Mark, SweepRest, Overdue, Unclaimed

LEMMA SweepAbortsKeeps == ASSUME Inv, SweepAborts PROVE Inv'
BY DEF SweepAborts, Aborted, SweepRest

LEMMA SweepNextKeeps == ASSUME Inv, NEW t \in Tasks, SweepNext(t) PROVE Inv'
BY DEF SweepNext, Mark, SweepRest

-----------------------------------------------------------------------------
(* Shutdown, crash and recovery                                            *)

LEMMA BeginShutdownKeeps == ASSUME Inv, BeginShutdown PROVE Inv'
BY DEF BeginShutdown

LEMMA CloseQueueKeeps == ASSUME Inv, CloseQueue PROVE Inv'
BY DEF CloseQueue

LEMMA CrashKeeps == ASSUME Inv, Crash PROVE Inv'
BY DEF Crash

LEMMA BootKeeps == ASSUME Inv, Boot PROVE Inv'
BY DEF Boot

LEMMA RecoverKeeps == ASSUME Inv, NEW t \in Tasks, Recover(t) PROVE Inv'
BY DEF Recover, Poisoned

LEMMA BootedKeeps == ASSUME Inv, Booted PROVE Inv'
BY DEF Booted

LEMMA DispatchKeeps == ASSUME Inv, NEW t \in Tasks, Dispatch(t) PROVE Inv'
BY DEF Dispatch

LEMMA DeferKeeps == ASSUME Inv, NEW t \in Tasks, Defer(t) PROVE Inv'
BY DEF Defer

-----------------------------------------------------------------------------
(* The theorems                                                            *)

LEMMA NextKeeps == Inv /\ [Next]_vars => Inv'
<1> HIDE DEF Inv
<1> SUFFICES ASSUME Inv, [Next]_vars PROVE Inv'
  OBVIOUS
<1>1. ASSUME NEW t \in Tasks, Execute(t) PROVE Inv'
  BY <1>1, CreateKeeps, EnqueueKeeps, StartKeeps, GiveUpWaitingKeeps, StaleResultKeeps,
     TryAgainKeeps, FinishKeeps, HeartbeatKeeps, LeaseLapsesKeeps, Zenon DEF Execute
<1>2. ASSUME NEW t \in Tasks, Settle(t) PROVE Inv'
  BY <1>2, PersistKeeps, PersistRejectedKeeps, PersistUnsettledKeeps, PersistDroppedKeeps,
     ResettleKeeps, Zenon DEF Settle
<1>3. ASSUME NEW t \in Tasks, Review(t) PROVE Inv'
  BY <1>3, NotifiedKeeps, ReconcileKeeps, VerifyKeeps, VerifiedKeeps, Zenon DEF Review
<1>4. ASSUME NEW t \in Tasks, Stop(t) PROVE Inv'
  BY <1>4, CancelKeeps, ReplaceKeeps, AbortDeliveredKeeps, Zenon DEF Stop
<1>5. ASSUME NEW t \in Tasks, SweepNext(t) \/ Return(t) PROVE Inv'
  BY <1>5, SweepNextKeeps, RecoverKeeps, DispatchKeeps, DeferKeeps, Zenon DEF Return
<1>6. ASSUME SweepTick \/ SweepAborts PROVE Inv'
  BY <1>6, SweepTickKeeps, SweepAbortsKeeps, Zenon
<1>7. ASSUME BeginShutdown \/ CloseQueue \/ Crash \/ Boot \/ Booted PROVE Inv'
  BY <1>7, BeginShutdownKeeps, CloseQueueKeeps, CrashKeeps, BootKeeps, BootedKeeps, Zenon
<1>8. CASE UNCHANGED vars
  BY <1>8 DEF Inv
<1> QED BY <1>1, <1>2, <1>3, <1>4, <1>5, <1>6, <1>7, <1>8, Zenon DEF Next

THEOREM Inductive == Spec => []Inv
<1> HIDE DEF Inv
<1> QED BY InitInv, NextKeeps, PTL DEF Spec

\* The type of every variable, the counters within their bounds.
THEOREM LifecycleTypes == Spec => []TypeOK
<1>1. Inv => TypeOK
  OBVIOUS
<1> HIDE DEF Inv, TypeOK
<1> QED BY <1>1, Inductive, PTL

\* With semaphores only, no provider outlives its row unnoticed, whoever closed the
\* row and whenever.
THEOREM LifecycleReleases == ASSUME ~Redis PROVE Spec => []ClosedRowsAreReleased
<1>1. Inv => ClosedRowsAreReleased
  OBVIOUS
<1> HIDE DEF Inv, ClosedRowsAreReleased
<1> QED BY <1>1, Inductive, PTL

\* Restarts launch a task at most MAX_ORPHAN_REQUEUE + 1 times.
THEOREM LifecyclePoison == Spec => []PoisonIsBounded
<1>1. Inv => PoisonIsBounded
  OBVIOUS
<1> HIDE DEF Inv, PoisonIsBounded
<1> QED BY <1>1, Inductive, PTL

\* A completed team task carries an approval that Nova-AX accepted.
THEOREM LifecycleAudited == Spec => []TeamCompletionAudited
<1>1. Inv => TeamCompletionAudited
  OBVIOUS
<1> HIDE DEF Inv, TeamCompletionAudited
<1> QED BY <1>1, Inductive, PTL

-----------------------------------------------------------------------------
(* Action properties and the contract                                       *)

\* One step of the system leaves a closed row closed as it is.
FinalStep ==
  \A t \in Tasks : Terminal(t) =>
    \/ status'[t] = status[t]
    \/ status[t] = "completed" /\ response[t] = "bad" /\ status'[t] = "failed"

LEMMA StepIsFinal == Inv /\ [Next]_vars => FinalStep
<1> SUFFICES ASSUME Inv, [Next]_vars PROVE FinalStep
  OBVIOUS
<1>1. ASSUME NEW t \in Tasks, Execute(t) PROVE FinalStep
  BY <1>1 DEF Execute, Create, Enqueue, Start, GiveUpWaiting, StaleResult, TryAgain, Finish,
         Heartbeat, LeaseLapses, FinalStep
<1>2. ASSUME NEW t \in Tasks, Settle(t) PROVE FinalStep
  BY <1>2 DEF Settle, Persist, Persisted, Target, Passes, PersistRejected, PersistUnsettled,
         PersistDropped, Resettle, FinalStep
<1>3. ASSUME NEW t \in Tasks, Review(t) PROVE FinalStep
  BY <1>3 DEF Review, Notified, MarkQueued, Reconcile, Verify, Verified, FinalStep
<1>4. ASSUME NEW t \in Tasks, Stop(t) PROVE FinalStep
  BY <1>4 DEF Stop, Cancel, Close, Replace, AbortDelivered, Aborted, FinalStep
<1>5. ASSUME NEW t \in Tasks, SweepNext(t) \/ Return(t) PROVE FinalStep
  BY <1>5 DEF Return, SweepNext, Mark, SweepRest, Recover, Poisoned, Dispatch, Defer,
         FinalStep
<1>6. ASSUME SweepTick \/ SweepAborts PROVE FinalStep
  BY <1>6 DEF SweepTick, Mark, SweepRest, Overdue, Unclaimed, SweepAborts, Aborted,
         FinalStep
<1>7. ASSUME BeginShutdown \/ CloseQueue \/ Crash \/ Boot \/ Booted PROVE FinalStep
  BY <1>7 DEF BeginShutdown, CloseQueue, Crash, Boot, Booted, FinalStep
<1>8. CASE UNCHANGED vars
  BY <1>8 DEF FinalStep
<1> QED BY <1>1, <1>2, <1>3, <1>4, <1>5, <1>6, <1>7, <1>8, Zenon DEF Next

\* A step that starts a provider finds the row open and leaves it running.
LaunchStep ==
  \A t \in Tasks : run'[t] = "running" /\ run[t] # "running" =>
    IsOpen(t) /\ status'[t] = "running"

LEMMA StepLaunchesOpenRow == Inv /\ [Next]_vars => LaunchStep
<1> SUFFICES ASSUME Inv, [Next]_vars PROVE LaunchStep
  OBVIOUS
<1>1. ASSUME NEW t \in Tasks, Execute(t) PROVE LaunchStep
  BY <1>1 DEF Execute, Create, Enqueue, Start, GiveUpWaiting, StaleResult, TryAgain, Finish,
         Heartbeat, LeaseLapses, LaunchStep
<1>2. ASSUME NEW t \in Tasks, Settle(t) PROVE LaunchStep
  BY <1>2 DEF Settle, Persist, Persisted, Target, Passes, PersistRejected, PersistUnsettled,
         PersistDropped, Resettle, LaunchStep
<1>3. ASSUME NEW t \in Tasks, Review(t) PROVE LaunchStep
  BY <1>3 DEF Review, Notified, MarkQueued, Reconcile, Verify, Verified, LaunchStep
<1>4. ASSUME NEW t \in Tasks, Stop(t) PROVE LaunchStep
  BY <1>4 DEF Stop, Cancel, Close, Replace, AbortDelivered, Aborted, LaunchStep
<1>5. ASSUME NEW t \in Tasks, SweepNext(t) \/ Return(t) PROVE LaunchStep
  BY <1>5 DEF Return, SweepNext, Mark, SweepRest, Recover, Poisoned, Dispatch, Defer,
         LaunchStep
<1>6. ASSUME SweepTick \/ SweepAborts PROVE LaunchStep
  BY <1>6 DEF SweepTick, Mark, SweepRest, Overdue, Unclaimed, SweepAborts, Aborted,
         LaunchStep
<1>7. ASSUME BeginShutdown \/ CloseQueue \/ Crash \/ Boot \/ Booted PROVE LaunchStep
  BY <1>7 DEF BeginShutdown, CloseQueue, Crash, Boot, Booted, LaunchStep
<1>8. CASE UNCHANGED vars
  BY <1>8 DEF LaunchStep
<1> QED BY <1>1, <1>2, <1>3, <1>4, <1>5, <1>6, <1>7, <1>8, Zenon DEF Next

\* What a step may do to the row as a client sees it.
Visible(t, s) ==
  \/ s = status[t]
  \/ status[t] \in {"none"} \cup (Open \ {"reviewing"}) /\ s \in Open \ {"reviewing"}
  \/ status[t] \in Open \ {"reviewing"} 
     /\ s = IF t \in TeamTasks THEN "reviewing" ELSE "completed"
  \/ status[t] \in Open \cup {"completed"} /\ s \in TERMINAL_STATES \ {"completed"}

StatusMove(t) ==
  \E s \in Statuses : Visible(t, s) /\ status' = [status EXCEPT ![t] = s] /\ UNCHANGED accepted

Approved(t) ==
  /\ t \in TeamTasks /\ accepted' = accepted \cup {t}
  /\ status' = [status EXCEPT ![t] = IF @ = "reviewing" THEN "completed" ELSE @]

RowStep == UNCHANGED <<status, accepted>> \/ \E t \in Tasks : StatusMove(t) \/ Approved(t)

LEMMA StepMovesRow == Inv /\ [Next]_vars => RowStep
<1> SUFFICES ASSUME Inv, [Next]_vars PROVE RowStep
  OBVIOUS
<1>1. ASSUME NEW t \in Tasks, Execute(t) PROVE RowStep
  BY <1>1 DEF Execute, Create, Enqueue, Start, GiveUpWaiting, StaleResult, TryAgain, Finish,
         Heartbeat, LeaseLapses, RowStep, StatusMove, Visible
<1>2. ASSUME NEW t \in Tasks, Settle(t) PROVE RowStep
  BY <1>2 DEF Settle, Persist, Persisted, Target, Passes, PersistRejected, PersistUnsettled,
         PersistDropped, Resettle, RowStep, StatusMove, Visible
<1>3. ASSUME NEW t \in Tasks, Review(t) PROVE RowStep
  <2>1. CASE Notified(t) \/ Reconcile(t) \/ Verify(t)
    BY <2>1 DEF Notified, Reconcile, Verify, RowStep
  <2>2. ASSUME Verified(t) PROVE RowStep
    <3>1. t \in TeamTasks
      BY <2>2 DEF Verified
    <3>2. CASE UNCHANGED <<status, approval, accepted>>
      BY <3>2 DEF RowStep
    <3>3. CASE accepted' = accepted \cup {t} /\ ~UNCHANGED <<status, approval, accepted>>
      <4>1. status' = [status EXCEPT ![t] = IF @ = "reviewing" THEN "completed" ELSE @]
        BY <2>2, <3>3 DEF Verified
      <4> QED BY <3>1, <3>3, <4>1 DEF RowStep, Approved
    <3> QED BY <2>2, <3>2, <3>3 DEF Verified
  <2> QED BY <1>3, <2>1, <2>2 DEF Review
<1>4. ASSUME NEW t \in Tasks, Stop(t) PROVE RowStep
  BY <1>4 DEF Stop, Cancel, Close, Replace, AbortDelivered, Aborted, RowStep, StatusMove,
         Visible
<1>5. ASSUME NEW t \in Tasks, SweepNext(t) \/ Return(t) PROVE RowStep
  BY <1>5 DEF Return, SweepNext, Mark, SweepRest, Recover, Poisoned, Dispatch, Defer,
         RowStep, StatusMove, Visible
<1>6. ASSUME SweepTick \/ SweepAborts PROVE RowStep
  BY <1>6 DEF SweepTick, Mark, SweepRest, Overdue, Unclaimed, SweepAborts, Aborted,
         RowStep, StatusMove, Visible
<1>7. ASSUME BeginShutdown \/ CloseQueue \/ Crash \/ Boot \/ Booted PROVE RowStep
  BY <1>7 DEF BeginShutdown, CloseQueue, Crash, Boot, Booted, RowStep, StatusMove, Visible
<1>8. CASE UNCHANGED vars
  BY <1>8 DEF RowStep
<1> QED BY <1>1, <1>2, <1>3, <1>4, <1>5, <1>6, <1>7, <1>8, Zenon DEF Next


\* Every such step is a step of the contract, or invisible to it.
LEMMA StepKeepsContract == Inv /\ [Next]_vars => [Contract!Next]_Contract!vars
<1> SUFFICES ASSUME TypeOK, RowStep PROVE [Contract!Next]_Contract!vars
  BY StepMovesRow
<1> DEFINE seen == [k \in Tasks |-> Seen(status[k])]
<1>1. CASE UNCHANGED <<status, accepted>>
  BY <1>1 DEF Contract!vars
<1>2. ASSUME NEW t \in Tasks, StatusMove(t) PROVE [Contract!Next]_Contract!vars
  <2>1. PICK s \in Statuses : Visible(t, s) /\ status' = [status EXCEPT ![t] = s]
    BY <1>2 DEF StatusMove
  <2>2. accepted' = accepted
    BY <1>2 DEF StatusMove
  <2>3. seen' = [seen EXCEPT ![t] = Seen(s)]
    BY <2>1
  <2>4. \/ Seen(s) = Seen(status[t])
        \/ seen[t] = "absent" /\ Seen(s) = "open"
        \/ t \in TeamTasks /\ seen[t] = "open" /\ Seen(s) = "review"
        \/ t \notin TeamTasks /\ seen[t] = "open" /\ Seen(s) = "done"
        \/ seen[t] \in {"open", "review", "done"} /\ Seen(s) = "closed"
    BY <2>1 DEF Visible, Seen
  <2>5. Seen(s) = Seen(status[t]) => seen' = seen
    <3>1. \A k \in Tasks : status'[k] = IF k = t THEN s ELSE status[k]
      BY <2>1
    <3>2. Seen(s) = Seen(status[t]) => \A k \in Tasks : Seen(status'[k]) = Seen(status[k])
      BY <3>1, Zenon
    <3> QED BY <3>2, Zenon
  <2> HIDE DEF seen
  <2> QED BY <2>2, <2>3, <2>4, <2>5 DEF Contract!vars, Contract!Next, Contract!Submit,
          Contract!Review, Contract!Done, Contract!Closed, Contract!To, seen
<1>3. ASSUME NEW t \in Tasks, Approved(t) PROVE [Contract!Next]_Contract!vars
  <2>1. seen' = IF seen[t] = "review" THEN [seen EXCEPT ![t] = "done"] ELSE seen
    BY <1>3 DEF Approved, Seen
  <2>2. t \in TeamTasks /\ accepted' = accepted \cup {t}
    BY <1>3 DEF Approved
  <2> QED BY <2>1, <2>2 DEF Contract!vars, Contract!Next, Contract!Audit, Contract!To
<1> QED BY <1>1, <1>2, <1>3 DEF RowStep

\* A closed row stays closed as it was, except for the quality gate.
THEOREM LifecycleFinal == Spec => TerminalIsFinal
<1>1. Inv /\ [Next]_vars => [FinalStep]_vars
  BY StepIsFinal
<1> HIDE DEF Inv, vars
<1> QED BY <1>1, Inductive, PTL DEF Spec, TerminalIsFinal, FinalStep

\* A provider is started on a row that is open at that moment, and on no other.
THEOREM LifecycleLaunches == Spec => NoLaunchOnClosedRow
<1>1. Inv /\ [Next]_vars => [LaunchStep]_vars
  BY StepLaunchesOpenRow
<1> HIDE DEF Inv, vars
<1> QED BY <1>1, Inductive, PTL DEF Spec, NoLaunchOnClosedRow, LaunchStep

\* The orchestrator keeps the contract a client sees.
THEOREM LifecycleKeepsContract == Spec => KeepsContract
<1>1. Init => Contract!Init
  BY DEF Init, Contract!Init, Seen
<1> HIDE DEF Inv, vars
<1> QED BY <1>1, StepKeepsContract, Inductive, PTL DEF Spec, KeepsContract, Contract!Spec
=============================================================================
