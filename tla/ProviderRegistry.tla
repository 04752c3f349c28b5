-------------------------- MODULE ProviderRegistry --------------------------
(***************************************************************************)
(* The roster of providers of one process: the configuration file that     *)
(* operators edit, the polling store that loads it                         *)
(* (src/src/core/provider-registry-snapshot.ts), the coordinator that      *)
(* swaps everything that uses a roster, or rolls it back                   *)
(* (provider-runtime-coordinator.ts), and the executions that are kept out *)
(* meanwhile (provider-admission-gate.ts, AgentManager.executeTask()).     *)
(*                                                                         *)
(* A revision is a hash of its roster, so that a roster is its own         *)
(* revision.  A step is what runs between two awaits of more than a        *)
(* promise; the process has booted.                                        *)
(***************************************************************************)
CONSTANTS Rosters,      \* contents of the configuration that can be loaded
          Keyed,        \* those with a CLI whose key the agent manager derives
          Executions,   \* of tasks
          None, Broken  \* no roster; a file that does not parse

ASSUME RostersAreNamed ==
  /\ Rosters # {} /\ Keyed \subseteq Rosters
  /\ None \notin Rosters /\ Broken \notin Rosters

VARIABLES
  file,        \* ai-providers.json and its local overlay
  \* ---- the store
  snapshot,    \* the committed revision, public and for assignments
  pc,          \* what refresh() awaits
  loaded,      \* the roster in hand
  requested,   \* refreshRequested
  failed,      \* a part of the rollback has failed
  \* ---- who uses a roster
  agent,       \* AgentManager: the roster executions run on, and its revision
  queue,       \* TaskQueueManager
  shared,      \* table agents
  routing,     \* provider registry and model router
  \* ---- the gate
  reconciling, admissionBlocked,
  task

store        == <<snapshot, pc, loaded, requested, failed>>
consumers    == <<agent, queue, shared, routing>>
admission    == <<reconciling, admissionBlocked>>
registryVars == <<file, store, consumers, admission, task>>

\* at: not there, in a queue, in acquire(), holding a lease.
\* pin: metadata.providerRevision.  on: the roster the lease was granted on.
TaskRecords == [at : {"none", "queued", "waiting", "running"},
                pin : Rosters \cup {None}, on : Rosters \cup {None}]
Gone   == [at |-> "none", pin |-> None, on |-> None]
Leases == {t \in Executions : task[t].at = "running"}

\* init() has committed the first roster; the process does not boot without.
RegistryInit ==
  /\ file \in Rosters \ Keyed
  /\ snapshot = file /\ agent = file /\ queue = file /\ shared = file /\ routing = file
  /\ pc = "idle" /\ loaded = file /\ requested = FALSE /\ failed = FALSE
  /\ reconciling = FALSE /\ admissionBlocked = FALSE
  /\ task = [t \in Executions |-> Gone]

-----------------------------------------------------------------------------
(* Tasks                                                                   *)

\* A client names the revision it knows, or none; the intake refuses one that
\* is not the committed one.  A retry is bound to that one as well.
Submit(t) ==
  /\ task[t].at = "none"
  /\ \E pin \in {None, snapshot} : task' = [task EXCEPT ![t] = [Gone EXCEPT !.at = "queued", !.pin = pin]]
  /\ UNCHANGED <<file, store, consumers, admission>>

\* Mutant: nobody looks at the revision behind the queue.
ExecutesUnchecked(k, r) == [k EXCEPT !.at = "running", !.on = r]

\* executeTask() holds its lease: a revision that is outdated is a conflict,
\* which gives the lease back.
Executes(k, r) == IF k.pin \in {None, r} THEN [k EXCEPT !.at = "running", !.on = r] ELSE Gone

\* acquire()
Enter(t) ==
  /\ task[t].at = "queued"
  /\ task' = [task EXCEPT ![t] = IF admissionBlocked THEN Gone
                                 ELSE IF reconciling THEN [@ EXCEPT !.at = "waiting"]
                                 ELSE Executes(@, agent)]
  /\ UNCHANGED <<file, store, consumers, admission>>

\* The lease is given back; or a task that waits for one is aborted.
Leave(t) ==
  /\ task[t].at \in {"waiting", "running"}
  /\ task' = [task EXCEPT ![t] = Gone]
  /\ UNCHANGED <<file, store, consumers, admission>>

\* The gate opens on the roster r, and everybody who waits is called.
Called(r, block) ==
  [t \in Executions |-> IF task[t].at # "waiting" THEN task[t]
                        ELSE IF block THEN Gone ELSE Executes(task[t], r)]

-----------------------------------------------------------------------------
(* refresh()                                                               *)

Edit ==
  /\ \E r \in Rosters \cup {Broken} : file' = r
  /\ UNCHANGED <<store, consumers, admission, task>>

\* Mutant: the roster is not validated.
ReadsAnything(f) == TRUE

\* loadProviders() returns.
Readable(f) == f # Broken

Unchanged(r) == r = snapshot

\* refreshOnce() up to its first await: beginReconciliation() keeps new executions
\* out while the others end.
RefreshOnce ==
  /\ requested' = FALSE /\ failed' = FALSE
  /\ \/ /\ ~Readable(file)
        /\ pc' = "rejecting" /\ UNCHANGED <<loaded, reconciling>>
     \/ /\ Readable(file) /\ Unchanged(file)
        /\ pc' = "idle" /\ UNCHANGED <<loaded, reconciling>>
     \/ /\ Readable(file) /\ ~Unchanged(file)
        /\ loaded' = file /\ reconciling' = TRUE
        /\ pc' = IF Leases = {} THEN "agent" ELSE "draining"

\* The timer: a refresh under way is followed by another one.
Poll ==
  /\ \/ pc = "idle" /\ RefreshOnce
     \/ pc # "idle" /\ requested' = TRUE /\ UNCHANGED <<pc, loaded, failed, reconciling>>
  /\ UNCHANGED <<file, snapshot, consumers, admissionBlocked, task>>

AllDrained ==
  /\ pc = "draining" /\ Leases = {}
  /\ pc' = "agent"
  /\ UNCHANGED <<file, snapshot, loaded, requested, failed, consumers, admission, task>>

\* Thirty seconds are over: nothing was touched, and the gate opens again.
DrainTimeout ==
  /\ pc = "draining" /\ Leases # {}
  /\ pc' = "rejecting"
  /\ reconciling' = FALSE /\ task' = Called(agent, admissionBlocked)
  /\ UNCHANGED <<file, snapshot, loaded, requested, failed, consumers, admissionBlocked>>

Goes(next) ==
  /\ pc' = next
  /\ UNCHANGED <<file, snapshot, loaded, requested, admission, task>>

\* reloadProviders() restores the circuits, which may fail, and then swaps.
AgentSwaps ==
  /\ pc = "agent" /\ agent' = loaded
  /\ UNCHANGED <<queue, shared, routing, failed>> /\ Goes("queue")
AgentFails ==
  /\ pc = "agent"
  /\ UNCHANGED <<consumers, failed>> /\ Goes("undo agent")

\* Its only error is a duplicate, which the agent manager has found before.
QueueSwaps ==
  /\ pc = "queue" /\ queue' = loaded
  /\ UNCHANGED <<agent, shared, routing, failed>> /\ Goes("shared")

\* endReconciliation()
Opens(r, block) ==
  /\ reconciling' = FALSE /\ admissionBlocked' = block /\ task' = Called(r, block)

\* The table, the states of the agents, and, without another await, the routing.
SharedSwaps ==
  /\ pc = "shared"
  /\ shared' = loaded /\ routing' = loaded
  /\ pc' = "committing" /\ Opens(agent, FALSE)
  /\ UNCHANGED <<file, snapshot, loaded, requested, failed, agent, queue>>
\* The states are not written, or not even the table.
SharedFails ==
  /\ pc = "shared" /\ shared' \in {shared, loaded}
  /\ UNCHANGED <<agent, queue, routing, failed>> /\ Goes("undo agent")

\* The rollback takes the same steps back, all of them whatever fails.
UndoAgent ==
  /\ pc = "undo agent"
  /\ \/ agent' = snapshot /\ UNCHANGED failed
     \/ UNCHANGED agent /\ failed' = TRUE
  /\ UNCHANGED <<queue, shared, routing>> /\ Goes("undo queue")
UndoQueue ==
  /\ pc = "undo queue" /\ queue' = snapshot
  /\ UNCHANGED <<agent, shared, routing, failed>> /\ Goes("undo shared")

\* Mutant: a rollback that failed is not remembered.
NeverBlocks(incomplete) == FALSE

\* provider_runtime_inconsistent
Blocks(incomplete) == incomplete

UndoShared ==
  /\ pc = "undo shared" /\ routing' = snapshot
  /\ \/ shared' = snapshot /\ UNCHANGED failed
     \/ shared' \in {shared, snapshot} /\ failed' = TRUE
  /\ pc' = "rejecting" /\ Opens(agent, Blocks(failed'))
  /\ UNCHANGED <<file, snapshot, loaded, requested, agent, queue>>

\* The roster in hand is hashed again; a key that was derived has changed it.
CommitSnapshot ==
  /\ pc = "committing"
  /\ snapshot' = IF loaded \in Keyed THEN snapshot ELSE loaded
  /\ pc' = IF loaded \in Keyed THEN "rejecting" ELSE "publishing"
  /\ UNCHANGED <<file, loaded, requested, failed, consumers, admission, task>>

\* The events are out: the loop of refresh().
Published ==
  /\ pc = "publishing"
  /\ IF requested THEN RefreshOnce
     ELSE pc' = "idle" /\ UNCHANGED <<loaded, requested, failed, reconciling>>
  /\ UNCHANGED <<file, snapshot, consumers, admissionBlocked, task>>

\* Mutant: a promise that was rejected stays in refreshInFlight.
RejectedForGood ==
  /\ pc = "rejecting"
  /\ UNCHANGED registryVars

\* reload_failed is out, and refresh() throws.
Rejected ==
  /\ pc = "rejecting"
  /\ pc' = "idle"
  /\ UNCHANGED <<file, snapshot, loaded, requested, failed, consumers, admission, task>>

-----------------------------------------------------------------------------
Refreshes ==
  \/ AllDrained \/ DrainTimeout \/ AgentSwaps \/ AgentFails \/ QueueSwaps
  \/ SharedSwaps \/ SharedFails \/ UndoAgent \/ UndoQueue \/ UndoShared
  \/ CommitSnapshot \/ Published \/ Rejected

RegistryNext ==
  \/ Edit \/ Poll \/ Refreshes
  \/ \E t \in Executions : Submit(t) \/ Enter(t) \/ Leave(t)

RegistrySpec == RegistryInit /\ [][RegistryNext]_registryVars

\* The timer ticks, what a refresh awaits settles, and the store behind the
\* circuits and the states answers again and again.
FairRegistrySpec ==
  /\ RegistrySpec
  /\ WF_registryVars(Poll) /\ WF_registryVars(Refreshes)
  /\ SF_registryVars(AgentSwaps) /\ SF_registryVars(SharedSwaps)

-----------------------------------------------------------------------------
(* Properties                                                              *)

RegistryTypeOK ==
  /\ file \in Rosters \cup {Broken}
  /\ {snapshot, loaded, agent, queue, shared, routing} \subseteq Rosters
  /\ pc \in {"idle", "draining", "agent", "queue", "shared", "undo agent", "undo queue",
             "undo shared", "committing", "publishing", "rejecting"}
  /\ {requested, failed, reconciling, admissionBlocked} \subseteq BOOLEAN
  /\ task \in [Executions -> TaskRecords]

\* While an execution holds its lease everybody stays on the roster it was
\* granted on, and on the one its request has named: no edit, failure, partial
\* rollback or timeout of a drain lets two generations of providers meet.
OneGeneration ==
  \A t \in Leases :
    /\ {agent, queue, shared, routing} = {task[t].on}
    /\ task[t].pin \in {None, task[t].on}

\* A refresh that was rejected leaves nobody on what it has tried, or admission
\* is blocked: last-known-good is what runs, not only what is shown.
RejectedIsRolledBack ==
  pc \in {"idle", "draining", "publishing", "rejecting"} =>
    admissionBlocked \/ {agent, queue, shared, routing} = {snapshot}

\* A file that is left alone is committed once nobody holds a lease: with tasks
\* that are longer than the drain one after the other it need not be.
RegistryConverges ==
  \A r \in Rosters : <>[](file = r /\ Leases = {}) => <>[](snapshot = r)

=============================================================================
