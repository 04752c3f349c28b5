-------------------------- MODULE ProviderCircuit --------------------------
(***************************************************************************)
(* The circuit of one provider (security/circuit-breaker-registry.ts), the *)
(* executions and probes of the AgentManager that pass it                  *)
(* (agent/agent-manager.ts), and the admission gate that drains them       *)
(* before the roster is swapped (core/provider-admission-gate.ts).         *)
(*                                                                         *)
(* Circuits of different providers share nothing but the gate.  Time is    *)
(* abstracted to two flags: the cooldown of an open circuit is over, and   *)
(* a half-open circuit is older than HALF_OPEN_TTL_MS.                     *)
(***************************************************************************)
EXTENDS Integers, FiniteSets

CONSTANTS Tasks,             \* executeTask() calls on the provider
          Prober,            \* probeProvider(), one at a time
          FailureThreshold,  \* FAILURE_THRESHOLD
          LearnedThreshold,  \* threshold of a learned failure pattern
          HalfOpenMax,       \* halfOpenMaxAttempts
          MaxRestores,       \* bound: reconciliations and restarts
          MaxLost            \* bound: rows that fail to be written

Runs == Tasks \cup {Prober}

ASSUME RunsAreFinite == IsFiniteSet(Runs) /\ Prober \notin Tasks
ASSUME PolicyIsPositive ==
  /\ FailureThreshold \in Nat \ {0} /\ LearnedThreshold \in Nat \ {0}
  /\ HalfOpenMax \in Nat \ {0} /\ MaxRestores \in Nat /\ MaxLost \in Nat

VARIABLES
  \* ---- the registry
  circuit,   \* CircuitSnapshot
  slots,     \* halfOpenAttempts
  bound,     \* halfOpenProbeSignals, by the run whose signal it is
  aged,      \* the circuit is half-open for longer than its TTL
  stored,    \* the row in circuit_states
  lost,      \* writes of it that failed
  \* ---- the runs
  phase,     \* not admitted, before and after its outcome is recorded
  held,      \* slotHeld
  aborted,   \* the run's signal is aborted
  why,       \* recoveryReason of the probe
  \* ---- the admission gate and the world
  gate,      \* open to acquire(), draining, or swapping the roster
  blocked,   \* blockedReason
  healthy,   \* the provider answers in time, and keeps answering
  restores

registry == <<circuit, slots, bound, aged, stored, lost>>
runs     == <<phase, held, aborted, why>>
world    == <<gate, blocked, healthy, restores>>
vars     == <<registry, runs, world>>

\* "limit" stands for the reasons quota and rate-limit.
Reasons == {"none", "auth", "limit", "generic"}

\* What classifyCircuitError() and classifyProviderErrorEnvelope() tell apart.
Kinds == {"auth", "limit", "quality", "envelope", "learned", "unknown"}

\* Failure counts are only compared with a threshold, and stop at it.
Bump(n) == IF n < FailureThreshold THEN n + 1 ELSE n

Snapshots == [state : {"closed", "half-open", "open"}, count : 0..FailureThreshold,
              cool : {"none", "running", "over"}, reason : Reasons]
Default   == [state |-> "closed", count |-> 0, cool |-> "none", reason |-> "none"]
NoRow     == [state |-> "no row"]

Init ==
  /\ circuit = Default /\ slots = 0 /\ bound = {} /\ aged = FALSE /\ stored = NoRow /\ lost = 0
  /\ phase = [r \in Runs |-> "idle"] /\ held = {} /\ aborted = {} /\ why = "none"
  /\ gate = "open" /\ blocked = FALSE /\ healthy = FALSE /\ restores = 0

-----------------------------------------------------------------------------
(* The registry                                                            *)

\* persist(): a write that fails is logged and forgotten.
Persist(c) ==
  \/ stored' = c /\ UNCHANGED lost
  \/ lost < MaxLost /\ lost' = lost + 1 /\ UNCHANGED stored

\* commit(): slots survive only from one half-open state to the next.
Commit(c, s, b) ==
  /\ circuit' = c /\ aged' = FALSE
  /\ slots' = IF c.state = "half-open" THEN s ELSE 0
  /\ bound' = IF c.state = "half-open" THEN b ELSE {}
  /\ Persist(c)

CooldownExpired ==
  circuit.state = "open" /\ circuit.reason # "auth" /\ circuit.cool = "over"
AbandonedProbe ==
  circuit.state = "half-open" /\ aged /\ bound \subseteq aborted

HalfOpen == [circuit EXCEPT !.state = "half-open", !.count = 0]

\* recoverIfExpired(), which every reader of the circuit begins with.
Recoverable == CooldownExpired \/ AbandonedProbe
Recover     == Recoverable /\ Commit(HalfOpen, 0, {})

Observed    == Recover \/ (~Recoverable /\ UNCHANGED registry)
Current     == IF Recoverable THEN HalfOpen ELSE circuit

\* canExecute() in a half-open circuit, then bindProbeSlot() in the same turn.
TakeSlot(r) ==
  /\ Current.state = "half-open"
  /\ \/ /\ Recoverable
        /\ Commit(HalfOpen, 1, {r})
     \/ /\ ~Recoverable /\ slots < HalfOpenMax
        /\ slots' = slots + 1 /\ bound' = bound \cup {r}
        /\ UNCHANGED <<circuit, aged, stored, lost>>
  /\ held' = held \cup {r}

\* Mutant: the counter is left alone.
ReleaseSignalOnly(r) == bound' = bound \ {r} /\ UNCHANGED slots

\* releaseProbeSlot(agentId, signal): the signal is the run's own, the counter is not.
ReleaseSlot(r) ==
  /\ bound' = bound \ {r}
  /\ slots' = IF slots > 0 THEN slots - 1 ELSE 0

\* recordSuccess()
RecordSuccess ==
  IF circuit.state = "closed" /\ circuit.count = 0
  THEN UNCHANGED registry
  ELSE Commit(Default, 0, {})

\* openSnapshot(): a reset time the provider names may lie in the past.
Opened(reason, count) ==
  {[state |-> "open", count |-> count, cool |-> c, reason |-> reason] :
     c \in IF reason = "auth" THEN {"none"}
           ELSE IF reason = "limit" THEN {"running", "over"} ELSE {"running"}}

Threshold(kind) ==
  IF kind = "learned" /\ LearnedThreshold < FailureThreshold
  THEN LearnedThreshold ELSE FailureThreshold

\* The snapshots recordFailure() may commit.
AfterFailure(kind) ==
  LET more == Bump(circuit.count) IN
  CASE kind = "auth"     -> Opened("auth", more)
    [] kind = "limit"    -> Opened("limit", circuit.count)
    [] kind = "quality"  -> Opened("generic", circuit.count)
    [] kind = "envelope" -> Opened("generic", more)
    [] OTHER ->
       IF circuit.state = "half-open" THEN Opened("generic", 1)
       ELSE IF circuit.count + 1 >= Threshold(kind) THEN Opened("generic", more)
       ELSE {[state |-> "closed", count |-> more, cool |-> "none", reason |-> "generic"]}

RecordFailure(kind) == \E c \in AfterFailure(kind) : Commit(c, 0, {})

\* reset(), of an operator.
Reset == Commit(Default, 0, {}) /\ UNCHANGED <<runs, world>>

-----------------------------------------------------------------------------
(* executeTask() and probeProvider()                                       *)

Leased == {r \in Runs : phase[r] \in {"running", "settling"}}
Step(r, p) == phase' = [phase EXCEPT ![r] = p]

\* acquire() goes through.
Admits == gate = "open" /\ ~blocked

AdmitTask(t) ==
  /\ phase[t] = "idle" /\ Admits
  /\ \/ Current.state = "closed" /\ UNCHANGED <<registry, held>>
     \/ TakeSlot(t)
  /\ Step(t, "running")
  /\ UNCHANGED <<aborted, why, world>>

\* Mutant: only open circuits are probed.
ChooseOpenOnly ==
  /\ phase[Prober] = "idle"
  /\ circuit.state = "open" /\ ~Recoverable /\ circuit.reason # "auth"
  /\ Step(Prober, "chosen")
  /\ UNCHANGED <<registry, held, aborted, why, world>>

\* healthCheck() and ProviderProber.runCycle() read the circuit and choose it.  The
\* native CLI, which supportsCliRecoveryProbe() leaves out, is not modelled here.
ChooseProbe ==
  /\ phase[Prober] = "idle"
  /\ Current.state # "closed" /\ Current.reason # "auth"
  /\ Observed
  /\ Step(Prober, "chosen")
  /\ UNCHANGED <<held, aborted, why, world>>

\* The circuit may have changed since: an open or closed one is probed without a slot.
AdmitProbe ==
  /\ phase[Prober] = "chosen" /\ Admits
  /\ \/ Current.state # "half-open" /\ UNCHANGED <<registry, held>>
     \/ TakeSlot(Prober)
  /\ Step(Prober, "running") /\ why' = Current.reason
  /\ UNCHANGED <<aborted, world>>

\* No lease before the timeout, or no slot.
DropProbe ==
  /\ phase[Prober] = "chosen"
  /\ \/ ~Admits
     \/ Current.state = "half-open" /\ ~Recoverable /\ slots >= HalfOpenMax
  /\ Step(Prober, "idle")
  /\ UNCHANGED <<registry, held, aborted, why, world>>

\* throwIfAborted() stands before the outcome.
Succeed(r) ==
  /\ phase[r] = "running" /\ r \notin aborted /\ RecordSuccess
  /\ Step(r, "settling")
  /\ UNCHANGED <<held, aborted, why, world>>

\* recordProviderProbeFailure() repeats the reason the probe found.
KindsOf(r) ==
  IF r \in Tasks THEN Kinds
  ELSE CASE why = "auth"  -> {"auth"}
         [] why = "limit" -> {"auth", "limit"}
         [] OTHER         -> Kinds \ {"envelope"}

Fail(r) ==
  /\ phase[r] = "running" /\ (healthy => r \in aborted)
  /\ \E kind \in KindsOf(r) : RecordFailure(kind)
  /\ Step(r, "settling")
  /\ UNCHANGED <<held, aborted, why, world>>

\* isNonCircuitCancellation(): says nothing about the provider.
CancelRun(t) ==
  /\ phase[t] = "running" /\ Step(t, "settling")
  /\ UNCHANGED <<registry, held, aborted, why, world>>

\* The finally block, after whatever the run awaits behind its outcome.
Finish(r) ==
  /\ phase[r] = "settling"
  /\ IF r \in held THEN ReleaseSlot(r) ELSE UNCHANGED <<slots, bound>>
  /\ Step(r, "idle")
  /\ held' = held \ {r} /\ aborted' = aborted \ {r}
  /\ why' = IF r = Prober THEN "none" ELSE why
  /\ UNCHANGED <<circuit, aged, stored, lost, world>>

\* The wall clock of the run, or its caller: a probe that is answered is not late.
SignalAborts(r) ==
  /\ r \in Leased \ aborted /\ aborted' = aborted \cup {r}
  /\ r = Prober /\ healthy => phase[r] = "settling"
  /\ UNCHANGED <<registry, phase, held, why, world>>

\* healthCheckApiProvider(): a failing GET counts against the circuit, a good one does not.
HealthCheckFails ==
  /\ gate # "swapping" /\ ~blocked /\ ~healthy
  /\ \E kind \in Kinds \ {"envelope"} : RecordFailure(kind)
  /\ UNCHANGED <<runs, world>>

-----------------------------------------------------------------------------
(* The admission gate and the roster                                       *)

BeginReconciliation ==
  /\ gate = "open" /\ restores < MaxRestores
  /\ gate' = "draining" /\ restores' = restores + 1
  /\ UNCHANGED <<registry, runs, blocked, healthy>>

Drained ==
  /\ gate = "draining" /\ Leased = {} /\ gate' = "swapping"
  /\ UNCHANGED <<registry, runs, blocked, healthy, restores>>

DrainTimesOut ==
  /\ gate = "draining" /\ Leased # {} /\ gate' = "open"
  /\ UNCHANGED <<registry, runs, blocked, healthy, restores>>

\* The times in a row are absolute, and may have passed.
Restored ==
  IF stored.cool = "running"
  THEN {stored, [stored EXCEPT !.cool = "over"]} ELSE {stored}

\* reloadProviders(): restore() overwrites the circuit with its row.
Restore ==
  /\ gate = "swapping" /\ stored # NoRow
  /\ circuit' \in Restored /\ aged' \in {FALSE, circuit'.state = "half-open"}
  /\ UNCHANGED <<slots, bound, stored, lost, runs, world>>

\* A rollback that fails as well leaves the gate blocked.
EndReconciliation ==
  /\ gate = "swapping" /\ gate' = "open" /\ blocked' \in BOOLEAN
  /\ UNCHANGED <<registry, runs, healthy, restores>>

Crash ==
  /\ restores < MaxRestores /\ restores' = restores + 1
  /\ IF stored = NoRow THEN circuit' = Default ELSE circuit' \in Restored
  /\ aged' \in {FALSE, circuit'.state = "half-open"}
  /\ slots' = 0 /\ bound' = {}
  /\ phase' = [r \in Runs |-> "idle"] /\ held' = {} /\ aborted' = {} /\ why' = "none"
  /\ gate' = "open" /\ blocked' = FALSE
  /\ UNCHANGED <<stored, lost, healthy>>

-----------------------------------------------------------------------------
(* Time, and the provider                                                  *)

CooldownPasses ==
  /\ circuit.state = "open" /\ circuit.cool = "running"
  /\ circuit' = [circuit EXCEPT !.cool = "over"]
  /\ UNCHANGED <<slots, bound, aged, stored, lost, runs, world>>

HalfOpenAges ==
  /\ circuit.state = "half-open" /\ ~aged /\ aged' = TRUE
  /\ UNCHANGED <<circuit, slots, bound, stored, lost, runs, world>>

ProviderHeals ==
  /\ ~healthy /\ healthy' = TRUE
  /\ UNCHANGED <<registry, runs, gate, blocked, restores>>

Observe == Recover /\ UNCHANGED <<runs, world>>

Next ==
  \/ \E t \in Tasks : AdmitTask(t) \/ CancelRun(t)
  \/ ChooseProbe \/ AdmitProbe \/ DropProbe
  \/ \E r \in Runs : Succeed(r) \/ Fail(r) \/ Finish(r) \/ SignalAborts(r)
  \/ HealthCheckFails \/ Reset \/ Observe
  \/ BeginReconciliation \/ Drained \/ DrainTimesOut \/ Restore \/ EndReconciliation
  \/ Crash \/ CooldownPasses \/ HalfOpenAges \/ ProviderHeals

Spec == Init /\ [][Next]_vars

\* Timers fire, the runs of a live process end within their signal, the health
\* check looks again every 30 s, and work on a provider that answers is not
\* cancelled every time.
Fairness ==
  /\ WF_vars(CooldownPasses) /\ WF_vars(HalfOpenAges)
  /\ \A r \in Runs : WF_vars(Finish(r)) /\ WF_vars(SignalAborts(r))
  /\ \A t \in Tasks : /\ WF_vars(Succeed(t) \/ Fail(t) \/ CancelRun(t))
                      /\ SF_vars(Succeed(t))
  /\ WF_vars(Succeed(Prober) \/ Fail(Prober))
  /\ WF_vars(Drained \/ DrainTimesOut) /\ WF_vars(EndReconciliation)
  /\ WF_vars(ChooseProbe) /\ WF_vars(AdmitProbe)

FairSpec == Spec /\ Fairness

-----------------------------------------------------------------------------
(* Properties                                                              *)

\* The types of the state.
TypeOK ==
  /\ circuit \in Snapshots /\ stored \in Snapshots \cup {NoRow}
  /\ slots \in 0..HalfOpenMax /\ bound \subseteq Runs /\ aged \in BOOLEAN
  /\ phase \in [Runs -> {"idle", "chosen", "running", "settling"}]
  /\ held \subseteq Runs /\ aborted \subseteq Runs /\ why \in Reasons
  /\ gate \in {"open", "draining", "swapping"} /\ blocked \in BOOLEAN
  /\ healthy \in BOOLEAN /\ restores \in 0..MaxRestores /\ lost \in 0..MaxLost

\* A probe slot cannot leak: through reclaims, resets, late releases and restored
\* rows, every slot in use belongs to a run that will still give one back, and
\* outside of the half-open state there are none.
SlotsAreHeld ==
  /\ slots <= Cardinality(held) /\ bound \subseteq held /\ held \subseteq Leased
  /\ circuit.state # "half-open" => slots = 0 /\ bound = {}

\* The roster is swapped, and the circuit read back from its row, only when no
\* execution and no probe is under way.
SwapIsAlone == gate = "swapping" => Leased = {}

\* A provider that answers again gets its circuit closed, whatever state the
\* failures, the runs and the restarts left it in, unless its key is bad or the
\* gate is blocked.
CircuitRecovers ==
  (healthy /\ circuit.state # "closed")
    ~> (circuit.state = "closed" \/ blocked \/ circuit.reason = "auth")
=============================================================================
