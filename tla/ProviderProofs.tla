--------------------------- MODULE ProviderProofs ---------------------------
(* The circuit (ProviderCircuit), for any executions, thresholds and number  *)
(* of probe slots: it is well typed, a probe slot never leaks, and the       *)
(* roster is swapped alone.  The three support each other: a restored row    *)
(* may bring any state, and leaves no stray slot because nobody is admitted  *)
(* during the swap, and the slots of nobody are none.                        *)
(* Below it the roster (ProviderRegistry).                                   *)
EXTENDS ProviderCircuit, ProviderRegistry, FiniteSetTheorems, TLAPS

\* The inductive invariant.
IInv == TypeOK /\ SlotsAreHeld /\ SwapIsAlone

\* Sets of runs are finite, so that they can be counted.
LEMMA HeldIsFinite ==
  ASSUME TypeOK PROVE IsFiniteSet(held) /\ Cardinality(held) \in Nat
BY RunsAreFinite, FS_Subset, FS_CardinalityType DEF TypeOK

\* What recordFailure() commits is a snapshot, and never a half-open one.
LEMMA FailuresAreSnapshots ==
  ASSUME TypeOK, NEW kind \in Kinds, NEW c \in AfterFailure(kind)
  PROVE  c \in Snapshots /\ c.state # "half-open"
<1>1. /\ circuit.count \in 0..FailureThreshold /\ FailureThreshold \in Nat \ {0}
      /\ Bump(circuit.count) \in 0..FailureThreshold
  BY PolicyIsPositive DEF TypeOK, Snapshots, Bump
<1>2. ASSUME NEW reason \in {"auth", "limit", "generic"}, NEW n \in 0..FailureThreshold,
             NEW d \in Opened(reason, n)
      PROVE  d \in Snapshots /\ d.state = "open"
  BY DEF Opened, Snapshots, Reasons
<1>3. 1 \in 0..FailureThreshold
  BY <1>1
<1>4. [state |-> "closed", count |-> Bump(circuit.count), cool |-> "none",
       reason |-> "generic"] \in Snapshots
  BY <1>1 DEF Snapshots, Reasons
<1>5. CASE kind \in {"auth", "limit", "quality", "envelope"}
  <2>1. CASE kind = "auth"     BY <1>1, <1>2, <2>1 DEF AfterFailure
  <2>2. CASE kind = "limit"    BY <1>1, <1>2, <2>2 DEF AfterFailure
  <2>3. CASE kind = "quality"  BY <1>1, <1>2, <2>3 DEF AfterFailure
  <2>4. CASE kind = "envelope" BY <1>1, <1>2, <2>4 DEF AfterFailure
  <2> QED BY <1>5, <2>1, <2>2, <2>3, <2>4
<1>6. CASE kind \in {"learned", "unknown"}
  <2>1. \/ c \in Opened("generic", 1)
        \/ c \in Opened("generic", Bump(circuit.count))
        \/ c = [state |-> "closed", count |-> Bump(circuit.count), cool |-> "none",
                reason |-> "generic"]
    BY <1>6 DEF AfterFailure
  <2> QED BY <1>1, <1>2, <1>3, <1>4, <2>1
<1> QED BY <1>5, <1>6 DEF Kinds

\* A row that is written, and one that is not.
LEMMA PersistIsTyped ==
  ASSUME TypeOK, NEW c \in Snapshots, Persist(c)
  PROVE  stored' \in Snapshots \cup {NoRow} /\ lost' \in 0..MaxLost
<1>1. lost \in 0..MaxLost /\ MaxLost \in Nat /\ stored \in Snapshots \cup {NoRow}
  BY PolicyIsPositive DEF TypeOK
<1>2. CASE stored' = c /\ UNCHANGED lost
  BY <1>1, <1>2
<1>3. CASE lost < MaxLost /\ lost' = lost + 1 /\ UNCHANGED stored
  BY <1>1, <1>3
<1> QED BY <1>2, <1>3 DEF Persist

\* commit() of a state that is not half-open takes every slot away.
LEMMA CommitClears ==
  ASSUME IInv, NEW c \in Snapshots, c.state # "half-open", Commit(c, 0, {})
  PROVE  /\ circuit' \in Snapshots /\ stored' \in Snapshots \cup {NoRow}
         /\ aged' \in BOOLEAN /\ lost' \in 0..MaxLost
         /\ slots' = 0 /\ bound' = {}
<1>1. stored' \in Snapshots \cup {NoRow} /\ lost' \in 0..MaxLost
  BY PersistIsTyped DEF IInv, Commit
<1>2. circuit' = c /\ aged' = FALSE /\ slots' = 0 /\ bound' = {}
  BY DEF Commit
<1> QED BY <1>1, <1>2

\* recoverIfExpired() commits a snapshot.
LEMMA HalfOpenIsSnapshot ==
  ASSUME TypeOK PROVE HalfOpen \in Snapshots /\ HalfOpen.state = "half-open"
<1>1. circuit \in Snapshots /\ 0 \in 0..FailureThreshold
  BY PolicyIsPositive DEF TypeOK
<1> QED BY <1>1 DEF HalfOpen, Snapshots

\* recoverIfExpired() leaves a half-open circuit without slots.
LEMMA RecoverClears ==
  ASSUME IInv, Recover
  PROVE  /\ circuit' \in Snapshots /\ stored' \in Snapshots \cup {NoRow}
         /\ aged' \in BOOLEAN /\ lost' \in 0..MaxLost
         /\ slots' = 0 /\ bound' = {}
<1>1. HalfOpen \in Snapshots
  BY HalfOpenIsSnapshot DEF IInv
<1>2. Commit(HalfOpen, 0, {})
  BY DEF Recover
<1>3. stored' \in Snapshots \cup {NoRow} /\ lost' \in 0..MaxLost
  BY <1>1, <1>2, PersistIsTyped DEF IInv, Commit
<1>4. circuit' = HalfOpen /\ aged' = FALSE /\ slots' = 0 /\ bound' = {}
  BY <1>2 DEF Commit
<1> QED BY <1>1, <1>3, <1>4

\* A step that clears the registry and leaves holders and leases keeps IInv.
LEMMA ClearedIsSafe ==
  ASSUME IInv,
         circuit' \in Snapshots, stored' \in Snapshots \cup {NoRow},
         aged' \in BOOLEAN, lost' \in 0..MaxLost, slots' = 0, bound' = {},
         held' = held, aborted' \subseteq Runs, why' \in Reasons,
         phase' \in [Runs -> {"idle", "chosen", "running", "settling"}],
         Leased' = Leased, UNCHANGED world
  PROVE  IInv'
<1>1. Cardinality(held) \in Nat
  BY HeldIsFinite DEF IInv
<1>2. TypeOK'
  BY PolicyIsPositive DEF IInv, TypeOK, world
<1>3. SlotsAreHeld'
  BY <1>1 DEF IInv, SlotsAreHeld
<1>4. SwapIsAlone'
  BY DEF IInv, SwapIsAlone, world
<1> QED BY <1>2, <1>3, <1>4 DEF IInv

\* A step that leaves the registry and the holders keeps IInv as well, if a swap
\* that goes on or begins finds nobody leased and no holder loses its lease.
LEMMA UntouchedIsSafe ==
  ASSUME IInv, UNCHANGED <<registry, held>>,
         aborted' \subseteq Runs, why' \in Reasons,
         phase' \in [Runs -> {"idle", "chosen", "running", "settling"}],
         held \subseteq Leased', gate' = "swapping" => Leased' = {},
         gate' \in {"open", "draining", "swapping"}, blocked' \in BOOLEAN,
         healthy' \in BOOLEAN, restores' \in 0..MaxRestores
  PROVE  IInv'
BY DEF IInv, TypeOK, SlotsAreHeld, SwapIsAlone, registry

\* canExecute() counts the new holder, who did not hold a slot before.
LEMMA TakenSlotIsHeld ==
  ASSUME IInv, NEW r \in Runs, phase[r] \in {"idle", "chosen"}, gate = "open",
         TakeSlot(r), Step(r, "running"), aborted' = aborted, why' \in Reasons,
         UNCHANGED world
  PROVE  IInv'
<1>1. /\ IsFiniteSet(held) /\ Cardinality(held) \in Nat
      /\ r \notin held /\ held \subseteq Runs
  BY HeldIsFinite DEF IInv, TypeOK, SlotsAreHeld, Leased
<1>2. Cardinality(held') = Cardinality(held) + 1
  BY <1>1, FS_AddElement DEF TakeSlot
<1>3. HalfOpen \in Snapshots /\ HalfOpen.state = "half-open"
  BY HalfOpenIsSnapshot DEF IInv
<1>4. /\ phase' \in [Runs -> {"idle", "chosen", "running", "settling"}]
      /\ held' = held \cup {r} /\ held' \subseteq Leased'
  BY DEF IInv, TypeOK, SlotsAreHeld, Leased, TakeSlot, Step
<1>5. /\ circuit' \in Snapshots /\ stored' \in Snapshots \cup {NoRow}
      /\ aged' \in BOOLEAN /\ lost' \in 0..MaxLost
      /\ circuit'.state = "half-open"
      /\ slots' \in 0..HalfOpenMax /\ slots' <= Cardinality(held) + 1
      /\ bound' \subseteq held'
  <2>1. CASE Recoverable
    <3>1. Commit(HalfOpen, 1, {r})
      BY <2>1 DEF TakeSlot
    <3>2. stored' \in Snapshots \cup {NoRow} /\ lost' \in 0..MaxLost
      BY <1>3, <3>1, PersistIsTyped DEF IInv, Commit
    <3>3. circuit' = HalfOpen /\ aged' = FALSE /\ slots' = 1 /\ bound' = {r}
      BY <1>3, <3>1 DEF Commit
    <3>4. 1 \in 0..HalfOpenMax /\ 1 <= Cardinality(held) + 1
      BY <1>1, PolicyIsPositive
    <3> QED BY <1>3, <1>4, <3>2, <3>3, <3>4
  <2>2. CASE ~Recoverable
    BY <1>1, <1>4, <2>2, PolicyIsPositive DEF IInv, TypeOK, SlotsAreHeld, TakeSlot, Current
  <2> QED BY <2>1, <2>2
<1>6. TypeOK'
  BY <1>1, <1>4, <1>5 DEF IInv, TypeOK, world
<1>7. SlotsAreHeld'
  BY <1>2, <1>4, <1>5 DEF SlotsAreHeld
<1>8. SwapIsAlone'
  BY DEF SwapIsAlone, world
<1> QED BY <1>6, <1>7, <1>8 DEF IInv

\* The finally block returns at most the slot of its own run.
LEMMA ReturnedSlotWasHeld ==
  ASSUME IInv, NEW r \in Runs, Finish(r)
  PROVE  IInv'
<1>1. /\ IsFiniteSet(held) /\ Cardinality(held) \in Nat /\ slots \in 0..HalfOpenMax
      /\ HalfOpenMax \in Nat /\ slots <= Cardinality(held)
  BY HeldIsFinite, PolicyIsPositive DEF IInv, TypeOK, SlotsAreHeld
<1>2. /\ phase' \in [Runs -> {"idle", "chosen", "running", "settling"}]
      /\ held' = held \ {r} /\ Leased' = Leased \ {r}
      /\ UNCHANGED <<circuit, aged, stored, lost, world>>
      /\ aborted' = aborted \ {r} /\ why' \in Reasons
  BY DEF IInv, TypeOK, Finish, Step, Leased, Reasons
<1>3. /\ bound' \subseteq bound /\ bound' \subseteq held'
      /\ slots' \in 0..HalfOpenMax /\ slots' <= Cardinality(held')
      /\ slots' <= slots
  <2>1. CASE r \in held
    <3>1. Cardinality(held') = Cardinality(held) - 1
      BY <1>1, <1>2, <2>1, FS_RemoveElement
    <3>2. bound' = bound \ {r} /\ slots' = IF slots > 0 THEN slots - 1 ELSE 0
      BY <2>1 DEF Finish, ReleaseSlot
    <3>3. Cardinality(held) # 0
      BY <1>1, <2>1, FS_EmptySet
    <3> QED BY <1>1, <1>2, <3>1, <3>2, <3>3 DEF IInv, SlotsAreHeld
  <2>2. CASE r \notin held
    BY <1>1, <1>2, <2>2 DEF IInv, SlotsAreHeld, Finish
  <2> QED BY <2>1, <2>2
<1>4. TypeOK'
  BY <1>2, <1>3 DEF IInv, TypeOK, world
<1>5. SlotsAreHeld'
  BY <1>1, <1>2, <1>3 DEF IInv, SlotsAreHeld
<1>6. SwapIsAlone'
  BY <1>2 DEF IInv, SwapIsAlone, world
<1> QED BY <1>4, <1>5, <1>6 DEF IInv

LEMMA RowsAreSnapshots ==
  ASSUME TypeOK, stored # NoRow, NEW c \in Restored
  PROVE  c \in Snapshots
BY DEF TypeOK, Restored, Snapshots

LEMMA InitIsSafe == Init => IInv
<1> SUFFICES ASSUME Init PROVE IInv
  OBVIOUS
<1>1. Default \in Snapshots /\ "none" \in Reasons
  BY PolicyIsPositive DEF Default, Snapshots, Reasons
<1>2. Cardinality({}) = 0
  BY FS_EmptySet
<1>3. Leased = {}
  BY DEF Init, Leased
<1>4. 0 \in 0..MaxLost /\ 0 \in 0..HalfOpenMax /\ 0 \in 0..MaxRestores
  BY PolicyIsPositive
<1>5. TypeOK
  BY <1>1, <1>4 DEF Init, TypeOK
<1>6. SlotsAreHeld /\ SwapIsAlone
  BY <1>2, <1>3 DEF Init, SlotsAreHeld, SwapIsAlone
<1> QED BY <1>5, <1>6 DEF IInv

\* Every step keeps the invariant.
LEMMA StepIsSafe ==
  ASSUME IInv, [Next]_vars PROVE IInv'
<1> USE DEF IInv
<1>0. /\ Default \in Snapshots /\ Default.state = "closed"
      /\ 0 \in 0..MaxLost /\ 0 \in 0..HalfOpenMax
  BY PolicyIsPositive DEF Default, Snapshots, Reasons
<1>1. ASSUME NEW t \in Tasks, AdmitTask(t) PROVE IInv'
  <2>1. t \in Runs /\ why' \in Reasons
    BY <1>1 DEF Runs, AdmitTask, TypeOK
  <2>2. CASE TakeSlot(t)
    BY <1>1, <2>1, <2>2, TakenSlotIsHeld DEF AdmitTask, Admits
  <2>3. CASE UNCHANGED <<registry, held>>
    <3>1. /\ phase' \in [Runs -> {"idle", "chosen", "running", "settling"}]
          /\ Leased \subseteq Leased' /\ gate' = "open"
      BY <1>1, <2>1 DEF TypeOK, AdmitTask, Admits, Step, Leased, world
    <3> QED BY <1>1, <2>1, <2>3, <3>1, UntouchedIsSafe
            DEF TypeOK, SlotsAreHeld, AdmitTask, world
  <2> QED BY <1>1, <2>2, <2>3 DEF AdmitTask
<1>2. ASSUME NEW t \in Tasks, CancelRun(t) PROVE IInv'
  <2>1. /\ phase' \in [Runs -> {"idle", "chosen", "running", "settling"}]
        /\ Leased' = Leased
    BY <1>2 DEF TypeOK, CancelRun, Step, Leased, Runs
  <2> QED BY <1>2, <2>1, UntouchedIsSafe
          DEF TypeOK, SlotsAreHeld, SwapIsAlone, CancelRun, world
<1>3. CASE ChooseProbe
  <2>1. /\ phase' \in [Runs -> {"idle", "chosen", "running", "settling"}]
        /\ Leased' = Leased
    BY <1>3 DEF TypeOK, ChooseProbe, Step, Leased
  <2>2. CASE Recover
    BY <1>3, <2>1, <2>2, RecoverClears, ClearedIsSafe DEF TypeOK, ChooseProbe
  <2>3. CASE UNCHANGED registry
    BY <1>3, <2>1, <2>3, UntouchedIsSafe
    DEF TypeOK, SlotsAreHeld, SwapIsAlone, ChooseProbe, world
  <2> QED BY <1>3, <2>2, <2>3 DEF ChooseProbe, Observed
<1>4. CASE AdmitProbe
  <2>1. /\ Prober \in Runs /\ why' \in Reasons
    BY <1>4 DEF Runs, AdmitProbe, Current, HalfOpen, TypeOK, Snapshots
  <2>2. CASE TakeSlot(Prober)
    BY <1>4, <2>1, <2>2, TakenSlotIsHeld DEF AdmitProbe, Admits
  <2>3. CASE UNCHANGED <<registry, held>>
    <3>1. /\ phase' \in [Runs -> {"idle", "chosen", "running", "settling"}]
          /\ Leased \subseteq Leased' /\ gate' = "open"
      BY <1>4, <2>1 DEF TypeOK, AdmitProbe, Admits, Step, Leased, world
    <3> QED BY <1>4, <2>1, <2>3, <3>1, UntouchedIsSafe
            DEF TypeOK, SlotsAreHeld, AdmitProbe, world
  <2> QED BY <1>4, <2>2, <2>3 DEF AdmitProbe
<1>5. CASE DropProbe
  <2>1. /\ phase' \in [Runs -> {"idle", "chosen", "running", "settling"}]
        /\ Leased' = Leased
    BY <1>5 DEF TypeOK, DropProbe, Step, Leased
  <2> QED BY <1>5, <2>1, UntouchedIsSafe
          DEF TypeOK, SlotsAreHeld, SwapIsAlone, DropProbe, world
<1>6. ASSUME NEW r \in Runs, Succeed(r) PROVE IInv'
  <2>1. /\ phase' \in [Runs -> {"idle", "chosen", "running", "settling"}]
        /\ Leased' = Leased
    BY <1>6 DEF TypeOK, Succeed, Step, Leased
  <2>2. CASE UNCHANGED registry
    BY <1>6, <2>1, <2>2, UntouchedIsSafe
    DEF TypeOK, SlotsAreHeld, SwapIsAlone, Succeed, world
  <2>3. CASE Commit(Default, 0, {})
    BY <1>0, <1>6, <2>1, <2>3, CommitClears, ClearedIsSafe DEF TypeOK, Succeed
  <2> QED BY <1>6, <2>2, <2>3 DEF Succeed, RecordSuccess
<1>7. ASSUME NEW r \in Runs, Fail(r) PROVE IInv'
  <2>1. /\ phase' \in [Runs -> {"idle", "chosen", "running", "settling"}]
        /\ Leased' = Leased
    BY <1>7 DEF TypeOK, Fail, Step, Leased
  <2>2. PICK kind \in Kinds : RecordFailure(kind)
    BY <1>7 DEF Fail, KindsOf, Kinds
  <2>3. PICK c \in AfterFailure(kind) : Commit(c, 0, {})
    BY <2>2 DEF RecordFailure
  <2> QED BY <1>7, <2>1, <2>3, FailuresAreSnapshots, CommitClears, ClearedIsSafe
          DEF TypeOK, Fail
<1>8. ASSUME NEW r \in Runs, Finish(r) PROVE IInv'
  BY <1>8, ReturnedSlotWasHeld
<1>9. ASSUME NEW r \in Runs, SignalAborts(r) PROVE IInv'
  <2>1. Leased' = Leased /\ aborted' \subseteq Runs
    BY <1>9 DEF TypeOK, SignalAborts, Leased
  <2> QED BY <1>9, <2>1, UntouchedIsSafe
          DEF TypeOK, SlotsAreHeld, SwapIsAlone, SignalAborts, world
<1>10. CASE HealthCheckFails
  <2>1. PICK kind \in Kinds : RecordFailure(kind)
    BY <1>10 DEF HealthCheckFails, Kinds
  <2>2. PICK c \in AfterFailure(kind) : Commit(c, 0, {})
    BY <2>1 DEF RecordFailure
  <2>3. Leased' = Leased
    BY <1>10 DEF HealthCheckFails, runs, Leased
  <2> QED BY <1>10, <2>2, <2>3, FailuresAreSnapshots, CommitClears, ClearedIsSafe
          DEF TypeOK, HealthCheckFails, runs
<1>11. CASE Reset
  <2>1. Leased' = Leased
    BY <1>11 DEF Reset, runs, Leased
  <2> QED BY <1>0, <1>11, <2>1, CommitClears, ClearedIsSafe DEF TypeOK, Reset, runs
<1>12. CASE Observe
  <2>1. Leased' = Leased
    BY <1>12 DEF Observe, runs, Leased
  <2> QED BY <1>12, <2>1, RecoverClears, ClearedIsSafe DEF TypeOK, Observe, runs
<1>13. CASE \/ BeginReconciliation \/ Drained \/ DrainTimesOut
            \/ EndReconciliation \/ ProviderHeals
  <2>1. Leased' = Leased /\ UNCHANGED <<registry, runs>>
    BY <1>13 DEF BeginReconciliation, Drained, DrainTimesOut, EndReconciliation,
                 ProviderHeals, runs, Leased
  <2>2. /\ gate' = "swapping" => Leased = {}
        /\ gate' \in {"open", "draining", "swapping"} /\ blocked' \in BOOLEAN
    BY <1>13
    DEF TypeOK, SwapIsAlone, BeginReconciliation, Drained, DrainTimesOut,
        EndReconciliation, ProviderHeals
  <2>3. healthy' \in BOOLEAN
    BY <1>13 DEF TypeOK, BeginReconciliation, Drained, DrainTimesOut, EndReconciliation,
                 ProviderHeals
  <2>4. restores' \in 0..MaxRestores
    <3>1. \/ restores' = restores \/ (restores < MaxRestores /\ restores' = restores + 1)
      BY <1>13 DEF BeginReconciliation, Drained, DrainTimesOut, EndReconciliation,
                   ProviderHeals
    <3> QED BY <3>1, PolicyIsPositive DEF TypeOK
  <2> QED BY <2>1, <2>2, <2>3, <2>4, UntouchedIsSafe DEF TypeOK, SlotsAreHeld, runs
<1>14. CASE Restore
  <2>1. Leased = {} /\ held = {} /\ slots = 0 /\ bound = {}
    BY <1>14, FS_EmptySet, PolicyIsPositive DEF Restore, SwapIsAlone, SlotsAreHeld, TypeOK
  <2>2. circuit' \in Snapshots /\ aged' \in BOOLEAN
    BY <1>14, RowsAreSnapshots DEF Restore
  <2>3. Leased' = Leased
    BY <1>14 DEF Restore, runs, Leased
  <2> QED BY <1>14, <2>1, <2>2, <2>3, ClearedIsSafe DEF TypeOK, Restore, runs
<1>15. CASE Crash
  <2>1. circuit' \in Snapshots /\ aged' \in BOOLEAN
    BY <1>0, <1>15, RowsAreSnapshots DEF Crash
  <2>2. Leased' = {}
    BY <1>15 DEF Crash, Leased
  <2>3. restores' \in 0..MaxRestores
    BY <1>15, PolicyIsPositive DEF Crash, TypeOK
  <2>4. TypeOK'
    BY <1>0, <1>15, <2>1, <2>3 DEF TypeOK, Crash, Reasons
  <2>5. SlotsAreHeld' /\ SwapIsAlone'
    BY <1>15, <2>2, FS_EmptySet DEF Crash, SlotsAreHeld, SwapIsAlone
  <2> QED BY <2>4, <2>5
<1>16. CASE CooldownPasses
  <2>1. Leased' = Leased /\ circuit' \in Snapshots
    BY <1>16 DEF CooldownPasses, runs, Leased, TypeOK, Snapshots
  <2>2. slots = 0 /\ bound = {}
    BY <1>16 DEF CooldownPasses, SlotsAreHeld
  <2> QED BY <1>16, <2>1, <2>2, ClearedIsSafe DEF TypeOK, CooldownPasses, runs
<1>17. CASE HalfOpenAges
  BY <1>17 DEF HalfOpenAges, TypeOK, SlotsAreHeld, SwapIsAlone, Leased, runs, world
<1>18. CASE UNCHANGED vars
  BY <1>18 DEF vars, registry, runs, world, TypeOK, SlotsAreHeld, SwapIsAlone, Leased
<1> QED
  BY <1>1, <1>2, <1>3, <1>4, <1>5, <1>6, <1>7, <1>8, <1>9, <1>10, <1>11, <1>12,
     <1>13, <1>14, <1>15, <1>16, <1>17, <1>18 DEF Next

LEMMA CircuitInvariant == Spec => []IInv
<1>1. IInv /\ [Next]_vars => IInv'
  BY StepIsSafe
<1> QED BY InitIsSafe, <1>1, PTL DEF Spec

\* The state of the registry, the runs and the gate is well typed.
THEOREM CircuitTypes == Spec => []TypeOK
<1>1. IInv => TypeOK
  BY DEF IInv
<1> QED BY CircuitInvariant, <1>1, PTL

\* A slot of a half-open circuit is never held by nobody: reclaims, resets, late
\* releases, restarts and swaps included.
THEOREM NoSlotLeaks == Spec => []SlotsAreHeld
<1>1. IInv => SlotsAreHeld
  BY DEF IInv
<1> QED BY CircuitInvariant, <1>1, PTL

\* beginReconciliation() has drained every lease before the roster is swapped.
THEOREM SwapsAreAlone == Spec => []SwapIsAlone
<1>1. IInv => SwapIsAlone
  BY DEF IInv
<1> QED BY CircuitInvariant, <1>1, PTL

-----------------------------------------------------------------------------
(* The roster (ProviderRegistry), for any rosters and executions.  Three     *)
(* facts carry OneGeneration: nobody executes during a swap or its rollback; *)
(* how far the swap has come; and outside of it everybody is on one roster   *)
(* or admission is blocked, so that a lease finds one when it is granted.    *)

\* Everybody is on the roster r.
Together(r) == agent = r /\ queue = r /\ shared = r /\ routing = r

Arrived(r)  == agent' = r /\ queue' = r /\ shared' = r /\ routing' = r

\* A swap or its rollback has begun, and nobody executes.
Swapping == pc \in {"agent", "queue", "shared", "undo agent", "undo queue", "undo shared"}

\* How far the swap has come.
Progress ==
  /\ reconciling <=> Swapping \/ pc = "draining"
  /\ Swapping => Leases = {}
  /\ pc \in {"queue", "shared"} => agent = loaded
  /\ pc = "shared" => queue = loaded
  /\ pc \in {"undo queue", "undo shared"} => failed \/ agent = snapshot
  /\ pc = "undo shared" => queue = snapshot

\* Whoever may be granted a lease finds one roster.
Agreed == (Swapping /\ pc # "agent") \/ admissionBlocked \/ Together(agent)

RegistryInv == RegistryTypeOK /\ Progress /\ Agreed /\ OneGeneration

\* A lease is granted on the roster that the task has named.
LEMMA RunsTypes ==
  ASSUME NEW k \in TaskRecords, NEW r \in Rosters
  PROVE  /\ Executes(k, r) \in TaskRecords
         /\ Executes(k, r).at = "running" =>
              Executes(k, r).on = r /\ Executes(k, r).pin \in {None, r}
         /\ Gone \in TaskRecords /\ Gone.at # "running"
BY DEF Executes, TaskRecords, Gone

\* What is said of the leases in every state.
LEMMA GenerationIs ==
  OneGeneration <=> \A t \in Executions : task[t].at = "running" =>
                      /\ Together(task[t].on)
                      /\ task[t].pin \in {None, task[t].on}
BY DEF OneGeneration, Leases, Together

\* The process boots on one roster.
LEMMA InitRegistry == RegistryInit => RegistryInv
<1>. SUFFICES ASSUME RegistryInit PROVE RegistryInv
  OBVIOUS
<1>1. Gone \in TaskRecords /\ Gone.at = "none"
  BY DEF Gone, TaskRecords
<1>2. RegistryTypeOK
  BY <1>1 DEF RegistryInit, RegistryTypeOK
<1>3. \A t \in Executions : task[t].at = "none"
  BY <1>1 DEF RegistryInit
<1>4. Progress /\ Agreed
  BY DEF RegistryInit, Progress, Agreed, Swapping, Together
<1>5. QED
  BY <1>2, <1>3, <1>4 DEF RegistryInv, OneGeneration, Leases

\* The gate opens on one roster, or is blocked.
LEMMA OpensOnOne ==
  ASSUME RegistryTypeOK, NEW r \in Rosters, NEW block \in BOOLEAN, task' = Called(r, block),
         \A t \in Executions : task[t].at = "running" =>
            Arrived(task[t].on) /\ task[t].pin \in {None, task[t].on},
         block \/ Arrived(r)
  PROVE  task' \in [Executions -> TaskRecords] /\ OneGeneration'
<1>1. ASSUME NEW t \in Executions
      PROVE  /\ task'[t] \in TaskRecords
             /\ task'[t].at = "running" => Arrived(task'[t].on)
                                           /\ task'[t].pin \in {None, task'[t].on}
  <2>1. task[t] \in TaskRecords
    BY DEF RegistryTypeOK
  <2>2. task'[t] = IF task[t].at # "waiting" THEN task[t]
                   ELSE IF block THEN Gone ELSE Executes(task[t], r)
    BY DEF Called
  <2>3. CASE task[t].at # "waiting"
    BY <2>1, <2>2, <2>3
  <2>4. CASE task[t].at = "waiting" /\ block
    BY <2>1, <2>2, <2>4, RunsTypes
  <2>5. CASE task[t].at = "waiting" /\ ~block
    BY <2>1, <2>2, <2>5, RunsTypes
  <2>6. QED
    BY <2>3, <2>4, <2>5
<1>2. task' \in [Executions -> TaskRecords]
  BY <1>1 DEF Called
<1>3. QED
  BY <1>1, <1>2 DEF OneGeneration, Leases, Arrived

\* Leases and rosters that stay are as they were.
LEMMA StaysTogether ==
  ASSUME UNCHANGED <<consumers, task>>, OneGeneration PROVE OneGeneration'
BY DEF OneGeneration, Leases, consumers

\* What is swapped meets nobody.
LEMMA NobodyIsThere ==
  ASSUME Leases = {}, task' = task PROVE Leases' = {} /\ OneGeneration'
BY DEF OneGeneration, Leases

\* Every step keeps the invariant.
LEMMA RegistryStep == RegistryInv /\ [RegistryNext]_registryVars => RegistryInv'
<1>. SUFFICES ASSUME RegistryInv, [RegistryNext]_registryVars PROVE RegistryInv'
  OBVIOUS
<1>. USE DEF RegistryInv
<1>0. /\ RegistryTypeOK /\ Progress /\ Agreed /\ OneGeneration
      /\ task \in [Executions -> TaskRecords]
      /\ {snapshot, loaded, agent, queue, shared, routing} \subseteq Rosters
      /\ \A t \in Executions : task[t].at = "running" =>
           Together(task[t].on) /\ task[t].pin \in {None, task[t].on}
  BY GenerationIs DEF RegistryTypeOK
<1>1. ASSUME NEW t \in Executions, Submit(t) \/ Leave(t) \/ Enter(t) PROVE RegistryInv'
  <2>1. UNCHANGED <<file, store, consumers, admission>>
    BY <1>1 DEF Submit, Leave, Enter
  <2>2. /\ task' \in [Executions -> TaskRecords]
        /\ \A u \in Executions : u # t => task'[u] = task[u]
        /\ task'[t].at = "running" => /\ ~reconciling /\ ~admissionBlocked
                                      /\ task'[t].on = agent /\ task'[t].pin \in {None, agent}
    <3>1. CASE Submit(t)
      <4>1. PICK pin \in {None, snapshot} :
              task' = [task EXCEPT ![t] = [Gone EXCEPT !.at = "queued", !.pin = pin]]
        BY <3>1 DEF Submit
      <4>2. snapshot \in Rosters
        BY <1>0
      <4>3. [Gone EXCEPT !.at = "queued", !.pin = pin] \in TaskRecords
        BY <4>2 DEF Gone, TaskRecords
      <4>4. [Gone EXCEPT !.at = "queued", !.pin = pin].at # "running"
        BY DEF Gone
      <4>5. QED
        BY <1>0, <4>1, <4>3, <4>4
    <3>2. CASE Leave(t)
      BY <1>0, <3>2, RunsTypes DEF Leave
    <3>3. CASE Enter(t)
      BY <1>0, <3>3, RunsTypes DEF Enter, TaskRecords
    <3>4. QED
      BY <1>1, <3>1, <3>2, <3>3
  <2>3. task'[t].at = "running" => Together(agent) /\ ~Swapping
    BY <1>0, <2>2 DEF Agreed, Progress
  <2>4. OneGeneration'
    BY <1>0, <2>1, <2>2, <2>3 DEF OneGeneration, Leases, Together, consumers
  <2>5. Progress'
    BY <1>0, <2>1, <2>2, <2>3 DEF Progress, Swapping, Leases, store, admission, consumers
  <2>6. QED
    BY <2>1, <2>2, <2>4, <2>5 DEF RegistryTypeOK, Agreed, Together, Swapping, store, admission,
      consumers
<1>2. ASSUME Edit \/ Poll \/ Published PROVE RegistryInv'
  <2>1. UNCHANGED <<snapshot, consumers, admissionBlocked, task>>
    BY <1>2 DEF Edit, Poll, Published, store, admission
  <2>2. OneGeneration'
    BY <1>0, <2>1, StaysTogether
  <2>3. RegistryTypeOK'
    BY <1>2, <2>1, RostersAreNamed
      DEF Edit, Poll, Published, RefreshOnce, Readable, RegistryTypeOK, store, admission, consumers
  <2>4. Leases' = Leases
    BY <2>1 DEF Leases
  <2>5. Progress' /\ Agreed'
    BY <1>0, <1>2, <2>1, <2>4
      DEF Edit, Poll, Published, RefreshOnce, Progress, Agreed, Swapping, Together, store,
        admission, consumers
  <2>6. QED
    BY <2>2, <2>3, <2>5
<1>3. CASE AllDrained \/ Rejected \/ CommitSnapshot
  <2>1. UNCHANGED <<file, loaded, requested, failed, consumers, admission, task>>
    BY <1>3 DEF AllDrained, Rejected, CommitSnapshot
  <2>2. OneGeneration' /\ Leases' = Leases
    BY <1>0, <2>1, StaysTogether DEF Leases
  <2>3. RegistryTypeOK'
    BY <1>3, <2>1 DEF AllDrained, Rejected, CommitSnapshot, RegistryTypeOK, admission, consumers
  <2>4. Progress' /\ Agreed'
    BY <1>0, <1>3, <2>1, <2>2
      DEF AllDrained, Rejected, CommitSnapshot, Progress, Agreed, Swapping, Together, admission,
        consumers
  <2>5. QED
    BY <2>2, <2>3, <2>4
<1>4. CASE DrainTimeout
  <2>1. /\ UNCHANGED <<file, snapshot, loaded, requested, failed, consumers, admissionBlocked>>
        /\ pc = "draining" /\ pc' = "rejecting" /\ reconciling' = FALSE
        /\ task' = Called(agent, admissionBlocked)
    BY <1>4 DEF DrainTimeout
  <2>2. admissionBlocked \/ Together(agent)
    BY <1>0, <2>1 DEF Agreed, Swapping
  <2>3. task' \in [Executions -> TaskRecords] /\ OneGeneration'
    BY <1>0, <2>1, <2>2, OpensOnOne DEF RegistryTypeOK, Arrived, Together, consumers
  <2>4. QED
    BY <1>0, <2>1, <2>2, <2>3 DEF RegistryTypeOK, Progress, Agreed, Swapping, Together, consumers
<1>5. CASE AgentSwaps \/ AgentFails \/ QueueSwaps \/ SharedFails \/ UndoAgent \/ UndoQueue
  <2>1. /\ UNCHANGED <<file, snapshot, loaded, requested, admission, task>>
        /\ Swapping /\ Swapping' /\ pc' # "agent" /\ Leases = {}
    BY <1>0, <1>5 DEF AgentSwaps, AgentFails, QueueSwaps, SharedFails, UndoAgent, UndoQueue,
      Goes, Swapping, Progress
  <2>2. OneGeneration' /\ Leases' = {}
    BY <2>1, NobodyIsThere
  <2>3. RegistryTypeOK'
    BY <1>5, <2>1 DEF AgentSwaps, AgentFails, QueueSwaps, SharedFails, UndoAgent, UndoQueue,
      Goes, consumers, RegistryTypeOK, admission
  <2>4. Progress'
    BY <1>0, <1>5, <2>1, <2>2 DEF AgentSwaps, AgentFails, QueueSwaps, SharedFails, UndoAgent,
      UndoQueue, Goes, consumers, Progress, Swapping, admission
  <2>5. QED
    BY <2>1, <2>2, <2>3, <2>4 DEF Agreed
<1>6. CASE SharedSwaps
  <2>1. /\ UNCHANGED <<file, snapshot, loaded, requested, failed, agent, queue>>
        /\ pc = "shared" /\ pc' = "committing" /\ reconciling' = FALSE /\ admissionBlocked' = FALSE
        /\ shared' = loaded /\ routing' = loaded /\ task' = Called(agent, FALSE)
    BY <1>6 DEF SharedSwaps, Opens
  <2>2. Leases = {} /\ Arrived(agent)
    BY <1>0, <2>1 DEF Progress, Swapping, Arrived
  <2>3. task' \in [Executions -> TaskRecords] /\ OneGeneration'
    BY <1>0, <2>1, <2>2, OpensOnOne DEF RegistryTypeOK, Leases
  <2>4. QED
    BY <1>0, <2>1, <2>2, <2>3 DEF RegistryTypeOK, Progress, Agreed, Swapping, Together, Arrived
<1>7. CASE UndoShared
  <2>1. /\ UNCHANGED <<file, snapshot, loaded, requested, agent, queue>>
        /\ pc = "undo shared" /\ pc' = "rejecting"
        /\ reconciling' = FALSE /\ admissionBlocked' = failed'
        /\ routing' = snapshot /\ task' = Called(agent, failed')
        /\ \/ shared' = snapshot /\ failed' = failed
           \/ shared' \in {shared, snapshot} /\ failed' = TRUE
    BY <1>7 DEF UndoShared, Opens, Blocks
  <2>2. Leases = {} /\ (failed' \/ Arrived(agent)) /\ failed' \in BOOLEAN
    BY <1>0, <2>1 DEF Progress, Swapping, Arrived, RegistryTypeOK
  <2>3. task' \in [Executions -> TaskRecords] /\ OneGeneration'
    BY <1>0, <2>1, <2>2, OpensOnOne DEF RegistryTypeOK, Leases
  <2>4. QED
    BY <1>0, <2>1, <2>2, <2>3 DEF RegistryTypeOK, Progress, Agreed, Swapping, Together, Arrived
<1>8. CASE UNCHANGED registryVars
  BY <1>0, <1>8 DEF registryVars, store, consumers, admission, RegistryTypeOK, Progress, Agreed,
    Swapping, Together, OneGeneration, Leases
<1>9. QED
  BY <1>1, <1>2, <1>3, <1>4, <1>5, <1>6, <1>7, <1>8 DEF RegistryNext, Refreshes

\* The state of the store, the gate and the executions is well typed.
THEOREM RegistryTypes == RegistrySpec => []RegistryTypeOK
<1>1. RegistryInv => RegistryTypeOK
  BY DEF RegistryInv
<1>2. QED
  BY <1>1, InitRegistry, RegistryStep, PTL DEF RegistrySpec

\* No lease meets two generations of providers: whatever fails in a swap or its
\* rollback, whenever the drain times out, and also where a key is derived.
THEOREM NoTwoGenerations == RegistrySpec => []OneGeneration
<1>1. RegistryInv => OneGeneration
  BY DEF RegistryInv
<1>2. QED
  BY <1>1, InitRegistry, RegistryStep, PTL DEF RegistrySpec

\* A roster with a derived key runs though its commit was rejected.
Slipped == Together(agent) /\ agent \in Keyed

\* Where refresh() is outside the swap, and between the swap and the commit.
RolledBack ==
  /\ pc \in {"idle", "draining", "publishing", "rejecting"} =>
       admissionBlocked \/ Together(snapshot) \/ Slipped
  /\ pc = "committing" => Together(loaded)

LEMMA InitRolled == RegistryInit => RolledBack
BY DEF RegistryInit, RolledBack, Together

\* Every step keeps it: a swap that goes through is committed or has a derived
\* key, and a rollback ends on the snapshot or blocks admission.
LEMMA RolledStep == RegistryInv /\ RolledBack /\ [RegistryNext]_registryVars => RolledBack'
<1>. SUFFICES ASSUME RegistryInv, RolledBack, [RegistryNext]_registryVars PROVE RolledBack'
  OBVIOUS
<1>0. Progress
  BY DEF RegistryInv
<1>1. CASE \E t \in Executions : Submit(t) \/ Enter(t) \/ Leave(t)
  <2>1. UNCHANGED <<store, consumers, admission>>
    BY <1>1 DEF Submit, Enter, Leave
  <2>2. QED
    BY <2>1 DEF RolledBack, Slipped, Together, store, consumers, admission
<1>2. CASE Edit \/ Poll \/ Published
  BY <1>2 DEF Edit, Poll, Published, RefreshOnce, RolledBack, Slipped, Together, store, consumers,
    admission
<1>3. CASE AllDrained \/ DrainTimeout \/ Rejected
  BY <1>3 DEF AllDrained, DrainTimeout, Rejected, RolledBack, Slipped, Together, consumers,
    admission
<1>4. CASE AgentSwaps \/ AgentFails \/ QueueSwaps \/ SharedFails \/ UndoAgent \/ UndoQueue
  BY <1>0, <1>4 DEF AgentSwaps, AgentFails, QueueSwaps, SharedFails, UndoAgent, UndoQueue,
    Goes, RolledBack
<1>5. CASE SharedSwaps
  BY <1>0, <1>5 DEF SharedSwaps, Opens, Progress, RolledBack, Together
<1>6. CASE UndoShared
  BY <1>0, <1>6 DEF UndoShared, Opens, Blocks, Progress, RolledBack, Together
<1>7. CASE CommitSnapshot
  BY <1>7 DEF CommitSnapshot, RolledBack, Slipped, Together, consumers, admission
<1>8. CASE UNCHANGED registryVars
  BY <1>8 DEF registryVars, store, consumers, admission, RolledBack, Slipped, Together
<1>9. QED
  BY <1>1, <1>2, <1>3, <1>4, <1>5, <1>6, <1>7, <1>8 DEF RegistryNext, Refreshes

LEMMA RegistryRollsBack == RegistrySpec => []RolledBack
<1>1. RegistryInit => RegistryInv /\ RolledBack
  BY InitRegistry, InitRolled
<1>2. (RegistryInv /\ RolledBack) /\ [RegistryNext]_registryVars => (RegistryInv /\ RolledBack)'
  BY RegistryStep, RolledStep
<1>3. QED
  BY <1>1, <1>2, PTL DEF RegistrySpec

\* The only roster that runs after it was rejected is one with a derived key, as
\* a whole.
THEOREM OnlyDerivedKeysSlip == RegistrySpec => [](RejectedIsRolledBack \/ Slipped)
<1>1. RolledBack => RejectedIsRolledBack \/ Slipped
  BY DEF RolledBack, RejectedIsRolledBack, Together
<1>2. QED
  BY <1>1, RegistryRollsBack, PTL

\* Without such rosters last-known-good is what runs, or nothing is admitted.
THEOREM RejectionRollsBack ==
  ASSUME Keyed = {} PROVE RegistrySpec => []RejectedIsRolledBack
<1>1. RolledBack => RejectedIsRolledBack
  BY DEF RolledBack, RejectedIsRolledBack, Slipped, Together
<1>2. QED
  BY <1>1, RegistryRollsBack, PTL
=============================================================================
