------------------------- MODULE RetryLineageProofs -------------------------
(***************************************************************************)
(* The budget of a lineage, and the uniqueness of its execution, for any   *)
(* number of callers, any limits and any interleaving of callers, crashes  *)
(* and rollbacks.                                                          *)
(*                                                                         *)
(* The budget is exact because a reservation is in flight exactly while    *)
(* its caller is aborting or posting (HeldIsInFlight), and because a       *)
(* rollback never meets an empty counter: what it takes back is still on   *)
(* the account (PendingIsMade, PendingIsRecent).                           *)
(*                                                                         *)
(* The execution is unique for one of two reasons: all callers queue on    *)
(* the lock of the root, whose holder finds the lineage quiet and is the   *)
(* only one that can wake it (LockSerialises); or the lineage carries a    *)
(* work report, and the index refuses a second active row                  *)
(* (IndexSerialises).                                                      *)
(*                                                                         *)
(* The last section is about WorkReports, whose reports are what such a    *)
(* lineage may carry.                                                      *)
(***************************************************************************)
EXTENDS RetryLineage, WorkReports, FiniteSetTheorems, TLAPS

Pending == {r \in Requests : pc[r] = "inserted"}

BudgetTypes ==
  /\ made \in Nat /\ recent \in Nat /\ disowned \in Nat /\ lost \in Nat
  /\ count \in Nat /\ total \in 0..LifetimeLimit /\ within \in BOOLEAN
  /\ pc \in [Requests -> {"idle", "queued", "aborting", "posting", "inserted"}]

\* A reservation is in flight while its caller aborts or posts.
HeldIsInFlight == held = {r \in Requests : pc[r] \in {"aborting", "posting"}}

\* A retry whose caller has no answer yet counts as made, and is not disowned.
PendingIsMade == disowned + Cardinality(Pending) <= made

\* No window ends under a reservation or an unanswered caller, so that what is
\* rolled back belongs to the window that is open.
PendingIsRecent ==
  /\ held \cup Pending # {} => within
  /\ within => Cardinality(Pending) <= recent

BudgetInv == BudgetTypes /\ HeldIsInFlight /\ PendingIsMade /\ PendingIsRecent
             /\ BudgetIsExact /\ WindowIsCovered

USE LimitsAreNat, RequestsAreFinite
    DEF vars, lineage, budget, caller

\* Cardinalities are numbers, and follow a caller that comes or goes.
LEMMA CallersCount ==
  ASSUME NEW S \in SUBSET Requests, NEW r \in Requests
  PROVE  /\ Cardinality(S) \in Nat
         /\ r \notin S => Cardinality(S \cup {r}) = Cardinality(S) + 1
         /\ r \in S => Cardinality(S) >= 1 /\ Cardinality(S \ {r}) = Cardinality(S) - 1
         /\ r \notin S => S \ {r} = S
<1>1. IsFiniteSet(S)
  BY FS_Subset
<1>2. Cardinality(S) \in Nat /\ (r \in S => Cardinality(S \ {r}) \in Nat)
  BY <1>1, FS_CardinalityType, FS_RemoveElement
<1>3. r \notin S => Cardinality(S \cup {r}) = Cardinality(S) + 1
  BY <1>1, FS_AddElement
<1>4. r \in S => Cardinality(S \ {r}) = Cardinality(S) - 1
  BY <1>1, FS_RemoveElement
<1> QED BY <1>2, <1>3, <1>4

LEMMA Nobody == Cardinality({}) = 0
BY FS_EmptySet

\* An operation that moves a caller between states without a reservation.
LEMMA MovesKeepBudget ==
  ASSUME BudgetInv, NEW r \in Requests, NEW s \in {"idle", "queued", "posting"},
         pc' = [pc EXCEPT ![r] = s], pc[r] # "inserted",
         pc[r] \in {"aborting", "posting"} <=> s = "posting",
         UNCHANGED <<budget, held, lost, made, disowned>>
  PROVE  BudgetInv'
<1> USE DEF BudgetInv, BudgetTypes
<1>1. Pending' = Pending
  BY DEF Pending
<1>2. HeldIsInFlight'
  BY DEF HeldIsInFlight
<1> QED BY <1>1, <1>2 DEF PendingIsMade, PendingIsRecent, BudgetIsExact, WindowIsCovered

\* A reservation is made.
LEMMA ReserveKeepsBudget ==
  ASSUME BudgetInv, NEW r \in Requests, NEW s \in {"aborting", "posting"},
         Reserve(r), Allowed, r \notin held, pc[r] # "inserted",
         pc' = [pc EXCEPT ![r] = s], UNCHANGED <<made, disowned, lost>>
  PROVE  BudgetInv'
<1> USE DEF BudgetInv, BudgetTypes
<1>1. held \in SUBSET Requests /\ Pending \in SUBSET Requests
  BY DEF Pending, HeldIsInFlight
<1>2. Pending' = Pending
  BY DEF Pending
<1>3. Cardinality(held) \in Nat /\ Cardinality(Pending) \in Nat
  BY <1>1, CallersCount
<1>4. /\ held' = held \cup {r} /\ within' = TRUE /\ total' = total + 1
      /\ count' = IF within THEN count + 1 ELSE 1
      /\ recent' = IF within THEN recent ELSE 0
  BY DEF Reserve
<1>5. HeldIsInFlight'
  BY <1>4 DEF HeldIsInFlight
<1>6. Cardinality(held') = Cardinality(held) + 1
  BY <1>1, <1>4, CallersCount
<1>7. ~within => Cardinality(held) = 0 /\ Cardinality(Pending) = 0
  BY Nobody DEF PendingIsRecent
<1>8. total < LifetimeLimit /\ (within => count < WindowLimit)
  BY DEF Allowed
<1>9. BudgetTypes' /\ PendingIsMade' /\ BudgetIsExact'
  BY <1>2, <1>3, <1>4, <1>6, <1>8 DEF PendingIsMade, BudgetIsExact
<1>10. PendingIsRecent' /\ WindowIsCovered'
  BY <1>2, <1>3, <1>4, <1>6, <1>7, <1>8, WindowIsPositive DEF PendingIsRecent, WindowIsCovered
<1> QED BY <1>5, <1>9, <1>10

\* An answer that gives the reservation of the caller back.
LEMMA GiveBackKeepsBudget ==
  ASSUME BudgetInv, NEW r \in Requests, GiveBack(r), pc[r] # "inserted",
         UNCHANGED <<made, disowned>>
  PROVE  BudgetInv'
<1> USE DEF BudgetInv, BudgetTypes
<1>1. held \in SUBSET Requests /\ Pending \in SUBSET Requests
  BY DEF Pending, HeldIsInFlight
<1>2. Pending' = Pending
  BY DEF GiveBack, Answer, Pending
<1>3. Cardinality(held) \in Nat /\ Cardinality(Pending) \in Nat
  BY <1>1, CallersCount
<1>4. CASE r \notin held
  BY <1>4, MovesKeepBudget DEF GiveBack, Answer, HeldIsInFlight
<1>5. CASE r \in held
  <2>1. /\ held' = held \ {r} /\ pc' = [pc EXCEPT ![r] = "idle"] /\ within' = TRUE
        /\ count' = Less(count) /\ total' = Less(total) /\ UNCHANGED <<recent, lost>>
    BY <1>5 DEF GiveBack, Rollback, Answer
  <2>2. HeldIsInFlight'
    BY <2>1 DEF HeldIsInFlight
  <2>3. Cardinality(held) >= 1 /\ Cardinality(held') = Cardinality(held) - 1
    BY <1>1, <1>5, <2>1, CallersCount
  <2>4. total >= 1 /\ within /\ count >= 1
    BY <1>3, <1>5, <2>3 DEF PendingIsMade, PendingIsRecent, BudgetIsExact, WindowIsCovered
  <2>5. total' = total - 1 /\ count' = count - 1
    BY <2>1, <2>4 DEF Less
  <2> QED BY <1>2, <1>3, <2>1, <2>2, <2>3, <2>4, <2>5
          DEF PendingIsMade, PendingIsRecent, BudgetIsExact, WindowIsCovered
<1> QED BY <1>4, <1>5

\* An answer that forgets the reservation of the caller: it is lost, but counted.
LEMMA RefuseKeepsBudget ==
  ASSUME BudgetInv, NEW r \in Requests, Refuse(r), pc[r] # "inserted",
         UNCHANGED <<made, disowned>>
  PROVE  BudgetInv'
<1> USE DEF BudgetInv, BudgetTypes
<1>1. held \in SUBSET Requests /\ Pending \in SUBSET Requests
  BY DEF Pending, HeldIsInFlight
<1>2. Pending' = Pending
  BY DEF Refuse, Answer, Pending
<1>3. Cardinality(held) \in Nat /\ Cardinality(Pending) \in Nat
  BY <1>1, CallersCount
<1>4. CASE r \notin held
  <2>1. held' = held /\ lost' = lost /\ UNCHANGED budget /\ pc' = [pc EXCEPT ![r] = "idle"]
    BY <1>1, <1>4, CallersCount DEF Refuse, Answer
  <2> QED BY <1>4, <2>1, MovesKeepBudget DEF HeldIsInFlight
<1>5. CASE r \in held
  <2>1. /\ held' = held \ {r} /\ lost' = lost + 1 /\ UNCHANGED budget
        /\ pc' = [pc EXCEPT ![r] = "idle"]
    BY <1>5 DEF Refuse, Answer
  <2>2. HeldIsInFlight'
    BY <2>1 DEF HeldIsInFlight
  <2>3. Cardinality(held) >= 1 /\ Cardinality(held') = Cardinality(held) - 1
    BY <1>1, <1>5, <2>1, CallersCount
  <2> QED BY <1>2, <1>3, <2>1, <2>2, <2>3
          DEF PendingIsMade, PendingIsRecent, BudgetIsExact, WindowIsCovered
<1> QED BY <1>4, <1>5

\* Every way out of createRetryTask() keeps the books.
LEMMA CreateKeepsBudget ==
  ASSUME BudgetInv, NEW r \in Requests, NEW j, NEW st, CreateRetry(r, j, st),
         pc[r] \in {"idle", "queued", "aborting"}, UNCHANGED <<made, disowned>>
  PROVE  BudgetInv'
<1>1. CASE Refuse(r)
  BY <1>1, RefuseKeepsBudget
<1>2. CASE GiveBack(r)
  BY <1>2, GiveBackKeepsBudget
<1>3. CASE GoOn(r, j) /\ r \notin held /\ Allowed
  BY <1>3, ReserveKeepsBudget DEF GoOn
<1>4. CASE GoOn(r, j) /\ r \in held
  <2>1. pc[r] = "aborting"
    BY <1>4 DEF BudgetInv, HeldIsInFlight
  <2> QED BY <1>4, <2>1, MovesKeepBudget DEF GoOn
<1>5. CASE GoOn(r, j) /\ r \notin held /\ ~Allowed
  <2>1. pc[r] # "aborting"
    BY <1>5 DEF BudgetInv, HeldIsInFlight
  <2> QED BY <1>5, <2>1, MovesKeepBudget DEF GoOn, Answer
<1> QED BY <1>1, <1>2, <1>3, <1>4, <1>5 DEF CreateRetry

\* The reservation of a posted retry becomes a task.
LEMMA InsertKeepsBudget ==
  ASSUME BudgetInv, NEW r \in Requests, Insert(r)
  PROVE  BudgetInv'
<1> USE DEF BudgetInv, BudgetTypes
<1>1. held \in SUBSET Requests /\ Pending \in SUBSET Requests /\ r \in held /\ r \notin Pending
  BY DEF Pending, HeldIsInFlight, Insert
<1>2. Cardinality(held) \in Nat /\ Cardinality(Pending) \in Nat
  BY <1>1, CallersCount
<1>3. /\ held' = held \ {r} /\ pc' = [pc EXCEPT ![r] = "inserted"]
      /\ made' = made + 1 /\ recent' = recent + 1
      /\ UNCHANGED <<count, total, within, disowned, lost>>
  BY DEF Insert
<1>4. HeldIsInFlight'
  BY <1>3 DEF HeldIsInFlight
<1>5. Pending' = Pending \cup {r}
  BY <1>3 DEF Pending
<1>6. Cardinality(held) >= 1 /\ Cardinality(held') = Cardinality(held) - 1
  BY <1>1, <1>3, CallersCount
<1>7. Cardinality(Pending') = Cardinality(Pending) + 1
  BY <1>1, <1>5, CallersCount
<1>8. BudgetTypes' /\ PendingIsMade' /\ BudgetIsExact'
  BY <1>2, <1>3, <1>6, <1>7 DEF PendingIsMade, BudgetIsExact
<1>9. PendingIsRecent' /\ WindowIsCovered'
  BY <1>1, <1>2, <1>3, <1>6, <1>7 DEF PendingIsRecent, WindowIsCovered
<1> QED BY <1>4, <1>8, <1>9

\* The caller of an inserted retry leaves, told of it or (Halfway) not.
LEMMA LeavingKeepsBudget ==
  ASSUME BudgetInv, NEW r \in Requests, Respond(r) \/ Halfway(r)
  PROVE  BudgetInv'
<1> USE DEF BudgetInv, BudgetTypes
<1>1. held \in SUBSET Requests /\ Pending \in SUBSET Requests /\ r \in Pending
  BY DEF Pending, HeldIsInFlight, Respond, Halfway
<1>2. Cardinality(held) \in Nat /\ Cardinality(Pending) \in Nat
  BY <1>1, CallersCount
<1>3. pc' = [pc EXCEPT ![r] = "idle"] /\ UNCHANGED <<made, held, lost>>
  BY DEF Respond, Halfway, Answer
<1>4. HeldIsInFlight'
  BY <1>1, <1>3 DEF HeldIsInFlight, Pending
<1>5. Pending' = Pending \ {r}
  BY <1>3 DEF Pending
<1>6. Cardinality(Pending) >= 1 /\ Cardinality(Pending') = Cardinality(Pending) - 1
  BY <1>1, <1>5, CallersCount
<1>7. CASE Respond(r)
  <2>1. UNCHANGED <<budget, disowned>>
    BY <1>7 DEF Respond
  <2> QED BY <1>2, <1>3, <1>4, <1>5, <1>6, <2>1
          DEF PendingIsMade, PendingIsRecent, BudgetIsExact, WindowIsCovered
<1>8. CASE Halfway(r)
  <2>1. /\ count' = Less(count) /\ total' = Less(total) /\ within' = TRUE
        /\ disowned' = disowned + 1 /\ recent' = Less(recent)
    BY <1>8 DEF Halfway
  <2>2. within /\ recent >= 1 /\ count >= 1 /\ total >= 1
    BY <1>1, <1>2, <1>6 DEF PendingIsMade, PendingIsRecent, BudgetIsExact, WindowIsCovered
  <2>3. count' = count - 1 /\ total' = total - 1 /\ recent' = recent - 1
    BY <2>1, <2>2 DEF Less
  <2> QED BY <1>2, <1>3, <1>4, <1>5, <1>6, <2>1, <2>2, <2>3
          DEF PendingIsMade, PendingIsRecent, BudgetIsExact, WindowIsCovered
<1> QED BY <1>7, <1>8

\* A crash loses what was in flight, and nothing else.
LEMMA CrashKeepsBudget ==
  ASSUME BudgetInv, Crash
  PROVE  BudgetInv'
<1> USE DEF BudgetInv, BudgetTypes
<1>1. held \in SUBSET Requests /\ Pending \in SUBSET Requests
  BY DEF Pending, HeldIsInFlight
<1>2. Cardinality(held) \in Nat /\ Cardinality(Pending) \in Nat
  BY <1>1, FS_Subset, FS_CardinalityType
<1>3. /\ pc' = [r \in Requests |-> "idle"] /\ held' = {} /\ lost' = lost + Cardinality(held)
      /\ UNCHANGED <<made, disowned, budget>>
  BY DEF Crash
<1>4. Pending' = {} /\ HeldIsInFlight'
  BY <1>3 DEF Pending, HeldIsInFlight
<1>5. Cardinality(held') = 0 /\ Cardinality(Pending') = 0
  BY <1>3, <1>4, Nobody
<1> QED BY <1>2, <1>3, <1>4, <1>5
        DEF PendingIsMade, PendingIsRecent, BudgetIsExact, WindowIsCovered

\* The steps that leave callers and counters alone.
LEMMA RestKeepsBudget ==
  ASSUME BudgetInv, UNCHANGED <<pc, held, made, disowned, lost, budget>>
  PROVE  BudgetInv'
BY DEF BudgetInv, BudgetTypes, HeldIsInFlight, Pending, PendingIsMade, PendingIsRecent,
       BudgetIsExact, WindowIsCovered

\* The books of the budget are kept by every step of the lineage, whatever the
\* number of callers, the limits and the bounds.
THEOREM BudgetInductive == Spec => []BudgetInv
<1>1. Init => BudgetInv
  <2> SUFFICES ASSUME Init PROVE BudgetInv
    OBVIOUS
  <2>1. Pending = {} /\ held = {} /\ HeldIsInFlight
    BY DEF Init, Pending, HeldIsInFlight
  <2>2. Cardinality(Pending) = 0 /\ Cardinality(held) = 0
    BY <2>1, Nobody
  <2>3. BudgetTypes
    <3>1. LifetimeLimit \in Nat
      BY DEF LimitsAreNat
    <3>2. /\ made = 0 /\ count = 0 /\ total = 0 /\ within = FALSE /\ recent = 0
          /\ disowned = 0 /\ lost = 0
          /\ pc = [r \in Requests |-> "idle"]
      BY DEF Init
    <3>3. pc \in [Requests -> {"idle", "queued", "aborting", "posting", "inserted"}]
      BY <3>2
    <3>4. total \in 0..LifetimeLimit
      BY <3>1, <3>2
    <3> QED BY <3>2, <3>3, <3>4 DEF BudgetTypes
  <2> QED BY <2>1, <2>2, <2>3
          DEF Init, BudgetInv, PendingIsMade, PendingIsRecent, BudgetIsExact, WindowIsCovered
<1>2. BudgetInv /\ [Next]_vars => BudgetInv'
  <2> SUFFICES ASSUME BudgetInv, [Next]_vars PROVE BudgetInv'
    OBVIOUS
  <2>1. ASSUME NEW r \in Requests, Request(r) PROVE BudgetInv'
    <3>1. ASSUME NEW j, pc[r] = "idle", Queue(r, j) PROVE BudgetInv'
      BY <3>1, MovesKeepBudget DEF Queue
    <3>2. CASE Ask(r)
      BY <3>1, <3>2 DEF Ask
    <3>3. CASE Failover(r)
      BY <3>1, <3>3 DEF Failover
    <3>4. CASE Quality(r)
      BY <3>4, CreateKeepsBudget DEF Quality
    <3>5. CASE Kanban(r)
      BY <3>5, CreateKeepsBudget DEF Kanban
    <3> QED BY <2>1, <3>2, <3>3, <3>4, <3>5 DEF Request
  <2>2. ASSUME NEW r \in Requests, Serve(r) PROVE BudgetInv'
    <3>1. CASE Enter(r)
      BY <3>1, CreateKeepsBudget DEF Enter
    <3>2. CASE ReplaceRefused(r)
      BY <3>2, MovesKeepBudget DEF ReplaceRefused, Answer
    <3>3. CASE ReplaceActive(r)
      <4>1. r \notin held
        BY <3>3 DEF ReplaceActive, BudgetInv, HeldIsInFlight
      <4> QED BY <3>3, <4>1, ReserveKeepsBudget DEF ReplaceActive
    <3>4. CASE Aborted(r)
      BY <3>4, CreateKeepsBudget, GiveBackKeepsBudget DEF Aborted
    <3> QED BY <2>2, <3>1, <3>2, <3>3, <3>4 DEF Serve
  <2>3. ASSUME NEW r \in Requests, Post(r) PROVE BudgetInv'
    BY <2>3, GiveBackKeepsBudget, InsertKeepsBudget, LeavingKeepsBudget DEF Post, Reject, Dedup
  <2>4. ASSUME NEW t \in Known, End(t) \/ Expire(t) PROVE BudgetInv'
    BY <2>4, RestKeepsBudget DEF End, Expire
  <2>5. ASSUME NEW a \in Agents, Switch(a) PROVE BudgetInv'
    BY <2>5, RestKeepsBudget DEF Switch
  <2>6. CASE WindowPasses
    <3>1. Pending = {} /\ held = {} /\ within' = FALSE
          /\ UNCHANGED <<pc, held, made, disowned, lost, count, total, recent>>
      BY <2>6 DEF WindowPasses, Pending
    <3>2. Pending' = Pending /\ HeldIsInFlight'
      BY <3>1 DEF Pending, BudgetInv, HeldIsInFlight
    <3> QED BY <3>1, <3>2 DEF BudgetInv, BudgetTypes, PendingIsMade, PendingIsRecent,
                              BudgetIsExact, WindowIsCovered
  <2>7. CASE Crash
    BY <2>7, CrashKeepsBudget
  <2>8. CASE UNCHANGED vars
    BY <2>8, RestKeepsBudget
  <2> QED BY <2>1, <2>2, <2>3, <2>4, <2>5, <2>6, <2>7, <2>8 DEF Next
<1> QED BY <1>1, <1>2, PTL DEF Spec

\* Every retry, reservation and loss is on the lifetime account, exactly.
THEOREM RetryBudget == Spec => []BudgetIsExact
<1>1. BudgetInv => BudgetIsExact
  BY DEF BudgetInv
<1> QED BY <1>1, BudgetInductive, PTL

\* Everything started in a window is on the window's account.
THEOREM RetryWindow == Spec => []WindowIsCovered
<1>1. BudgetInv => WindowIsCovered
  BY DEF BudgetInv
<1> QED BY <1>1, BudgetInductive, PTL
-----------------------------------------------------------------------------
(* The attempts                                                            *)

LineageTypes ==
  /\ status \in [Attempts -> States] /\ made \in Attempts
  /\ line \in Seq(Requests)
  /\ pc \in [Requests -> {"idle", "queued", "aborting", "posting", "inserted"}]
  /\ job \in [Requests -> Jobs]
  /\ enabled \subseteq Agents

\* Nothing has happened to an attempt that has not been made.
UnmadeIsNone == \A x \in Attempts : x > made => status[x] = "none"

LineageInv == LineageTypes /\ UnmadeIsNone /\ OneExpiration

\* An attempt that is not made active stays within the lineage.
LEMMA CreateKeepsTypes ==
  ASSUME LineageTypes, NEW r \in Requests, NEW j \in Jobs, NEW st, CreateRetry(r, j, st),
         status' \in [Attempts -> States], UNCHANGED <<made, enabled>>
  PROVE  LineageTypes'
<1>1. CASE Answer(r)
  <2>1. NoJob \in Jobs
    BY DEF NoJob, Retry, Jobs, Wishes, Attempts, LimitsAreNat
  <2>2. line' \in Seq(Requests)
    BY <1>1 DEF Answer, LineageTypes
  <2> QED BY <1>1, <2>1, <2>2 DEF Answer, LineageTypes
<1>2. CASE UNCHANGED line /\ pc' = [pc EXCEPT ![r] = "posting"] /\ job' = [job EXCEPT ![r] = j]
  BY <1>2 DEF LineageTypes
<1> QED BY <1>1, <1>2 DEF CreateRetry, Refuse, GiveBack, GoOn

\* An attempt changes, to something else than a first expiration.
LEMMA ChangeKeepsLineage ==
  ASSUME UnmadeIsNone, OneExpiration, LineageTypes,
         NEW t \in Known, NEW s \in States \ {"lease_expired"},
         status' = [status EXCEPT ![t] = s], UNCHANGED made
  PROVE  UnmadeIsNone' /\ OneExpiration' /\ status' \in [Attempts -> States]
<1>1. t \in Attempts /\ t <= made /\ made \in Nat /\ MaxAttempts \in Nat
  BY DEF Known, Attempts, LineageTypes, LimitsAreNat
<1>2. status' \in [Attempts -> States]
  BY <1>1 DEF LineageTypes
<1>3. UnmadeIsNone'
  BY <1>1 DEF UnmadeIsNone, LineageTypes, Attempts
<1>4. OneExpiration'
  BY <1>1 DEF OneExpiration, LineageTypes, Attempts, Known
<1> QED BY <1>2, <1>3, <1>4

\* An attempt that is failed or active has been made.
LEMMA LivesInLineage ==
  ASSUME LineageTypes, UnmadeIsNone, NEW x \in Attempts, status[x] # "none"
  PROVE  x \in Known
<1>1. made \in Nat /\ x \in Nat /\ ~(x > made)
  BY DEF LineageTypes, Attempts, UnmadeIsNone
<1> QED BY <1>1 DEF Known

\* A lineage expires at most once, whoever retries it, and however.
THEOREM LineageInductive == Spec => []LineageInv
<1>1. Init => LineageInv
  <2> SUFFICES ASSUME Init PROVE LineageInv
    OBVIOUS
  <2>1. 0 \in Attempts /\ MaxAttempts \in Nat
    BY DEF Attempts, LimitsAreNat
  <2>2. NoJob \in Jobs
    BY <2>1 DEF NoJob, Retry, Jobs, Wishes
  <2>3. /\ made = 0 /\ line = <<>> /\ enabled = Agents
        /\ pc = [r \in Requests |-> "idle"] /\ job = [r \in Requests |-> NoJob]
        /\ status = [x \in Attempts |-> IF x = 0 THEN "active" ELSE "none"]
    BY DEF Init
  <2>4. status \in [Attempts -> States]
    BY <2>3 DEF States, Failed
  <2>5. job \in [Requests -> Jobs]
    BY <2>2, <2>3
  <2>6. LineageTypes
    BY <2>1, <2>3, <2>4, <2>5 DEF LineageTypes
  <2>7. UnmadeIsNone /\ OneExpiration
    BY <2>1, <2>3 DEF UnmadeIsNone, OneExpiration, Known, Attempts
  <2> QED BY <2>6, <2>7 DEF LineageInv
<1>2. LineageInv /\ [Next]_vars => LineageInv'
  <2> SUFFICES ASSUME LineageInv, [Next]_vars PROVE LineageInv'
    OBVIOUS
  <2> USE DEF LineageInv
  <2>1. Known \subseteq Attempts /\ made \in Nat
    BY DEF LineageTypes, Known, Attempts, LimitsAreNat
  <2>2. ASSUME UNCHANGED <<status, made>> PROVE UnmadeIsNone' /\ OneExpiration'
    BY <2>2 DEF UnmadeIsNone, OneExpiration, Known
  <2>3. ASSUME NEW r \in Requests, Request(r) PROVE LineageInv'
    <3>1. \A t \in Known, w \in Wishes : Retry(t, w) \in Jobs
      BY <2>1 DEF Retry, Jobs
    <3>2. ASSUME NEW j \in Jobs, Queue(r, j) PROVE LineageInv'
      <4>1. line' \in Seq(Requests) /\ job' \in [Requests -> Jobs]
        BY <3>2 DEF Queue, LineageTypes
      <4> QED BY <2>2, <3>2, <4>1 DEF Queue, LineageTypes
    <3>3. CASE Ask(r)
      <4>1. PICK t \in Known, w \in Wishes :
              Queue(r, Retry(t, w)) \/ Queue(r, [Retry(t, w) EXCEPT !.replace = TRUE])
        BY <3>3 DEF Ask
      <4>2. [Retry(t, w) EXCEPT !.replace = TRUE] \in Jobs
        BY <2>1 DEF Retry, Jobs
      <4> QED BY <3>1, <3>2, <4>1, <4>2
    <3>4. CASE Failover(r)
      <4>1. PICK t \in Known, w \in enabled \ Attempted : Queue(r, Retry(t, w))
        BY <3>4 DEF Failover
      <4>2. w \in Wishes
        BY DEF LineageTypes, Wishes
      <4> QED BY <3>1, <3>2, <4>1, <4>2
    <3>5. CASE Quality(r)
      <4>1. PICK t \in Known, w \in (enabled \ Attempted) \cup {"same"} :
              /\ status' = [status EXCEPT ![t] = "failed"]
              /\ CreateRetry(r, Retry(t, w), status')
        BY <3>5 DEF Quality
      <4>2. UNCHANGED <<made, enabled>>
        BY <3>5 DEF Quality
      <4>3. w \in Wishes
        BY DEF LineageTypes, Wishes
      <4>4. "failed" \in States \ {"lease_expired"}
        BY DEF States, Failed
      <4>5. UnmadeIsNone' /\ OneExpiration' /\ status' \in [Attempts -> States]
        BY <4>1, <4>2, <4>4, ChangeKeepsLineage
      <4>6. Retry(t, w) \in Jobs
        BY <3>1, <4>3
      <4>7. LineageTypes'
        BY <4>1, <4>2, <4>5, <4>6, CreateKeepsTypes
      <4> QED BY <4>5, <4>7
    <3>6. CASE Kanban(r)
      <4>1. PICK t \in Known, w \in Wishes : CreateRetry(r, Retry(t, w), status)
        BY <3>6 DEF Kanban
      <4>2. UNCHANGED <<status, made, enabled>>
        BY <3>6 DEF Kanban
      <4>3. LineageTypes'
        BY <3>1, <4>1, <4>2, CreateKeepsTypes DEF LineageTypes
      <4> QED BY <2>2, <4>2, <4>3
    <3> QED BY <2>3, <3>3, <3>4, <3>5, <3>6 DEF Request
  <2>4. ASSUME NEW r \in Requests, Serve(r) PROVE LineageInv'
    <3>1. job[r] \in Jobs
      BY DEF LineageTypes
    <3>2. ASSUME CreateRetry(r, job[r], status) \/ Answer(r), UNCHANGED <<status, made, enabled>>
          PROVE  LineageInv'
      <4>1. NoJob \in Jobs
        BY DEF NoJob, Retry, Jobs, Wishes, Attempts, LimitsAreNat
      <4>2. CASE Answer(r)
        <5>1. line' \in Seq(Requests) /\ job' \in [Requests -> Jobs]
          BY <4>1, <4>2 DEF Answer, LineageTypes
        <5> QED BY <2>2, <3>2, <4>2, <5>1 DEF Answer, LineageTypes
      <4>3. CASE CreateRetry(r, job[r], status)
        BY <2>2, <3>1, <3>2, <4>3, CreateKeepsTypes DEF LineageTypes
      <4> QED BY <3>2, <4>2, <4>3
    <3>3. CASE ReplaceActive(r)
      <4>1. job[r].on \in Attempts /\ status[job[r].on] # "none"
        BY <3>1, <3>3 DEF Jobs, ReplaceActive
      <4>2. job[r].on \in Known
        BY <4>1, LivesInLineage
      <4>3. "failed" \in States \ {"lease_expired"}
        BY DEF States, Failed
      <4>4. UnmadeIsNone' /\ OneExpiration' /\ status' \in [Attempts -> States]
        BY <3>3, <4>2, <4>3, ChangeKeepsLineage DEF ReplaceActive
      <4> QED BY <3>3, <4>4 DEF ReplaceActive, LineageTypes
    <3> QED BY <2>4, <3>2, <3>3 DEF Serve, Enter, ReplaceRefused, Aborted, GiveBack
  <2>5. ASSUME NEW r \in Requests, Post(r) PROVE LineageInv'
    <3>1. NoJob \in Jobs
      BY DEF NoJob, Retry, Jobs, Wishes, Attempts, LimitsAreNat
    <3>2. CASE Answer(r) /\ UNCHANGED <<status, made, enabled>>
      <4>1. line' \in Seq(Requests) /\ job' \in [Requests -> Jobs]
        BY <3>1, <3>2 DEF Answer, LineageTypes
      <4> QED BY <2>2, <3>2, <4>1 DEF Answer, LineageTypes
    <3>3. CASE Insert(r)
      <4>1. made + 1 \in Attempts /\ made' = made + 1 /\ made' \in Attempts
        BY <2>1, <3>3 DEF Insert, Attempts, LimitsAreNat
      <4>2. status' = [status EXCEPT ![made + 1] = "active"]
        BY <3>3 DEF Insert
      <4>3. status' \in [Attempts -> States]
        BY <4>1, <4>2 DEF LineageTypes, States
      <4>4. job' \in [Requests -> Jobs]
        BY <3>3, <4>1 DEF Insert, LineageTypes, Jobs
      <4>5. LineageTypes'
        BY <3>3, <4>1, <4>3, <4>4 DEF Insert, LineageTypes
      <4>6. UnmadeIsNone'
        BY <2>1, <4>1, <4>2 DEF UnmadeIsNone, LineageTypes, Attempts
      <4>7. OneExpiration'
        BY <2>1, <4>1, <4>2 DEF OneExpiration, LineageTypes, Attempts, Known
      <4> QED BY <4>5, <4>6, <4>7
    <3> QED BY <2>5, <3>2, <3>3 DEF Post, Reject, Dedup, Respond, Halfway, GiveBack
  <2>6. ASSUME NEW t \in Known, End(t) PROVE LineageInv'
    <3>1. PICK s \in {"completed", "failed"} : status' = [status EXCEPT ![t] = s]
      BY <2>6 DEF End
    <3>2. s \in States \ {"lease_expired"}
      BY DEF States, Failed
    <3> QED BY <2>6, <3>1, <3>2, ChangeKeepsLineage DEF End, LineageTypes
  <2>7. ASSUME NEW t \in Known, Expire(t) PROVE LineageInv'
    <3>1. CASE \E x \in Known : status[x] = "lease_expired"
      <4>1. "failed_twice" \in States \ {"lease_expired"}
        BY DEF States, Failed
      <4> QED BY <2>7, <3>1, <4>1, ChangeKeepsLineage DEF Expire, LineageTypes
    <3>2. CASE \A x \in Known : status[x] # "lease_expired"
      <4>1. status' = [status EXCEPT ![t] = "lease_expired"] /\ UNCHANGED <<made, caller, enabled>>
        BY <2>7, <3>2 DEF Expire
      <4>2. LineageTypes'
        BY <2>1, <4>1 DEF LineageTypes, States, Failed
      <4>3. UnmadeIsNone'
        BY <2>1, <4>1 DEF UnmadeIsNone, LineageTypes, Attempts, Known
      <4>4. OneExpiration'
        BY <2>1, <3>2, <4>1 DEF OneExpiration, LineageTypes, Known
      <4> QED BY <4>2, <4>3, <4>4
    <3> QED BY <3>1, <3>2
  <2>8. ASSUME NEW a \in Agents, Switch(a) PROVE LineageInv'
    BY <2>2, <2>8 DEF Switch, LineageTypes
  <2>9. CASE WindowPasses \/ UNCHANGED vars
    BY <2>2, <2>9 DEF WindowPasses, LineageTypes
  <2>10. CASE Crash
    <3>1. NoJob \in Jobs
      BY DEF NoJob, Retry, Jobs, Wishes, Attempts, LimitsAreNat
    <3> QED BY <2>2, <2>10, <3>1 DEF Crash, LineageTypes
  <2> QED BY <2>3, <2>4, <2>5, <2>6, <2>7, <2>8, <2>9, <2>10 DEF Next
<1> QED BY <1>1, <1>2, PTL DEF Spec

\* The second expiration of a lineage is final.
THEOREM RetryExpiresOnce == Spec => []OneExpiration
<1>1. LineageInv => OneExpiration
  BY DEF LineageInv
<1> QED BY <1>1, LineageInductive, PTL

-----------------------------------------------------------------------------
(* One execution at a time, where every caller queues on the lock of the   *)
(* root, or where the unique index of the work report stands in for it.    *)

Serial == Kinds \cap {"quality", "kanban"} = {}

\* Who works on a retry holds the lock of the root.
HolderWorks == \A r \in Requests :
  pc[r] \in {"aborting", "posting", "inserted"} => line # <<>> /\ Head(line) = r

\* What the holder found before posting stays true until its INSERT.
PostingAlone == \A r \in Requests :
  pc[r] = "posting" => \A x \in Known : status[x] # "active"

\* A root that was retried is closed for good.
RootIsClosed == made > 0 => status[0] # "active"

SerialInv == HolderWorks /\ PostingAlone /\ RootIsClosed /\ OneActive

\* Nothing becomes active.
Calmer == made' = made /\ \A x \in Known : status'[x] = "active" => status[x] = "active"

\* A step after which nobody works, and nothing has become active.
LEMMA IdleKeepsSerial ==
  ASSUME LineageTypes, SerialInv, Calmer,
         \A r \in Requests : pc'[r] \notin {"aborting", "posting", "inserted"}
  PROVE  SerialInv'
<1>1. made \in Nat /\ 0 \in Known
  BY DEF LineageTypes, Attempts, LimitsAreNat, Known
<1>2. HolderWorks' /\ PostingAlone'
  BY DEF HolderWorks, PostingAlone
<1>3. RootIsClosed' /\ OneActive'
  BY <1>1 DEF SerialInv, Calmer, RootIsClosed, OneActive, Known
<1> QED BY <1>2, <1>3 DEF SerialInv

\* An answer to the holder leaves nobody working.
LEMMA AnswerLeavesNobody ==
  ASSUME LineageTypes, HolderWorks, NEW h \in Requests, Answer(h), Head(line) = h, line # <<>>
  PROVE  \A r \in Requests : pc'[r] \notin {"aborting", "posting", "inserted"}
<1> SUFFICES ASSUME NEW r \in Requests
             PROVE  pc'[r] \notin {"aborting", "posting", "inserted"}
  OBVIOUS
<1>1. CASE r = h
  BY <1>1 DEF Answer, LineageTypes
<1>2. CASE r # h
  <2>1. pc'[r] = pc[r]
    BY <1>2 DEF Answer, LineageTypes
  <2> QED BY <1>2, <2>1 DEF HolderWorks
<1> QED BY <1>1, <1>2

\* The holder finds the lineage quiet, or goes away.
LEMMA CreateKeepsSerial ==
  ASSUME LineageInv, SerialInv, NEW h \in Requests, CreateRetry(h, job[h], status),
         Head(line) = h, line # <<>>, UNCHANGED <<status, made>>
  PROVE  SerialInv'
<1>1. Calmer
  BY DEF Calmer
<1>2. CASE Answer(h)
  BY <1>1, <1>2, IdleKeepsSerial, AnswerLeavesNobody DEF LineageInv, SerialInv
<1>3. CASE /\ status[job[h].on] \in Failed /\ {x \in 1..made : status[x] = "active"} = {}
           /\ UNCHANGED line /\ pc' = [pc EXCEPT ![h] = "posting"]
  <2>1. job[h].on \in Attempts /\ status[job[h].on] # "none" /\ status[job[h].on] # "active"
    BY <1>3 DEF LineageInv, LineageTypes, Jobs, Failed
  <2>2. job[h].on \in 0..made /\ made \in Nat
    BY <2>1, LivesInLineage DEF LineageInv, LineageTypes, Known, Attempts
  <2>3. status[0] # "active"
    BY <2>1, <2>2 DEF SerialInv, RootIsClosed
  <2>4. \A x \in Known : status[x] # "active"
    BY <1>3, <2>2, <2>3 DEF Known
  <2>5. HolderWorks'
    BY <1>3 DEF SerialInv, HolderWorks, LineageInv, LineageTypes
  <2>6. PostingAlone' /\ RootIsClosed' /\ OneActive'
    BY <2>3, <2>4 DEF SerialInv, PostingAlone, RootIsClosed, OneActive, Known
  <2> QED BY <2>5, <2>6 DEF SerialInv
<1> QED BY <1>2, <1>3 DEF CreateRetry, Refuse, GiveBack, GoOn

\* An attempt that ends or expires makes a lineage calmer, and moves no caller.
LEMMA CalmKeepsSerial ==
  ASSUME LineageTypes, SerialInv, Calmer, UNCHANGED <<line, pc>>
  PROVE  SerialInv'
<1>0. made \in Nat /\ 0 \in Known
  BY DEF LineageTypes, Attempts, LimitsAreNat, Known
<1>1. HolderWorks'
  BY DEF SerialInv, HolderWorks
<1>2. PostingAlone'
  BY DEF SerialInv, Calmer, PostingAlone, Known
<1>3. RootIsClosed' /\ OneActive'
  BY <1>0 DEF SerialInv, Calmer, RootIsClosed, OneActive, Known
<1> QED BY <1>1, <1>2, <1>3 DEF SerialInv

\* Queueing on the lock does not take it from its holder.
LEMMA QueueKeepsSerial ==
  ASSUME LineageTypes, SerialInv, NEW r \in Requests, NEW j, Queue(r, j)
  PROVE  SerialInv'
<1>1. line # <<>> => Head(line') = Head(line) /\ line' # <<>>
  BY DEF Queue, LineageTypes
<1>2. HolderWorks'
  BY <1>1 DEF Queue, SerialInv, HolderWorks, LineageTypes
<1>3. PostingAlone' /\ RootIsClosed' /\ OneActive'
  BY DEF Queue, SerialInv, PostingAlone, RootIsClosed, OneActive, LineageTypes, Known
<1> QED BY <1>2, <1>3 DEF SerialInv

\* While the quality gate and the Kanban engine keep out, the lock of the root
\* lets one execution of a lineage run at a time.
THEOREM LockSerialises == ASSUME Serial PROVE Spec => []OneActive
<1> USE DEF LineageInv
<1>1. Init => SerialInv
  BY DEF Init, SerialInv, HolderWorks, PostingAlone, RootIsClosed, OneActive, Known
<1>2. LineageInv /\ SerialInv /\ [Next]_vars => SerialInv'
  <2> SUFFICES ASSUME LineageInv, SerialInv, [Next]_vars PROVE SerialInv'
    OBVIOUS
  <2>1. Known \subseteq Attempts /\ made \in Nat
    BY DEF LineageTypes, Known, Attempts, LimitsAreNat
  <2>2. ASSUME NEW r \in Requests, Request(r) PROVE SerialInv'
    BY <2>2, QueueKeepsSerial DEF Request, Ask, Failover, Quality, Kanban, Serial
  <2>3. ASSUME NEW r \in Requests, Serve(r) PROVE SerialInv'
    <3>1. Head(line) = r /\ line # <<>>
      BY <2>3 DEF Serve, Enter, ReplaceRefused, ReplaceActive, Aborted, SerialInv, HolderWorks
    <3>2. CASE Answer(r) /\ UNCHANGED <<status, made>>
      BY <3>1, <3>2, IdleKeepsSerial, AnswerLeavesNobody DEF Calmer, SerialInv
    <3>3. CASE ReplaceActive(r)
      <4>1. Calmer
        BY <2>1, <3>3 DEF ReplaceActive, Calmer, LineageTypes
      <4>2. HolderWorks'
        BY <3>1, <3>3 DEF ReplaceActive, SerialInv, HolderWorks, LineageTypes
      <4>3. PostingAlone'
        BY <3>3, <4>1 DEF ReplaceActive, SerialInv, PostingAlone, Calmer, LineageTypes, Known
      <4>4. RootIsClosed' /\ OneActive'
        BY <2>1, <4>1 DEF SerialInv, RootIsClosed, OneActive, Calmer, Known
      <4> QED BY <4>2, <4>3, <4>4 DEF SerialInv
    <3> QED BY <2>3, <3>1, <3>2, <3>3, CreateKeepsSerial
            DEF Serve, Enter, ReplaceRefused, Aborted, GiveBack
  <2>4. ASSUME NEW r \in Requests, Post(r) PROVE SerialInv'
    <3>1. Head(line) = r /\ line # <<>>
      BY <2>4 DEF Post, Reject, Dedup, Insert, Respond, Halfway, SerialInv, HolderWorks
    <3>2. CASE Answer(r) /\ UNCHANGED <<status, made>>
      BY <3>1, <3>2, IdleKeepsSerial, AnswerLeavesNobody DEF Calmer, SerialInv
    <3>3. CASE Insert(r)
      <4>1. /\ made' = made + 1 /\ made + 1 \in Attempts /\ UNCHANGED line
            /\ status' = [status EXCEPT ![made + 1] = "active"]
            /\ pc' = [pc EXCEPT ![r] = "inserted"]
        BY <2>1, <3>3 DEF Insert, Attempts, LimitsAreNat
      <4>2. \A x \in Known : status[x] # "active"
        BY <3>3 DEF Insert, SerialInv, PostingAlone
      <4>3. HolderWorks'
        BY <3>1, <4>1 DEF SerialInv, HolderWorks, LineageTypes
      <4>4. PostingAlone'
        BY <3>1, <4>1 DEF SerialInv, HolderWorks, PostingAlone, LineageTypes
      <4>5. \A x \in Known' : x # made + 1 => status'[x] # "active"
        BY <2>1, <4>1, <4>2 DEF Known, LineageTypes, Attempts
      <4>6. RootIsClosed' /\ OneActive'
        BY <2>1, <4>1, <4>5 DEF RootIsClosed, OneActive, Known
      <4> QED BY <4>3, <4>4, <4>6 DEF SerialInv
    <3> QED BY <2>4, <3>2, <3>3 DEF Post, Reject, Dedup, Respond, Halfway, GiveBack
  <2>5. ASSUME NEW t \in Known, End(t) \/ Expire(t) PROVE SerialInv'
    <3>1. Calmer
      BY <2>1, <2>5 DEF End, Expire, Calmer, LineageTypes
    <3> QED BY <2>5, <3>1, CalmKeepsSerial DEF End, Expire
  <2>6. ASSUME NEW a \in Agents, Switch(a) PROVE SerialInv'
    BY <2>6, CalmKeepsSerial DEF Switch, Calmer
  <2>7. CASE WindowPasses \/ UNCHANGED vars
    BY <2>7, CalmKeepsSerial DEF WindowPasses, Calmer
  <2>8. CASE Crash
    BY <2>8, IdleKeepsSerial DEF Crash, Calmer
  <2> QED BY <2>2, <2>3, <2>4, <2>5, <2>6, <2>7, <2>8 DEF Next
<1>3. SerialInv => OneActive
  BY DEF SerialInv
<1> QED BY <1>1, <1>2, <1>3, LineageInductive, PTL DEF Spec

\* On a work report the unique index does the same for all five callers.
THEOREM IndexSerialises == ASSUME Report PROVE Spec => []OneActive
<1>1. Init => OneActive
  BY DEF Init, OneActive, Known
<1>2. LineageInv /\ OneActive /\ [Next]_vars => OneActive'
  <2> SUFFICES ASSUME LineageInv, OneActive, [Next]_vars PROVE OneActive'
    OBVIOUS
  <2>1. Known \subseteq Attempts /\ made \in Nat /\ status \in [Attempts -> States]
    BY DEF LineageInv, LineageTypes, Known, Attempts, LimitsAreNat
  <2>2. ASSUME Calmer PROVE OneActive'
    BY <2>2 DEF Calmer, OneActive, Known
  <2>3. ASSUME NEW r \in Requests, Insert(r) PROVE OneActive'
    <3>1. /\ made' = made + 1 /\ made + 1 \in Attempts
          /\ status' = [status EXCEPT ![made + 1] = "active"]
      BY <2>1, <2>3 DEF Insert, Attempts, LimitsAreNat
    <3>2. \A x \in Known : status[x] # "active"
      BY <2>3 DEF Insert
    <3>3. \A x \in Known' : x # made + 1 => status'[x] # "active"
      BY <2>1, <3>1, <3>2 DEF Known, Attempts
    <3> QED BY <2>1, <3>1, <3>3 DEF OneActive, Known
  <2>4. ASSUME NEW r \in Requests, Request(r) PROVE Calmer
    BY <2>1, <2>4 DEF Request, Ask, Failover, Quality, Kanban, Queue, Calmer
  <2>5. ASSUME NEW r \in Requests, Serve(r) PROVE Calmer
    BY <2>1, <2>5 DEF Serve, Enter, ReplaceRefused, ReplaceActive, Aborted, Calmer
  <2>6. ASSUME NEW r \in Requests, Post(r), ~Insert(r) PROVE Calmer
    BY <2>6 DEF Post, Reject, Dedup, Respond, Halfway, Calmer
  <2>7. ASSUME NEW t \in Known, End(t) \/ Expire(t) PROVE Calmer
    BY <2>1, <2>7 DEF End, Expire, Calmer
  <2>8. ASSUME NEW a \in Agents, Switch(a) PROVE Calmer
    BY <2>8 DEF Switch, Calmer
  <2>9. CASE WindowPasses \/ Crash \/ UNCHANGED vars
    BY <2>2, <2>9 DEF WindowPasses, Crash, Calmer
  <2> QED BY <2>2, <2>3, <2>4, <2>5, <2>6, <2>7, <2>8, <2>9 DEF Next
<1> QED BY <1>1, <1>2, LineageInductive, PTL DEF Spec
-----------------------------------------------------------------------------
(* The line of the lock                                                    *)

\* A caller that is answered leaves the head of the line, or was not in it.
LEMMA AnswerServesLine ==
  ASSUME LineageTypes, LineIsServed, NEW r \in Requests, Answer(r),
         pc[r] # "queued" \/ (line # <<>> /\ Head(line) = r)
  PROVE  LineIsServed'
<1>0. Len(line) \in Nat /\ \A i \in 1..Len(line) : line[i] \in Requests
  BY DEF LineageTypes
<1>1. pc' = [pc EXCEPT ![r] = "idle"]
  BY DEF Answer
<1>2. CASE line # <<>> /\ Head(line) = r
  <2>1. line' = Tail(line) /\ Len(line) >= 1 /\ line[1] = r
    BY <1>2 DEF Answer, LineageTypes
  <2>2. Len(line') = Len(line) - 1 /\ \A i \in 1..Len(line') : line'[i] = line[i + 1]
    BY <2>1 DEF LineageTypes
  <2>3. \A i \in 1..Len(line') : i + 1 \in 1..Len(line) /\ i + 1 # 1
    BY <1>0, <2>2
  <2>4. \A i, j \in 1..Len(line') : line'[i] = line'[j] => i = j
    <3> SUFFICES ASSUME NEW i \in 1..Len(line'), NEW j \in 1..Len(line'),
                        line'[i] = line'[j]
                 PROVE  i = j
      OBVIOUS
    <3>1. i + 1 = j + 1
      BY <2>2, <2>3 DEF LineIsServed
    <3> QED BY <1>0, <2>2, <3>1
  <2>5. \A i \in 1..Len(line') : pc'[line'[i]] = "queued"
    <3> SUFFICES ASSUME NEW i \in 1..Len(line') PROVE pc'[line'[i]] = "queued"
      OBVIOUS
    <3>1. line'[i] = line[i + 1] /\ pc[line[i + 1]] = "queued"
      BY <2>2, <2>3 DEF LineIsServed
    <3>2. line[i + 1] # r
      BY <1>0, <2>1, <2>3 DEF LineIsServed
    <3> QED BY <1>0, <1>1, <2>3, <3>1, <3>2 DEF LineageTypes
  <2>6. \A q \in Requests : pc'[q] = "queued" => \E i \in 1..Len(line') : line'[i] = q
    <3> SUFFICES ASSUME NEW q \in Requests, pc'[q] = "queued"
                 PROVE  \E i \in 1..Len(line') : line'[i] = q
      OBVIOUS
    <3>1. q # r /\ pc[q] = "queued"
      BY <1>1 DEF LineageTypes
    <3>2. PICK i \in 1..Len(line) : line[i] = q
      BY <3>1 DEF LineIsServed
    <3>3. i # 1 /\ i - 1 \in 1..Len(line') /\ (i - 1) + 1 = i
      BY <1>0, <2>1, <2>2, <3>1, <3>2
    <3>4. line'[i - 1] = q
      BY <2>2, <3>2, <3>3
    <3> QED BY <3>3, <3>4
  <2> QED BY <2>4, <2>5, <2>6 DEF LineIsServed
<1>3. CASE ~(line # <<>> /\ Head(line) = r)
  <2>1. line' = line /\ pc[r] # "queued"
    BY <1>3 DEF Answer
  <2>2. \A i \in 1..Len(line) : line[i] # r
    <3> SUFFICES ASSUME NEW i \in 1..Len(line), line[i] = r PROVE FALSE
      OBVIOUS
    <3>1. i = 1
      BY <2>1 DEF LineIsServed
    <3> QED BY <1>0, <1>3, <3>1 DEF LineageTypes
  <2> QED BY <1>0, <1>1, <2>1, <2>2 DEF LineIsServed, LineageTypes
<1> QED BY <1>2, <1>3

\* A caller that goes on is the head of the line, or does not use it.
LEMMA GoingOnServesLine ==
  ASSUME LineageTypes, LineIsServed, NEW r \in Requests, UNCHANGED line,
         NEW s \in {"aborting", "posting", "inserted"}, pc' = [pc EXCEPT ![r] = s],
         pc[r] # "queued" \/ (line # <<>> /\ Head(line) = r)
  PROVE  LineIsServed'
<1>0. Len(line) \in Nat /\ \A i \in 1..Len(line) : line[i] \in Requests
  BY DEF LineageTypes
<1>1. \A i \in 1..Len(line) : line[i] = r => i = 1
  BY <1>0 DEF LineIsServed, LineageTypes
<1> QED BY <1>0, <1>1 DEF LineIsServed, LineageTypes

\* A caller goes to the end of the line once.
LEMMA QueueServesLine ==
  ASSUME LineageTypes, LineIsServed, NEW r \in Requests, pc[r] = "idle", NEW j, Queue(r, j)
  PROVE  LineIsServed'
<1>0. Len(line) \in Nat /\ \A i \in 1..Len(line) : line[i] \in Requests
  BY DEF LineageTypes
<1>1. \A i \in 1..Len(line) : line[i] # r
  BY DEF LineIsServed
<1>2. /\ pc' = [pc EXCEPT ![r] = "queued"]
      /\ Len(line') = Len(line) + 1 /\ line'[Len(line) + 1] = r
      /\ \A i \in 1..Len(line) : line'[i] = line[i]
  BY DEF Queue, LineageTypes
<1>3. \A i \in 1..Len(line') : i \in 1..Len(line) \/ i = Len(line) + 1
  BY <1>0, <1>2
<1>4. \A i, k \in 1..Len(line') : line'[i] = line'[k] => i = k
  BY <1>0, <1>1, <1>2, <1>3 DEF LineIsServed
<1>5. \A q \in Requests : pc'[q] = "queued" => \E i \in 1..Len(line') : line'[i] = q
  <2> SUFFICES ASSUME NEW q \in Requests, pc'[q] = "queued"
               PROVE  \E i \in 1..Len(line') : line'[i] = q
    OBVIOUS
  <2>1. CASE q = r
    BY <1>0, <1>2, <2>1
  <2>2. CASE q # r
    <3>1. PICK i \in 1..Len(line) : line[i] = q
      BY <1>2, <2>2 DEF LineIsServed, LineageTypes
    <3> QED BY <1>0, <1>2, <3>1
  <2> QED BY <2>1, <2>2
<1>6. \A i \in 1..Len(line') :
        IF i = 1 THEN pc'[line'[i]] # "idle" ELSE pc'[line'[i]] = "queued"
  BY <1>0, <1>1, <1>2, <1>3 DEF LineIsServed, LineageTypes
<1> QED BY <1>4, <1>5, <1>6 DEF LineIsServed

\* A caller of createRetryTask() is answered or goes on.
LEMMA CreateServesLine ==
  ASSUME LineageTypes, LineIsServed, NEW r \in Requests, NEW j, NEW st, CreateRetry(r, j, st),
         pc[r] # "queued" \/ (line # <<>> /\ Head(line) = r)
  PROVE  LineIsServed'
<1>1. CASE Answer(r)
  BY <1>1, AnswerServesLine
<1>2. CASE UNCHANGED line /\ pc' = [pc EXCEPT ![r] = "posting"]
  BY <1>2, GoingOnServesLine
<1> QED BY <1>1, <1>2 DEF CreateRetry, Refuse, GiveBack, GoOn

\* Whatever becomes of the holders of the lock of a root, those behind them are
\* served: with the finitely many steps each holder has, nobody waits for ever.
THEOREM LockServes == Spec => []LineIsServed
<1>1. Init => LineIsServed
  BY DEF Init, LineIsServed
<1>2. LineageInv /\ LineIsServed /\ [Next]_vars => LineIsServed'
  <2> SUFFICES ASSUME LineageTypes, LineIsServed, [Next]_vars PROVE LineIsServed'
    BY DEF LineageInv
  <2>1. ASSUME NEW r \in Requests, Request(r) PROVE LineIsServed'
    BY <2>1, QueueServesLine, CreateServesLine DEF Request, Ask, Failover, Quality, Kanban
  <2>2. ASSUME NEW r \in Requests, Serve(r) PROVE LineIsServed'
    BY <2>2, AnswerServesLine, GoingOnServesLine, CreateServesLine
       DEF Serve, Enter, ReplaceRefused, ReplaceActive, Aborted, GiveBack
  <2>3. ASSUME NEW r \in Requests, Post(r) PROVE LineIsServed'
    <3>1. pc[r] # "queued"
      BY <2>3 DEF Post, Reject, Dedup, Insert, Respond, Halfway
    <3> QED BY <2>3, <3>1, AnswerServesLine, GoingOnServesLine
            DEF Post, Reject, Dedup, Insert, Respond, Halfway, GiveBack
  <2>4. CASE UNCHANGED <<line, pc>>
    BY <2>4 DEF LineIsServed
  <2>5. CASE Crash
    BY <2>5 DEF Crash, LineIsServed
  <2> QED BY <2>1, <2>2, <2>3, <2>4, <2>5 DEF Next, End, Expire, Switch, WindowPasses
<1> QED BY <1>1, <1>2, LineageInductive, PTL DEF Spec, LineageInv

-----------------------------------------------------------------------------
(* Types                                                                   *)

\* The types that neither the budget nor the serialisation asks for.
OtherTypes ==
  /\ asked \in [Attempts -> Agents]
  /\ count <= WindowLimit /\ disowned <= MaxHalfway /\ crashes \in 0..MaxCrashes

\* A wish is a provider, given or inherited from the attempt that is retried.
LEMMA WishIsAgent ==
  ASSUME LineageTypes, OtherTypes, NEW j \in Jobs
  PROVE  Wish(j) \in Agents
BY DEF Wish, Jobs, Wishes, LineageTypes, OtherTypes

\* Outside of the reservations and returns the counter of the window stays.
LEMMA CreateKeepsCount ==
  ASSUME NEW r, NEW j, NEW st, CreateRetry(r, j, st)
  PROVE  within' = TRUE \/ UNCHANGED budget
BY DEF CreateRetry, Refuse, GiveBack, GoOn, Rollback, Reserve

\* Attempts, counters and callers stay in their types: no counter is negative or
\* above its limit (reserveRetry, rollbackRetryReservation).
THEOREM RetryTypes == Spec => []TypeOK
<1> DEFINE Both == BudgetInv /\ LineageInv
<1>1. Init => OtherTypes
  BY DEF Init, OtherTypes, LimitsAreNat
<1>2. Both /\ Both' /\ OtherTypes /\ [Next]_vars => OtherTypes'
  <2> SUFFICES ASSUME Both, Both', OtherTypes, [Next]_vars PROVE OtherTypes'
    OBVIOUS
  <2>1. within' => count' <= WindowLimit
    BY DEF BudgetInv, WindowIsCovered
  <2>2. ASSUME within' = TRUE \/ UNCHANGED budget PROVE count' <= WindowLimit
    BY <2>1, <2>2 DEF OtherTypes
  <2>3. ASSUME UNCHANGED <<asked, disowned, crashes>>, within' = TRUE \/ UNCHANGED budget
        PROVE  OtherTypes'
    BY <2>2, <2>3 DEF OtherTypes
  <2>4. ASSUME NEW r \in Requests, Request(r) \/ Serve(r) PROVE OtherTypes'
    BY <2>3, <2>4, CreateKeepsCount
       DEF Request, Serve, Ask, Failover, Quality, Kanban, Queue, Enter, ReplaceRefused,
           ReplaceActive, Aborted, GiveBack, Rollback, Reserve
  <2>5. ASSUME NEW r \in Requests, Insert(r) PROVE OtherTypes'
    <3>1. Wish(job[r]) \in Agents
      BY WishIsAgent DEF LineageInv, LineageTypes
    <3> QED BY <2>5, <3>1 DEF Insert, OtherTypes, BudgetInv, BudgetTypes
  <2>6. ASSUME NEW r \in Requests, Halfway(r) PROVE OtherTypes'
    <3>1. within' = TRUE /\ disowned' = disowned + 1 /\ disowned < MaxHalfway
          /\ UNCHANGED <<asked, crashes>>
      BY <2>6 DEF Halfway
    <3>2. disowned \in Nat
      BY DEF BudgetInv, BudgetTypes
    <3> QED BY <2>2, <3>1, <3>2 DEF OtherTypes
  <2>7. ASSUME NEW r \in Requests, Reject(r) \/ Dedup(r) \/ Respond(r) PROVE OtherTypes'
    BY <2>3, <2>7 DEF Reject, Dedup, Respond, GiveBack, Rollback
  <2>8. ASSUME \/ \E t \in Known : End(t) \/ Expire(t)
               \/ \E a \in Agents : Switch(a)
               \/ UNCHANGED vars
        PROVE  OtherTypes'
    BY <2>3, <2>8 DEF End, Expire, Switch
  <2>9. CASE WindowPasses
    BY <2>9 DEF WindowPasses, OtherTypes
  <2>10. CASE Crash
    BY <2>10 DEF Crash, OtherTypes
  <2> QED BY <2>4, <2>5, <2>6, <2>7, <2>8, <2>9, <2>10 DEF Next, Post
<1>3. Both /\ OtherTypes => TypeOK
  <2> SUFFICES ASSUME Both, OtherTypes PROVE TypeOK
    OBVIOUS
  <2>1. held \subseteq Requests
    BY DEF BudgetInv, HeldIsInFlight
  <2>2. count \in 0..WindowLimit /\ disowned \in 0..MaxHalfway
    BY DEF BudgetInv, BudgetTypes, OtherTypes
  <2> QED BY <2>1, <2>2 DEF TypeOK, BudgetInv, BudgetTypes, LineageInv, LineageTypes, OtherTypes
<1>4. Spec => []Both
  BY BudgetInductive, LineageInductive, PTL
<1> QED BY <1>1, <1>2, <1>3, <1>4, PTL DEF Spec

-----------------------------------------------------------------------------
(* Work reports (WorkReports), for any numbers of tasks, attempts and        *)
(* failures.  DispatchesAreBounded is carried by who may post: a report is   *)
(* inserted once, so that only one dispatcher has the POST of the issue, and *)
(* a tick has one of an attempt while it is about a report that has some     *)
(* left.                                                                     *)

\* What the row of the report may be.
ReportRows == [status : Statuses, by : Tasks \cup {None, Person},
               link : Tasks \cup {None}, attempts : 0 .. MaxRedispatches, backoff : BOOLEAN]

\* The POST of the issue is still to come.
Unissued == report.status = "none" \/ at["tick"] = "issuing" \/ at["call"] = "waiting"

\* Where a dispatcher may be, and what it has then.
Places ==
  /\ report.status = "none" => at["tick"] = "idle" /\ at["call"] = "idle"
  /\ at["call"] \in {"idle", "waiting", "posting", "others"}
  /\ at["tick"] = "issuing" => at["call"] # "waiting"
  /\ at["tick"] \in {"waiting", "posting"} => report.attempts < MaxRedispatches
  /\ tried => at["tick"] \in {"posting", "others"} /\ report.attempts < MaxRedispatches

\* Who has the POST of the issue has not used it; and one more is to be counted.
Paid ==
  /\ unpaid <= 2
  /\ Unissued \/ ~tried => unpaid <= 1
  /\ Unissued /\ ~tried => unpaid <= 0

ReportInv == ReportTypeOK /\ Places /\ Paid

\* No report is there.
LEMMA InitReport == ReportInit => ReportInv
<1>. SUFFICES ASSUME ReportInit PROVE ReportInv
  OBVIOUS
<1>1. MaxRedispatches \in Nat /\ MaxFailures \in Nat
  BY ReportsAreBounded
<1>2. ReportTypeOK
  <2>1. "open" \in {Time[i] : i \in 1 .. 4}
    <3>1. Time[1] = "open" /\ 1 \in 1 .. 4
      BY DEF Time
    <3>2. QED
      BY <3>1
  <2>2. report \in ReportRows
    BY <1>1 DEF ReportInit, ReportRows, Statuses
  <2>3. QED
    <3>1. /\ failures \in 0 .. MaxFailures /\ unpaid \in Int
          /\ {clock, day} \subseteq {Time[i] : i \in 1 .. 4}
      BY <1>1, <2>1 DEF ReportInit
    <3>2. QED
      BY <2>2, <3>1 DEF ReportInit, ReportTypeOK, ReportRows
<1>3. QED
  BY <1>2 DEF ReportInit, ReportInv, Places, Paid, Unissued, Dispatchers

\* What is done to the row.
LEMMA RowIsTyped ==
  ASSUME NEW r \in ReportRows, NEW time
  PROVE  /\ Ingested(r, time) \in ReportRows /\ Finalized(r, time) \in ReportRows
         /\ Ingested(r, time).attempts = r.attempts /\ Finalized(r, time).attempts = r.attempts
         /\ Ingested(r, time).status = "none" <=> r.status = "none"
         /\ Finalized(r, time).status = "none" <=> r.status = "none"
BY DEF Ingested, Finalized, Collects, ReportRows, Statuses

\* A result is handed in by a task, and what was handed in stays.
LEMMA RowIsKept ==
  ASSUME NEW r \in ReportRows, NEW time, r.status = "submitted"
  PROVE  Ingested(r, time) = r /\ Finalized(r, time) = r
BY DEF Ingested, Finalized, Collects

\* Every step keeps the invariant.
LEMMA ReportStep == ReportInv /\ [ReportNext]_reportVars => ReportInv'
<1>. SUFFICES ASSUME ReportInv, [ReportNext]_reportVars PROVE ReportInv'
  OBVIOUS
<1>. USE DEF ReportInv
<1>0. /\ ReportTypeOK /\ Places /\ Paid
      /\ report \in ReportRows /\ at \in [Dispatchers -> {"idle", "issuing", "issue posted",
           "issued", "waiting", "posting", "others", "finalizing"}]
      /\ got \in [Dispatchers -> Tasks \cup {None}] /\ tried \in BOOLEAN /\ unpaid \in Int
      /\ "tick" \in Dispatchers /\ "call" \in Dispatchers
      /\ report.attempts \in 0 .. MaxRedispatches
      /\ MaxRedispatches \in Nat /\ MaxFailures \in Nat
  BY ReportsAreBounded DEF ReportTypeOK, ReportRows, Dispatchers
<1>n. /\ unpaid \in Int /\ report.attempts \in 0 .. MaxRedispatches
      /\ MaxRedispatches \in Nat /\ MaxFailures \in Nat /\ failures \in 0 .. MaxFailures
  BY <1>0 DEF ReportTypeOK
<1>1. CASE Tick
  <2>1. /\ at["tick"] = "idle" /\ day' = clock /\ tried' = FALSE
        /\ UNCHANGED <<row, clock, got, failures, unpaid>>
    BY <1>1 DEF Tick
  <2>2. ~tried
    BY <1>0, <2>1 DEF Places
  <2>3. CASE report.status = "none"
    <3>1. PICK next \in {"issuing", "issued"} :
            report' = Issued /\ at' = [at EXCEPT !["tick"] = next]
      BY <1>1, <2>3 DEF Tick, Goes
    <3>2. Issued \in ReportRows /\ Issued.status = "pending" /\ Issued.attempts = report.attempts
      BY <1>0 DEF Issued, ReportRows, Statuses
    <3>3. ReportTypeOK'
      BY <1>0, <2>1, <3>1, <3>2 DEF ReportTypeOK, ReportRows
    <3>4. at["call"] = "idle"
      BY <1>0, <2>3 DEF Places
    <3>5. Places' /\ Paid'
      BY <1>0, <2>1, <2>2, <2>3, <3>1, <3>2, <3>4 DEF Places, Paid, Unissued
    <3>6. QED
      BY <3>3, <3>5
  <2>4. CASE report.status # "none"
    <3>1. Reconciles(clock)
      BY <1>1, <2>4 DEF Tick
    <3>2. /\ report' = Ingested(report, clock)
          /\ \/ Selects(report') /\ at' = [at EXCEPT !["tick"] = "waiting"]
             \/ at' = [at EXCEPT !["tick"] = "others"]
      BY <3>1 DEF Reconciles, Goes
    <3>3. /\ report' \in ReportRows /\ report'.attempts = report.attempts
          /\ report'.status # "none"
      BY <1>0, <2>4, <3>2, RowIsTyped
    <3>4. ReportTypeOK'
      BY <1>0, <2>1, <3>2, <3>3 DEF ReportTypeOK, ReportRows
    <3>5. Places' /\ Paid'
      BY <1>0, <2>1, <2>2, <2>4, <3>2, <3>3 DEF Places, Paid, Unissued, Selects
    <3>6. QED
      BY <3>4, <3>5
  <2>5. QED
    BY <2>3, <2>4
<1>2. CASE TickIngests
  <2>1. /\ at["tick"] = "issued" /\ UNCHANGED <<row, clock, day, got, tried, failures, unpaid>>
        /\ report' = Ingested(report, day)
        /\ \/ Selects(report') /\ at' = [at EXCEPT !["tick"] = "waiting"]
           \/ at' = [at EXCEPT !["tick"] = "others"]
    BY <1>2 DEF TickIngests, Reconciles, Goes
  <2>2. /\ report' \in ReportRows /\ report'.attempts = report.attempts
        /\ report'.status = "none" <=> report.status = "none"
    BY <1>0, <2>1, RowIsTyped
  <2>3. ReportTypeOK'
    BY <1>0, <2>1, <2>2 DEF ReportTypeOK, ReportRows
  <2>4. Places' /\ Paid'
    BY <1>0, <2>1, <2>2 DEF Places, Paid, Unissued, Selects
  <2>5. QED
    BY <2>3, <2>4
<1>3. CASE Counted
  <2>1. /\ at["tick"] = "others" /\ at' = [at EXCEPT !["tick"] = "finalizing"] /\ tried' = FALSE
        /\ UNCHANGED <<row, clock, day, got, failures>>
        /\ IF tried
           THEN /\ report' = [report EXCEPT !.attempts = @ + 1, !.backoff = TRUE]
                /\ unpaid' = unpaid - 1
           ELSE UNCHANGED <<report, unpaid>>
    BY <1>3 DEF Counted, Counts, Goes
  <2>2. tried => report.attempts < MaxRedispatches
    BY <1>0 DEF Places
  <2>3. report' \in ReportRows /\ report'.status = report.status
    <3>1. CASE tried
      <4>1. /\ report.attempts < MaxRedispatches
            /\ report' = [report EXCEPT !.attempts = @ + 1, !.backoff = TRUE]
        BY <2>1, <2>2, <3>1
      <4>2. report.attempts + 1 \in 0 .. MaxRedispatches
        BY <1>n, <4>1
      <4>3. QED
        BY <1>0, <4>1, <4>2 DEF ReportRows
    <3>2. CASE ~tried
      BY <1>0, <2>1, <3>2
    <3>3. QED
      BY <3>1, <3>2
  <2>4. unpaid' \in Int /\ tried' \in BOOLEAN
    <3>1. unpaid' = unpaid - 1 \/ unpaid' = unpaid
      BY <2>1
    <3>2. unpaid' \in Int
      BY <1>n, <3>1
    <3>3. QED
      BY <2>1, <3>2
  <2>5. ReportTypeOK'
    BY <1>0, <2>1, <2>3, <2>4 DEF ReportTypeOK, ReportRows
  <2>6. Places'
    BY <1>0, <2>1, <2>3 DEF Places
  <2>7. Unissued' <=> Unissued
    BY <1>0, <2>1, <2>3 DEF Unissued
  <2>8. Paid'
    <3>1. CASE tried
      <4>1. unpaid' = unpaid - 1
        BY <2>1, <3>1
      <4>2. /\ unpaid <= 2
            /\ Unissued => unpaid <= 1
        BY <1>0 DEF Paid
      <4>3. QED
        BY <1>n, <2>1, <2>7, <4>1, <4>2 DEF Paid
    <3>2. CASE ~tried
      BY <1>0, <2>1, <2>7, <3>2 DEF Paid
    <3>3. QED
      BY <3>1, <3>2
  <2>9. QED
    BY <2>5, <2>6, <2>8
<1>4. CASE Finalize
  <2>1. /\ at["tick"] = "finalizing" /\ at' = [at EXCEPT !["tick"] = "idle"]
        /\ UNCHANGED <<row, clock, day, got, tried, failures, unpaid>>
        /\ report' = report \/ report' = Finalized(report, day)
    BY <1>4 DEF Finalize, Goes
  <2>2. /\ report' \in ReportRows /\ report'.attempts = report.attempts
        /\ report'.status = "none" <=> report.status = "none"
    BY <1>0, <2>1, RowIsTyped
  <2>3. ReportTypeOK'
    BY <1>0, <2>1, <2>2 DEF ReportTypeOK, ReportRows
  <2>4. Places' /\ Paid'
    BY <1>0, <2>1, <2>2 DEF Places, Paid, Unissued
  <2>5. QED
    BY <2>3, <2>4
<1>5. CASE Call
  <2>1. /\ at["call"] = "idle" /\ UNCHANGED <<row, clock, day, got, tried, failures, unpaid>>
    BY <1>5 DEF Call
  <2>2. CASE report.status = "none"
    <3>1. PICK next \in {"waiting", "others"} :
            report' = Issued /\ at' = [at EXCEPT !["call"] = next]
      BY <1>5, <2>2 DEF Call, Goes
    <3>2. Issued \in ReportRows /\ Issued.status = "pending" /\ Issued.attempts = report.attempts
      BY <1>0 DEF Issued, ReportRows, Statuses
    <3>3. ReportTypeOK'
      BY <1>0, <2>1, <3>1, <3>2 DEF ReportTypeOK, ReportRows
    <3>4. Places' /\ Paid'
      BY <1>0, <2>1, <2>2, <3>1, <3>2 DEF Places, Paid, Unissued
    <3>5. QED
      BY <3>3, <3>4
  <2>3. CASE report.status # "none"
    <3>1. UNCHANGED report /\ at' = [at EXCEPT !["call"] = "others"]
      BY <1>5, <2>3 DEF Call, Goes
    <3>2. ReportTypeOK'
      BY <1>0, <2>1, <3>1 DEF ReportTypeOK
    <3>3. Places' /\ Paid'
      BY <1>0, <2>1, <2>3, <3>1 DEF Places, Paid, Unissued
    <3>4. QED
      BY <3>2, <3>3
  <2>4. QED
    BY <2>2, <2>3
<1>6. CASE CallFinalizes
  <2>1. /\ at["call"] = "others" /\ at' = [at EXCEPT !["call"] = "idle"]
        /\ UNCHANGED <<row, clock, day, got, tried, failures, unpaid>>
        /\ report' = Finalized(report, clock)
    BY <1>6 DEF CallFinalizes, Goes
  <2>2. /\ report' \in ReportRows /\ report'.attempts = report.attempts
        /\ report'.status = "none" <=> report.status = "none"
    BY <1>0, <2>1, RowIsTyped
  <2>3. ReportTypeOK'
    BY <1>0, <2>1, <2>2 DEF ReportTypeOK, ReportRows
  <2>4. Places' /\ Paid'
    BY <1>0, <2>1, <2>2 DEF Places, Paid, Unissued
  <2>5. QED
    BY <2>3, <2>4
<1>7. ASSUME NEW d \in Dispatchers, PostReport(d) PROVE ReportInv'
  <2>1. /\ at[d] \in {"waiting", "issuing"} /\ UNCHANGED <<report, clock, day, failures>>
    BY <1>7 DEF PostReport
  <2>2. d = "tick" \/ (d = "call" /\ at[d] = "waiting")
    <3>1. at["call"] # "issuing"
      BY <1>0 DEF Places
    <3>2. d = "tick" \/ d = "call"
      BY DEF Dispatchers
    <3>3. CASE d = "call"
      <4>1. at[d] # "issuing"
        BY <3>1, <3>3
      <4>2. QED
        BY <2>1, <3>3, <4>1
    <3>4. QED
      BY <3>2, <3>3
  <2>3. CASE /\ at' = [at EXCEPT ![d] = IF at[d] = "issuing" THEN "issued" ELSE "others"]
             /\ UNCHANGED <<row, got, tried, unpaid>>
    <3>1. ReportTypeOK'
      BY <1>0, <2>1, <2>3 DEF ReportTypeOK
    <3>2. Places' /\ Paid'
      BY <1>0, <2>1, <2>2, <2>3 DEF Places, Paid, Unissued
    <3>3. QED
      BY <3>1, <3>2
  <2>4. CASE /\ at' = [at EXCEPT ![d] = IF at[d] = "issuing" THEN "issue posted" ELSE "posting"]
             /\ unpaid' = unpaid + 1
             /\ tried' = (tried \/ (d = "tick" /\ at[d] = "waiting"))
             /\ Answers(d)
    <3>1. row' \in [Tasks -> {"none", "active", "delivered", "failed"}]
      BY <1>0, <2>4 DEF Answers, Started, Fresh, ReportTypeOK
    <3>2. got' \in [Dispatchers -> Tasks \cup {None}]
      BY <1>0, <2>4 DEF Answers, Active, Fresh
    <3>3. tried' \in BOOLEAN /\ unpaid' = unpaid + 1
      BY <2>4
    <3>4. unpaid' \in Int
      BY <1>n, <3>3
    <3>5. ReportTypeOK'
      BY <1>0, <2>1, <2>4, <3>1, <3>2, <3>3, <3>4 DEF ReportTypeOK
    <3>6. Places'
      BY <1>0, <2>1, <2>2, <2>4 DEF Places
    <3>7. CASE d = "tick" /\ at[d] = "waiting"
      <4>1. ~tried /\ tried'
        BY <1>0, <2>4, <3>7 DEF Places
      <4>2. Unissued' => Unissued
        BY <1>0, <2>1, <2>4, <3>7 DEF Unissued
      <4>3. unpaid <= 1 /\ (Unissued => unpaid <= 0)
        BY <1>0, <4>1 DEF Paid
      <4>4. Paid'
        BY <1>n, <3>3, <4>1, <4>2, <4>3 DEF Paid
      <4>5. QED
        BY <3>5, <3>6, <4>4
    <3>8. CASE at[d] # "waiting" \/ d = "call"
      <4>1. (tried' <=> tried) /\ unpaid' = unpaid + 1
        BY <2>4, <3>8
      <4>2. Unissued
        BY <2>1, <2>2, <3>8 DEF Unissued
      <4>3. ~Unissued'
        BY <1>0, <2>1, <2>2, <2>4, <3>8 DEF Unissued, Places
      <4>4. unpaid <= 1 /\ (~tried => unpaid <= 0)
        BY <1>0, <4>2 DEF Paid
      <4>5. Paid'
        BY <1>n, <3>3, <4>1, <4>3, <4>4 DEF Paid
      <4>6. QED
        BY <3>5, <3>6, <4>5
    <3>9. QED
      BY <2>2, <3>5, <3>6, <3>7, <3>8
  <2>5. QED
    BY <1>7, <2>3, <2>4 DEF PostReport, Goes
<1>8. ASSUME NEW d \in Dispatchers, Answered(d) PROVE ReportInv'
  <2>1. /\ at[d] \in {"posting", "issue posted"}
        /\ UNCHANGED <<row, clock, day, tried, failures, unpaid>>
        /\ report' = IF got[d] # None /\ report.link = None
                     THEN [report EXCEPT !.link = got[d]] ELSE report
        /\ got' = [got EXCEPT ![d] = None]
        /\ at' = [at EXCEPT ![d] = IF at[d] = "issue posted" THEN "issued" ELSE "others"]
    BY <1>8 DEF Answered, Goes
  <2>2. /\ report' \in ReportRows /\ report'.attempts = report.attempts
        /\ report'.status = report.status
    BY <1>0, <2>1 DEF ReportRows
  <2>3. ReportTypeOK'
    BY <1>0, <2>1, <2>2 DEF ReportTypeOK, ReportRows
  <2>4. d = "tick" \/ (d = "call" /\ at[d] = "posting")
    <3>1. at["call"] # "issue posted"
      BY <1>0 DEF Places
    <3>2. d = "tick" \/ d = "call"
      BY DEF Dispatchers
    <3>3. CASE d = "call"
      <4>1. at[d] # "issue posted"
        BY <3>1, <3>3
      <4>2. QED
        BY <2>1, <3>3, <4>1
    <3>4. QED
      BY <3>2, <3>3
  <2>5. Places' /\ Paid'
    BY <1>0, <2>1, <2>2, <2>4 DEF Places, Paid, Unissued
  <2>6. QED
    BY <2>3, <2>5
<1>9. ASSUME NEW t \in Tasks, Settle(t) \/ FailsOver(t) PROVE ReportInv'
  <2>1. UNCHANGED <<report, clock, day, at, got, tried, failures, unpaid>>
    BY <1>9 DEF Settle, FailsOver
  <2>2. row' \in [Tasks -> {"none", "active", "delivered", "failed"}]
    BY <1>0, <1>9 DEF Settle, FailsOver, Started, Fresh, ReportTypeOK
  <2>3. QED
    BY <1>0, <2>1, <2>2 DEF ReportTypeOK, Places, Paid, Unissued
<1>10. CASE Submit \/ BackoffEnds
  <2>1. /\ UNCHANGED <<row, clock, day, at, got, tried, failures, unpaid>>
        /\ \/ /\ report.status # "none"
              /\ report' = [report EXCEPT !.status = "submitted", !.by = Person]
           \/ report' = [report EXCEPT !.backoff = FALSE]
    BY <1>10 DEF Submit, BackoffEnds
  <2>2. /\ report' \in ReportRows /\ report'.attempts = report.attempts
        /\ report'.status = "none" <=> report.status = "none"
    BY <1>0, <2>1 DEF ReportRows, Statuses
  <2>3. ReportTypeOK'
    BY <1>0, <2>1, <2>2 DEF ReportTypeOK, ReportRows
  <2>4. QED
    BY <1>0, <2>1, <2>2, <2>3 DEF Places, Paid, Unissued
<1>11. CASE Passes
  <2>1. /\ UNCHANGED <<report, row, day, at, got, tried, failures, unpaid>>
        /\ clock' \in {Time[i] : i \in 1 .. 4}
    BY <1>11 DEF Passes
  <2>2. QED
    BY <1>0, <2>1 DEF ReportTypeOK, Places, Paid, Unissued
<1>12. ASSUME NEW D \in SUBSET Dispatchers, Fails(D) PROVE ReportInv'
  <2>1. /\ failures < MaxFailures /\ failures' = failures + 1
        /\ at' = Stopped(D)
        /\ got' = [d \in Dispatchers |-> IF d \in D THEN None ELSE got[d]]
        /\ unpaid' = IF "tick" \in D /\ tried THEN unpaid - 1 ELSE unpaid
        /\ tried' = (tried /\ "tick" \notin D)
        /\ UNCHANGED <<report, row, clock, day>>
    BY <1>12 DEF Fails
  <2>2. tried' \in BOOLEAN /\ unpaid' \in Int /\ failures' \in 0 .. MaxFailures
    BY <1>n, <2>1
  <2>3. at' \in [Dispatchers -> {"idle", "issuing", "issue posted", "issued", "waiting",
                                "posting", "others", "finalizing"}]
    BY <1>0, <2>1 DEF Stopped
  <2>4. got' \in [Dispatchers -> Tasks \cup {None}]
    BY <1>0, <2>1
  <2>5. ReportTypeOK'
    BY <1>0, <2>1, <2>2, <2>3, <2>4 DEF ReportTypeOK
  <2>6. Places'
    BY <1>0, <2>1 DEF Places, Stopped
  <2>7. Unissued' => Unissued
    BY <1>0, <2>1 DEF Unissued, Stopped
  <2>8. CASE "tick" \in D /\ tried
    <3>1. unpaid' = unpaid - 1
      BY <2>1, <2>8
    <3>2. unpaid <= 2 /\ (Unissued => unpaid <= 1)
      BY <1>0 DEF Paid
    <3>3. Paid'
      BY <1>n, <2>7, <3>1, <3>2 DEF Paid
    <3>4. QED
      BY <2>5, <2>6, <3>3
  <2>9. CASE ~("tick" \in D /\ tried)
    <3>1. (tried' <=> tried) /\ unpaid' = unpaid
      BY <2>1, <2>9
    <3>2. QED
      BY <1>0, <2>5, <2>6, <2>7, <3>1 DEF Paid
  <2>10. QED
    BY <2>8, <2>9
<1>13. CASE UNCHANGED reportVars
  BY <1>0, <1>13 DEF reportVars, ReportTypeOK, Places, Paid, Unissued
<1>14. Throws \/ Replaced => \E D \in SUBSET Dispatchers : Fails(D)
  BY DEF Throws, Replaced
<1>15. QED
  BY <1>0, <1>1, <1>2, <1>3, <1>4, <1>5, <1>6, <1>7, <1>8, <1>9, <1>10, <1>11, <1>12, <1>13, <1>14
    DEF ReportNext, Runs, Calls

\* The invariant of the reports.
LEMMA ReportsKeep == ReportSpec => []ReportInv
BY InitReport, ReportStep, PTL DEF ReportSpec

\* The row, the tasks and what the dispatchers hold are well typed: no tick and no
\* call counts an attempt above MAX_REDISPATCH_ATTEMPTS.
THEOREM ReportTypes == ReportSpec => []ReportTypeOK
<1>1. ReportInv => ReportTypeOK
  BY DEF ReportInv
<1>2. QED
  BY <1>1, ReportsKeep, PTL

\* One POST for the issue and one for each attempt, for any number of tasks,
\* attempts and failures.
THEOREM DispatchesStayBounded == ReportSpec => []DispatchesAreBounded
<1>1. ReportInv => DispatchesAreBounded
  <2>1. ReportInv => unpaid \in Int /\ Places /\ Paid
    BY DEF ReportInv, ReportTypeOK
  <2>2. CASE tried
    BY <2>1, <2>2 DEF Places, Paid, DispatchesAreBounded
  <2>3. CASE ~tried
    BY <2>1, <2>3 DEF Paid, DispatchesAreBounded
  <2>4. QED
    BY <2>2, <2>3
<1>2. QED
  BY <1>1, ReportsKeep, PTL

\* Nothing takes back a report that was handed in, nor replaces what a person wrote.
THEOREM SubmittedStays == ReportSpec => SubmittedIsKept
<1>1. ASSUME ReportInv, [ReportNext]_reportVars, report.status = "submitted"
      PROVE  report'.status = "submitted" /\ (report.by = Person => report'.by = Person)
  <2>0. report \in ReportRows
    BY <1>1 DEF ReportInv, ReportTypeOK, ReportRows
  <2>1. CASE Tick \/ TickIngests
    <3>1. report' = Ingested(report, clock) \/ report' = Ingested(report, day)
      BY <1>1, <2>1 DEF Tick, TickIngests, Reconciles
    <3>2. QED
      BY <1>1, <2>0, <3>1, RowIsKept
  <2>2. CASE Finalize \/ CallFinalizes
    <3>1. \/ report' = Finalized(report, day) \/ report' = Finalized(report, clock)
          \/ report' = report
      BY <2>2 DEF Finalize, CallFinalizes
    <3>2. QED
      BY <1>1, <2>0, <3>1, RowIsKept
  <2>3. CASE Counted \/ BackoffEnds \/ \E d \in Dispatchers : Answered(d)
    BY <1>1, <2>0, <2>3 DEF Counted, BackoffEnds, Answered, ReportRows
  <2>4. CASE Call
    BY <1>1, <2>4 DEF Call
  <2>5. CASE Submit
    BY <1>1, <2>0, <2>5 DEF Submit, ReportRows
  <2>6. CASE \/ \E d \in Dispatchers : PostReport(d)
             \/ \E t \in Tasks : Settle(t) \/ FailsOver(t)
             \/ Passes \/ Throws \/ Replaced \/ UNCHANGED reportVars
    <3>1. report' = report
      BY <2>6 DEF PostReport, Settle, FailsOver, Passes, Throws, Replaced, Fails, reportVars
    <3>2. QED
      BY <1>1, <3>1
  <2>7. "tick" \in Dispatchers /\ "call" \in Dispatchers
    BY DEF Dispatchers
  <2>8. QED
    BY <1>1, <2>1, <2>2, <2>3, <2>4, <2>5, <2>6, <2>7 DEF ReportNext, Runs, Calls
<1>2. ReportInv /\ [ReportNext]_reportVars =>
        [report.status = "submitted" =>
           report'.status = "submitted" /\ (report.by = Person => report'.by = Person)]_reportVars
  BY <1>1
<1>3. QED
  BY <1>2, ReportsKeep, PTL DEF ReportSpec, SubmittedIsKept
=============================================================================
