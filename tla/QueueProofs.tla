---------------------------- MODULE QueueProofs ----------------------------
(***************************************************************************)
(* What a task costs and who may work on it: the retry loop of one task,   *)
(* for every number of providers and every MAX_RETRIES, and the semaphore  *)
(* in front of a provider, for every number of callers and every limit.    *)
(***************************************************************************)
EXTENDS EnqueueLoop, Semaphore, FiniteSetTheorems, SequenceTheorems, TLAPS

-----------------------------------------------------------------------------
(* The loop.  Runs that have started and calls that may still start one    *)
(* are paid for, each by an attempt of its own.                            *)

\* Calls that may still become a run.
Pending == {a \in Agents : job[a] = "waiting" \/ exec[a] = "gate"}

\* Attempts that have been posted so far.
Posts ==
  IF final THEN IF pc = "post" THEN MaxRetries + 1 ELSE MaxRetries + 2
           ELSE IF pc \in {"top", "backoff", "post"} THEN attempt ELSE attempt + 1

\* An attempt under way counts, and the one of the escalation is the last.
Counted ==
  /\ final => pc \notin {"top", "backoff"}
  /\ pc \notin {"top", "done"} /\ ~final => attempt <= MaxRetries

\* An execution belongs to the active job of its provider or, without BullMQ, to
\* the attempt the loop waits for.
Placed ==
  \A a \in Agents :
    /\ a \in Bull => (exec[a] # "none" => job[a] = "active")
    /\ a \notin Bull => /\ job[a] = "none"
                        /\ exec[a] # "none" => pc = "result" /\ cur = a

Paid == launches + Cardinality(Pending) <= Posts

Inv == TypeOK /\ Counted /\ Placed /\ Paid

\* Calls that are gone, one more, one less.
LEMMA Sizes ==
  ASSUME NEW S, IsFiniteSet(S), NEW T, NEW a
  PROVE  /\ Cardinality(S) \in Nat
         /\ T \subseteq S => Cardinality(T) \in Nat /\ Cardinality(T) <= Cardinality(S)
         /\ T \subseteq S \cup {a} => Cardinality(T) \in Nat /\ Cardinality(T) <= Cardinality(S) + 1
         /\ a \in S /\ T \subseteq S \ {a} =>
              Cardinality(T) \in Nat /\ Cardinality(T) + 1 <= Cardinality(S)
<1>1. Cardinality(S) \in Nat
  BY FS_CardinalityType
<1>2. T \subseteq S => Cardinality(T) \in Nat /\ Cardinality(T) <= Cardinality(S)
  BY FS_Subset, FS_CardinalityType
<1>3. ASSUME T \subseteq S \cup {a}
      PROVE  Cardinality(T) \in Nat /\ Cardinality(T) <= Cardinality(S) + 1
  <2>1. /\ IsFiniteSet(S \cup {a})
        /\ Cardinality(S \cup {a}) <= Cardinality(S) + 1
    BY <1>1, FS_AddElement
  <2>2. /\ Cardinality(T) \in Nat /\ Cardinality(S \cup {a}) \in Nat
        /\ Cardinality(T) <= Cardinality(S \cup {a})
    BY <1>3, <2>1, FS_Subset, FS_CardinalityType
  <2> QED BY <1>1, <2>1, <2>2
<1>4. ASSUME a \in S, T \subseteq S \ {a}
      PROVE  Cardinality(T) \in Nat /\ Cardinality(T) + 1 <= Cardinality(S)
  <2>1. /\ IsFiniteSet(S \ {a})
        /\ Cardinality(S \ {a}) = Cardinality(S) - 1
    BY <1>4, FS_RemoveElement
  <2>2. /\ Cardinality(T) \in Nat /\ Cardinality(S \ {a}) \in Nat
        /\ Cardinality(T) <= Cardinality(S \ {a})
    BY <1>4, <2>1, FS_Subset, FS_CardinalityType
  <2> QED BY <1>1, <2>1, <2>2
<1> QED BY <1>1, <1>2, <1>3, <1>4

LEMMA PendingIsFinite == IsFiniteSet(Pending)
BY ProvidersAreFinite, FS_Subset DEF Pending

LEMMA PostsIsNat == TypeOK => Posts \in Nat
BY ProvidersAreKnown DEF TypeOK, Posts

\* A step is paid for when what it starts is covered by a new attempt.
LEMMA StaysPaid ==
  ASSUME Inv, TypeOK',
         \/ Pending' \subseteq Pending /\ launches' = launches /\ Posts <= Posts'
         \/ /\ \E a \in Agents : Pending' \subseteq Pending \cup {a}
            /\ launches' = launches /\ Posts + 1 <= Posts'
         \/ /\ \E a \in Pending : Pending' \subseteq Pending \ {a}
            /\ launches' = launches + 1 /\ Posts <= Posts'
  PROVE  Paid'
<1>1. Cardinality(Pending) \in Nat /\ launches \in Nat /\ Posts \in Nat
  BY PendingIsFinite, PostsIsNat, FS_CardinalityType DEF Inv, TypeOK
<1>0. (Posts \in Nat)'
  BY PostsIsNat, PTL
<1>2. launches + Cardinality(Pending) <= Posts
  BY DEF Inv, Paid
<1>3. CASE Pending' \subseteq Pending /\ launches' = launches /\ Posts <= Posts'
  <2>1. Cardinality(Pending') \in Nat /\ Cardinality(Pending') <= Cardinality(Pending)
    BY <1>3, PendingIsFinite, Sizes
  <2> QED BY <1>0, <1>1, <1>2, <1>3, <2>1 DEF Paid
<1>4. CASE /\ \E a \in Agents : Pending' \subseteq Pending \cup {a}
           /\ launches' = launches /\ Posts + 1 <= Posts'
  <2>1. Cardinality(Pending') \in Nat /\ Cardinality(Pending') <= Cardinality(Pending) + 1
    BY <1>4, PendingIsFinite, Sizes
  <2> QED BY <1>0, <1>1, <1>2, <1>4, <2>1 DEF Paid
<1>5. CASE /\ \E a \in Pending : Pending' \subseteq Pending \ {a}
           /\ launches' = launches + 1 /\ Posts <= Posts'
  <2>1. Cardinality(Pending') \in Nat /\ Cardinality(Pending') + 1 <= Cardinality(Pending)
    BY <1>5, PendingIsFinite, Sizes
  <2> QED BY <1>0, <1>1, <1>2, <1>5, <2>1 DEF Paid
<1> QED BY <1>3, <1>4, <1>5


\* ---- the loop alone: no call is added, taken away or started
LoopOnly == Top \/ Backoff \/ WaitOver \/ ResultArrives \/ ResultTimeout \/ Decide

\* The types of the loop's variables, and of the others.
LoopOK ==
  /\ pc \in {"top", "backoff", "post", "added", "wait", "result", "decide", "done"}
  /\ cur \in Agents /\ tried \subseteq Agents
  /\ attempt \in 0..MaxRetries + 1
  /\ flags \subseteq {"limited", "team", "stall"}
  /\ final \in BOOLEAN
  /\ result \in Results \cup {"none"}

RestOK ==
  /\ job \in [Agents -> {"none", "waiting", "active"} \cup Finished]
  /\ kept \in [Agents -> Results \cup {"none"}]
  /\ exec \in [Agents -> {"none", "gate", "running", "aborted"}]
  /\ offered \subseteq Agents
  /\ closed \in BOOLEAN /\ late \in BOOLEAN /\ scan \in 0..Over
  /\ launches \in Nat

LEMMA TypeParts == TypeOK <=> LoopOK /\ RestOK
BY DEF TypeOK, LoopOK, RestOK

LEMMA Verdicts ==
  /\ "expired" \in Results /\ "busy" \in Results /\ "unconfirmed" \in Results
  /\ "cancelled" \in Results /\ "unavailable" \in Results /\ "lost" \in Results
BY DEF Results, Transient, Conclusive

LEMMA LoopKeeps ==
  ASSUME Inv, LoopOnly PROVE Inv'
<1>1. UNCHANGED <<queue, world>>
  BY DEF LoopOnly, Top, Backoff, WaitOver, ResultArrives, ResultTimeout, Decide
<1>2. LoopOK /\ RestOK /\ Counted /\ kept \in [Agents -> Results \cup {"none"}]
  BY TypeParts DEF Inv, RestOK
<1>3. LoopOK' /\ Counted' /\ Posts <= Posts'
  <2>1. CASE Top
    <3>1. CASE attempt > MaxRetries /\ \E b \in offered \ tried : Escalate(b)
      BY <1>2, <2>1, <3>1, ProvidersAreKnown
      DEF Top, Escalate, LoopOK, RestOK, Counted, Posts
    <3>2. CASE Return("expired") \/ Return(result)
      <4>1. /\ pc = "top" /\ pc' = "done" /\ result' \in Results \cup {"none"}
            /\ UNCHANGED <<cur, attempt, tried, flags, final>>
        BY <1>2, <2>1, <3>2, Verdicts DEF Top, Return, LoopOK
      <4> QED BY <1>2, <4>1, ProvidersAreKnown DEF LoopOK, Counted, Posts
    <3>3. CASE attempt <= MaxRetries /\ ~late
      <4>1. /\ pc = "top" /\ pc' \in {"backoff", "post"} /\ flags' = flags \ {"limited"}
            /\ UNCHANGED <<cur, attempt, tried, final, result>>
        BY <1>2, <2>1, <3>3, ProvidersAreKnown DEF Top, LoopOK
      <4> QED BY <1>2, <3>3, <4>1, ProvidersAreKnown DEF LoopOK, Counted, Posts
    <3> QED BY <1>2, <2>1, <3>1, <3>2, <3>3, ProvidersAreKnown DEF Top, GiveUp, LoopOK
  <2>2. CASE Backoff
    <3>1. CASE Return("expired")
      BY <1>2, <2>2, <3>1, Verdicts, ProvidersAreKnown
      DEF Backoff, Return, LoopOK, Counted, Posts
    <3>2. CASE GoTo("post")
      BY <1>2, <2>2, <3>2, ProvidersAreKnown DEF Backoff, GoTo, LoopOK, Counted, Posts
    <3>3. CASE /\ \E b \in offered \ {cur, Home} : cur' = b /\ tried' = tried \cup {b}
               /\ pc' = "post" /\ UNCHANGED <<attempt, flags, final, result>>
      BY <1>2, <2>2, <3>3, ProvidersAreKnown
      DEF Backoff, LoopOK, RestOK, Counted, Posts
    <3> QED BY <2>2, <3>1, <3>2, <3>3 DEF Backoff
  <2>3. CASE WaitOver
    <3>1. /\ pc = "wait" /\ pc' \in {"result", "decide"} /\ result' \in Results \cup {"none"}
          /\ UNCHANGED <<cur, attempt, tried, flags, final>>
      BY <1>2, <2>3, Verdicts DEF WaitOver, Got, GoTo, LoopOK
    <3> QED BY <1>2, <3>1, ProvidersAreKnown DEF LoopOK, Counted, Posts
  <2>4. CASE ResultArrives
    BY <1>2, <2>4, ProvidersAreKnown DEF ResultArrives, Got, LoopOK, Counted, Posts
  <2>5. CASE ResultTimeout
    BY <1>2, <2>5, Verdicts, ProvidersAreKnown
    DEF ResultTimeout, Got, LoopOK, Counted, Posts
  <2>6. CASE Decide
    <3>1. CASE Return("expired") \/ Return(result)
      <4>1. /\ pc = "decide" /\ pc' = "done" /\ result' \in Results \cup {"none"}
            /\ UNCHANGED <<cur, attempt, tried, flags, final>>
        BY <1>2, <2>6, <3>1, Verdicts DEF Decide, Return, LoopOK
      <4> QED BY <1>2, <4>1, ProvidersAreKnown DEF LoopOK, Counted, Posts
    <3>2. CASE ~final /\ \E b \in Agents, f \in {"team", "stall", "limited"} : Again(b, f)
      BY <1>2, <2>6, <3>2, ProvidersAreKnown DEF Decide, Again, LoopOK, Counted, Posts
    <3>3. CASE ~final /\ \E b \in offered \ tried : Escalate(b)
      BY <1>2, <2>6, <3>3, ProvidersAreKnown
      DEF Decide, Escalate, LoopOK, RestOK, Counted, Posts
    <3> QED BY <1>2, <2>6, <3>1, <3>2, <3>3, ProvidersAreKnown
            DEF Decide, GiveUp, LoopOK, RestOK
  <2> QED BY <2>1, <2>2, <2>3, <2>4, <2>5, <2>6 DEF LoopOnly
<1>4. TypeOK'
  <2>1. RestOK'
    BY <1>1, <1>2 DEF RestOK, queue, world
  <2>2. (TypeOK <=> LoopOK /\ RestOK)'
    BY TypeParts, PTL
  <2> QED BY <1>3, <2>1, <2>2
<1>5. Placed'
  <2>1. pc = "result" => cur \in Bull
    BY DEF LoopOnly, Top, Backoff, WaitOver, ResultArrives, ResultTimeout, Decide
  <2> QED BY <1>1, <2>1 DEF Inv, Placed, queue
<1>6. Pending' \subseteq Pending /\ launches' = launches
  BY <1>1 DEF Pending, queue
<1>7. Paid'
  BY <1>3, <1>4, <1>6, StaysPaid
<1> QED BY <1>3, <1>4, <1>5, <1>7 DEF Inv

\* ---- the loop and its job
LEMMA PostKeeps ==
  ASSUME Inv, Post PROVE Inv'
<1> USE ProvidersAreKnown DEF Inv, TypeOK, Results, Conclusive, Transient, Finished
<1>1. pc = "post" /\ UNCHANGED <<kept, launches, world>>
  BY DEF Post
<1>2. TypeOK'
  BY DEF Post, Got, world
<1>3. Counted' /\ Posts + 1 <= Posts'
  BY DEF Post, Got, Counted, Posts
<1>4. Placed'
  BY <1>1 DEF Post, Got, Placed
<1>5. Pending' \subseteq Pending \cup {cur} /\ cur \in Agents
  BY DEF Post, Got, Pending
<1> HIDE DEF Inv, TypeOK, Results, Conclusive, Transient, Finished
<1>6. Paid'
  BY <1>1, <1>2, <1>3, <1>5, StaysPaid
<1> QED BY <1>2, <1>3, <1>4, <1>6 DEF Inv

LEMMA RegisterKeeps ==
  ASSUME Inv, Register PROVE Inv'
<1> USE ProvidersAreKnown DEF Inv, TypeOK, Results, Conclusive, Transient, Finished
<1>1. pc = "added" /\ UNCHANGED <<kept, exec, launches, world>>
  BY DEF Register
<1>2. TypeOK'
  BY DEF Register, Got, GoTo, world
<1>3. Counted' /\ Posts <= Posts'
  BY DEF Register, Got, GoTo, Counted, Posts
<1>4. Placed'
  BY <1>1 DEF Register, Got, GoTo, Placed
<1>5. Pending' \subseteq Pending
  BY DEF Register, Got, GoTo, Pending
<1> HIDE DEF Inv, TypeOK, Results, Conclusive, Transient, Finished
<1>6. Paid'
  BY <1>1, <1>2, <1>3, <1>5, StaysPaid
<1> QED BY <1>2, <1>3, <1>4, <1>6 DEF Inv

LEMMA WaitTimeoutKeeps ==
  ASSUME Inv, WaitTimeout PROVE Inv'
<1> USE ProvidersAreKnown DEF Inv, TypeOK, Results, Conclusive, Transient, Finished
<1>1. pc = "wait" /\ UNCHANGED <<kept, exec, launches, world>>
  BY DEF WaitTimeout
<1>2. TypeOK'
  BY DEF WaitTimeout, Got, world
<1>3. Counted' /\ Posts <= Posts'
  BY DEF WaitTimeout, Got, Counted, Posts
<1>4. Placed'
  BY <1>1 DEF WaitTimeout, Got, Placed
<1>5. Pending' \subseteq Pending
  BY DEF WaitTimeout, Got, Pending
<1> HIDE DEF Inv, TypeOK, Results, Conclusive, Transient, Finished
<1>6. Paid'
  BY <1>1, <1>2, <1>3, <1>5, StaysPaid
<1> QED BY <1>2, <1>3, <1>4, <1>6 DEF Inv

\* ---- the worker
LEMMA EndsKeeps ==
  ASSUME Inv, NEW a \in Agents, exec[a] # "none", NEW r \in Results,
         NEW state \in Finished, Ends(a, r, state),
         UNCHANGED <<launches, offered, closed, late>>, scan' \in 0..Over
  PROVE  Inv'
<1>1. LoopOK /\ RestOK /\ Counted /\ Placed
  BY TypeParts DEF Inv
<1>2. a \notin Bull => pc = "result" /\ cur = a
  BY <1>1 DEF Placed
<1>3. LoopOK' /\ Counted' /\ Posts <= Posts'
  <2>1. CASE a \in Bull
    <3>1. UNCHANGED loop
      BY <2>1 DEF Ends
    <3> QED BY <1>1, <3>1, ProvidersAreKnown DEF loop, LoopOK, Counted, Posts
  <2>2. CASE a \notin Bull
    <3>1. /\ pc = "result" /\ pc' = "decide" /\ result' = r
          /\ UNCHANGED <<cur, attempt, tried, flags, final>>
      BY <1>2, <2>2 DEF Ends, Got
    <3> QED BY <1>1, <3>1, ProvidersAreKnown DEF LoopOK, Counted, Posts
  <2> QED BY <2>1, <2>2
<1>4. TypeOK'
  <2>1. RestOK'
    BY <1>1 DEF Ends, RestOK
  <2>2. (TypeOK <=> LoopOK /\ RestOK)'
    BY TypeParts, PTL
  <2> QED BY <1>3, <2>1, <2>2
<1>5. Placed'
  BY <1>1, <1>2 DEF Ends, Got, loop, Placed, RestOK
<1>6. Pending' \subseteq Pending
  BY <1>1 DEF Ends, Pending, RestOK, Finished
<1>7. Paid'
  BY <1>3, <1>4, <1>6, StaysPaid
<1> QED BY <1>3, <1>4, <1>5, <1>7 DEF Inv

LEMMA WorkerKeeps ==
  ASSUME Inv, NEW a \in Agents, Worker(a) PROVE Inv'
<1>1. CASE Activate(a)
  <2> USE ProvidersAreKnown DEF Inv, TypeOK, Results, Conclusive, Transient, Finished
  <2>1. TypeOK' /\ Counted' /\ Posts <= Posts' /\ launches' = launches
    BY <1>1 DEF Activate, loop, world, Counted, Posts
  <2>2. Placed'
    BY <1>1 DEF Activate, loop, Placed
  <2>3. Pending' \subseteq Pending
    BY <1>1 DEF Activate, Pending
  <2> HIDE DEF Inv, TypeOK, Results, Conclusive, Transient, Finished
  <2>4. Paid'
    BY <2>1, <2>3, StaysPaid
  <2> QED BY <2>1, <2>2, <2>4 DEF Inv
<1>2. CASE Turned(a)
  <2>1. /\ exec[a] # "none" /\ UNCHANGED <<launches, offered, closed, late>>
        /\ scan' \in 0..Over
    BY <1>2 DEF Turned, world, Inv, TypeOK
  <2>2. \E r \in Results, state \in Finished : Ends(a, r, state)
    BY <1>2 DEF Turned, Results, Conclusive, Transient, Finished
  <2> QED BY <2>1, <2>2, EndsKeeps
<1>3. CASE Run(a)
  <2> USE ProvidersAreKnown DEF Inv, TypeOK, Results, Conclusive, Transient, Finished
  <2>1. TypeOK' /\ Counted' /\ Posts <= Posts' /\ launches' = launches + 1
    BY <1>3 DEF Run, loop, world, Counted, Posts
  <2>2. Placed'
    BY <1>3 DEF Run, loop, Placed
  <2>3. a \in Pending /\ job[a] # "waiting"
    BY <1>3 DEF Run, Pending, Placed
  <2>4. Pending' \subseteq Pending \ {a}
    BY <1>3, <2>3 DEF Run, Pending
  <2> HIDE DEF Inv, TypeOK, Results, Conclusive, Transient, Finished
  <2>5. Paid'
    BY <2>1, <2>3, <2>4, StaysPaid
  <2> QED BY <2>1, <2>2, <2>5 DEF Inv
<1>4. CASE RunEnds(a)
  <2>1. /\ exec[a] # "none" /\ UNCHANGED <<launches, offered, closed, late>>
        /\ scan' \in 0..Over
    BY <1>4 DEF RunEnds, world, Inv, TypeOK
  <2>2. \E r \in Results, state \in Finished : Ends(a, r, state)
    BY <1>4 DEF RunEnds, Results, Conclusive, Transient, Finished
  <2> QED BY <2>1, <2>2, EndsKeeps
<1> QED BY <1>1, <1>2, <1>3, <1>4 DEF Worker

\* ---- abort() and the rest of the world
LEMMA AbortKeeps ==
  ASSUME Inv, Abort PROVE Inv'
<1> DEFINE a == Order[scan]
<1>1. a \in Agents /\ scan \in 1..Len(Order)
  BY ProvidersAreFinite DEF Abort, Agents
<1>2. /\ scan + 1 \in 0..Over /\ Over \in 0..Over
      /\ UNCHANGED <<launches, offered, closed, late>>
  BY <1>1, ProvidersAreFinite DEF Over, Abort
<1> HIDE DEF a
<1>3. CASE AbortActive(a)
  <2> USE ProvidersAreKnown DEF Inv, TypeOK, Results, Conclusive, Transient, Finished
  <2>1. TypeOK' /\ Counted' /\ Posts <= Posts'
    BY <1>1, <1>2, <1>3 DEF AbortActive, loop, Counted, Posts
  <2>2. Placed'
    BY <1>1, <1>3 DEF AbortActive, loop, Placed
  <2>3. Pending' \subseteq Pending
    BY <1>1, <1>3 DEF AbortActive, Pending
  <2> HIDE DEF Inv, TypeOK, Results, Conclusive, Transient, Finished
  <2>4. Paid'
    BY <1>2, <2>1, <2>3, StaysPaid
  <2> QED BY <2>1, <2>2, <2>4 DEF Inv
<1>4. CASE AbortGate(a)
  <2>1. /\ exec[a] # "none" /\ scan' \in 0..Over
        /\ Ends(a, "cancelled", "completed")
    BY <1>2, <1>4 DEF AbortGate
  <2> QED BY <1>1, <1>2, <2>1, EndsKeeps DEF Results, Conclusive, Finished
<1>5. CASE AbortJob(a)
  <2> USE ProvidersAreKnown DEF Inv, TypeOK, Results, Conclusive, Transient, Finished
  <2>1. TypeOK'
    BY <1>1, <1>2, <1>5 DEF AbortJob, Got, loop
  <2>2. Counted' /\ Posts <= Posts'
    BY <1>1, <1>5 DEF AbortJob, Got, loop, Counted, Posts
  <2>3. Placed'
    BY <1>1, <1>5 DEF AbortJob, Got, loop, Placed
  <2>4. Pending' \subseteq Pending
    BY <1>1, <1>5 DEF AbortJob, Pending
  <2> HIDE DEF Inv, TypeOK, Results, Conclusive, Transient, Finished
  <2>5. Paid'
    BY <1>2, <2>1, <2>2, <2>4, StaysPaid
  <2> QED BY <2>1, <2>2, <2>3, <2>5 DEF Inv
<1>6. CASE AbortNext(a)
  <2>1. TypeOK' /\ UNCHANGED <<loop, job, exec, launches>>
    BY <1>2, <1>6 DEF AbortNext, Inv, TypeOK, loop, Results, Finished
  <2> QED BY <2>1 DEF Inv, Counted, Placed, Paid, Pending, Posts, loop
<1> QED BY <1>3, <1>4, <1>5, <1>6 DEF Abort, a

LEMMA WorldKeeps ==
  ASSUME Inv, Settle \/ Close \/ DeadlinePasses \/ \E a \in Agents : Switch(a) PROVE Inv'
<1>1. UNCHANGED <<loop, queue>>
  BY DEF Settle, Close, DeadlinePasses, Switch
<1>2. offered' \subseteq Agents /\ closed' \in BOOLEAN /\ late' \in BOOLEAN /\ scan' \in 0..Over
  <2>1. offered \subseteq Agents /\ closed \in BOOLEAN /\ late \in BOOLEAN /\ scan \in 0..Over
    BY DEF Inv, TypeOK
  <2>2. CASE Settle
    BY <2>1, <2>2 DEF Settle
  <2>3. CASE Close
    BY <2>1, <2>3, ProvidersAreFinite DEF Close, Over
  <2>4. CASE DeadlinePasses
    BY <2>1, <2>4 DEF DeadlinePasses
  <2>5. CASE \E a \in Agents : Switch(a)
    BY <2>1, <2>5 DEF Switch
  <2> QED BY <2>2, <2>3, <2>4, <2>5
<1> QED BY <1>1, <1>2 DEF Inv, TypeOK, Counted, Placed, Paid, Pending, Posts, loop, queue

-----------------------------------------------------------------------------
\* The invariant holds.
LEMMA LoopInvariant == Spec => []Inv
<1>1. Init => Inv
  <2>1. ASSUME Init PROVE Pending = {}
    BY <2>1 DEF Init, Pending
  <2>2. ASSUME Init PROVE Paid /\ Counted /\ Placed
    <3>1. launches = 0 /\ Posts = 0
      BY <2>2 DEF Init, Posts
    <3>2. Cardinality(Pending) = 0
      BY <2>1, <2>2, FS_EmptySet
    <3>3. Paid
      BY <3>1, <3>2 DEF Paid
    <3>4. Counted /\ Placed
      BY <2>2, ProvidersAreKnown DEF Init, Counted, Placed
    <3> QED BY <3>3, <3>4
  <2>3. Init => LoopOK /\ RestOK
    <3> SUFFICES ASSUME Init PROVE LoopOK /\ RestOK
      OBVIOUS
    <3>1. final \in BOOLEAN /\ closed \in BOOLEAN /\ late \in BOOLEAN
      BY DEF Init
    <3>2. LoopOK
      BY <3>1, ProvidersAreKnown DEF Init, LoopOK
    <3>3. 0 \in 0..Over
      BY ProvidersAreFinite DEF Over
    <3>4. RestOK
      BY <3>1, <3>3 DEF Init, RestOK
    <3> QED BY <3>2, <3>4
  <2> QED BY <2>2, <2>3, TypeParts DEF Inv
<1>2. Inv /\ [Next]_vars => Inv'
  <2> SUFFICES ASSUME Inv, [Next]_vars PROVE Inv'
    OBVIOUS
  <2>1. CASE Loop
    BY <2>1, LoopKeeps, PostKeeps, RegisterKeeps, WaitTimeoutKeeps DEF Loop, LoopOnly
  <2>2. CASE \E a \in Agents : Worker(a)
    BY <2>2, WorkerKeeps
  <2>3. CASE Abort
    BY <2>3, AbortKeeps
  <2>4. CASE Settle \/ Close \/ DeadlinePasses \/ \E a \in Agents : Switch(a)
    BY <2>4, WorldKeeps
  <2>5. CASE UNCHANGED vars
    BY <2>5 DEF Inv, TypeOK, Counted, Placed, Paid, Pending, Posts, vars, loop, queue, world
  <2> QED BY <2>1, <2>2, <2>3, <2>4, <2>5 DEF Next
<1> QED BY <1>1, <1>2, PTL DEF Spec

\* The loop, the queues and the executions stay in their types.
THEOREM EnqueueTypes == Spec => []TypeOK
<1>1. Inv => TypeOK
  BY DEF Inv
<1> QED BY <1>1, LoopInvariant, PTL

\* Providers that have the task: in a job that is not finished, or in work.
Live == {a \in Agents : job[a] \in {"waiting", "active"} \/ exec[a] # "none"}

\* A provider that has the task is the one whose answer the loop waits for; when the
\* loop no longer waits, it is about to return.
Alone ==
  /\ \A a, b \in Live : a = b
  /\ pc \in {"top", "backoff", "post"} => Live = {}
  /\ pc \in {"added", "wait", "result"} => Live \subseteq {cur}
  /\ pc = "decide" => Live = {} \/ late \/ final \/ result \in Conclusive

\* A step behind which the loop is where it was, and no provider more has the task.
LEMMA AloneStays ==
  ASSUME Alone, Live' \subseteq Live, UNCHANGED <<pc, cur, final, result>>, late => late'
  PROVE  Alone'
BY DEF Alone

\* The loop comes to an end, to a result it returns, or to one that nobody is behind.
LEMMA AloneEnds ==
  ASSUME Alone, Live' \subseteq Live,
         \/ pc' = "done"
         \/ pc' = "decide" /\ (Live' = {} \/ late' \/ final' \/ result' \in Conclusive)
  PROVE  Alone'
BY DEF Alone

LEMMA LoopIsAlone ==
  ASSUME Inv, Alone, Shrinks = {}, Loop PROVE Alone'
<1>1. /\ job \in [Agents -> {"none", "waiting", "active"} \cup Finished]
      /\ exec \in [Agents -> {"none", "gate", "running", "aborted"}]
      /\ cur \in Agents /\ late \in BOOLEAN /\ final \in BOOLEAN
      /\ \A a \in Bull : exec[a] # "none" => job[a] = "active"
      /\ late' = late
  <2>1. UNCHANGED world
    BY DEF Loop, Top, Backoff, Post, Register, WaitOver, WaitTimeout, ResultArrives,
           ResultTimeout, Decide
  <2> QED BY <2>1, ProvidersAreKnown DEF Inv, TypeOK, Placed, world
<1>2. CASE Top \/ Backoff
  <2>1. Live' = Live /\ Live = {} /\ pc' \in {"post", "backoff", "done"}
    BY <1>2 DEF Top, Backoff, GiveUp, Escalate, Return, GoTo, Alone, Live, queue
  <2> QED BY <2>1 DEF Alone
<1>3. CASE Post
  <2>1. pc = "post" /\ Live = {}
    BY <1>3 DEF Post, Alone
  <2>2. CASE Got("expired") \/ Got("unavailable")
    <3>1. UNCHANGED <<job, exec>> \/ pc' # "decide"
      BY <1>3 DEF Post
    <3>2. pc' = "decide"
      BY <2>2 DEF Got
    <3>3. Live' = {}
      BY <2>1, <3>1, <3>2 DEF Live
    <3> QED BY <3>2, <3>3, AloneEnds
  <2>3. CASE ~(Got("expired") \/ Got("unavailable"))
    <3>1. /\ pc' \in {"added", "result"} /\ cur' = cur
          /\ \A a \in Agents \ {cur} : job'[a] = job[a] /\ exec'[a] = exec[a]
      BY <1>1, <1>3, <2>3 DEF Post
    <3>2. Live' \subseteq {cur}
      BY <2>1, <3>1 DEF Live
    <3> QED BY <3>1, <3>2 DEF Alone
  <2> QED BY <2>2, <2>3
<1>4. CASE Register
  <2>1. /\ pc = "added" /\ cur' = cur /\ Live' \subseteq Live
        /\ pc' = "wait" \/ (pc' = "decide" /\ late)
    BY <1>1, <1>4 DEF Register, Got, GoTo, Live
  <2> QED BY <1>1, <2>1 DEF Alone
<1>5. CASE WaitOver
  <2>1. /\ pc = "wait" /\ cur' = cur /\ Live' = Live
        /\ pc' = "result" \/ (pc' = "decide" /\ (late \/ job[cur] = "none"))
    BY <1>5 DEF WaitOver, Got, GoTo, Live, queue
  <2>2. job[cur] = "none" /\ ~late => cur \notin Live
    <3>1. cur \notin Bull => exec[cur] = "none"
      BY <1>1, <2>1 DEF Inv, Placed
    <3> QED BY <1>1, <3>1 DEF Live
  <2> QED BY <1>1, <2>1, <2>2 DEF Alone
<1>6. CASE WaitTimeout
  <2>1. pc = "wait" /\ pc' = "decide" /\ final' = final
    BY <1>6 DEF WaitTimeout, Got
  <2>2. CASE job' = [job EXCEPT ![cur] = "none"] /\ exec' = exec
    <3>1. exec[cur] = "none"
      BY <1>1, <1>6 DEF WaitTimeout, Inv, Placed
    <3>2. Live' \subseteq Live \ {cur}
      BY <1>1, <2>2, <3>1 DEF Live
    <3> QED BY <2>1, <3>2, AloneEnds DEF Alone
  <2>3. CASE job' = job /\ exec' = exec /\ result' \in Conclusive
    BY <2>1, <2>3, AloneEnds DEF Live
  <2> QED BY <1>6, <2>2, <2>3 DEF WaitTimeout, Got, Conclusive
<1>7. CASE ResultArrives
  <2>1. /\ pc = "result" /\ pc' = "decide" /\ Live' = Live /\ cur \notin Live
    BY <1>1, <1>7 DEF ResultArrives, Got, Live, queue, Finished
  <2> QED BY <2>1, AloneEnds DEF Alone
<1>8. CASE ResultTimeout
  <2>1. /\ pc = "result" /\ pc' = "decide" /\ Live' = Live
        /\ late \/ job[cur] = "none"
    BY <1>8 DEF ResultTimeout, Got, Live, queue
  <2>2. job[cur] = "none" => cur \notin Live
    BY <1>1, <1>8 DEF ResultTimeout, Live
  <2> QED BY <1>1, <2>1, <2>2, AloneEnds DEF Alone
<1>9. CASE Decide
  <2>1. pc = "decide" /\ Live' = Live
    BY <1>9 DEF Decide, Live, queue
  <2>2. pc' = "done" \/ (pc' \in {"top", "post"} /\ ~final /\ ~late /\ result \notin Conclusive)
    BY <1>9 DEF Decide, Return, Again, GiveUp, Escalate
  <2> QED BY <2>1, <2>2 DEF Alone
<1> QED BY <1>2, <1>3, <1>4, <1>5, <1>6, <1>7, <1>8, <1>9 DEF Loop

LEMMA EndsAlone ==
  ASSUME Inv, Alone, NEW a \in Agents, exec[a] # "none", NEW r, NEW state \in Finished,
         Ends(a, r, state), late' = late
  PROVE  Alone'
<1>1. /\ job \in [Agents -> {"none", "waiting", "active"} \cup Finished]
      /\ exec \in [Agents -> {"none", "gate", "running", "aborted"}]
      /\ a \notin Bull => pc = "result" /\ cur = a /\ job[a] = "none"
  BY DEF Inv, TypeOK, Placed
<1>2. Live' \subseteq Live \ {a}
  BY <1>1 DEF Ends, Live, Finished
<1>3. CASE a \in Bull
  BY <1>2, <1>3, AloneStays DEF Ends, loop
<1>4. CASE a \notin Bull
  <2>1. pc' = "decide" /\ Live \subseteq {a}
    BY <1>1, <1>4 DEF Ends, Got, Alone
  <2> QED BY <1>2, <2>1, AloneEnds
<1> QED BY <1>3, <1>4

LEMMA WorkerIsAlone ==
  ASSUME Inv, Alone, NEW a \in Agents, Worker(a) PROVE Alone'
<1>1. late' = late
  BY DEF Worker, Activate, Turned, Run, RunEnds, world
<1>2. CASE Activate(a) \/ Run(a)
  <2>1. UNCHANGED loop /\ Live' \subseteq Live
    BY <1>2 DEF Activate, Run, Live, Inv, TypeOK
  <2> QED BY <1>1, <2>1, AloneStays DEF loop
<1>3. CASE Turned(a) \/ RunEnds(a)
  <2>1. exec[a] # "none" /\ \E r \in Results, state \in Finished : Ends(a, r, state)
    BY <1>3 DEF Turned, RunEnds, Results, Transient, Conclusive, Finished
  <2> QED BY <1>1, <2>1, EndsAlone
<1> QED BY <1>2, <1>3 DEF Worker

LEMMA AbortIsAlone == ASSUME Inv, Alone, Abort PROVE Alone'
<1> DEFINE a == Order[scan]
<1>1. a \in Agents /\ late' = late
  BY ProvidersAreFinite DEF Abort, Agents
<1> HIDE DEF a
<1>2. CASE AbortActive(a) \/ AbortNext(a)
  <2>1. UNCHANGED loop /\ Live' \subseteq Live
    BY <1>1, <1>2 DEF AbortActive, AbortNext, Live, Inv, TypeOK
  <2> QED BY <1>1, <2>1, AloneStays DEF loop
<1>3. CASE AbortGate(a)
  BY <1>1, <1>3, EndsAlone DEF AbortGate, Finished
<1>4. CASE AbortJob(a)
  <2>1. Live' \subseteq Live
    BY <1>1, <1>4 DEF AbortJob, Live, Inv, TypeOK
  <2>2. CASE Got("cancelled")
    BY <2>1, <2>2, AloneEnds DEF Got, Conclusive
  <2>3. CASE UNCHANGED loop
    BY <1>1, <2>1, <2>3, AloneStays DEF loop
  <2> QED BY <1>4, <2>2, <2>3 DEF AbortJob
<1> QED BY <1>2, <1>3, <1>4 DEF Abort, a

\* Where no provider loses slots under its jobs, the loop never has two at work:
\* for any providers with or without BullMQ, policies, deadlines and aborts, it goes
\* on to the next one only when the job of the last is gone or finished (enqueueBullMQ,
\* waitForJobActive, runJob).
THEOREM OneAtATime ==
  ASSUME Shrinks = {} PROVE Spec => []OneProvider
<1>1. Init => Alone
  BY DEF Init, Alone, Live
<1>2. Inv /\ Alone /\ [Next]_vars => Alone'
  <2> SUFFICES ASSUME Inv, Alone, [Next]_vars PROVE Alone'
    OBVIOUS
  <2>1. CASE Settle \/ Close \/ DeadlinePasses \/ (\E a \in Agents : Switch(a)) \/ UNCHANGED vars
    <3>1. UNCHANGED <<loop, queue>> /\ (late => late')
      BY <2>1 DEF Settle, Close, DeadlinePasses, Switch, vars, world
    <3> QED BY <3>1, AloneStays DEF loop, queue, Live
  <2> QED BY <2>1, LoopIsAlone, WorkerIsAlone, AbortIsAlone DEF Next
<1>3. Alone => OneProvider
  BY DEF Alone, OneProvider, Executing, Live
<1> QED BY <1>1, <1>2, <1>3, LoopInvariant, PTL DEF Spec

\* Whatever the provider set, the teams and the policies are: one task costs at
\* most MAX_RETRIES + 2 provider runs (enqueueWithRetries, tryTierEscalation).
THEOREM TaskCostIsBounded == Spec => []RunsAreBounded
<1>1. Inv => RunsAreBounded
  <2> SUFFICES ASSUME Inv PROVE RunsAreBounded
    OBVIOUS
  <2>1. Cardinality(Pending) \in Nat /\ launches \in Nat /\ Posts \in Nat
    BY PendingIsFinite, FS_CardinalityType, PostsIsNat DEF Inv, TypeOK
  <2>2. Posts <= MaxRetries + 2
    BY ProvidersAreKnown DEF Inv, TypeOK, Posts
  <2> QED BY <2>1, <2>2, ProvidersAreKnown DEF Inv, Paid, RunsAreBounded
<1> QED BY <1>1, LoopInvariant, PTL

-----------------------------------------------------------------------------
\* Providers that abort() has passed do not run, and none starts on a closed row.
Heard ==
  /\ scan > 0 => closed
  /\ \A j \in 1..Len(Order) : scan > j => exec[Order[j]] # "running"

\* Without BullMQ, for every provider set and every order of the providers: when
\* abort() is through, the task runs nowhere, or its provider has the signal.
THEOREM AbortIsHeard ==
  ASSUME Bull = {} PROVE Spec => []AbortReachesTheRunner
<1>1. Init => Heard
  BY ProvidersAreFinite DEF Init, Heard
<1>2. Inv /\ Heard /\ [Next]_vars => Heard'
  <2> SUFFICES ASSUME Inv, Heard, [Next]_vars PROVE Heard'
    OBVIOUS
  <2>1. /\ exec \in [Agents -> {"none", "gate", "running", "aborted"}]
        /\ scan \in 0..Over /\ Len(Order) \in Nat /\ closed \in BOOLEAN /\ cur \in Agents
        /\ \A j \in 1..Len(Order) : Order[j] \in Agents
    BY ProvidersAreFinite, TypeParts DEF Inv, RestOK, LoopOK, Agents
  <2>2. \A b \in Agents : job[b] = "none" /\ (exec[b] # "none" => cur = b)
    BY DEF Inv, Placed
  <2>3. ASSUME UNCHANGED <<exec, closed, scan>> PROVE Heard'
    BY <2>3 DEF Heard
  <2>4. CASE Loop
    <3>1. UNCHANGED <<closed, scan>>
      BY <2>4 DEF Loop, Top, Backoff, Post, Register, WaitOver, WaitTimeout, ResultArrives,
                  ResultTimeout, Decide, world
    <3>2. exec' = exec \/ exec' = [exec EXCEPT ![cur] = "gate"]
      BY <2>4 DEF Loop, Top, Backoff, Post, Register, WaitOver, WaitTimeout, ResultArrives,
                  ResultTimeout, Decide, queue
    <3> QED BY <2>1, <3>1, <3>2 DEF Heard
  <2>5. ASSUME NEW b \in Agents, Worker(b) PROVE Heard'
    <3>1. UNCHANGED <<closed, scan>>
      BY <2>5 DEF Worker, Activate, Turned, Run, RunEnds, world
    <3>2. CASE Run(b)
      <4>1. scan = 0
        BY <2>1, <3>2 DEF Run, Heard
      <4> QED BY <2>1, <3>1, <4>1 DEF Heard
    <3>3. CASE ~Run(b)
      <4>1. \E e \in {"none", "gate"} : exec' = [exec EXCEPT ![b] = e]
        BY <2>5, <3>3 DEF Worker, Activate, Turned, RunEnds, Ends
      <4> QED BY <2>1, <3>1, <4>1 DEF Heard
    <3> QED BY <3>2, <3>3
  <2>6. CASE Abort
    <3> DEFINE a == Order[scan]
    <3>1. a \in Agents /\ scan \in 1..Len(Order) /\ closed /\ closed' = closed
      BY <2>1, <2>6 DEF Abort, Heard
    <3> HIDE DEF a
    <3>2. CASE AbortActive(a) \/ AbortGate(a)
      <4>1. \A b \in Agents : b # a => exec[b] = "none"
        BY <2>2, <3>1, <3>2 DEF AbortActive, AbortGate
      <4>2. exec' = [exec EXCEPT ![a] = "aborted"] \/ exec' = [exec EXCEPT ![a] = "none"]
        BY <3>2 DEF AbortActive, AbortGate, Ends
      <4>3. \A b \in Agents : exec'[b] # "running"
        BY <2>1, <3>1, <4>1, <4>2
      <4> QED BY <2>1, <3>1, <4>3 DEF Heard
    <3>3. CASE AbortNext(a)
      <4>1. scan' = scan + 1 /\ exec' = exec /\ exec[a] # "running"
        BY <3>3 DEF AbortNext
      <4>2. ASSUME NEW j \in 1..Len(Order), scan' > j PROVE exec'[Order[j]] # "running"
        <5>1. scan > j \/ scan = j
          BY <2>1, <4>1, <4>2
        <5> QED BY <4>1, <5>1 DEF Heard, a
      <4> QED BY <3>1, <4>2 DEF Heard
    <3>4. ~AbortJob(a)
      BY <2>2, <3>1 DEF AbortJob, Finished
    <3> QED BY <2>6, <3>2, <3>3, <3>4 DEF Abort, a
  <2>7. CASE Settle \/ Close \/ DeadlinePasses \/ \E b \in Agents : Switch(b)
    <3>1. CASE Close
      BY <2>1, <3>1 DEF Close, Heard
    <3>2. CASE Settle \/ DeadlinePasses \/ \E b \in Agents : Switch(b)
      <4>1. UNCHANGED <<exec, scan>> /\ (closed => closed')
        BY <3>2 DEF Settle, DeadlinePasses, Switch, queue
      <4> QED BY <2>1, <4>1 DEF Heard
    <3> QED BY <2>7, <3>1, <3>2
  <2>8. CASE UNCHANGED vars
    BY <2>3, <2>8 DEF vars, queue, world
  <2> QED BY <2>4, <2>5, <2>6, <2>7, <2>8 DEF Next
<1>3. Inv /\ Heard => AbortReachesTheRunner
  <2> SUFFICES ASSUME Inv, Heard, scan = Over, NEW b \in Agents PROVE exec[b] # "running"
    BY DEF AbortReachesTheRunner
  <2>1. PICK j \in DOMAIN Order : b = Order[j]
    BY DEF Agents
  <2> QED BY <2>1, ProvidersAreFinite DEF Heard, Over
<1> QED BY <1>1, <1>2, <1>3, LoopInvariant, PTL DEF Spec

-----------------------------------------------------------------------------
(* The semaphore.  The slots are exactly accounted for, and nobody waits   *)
(* next to a free slot.  The account of a hand-over needs the queue to     *)
(* name each waiter once.                                                  *)

\* The inductive invariant.
SlotsInv == SemaphoreTypeOK /\ QueueExact /\ SlotsAccounted /\ NoStrandedWaiter

LEMMA OwnersFinite == IsFiniteSet(Owners)
BY CallersFinite, FS_Subset DEF Owners

\* What one drain() does, from any state in which the arguments are exact.
LEMMA DrainKeeps ==
  ASSUME NEW q \in Seq(Callers), NEW used \in Nat, NEW lim \in Nat \ {0},
         NEW st \in [Callers -> Stages],
         \A c \in Callers : st[c] = "queued" <=> \E i \in 1..Len(q) : q[i] = c,
         \A i, j \in 1..Len(q) : q[i] = q[j] => i = j,
         used = Cardinality({c \in Callers : st[c] \in {"granted", "holding"}}),
         Drain(q, used, lim, st)
  PROVE  /\ inUse' \in Nat /\ waiters' \in Seq(Callers)
         /\ stage' \in [Callers -> Stages]
         /\ QueueExact'
         /\ SlotsAccounted'
         /\ waiters' # <<>> => inUse' >= lim
<1> DEFINE k == Handed(q, used, lim)
           old == {c \in Callers : st[c] \in {"granted", "holding"}}
           new == {q[i] : i \in 1..k}
<1>1. /\ k \in Nat /\ k <= Len(q)
      /\ k = Len(q) \/ used + k >= lim
  BY DEF Handed, AtMost
<1>2. /\ inUse' = used + k
      /\ waiters' = SubSeq(q, k + 1, Len(q))
      /\ stage' = [c \in Callers |->
                     IF \E i \in 1..k : q[i] = c THEN "granted" ELSE st[c]]
  BY DEF Drain
<1> HIDE DEF k
<1>3. /\ waiters' \in Seq(Callers)
      /\ Len(waiters') = Len(q) - k
      /\ \A i \in 1..Len(q) - k : waiters'[i] = q[i + k]
  <2>1. k + 1 \in 1..Len(q) + 1
    BY <1>1
  <2>2. SubSeq(q, k + 1, Len(q)) \in Seq(Callers)
    BY <2>1, SubSeqProperties
  <2> QED BY <1>1, <1>2, <2>1, <2>2, SubSeqProperties
<1>4. inUse' \in Nat /\ stage' \in [Callers -> Stages]
  BY <1>1, <1>2 DEF Stages
<1>5. QueueExact'
  <2>1. ASSUME NEW c \in Callers
        PROVE  stage'[c] = "queued" <=> \E i \in 1..Len(q) - k : waiters'[i] = c
    <3>1. CASE \E i \in 1..k : q[i] = c
      <4>1. PICK i \in 1..k : q[i] = c
        BY <3>1
      <4>2. stage'[c] = "granted"
        BY <1>2, <3>1
      <4>3. ASSUME NEW j \in 1..Len(q) - k PROVE waiters'[j] # c
        <5>1. i \in 1..Len(q) /\ j + k \in 1..Len(q) /\ i # j + k
          BY <1>1
        <5> QED BY <1>3, <4>1, <5>1
      <4> QED BY <4>2, <4>3
    <3>2. CASE ~ \E i \in 1..k : q[i] = c
      <4>1. stage'[c] = st[c]
        BY <1>2, <3>2
      <4>2. (\E i \in 1..Len(q) : q[i] = c) <=> (\E i \in 1..Len(q) - k : waiters'[i] = c)
        <5>1. ASSUME NEW i \in 1..Len(q), q[i] = c
              PROVE  \E j \in 1..Len(q) - k : waiters'[j] = c
          <6>1. i - k \in 1..Len(q) - k
            BY <1>1, <3>2, <5>1
          <6>2. (i - k) + k = i
            BY <1>1
          <6>3. waiters'[i - k] = c
            BY <1>3, <5>1, <6>1, <6>2
          <6> QED BY <6>1, <6>3
        <5>2. ASSUME NEW i \in 1..Len(q) - k, waiters'[i] = c
              PROVE  \E j \in 1..Len(q) : q[j] = c
          <6>1. i + k \in 1..Len(q)
            BY <1>1
          <6> QED BY <1>3, <5>2, <6>1
        <5> QED BY <5>1, <5>2
      <4> QED BY <4>1, <4>2
    <3> QED BY <3>1, <3>2
  <2>2. ASSUME NEW i \in 1..Len(q) - k, NEW j \in 1..Len(q) - k, waiters'[i] = waiters'[j]
        PROVE  i = j
    <3>1. i + k \in 1..Len(q) /\ j + k \in 1..Len(q)
      BY <1>1
    <3>2. q[i + k] = q[j + k]
      BY <1>3, <2>2
    <3>3. i + k = j + k
      BY <3>1, <3>2
    <3> QED BY <1>1, <3>3
  <2> QED BY <1>3, <2>1, <2>2 DEF QueueExact
<1>6. SlotsAccounted'
  <2>1. IsFiniteSet(old)
    BY CallersFinite, FS_Subset
  <2>2. IsFiniteSet(new) /\ Cardinality(new) = k
    <3>1. [i \in 1..k |-> q[i]] \in Bijection(1..k, new)
      <4>1. \A i \in 1..k : i \in 1..Len(q)
        BY <1>1
      <4> QED BY <4>1 DEF Bijection, Injection, Surjection, IsInjective
    <3>2. ExistsBijection(1..k, new)
      BY <3>1 DEF ExistsBijection
    <3> QED BY <1>1, <3>2, FS_CountingElements, FS_NatBijection
  <2>3. old \cap new = {}
    <3>1. \A i \in 1..k : i \in 1..Len(q)
      BY <1>1
    <3>2. \A i \in 1..k : st[q[i]] = "queued" /\ q[i] \in Callers
      BY <3>1, ElementOfSeq
    <3> QED BY <3>2
  <2>4. Owners' = old \cup new
    <3>1. \A i \in 1..k : q[i] \in Callers
      BY <1>1, ElementOfSeq
    <3> QED BY <1>2, <3>1 DEF Owners
  <2>5. Cardinality(old \cup new) = used + k
    <3>1. Cardinality(old) = used
      OBVIOUS
    <3> HIDE DEF old, new
    <3>2. Cardinality(old \cup new) = Cardinality(old) + Cardinality(new) - Cardinality({})
      BY <2>1, <2>2, <2>3, FS_Union
    <3> QED BY <1>1, <2>2, <3>1, <3>2, FS_EmptySet
  <2> QED BY <1>2, <2>4, <2>5 DEF SlotsAccounted
<1>7. waiters' # <<>> => inUse' >= lim
  <2>1. CASE k = Len(q)
    <3>1. Len(waiters') = 0
      BY <1>3, <2>1
    <3> QED BY <1>3, <3>1, EmptySeq
  <2>2. CASE used + k >= lim
    BY <1>2, <2>2
  <2> QED BY <1>1, <2>1, <2>2
<1> QED BY <1>3, <1>4, <1>5, <1>6, <1>7

LEMMA InitSlotsInv == SemaphoreInit => SlotsInv
<1> SUFFICES ASSUME SemaphoreInit PROVE SlotsInv
  OBVIOUS
<1>1. SemaphoreTypeOK
  BY MaxLimitPositive DEF SemaphoreInit, SemaphoreTypeOK, Stages
<1>2. QueueExact
  BY DEF SemaphoreInit, QueueExact
<1>3. Owners = {}
  BY DEF SemaphoreInit, Owners
<1> QED
  BY <1>1, <1>2, <1>3, FS_EmptySet DEF SemaphoreInit, SlotsInv, SlotsAccounted, NoStrandedWaiter

LEMMA AcquireKeeps ==
  ASSUME SlotsInv, NEW c \in Callers, Acquire(c)
  PROVE  SlotsInv'
<1> USE DEF SlotsInv, Acquire
<1>1. CASE inUse < limit
  <2>1. /\ inUse' = inUse + 1 /\ stage' = [stage EXCEPT ![c] = "granted"]
        /\ UNCHANGED <<waiters, limit>>
    BY <1>1
  <2>2. SemaphoreTypeOK'
    BY <2>1 DEF SemaphoreTypeOK, Stages
  <2>3. QueueExact'
    BY <2>1 DEF SemaphoreTypeOK, QueueExact
  <2>4. Owners' = Owners \cup {c} /\ c \notin Owners
    BY <2>1 DEF SemaphoreTypeOK, Owners
  <2>5. SlotsAccounted'
    BY <2>1, <2>4, OwnersFinite, FS_AddElement DEF SlotsAccounted
  <2>6. NoStrandedWaiter'
    BY <1>1, <2>1 DEF SemaphoreTypeOK, NoStrandedWaiter
  <2> QED BY <2>2, <2>3, <2>5, <2>6
<1>2. CASE ~(inUse < limit)
  <2>1. /\ waiters' = Append(waiters, c) /\ stage' = [stage EXCEPT ![c] = "queued"]
        /\ UNCHANGED <<inUse, limit>>
    BY <1>2
  <2>2. /\ waiters' \in Seq(Callers) /\ Len(waiters') = Len(waiters) + 1
        /\ \A i \in 1..Len(waiters) : waiters'[i] = waiters[i]
        /\ waiters'[Len(waiters) + 1] = c
    BY <2>1, AppendProperties DEF SemaphoreTypeOK
  <2>3. SemaphoreTypeOK'
    BY <2>1, <2>2 DEF SemaphoreTypeOK, Stages
  <2>4. \A i \in 1..Len(waiters) : waiters[i] # c
    BY DEF QueueExact
  <2>5. QueueExact'
    <3>1. Len(waiters) \in Nat
      BY DEF SemaphoreTypeOK
    <3>2. \A d \in Callers : stage'[d] = "queued" <=> \E i \in 1..Len(waiters') : waiters'[i] = d
      BY <2>1, <2>2, <3>1 DEF SemaphoreTypeOK, QueueExact
    <3>3. \A i, j \in 1..Len(waiters') : waiters'[i] = waiters'[j] => i = j
      BY <2>2, <2>4, <3>1 DEF QueueExact
    <3> QED BY <3>2, <3>3 DEF QueueExact
  <2>6. Owners' = Owners
    BY <2>1 DEF SemaphoreTypeOK, Owners
  <2> QED BY <1>2, <2>1, <2>3, <2>5, <2>6 DEF SemaphoreTypeOK, SlotsAccounted, NoStrandedWaiter
<1> QED BY <1>1, <1>2

LEMMA CancelKeeps ==
  ASSUME SlotsInv, NEW c \in Callers, NEW verdict \in {"cancelled", "timed_out"},
         CancelAs(c, verdict)
  PROVE  SlotsInv'
<1> USE DEF SlotsInv
<1>1. PICK k \in 1..Len(waiters) : waiters[k] = c /\ waiters' = Splice(waiters, k)
  BY DEF CancelAs
<1>2. stage' = [stage EXCEPT ![c] = verdict] /\ UNCHANGED <<limit, inUse>>
  BY DEF CancelAs
<1>3. /\ waiters' \in Seq(Callers)
      /\ Len(waiters') = Len(waiters) - 1
      /\ \A i \in 1..Len(waiters) - 1 : waiters'[i] = IF i < k THEN waiters[i] ELSE waiters[i + 1]
  <2> DEFINE l == SubSeq(waiters, 1, k - 1)
             r == SubSeq(waiters, k + 1, Len(waiters))
  <2>1. Len(waiters) \in Nat /\ waiters \in Seq(Callers)
    BY DEF SemaphoreTypeOK
  <2>2. l \in Seq(Callers) /\ Len(l) = k - 1 /\ \A i \in 1..k - 1 : l[i] = waiters[i]
    BY <2>1, SubSeqProperties
  <2>3. /\ r \in Seq(Callers) /\ Len(r) = Len(waiters) - k
        /\ \A i \in 1..Len(waiters) - k : r[i] = waiters[i + k]
    BY <2>1, SubSeqProperties
  <2> HIDE DEF l, r
  <2>4. waiters' = l \o r
    BY <1>1 DEF Splice, l, r
  <2>5. /\ l \o r \in Seq(Callers) /\ Len(l \o r) = Len(l) + Len(r)
        /\ \A i \in 1..Len(l) + Len(r) : (l \o r)[i] = IF i <= Len(l) THEN l[i] ELSE r[i - Len(l)]
    BY <2>2, <2>3, ConcatProperties
  <2>6. ASSUME NEW i \in 1..Len(waiters) - 1
        PROVE  waiters'[i] = IF i < k THEN waiters[i] ELSE waiters[i + 1]
    <3>1. i \in 1..Len(l) + Len(r)
      BY <2>1, <2>2, <2>3
    <3>2. CASE i < k
      <4>1. i <= Len(l) /\ i \in 1..k - 1
        BY <2>2, <3>2
      <4> QED BY <2>2, <2>4, <2>5, <3>1, <3>2, <4>1
    <3>3. CASE ~(i < k)
      <4>1. ~(i <= Len(l)) /\ i - Len(l) \in 1..Len(waiters) - k /\ (i - Len(l)) + k = i + 1
        BY <2>1, <2>2, <3>3
      <4>2. waiters'[i] = r[i - Len(l)]
        BY <2>4, <2>5, <3>1, <4>1
      <4>3. r[i - Len(l)] = waiters[(i - Len(l)) + k]
        BY <2>3, <4>1
      <4> QED BY <3>3, <4>1, <4>2, <4>3
    <3> QED BY <3>2, <3>3
  <2> QED BY <2>1, <2>2, <2>3, <2>4, <2>5, <2>6
<1>4. SemaphoreTypeOK'
  BY <1>2, <1>3 DEF SemaphoreTypeOK, Stages
<1>5. QueueExact'
  <2>1. Len(waiters) \in Nat
    BY DEF SemaphoreTypeOK
  <2>2. ASSUME NEW i \in 1..Len(waiters'), NEW j \in 1..Len(waiters'), waiters'[i] = waiters'[j]
        PROVE  i = j
    <3> DEFINE from(m) == IF m < k THEN m ELSE m + 1
    <3>1. i \in 1..Len(waiters) - 1 /\ j \in 1..Len(waiters) - 1
      BY <1>3
    <3>2. from(i) \in 1..Len(waiters) /\ from(j) \in 1..Len(waiters)
      BY <2>1, <3>1
    <3>3. waiters'[i] = waiters[from(i)] /\ waiters'[j] = waiters[from(j)]
      BY <1>3, <3>1
    <3>4. from(i) = from(j)
      <4>1. \A a, b \in 1..Len(waiters) : waiters[a] = waiters[b] => a = b
        BY DEF QueueExact
      <4> HIDE DEF from
      <4> QED BY <2>2, <3>2, <3>3, <4>1
    <3> QED BY <3>1, <3>4
  <2>3. ASSUME NEW d \in Callers
        PROVE  stage'[d] = "queued" <=> \E i \in 1..Len(waiters') : waiters'[i] = d
    <3>1. CASE d = c
      <4>1. stage'[d] # "queued"
        BY <1>2, <3>1 DEF SemaphoreTypeOK
      <4>2. \A i \in 1..Len(waiters') : waiters'[i] # c
        BY <1>1, <1>3, <2>1 DEF QueueExact
      <4> QED BY <3>1, <4>1, <4>2
    <3>2. CASE d # c
      <4>1. stage'[d] = stage[d]
        BY <1>2, <3>2 DEF SemaphoreTypeOK
      <4>2. ASSUME NEW i \in 1..Len(waiters), waiters[i] = d
            PROVE  \E j \in 1..Len(waiters') : waiters'[j] = d
        <5>1. CASE i < k
          BY <1>3, <2>1, <4>2, <5>1
        <5>2. CASE i > k
          <6>1. i - 1 \in 1..Len(waiters) - 1 /\ ~(i - 1 < k)
            BY <2>1, <5>2
          <6>2. (i - 1) + 1 = i
            OBVIOUS
          <6>3. waiters'[i - 1] = d
            BY <1>3, <4>2, <6>1, <6>2
          <6> QED BY <1>3, <6>1, <6>3
        <5>3. i # k
          BY <1>1, <3>2, <4>2
        <5> QED BY <5>1, <5>2, <5>3
      <4>3. ASSUME NEW i \in 1..Len(waiters'), waiters'[i] = d
            PROVE  \E j \in 1..Len(waiters) : waiters[j] = d
        BY <1>3, <2>1, <4>3
      <4> QED BY <4>1, <4>2, <4>3 DEF QueueExact
    <3> QED BY <3>1, <3>2
  <2> QED BY <2>2, <2>3 DEF QueueExact
<1>6. Owners' = Owners
  <2>1. stage[c] = "queued"
    BY <1>1 DEF QueueExact
  <2> QED BY <1>2, <2>1 DEF SemaphoreTypeOK, Owners
<1>7. waiters # <<>>
  BY <1>1 DEF SemaphoreTypeOK
<1> QED BY <1>2, <1>4, <1>5, <1>6, <1>7 DEF SlotsAccounted, NoStrandedWaiter

LEMMA CancelAllKeeps ==
  ASSUME SlotsInv, CancelAll
  PROVE  SlotsInv'
<1> USE DEF SlotsInv, CancelAll
<1>1. SemaphoreTypeOK'
  BY DEF SemaphoreTypeOK, Stages
<1>2. QueueExact'
  BY DEF SemaphoreTypeOK, QueueExact
<1>3. Owners' = Owners
  BY DEF SemaphoreTypeOK, Owners
<1> QED BY <1>1, <1>2, <1>3 DEF SlotsAccounted, NoStrandedWaiter

LEMMA ResumeKeeps ==
  ASSUME SlotsInv, NEW c \in Callers, Resume(c)
  PROVE  SlotsInv'
<1> USE DEF SlotsInv, Resume
<1>1. SemaphoreTypeOK'
  BY DEF SemaphoreTypeOK, Stages
<1>2. QueueExact'
  BY DEF SemaphoreTypeOK, QueueExact
<1>3. Owners' = Owners
  BY DEF SemaphoreTypeOK, Owners
<1> QED BY <1>1, <1>2, <1>3 DEF SlotsAccounted, NoStrandedWaiter

LEMMA ReleaseKeeps ==
  ASSUME SlotsInv, NEW c \in Callers, Release(c)
  PROVE  SlotsInv'
<1> DEFINE st == [stage EXCEPT ![c] = "idle"]
<1>1. /\ limit' = limit /\ limit \in Nat \ {0} /\ waiters \in Seq(Callers)
      /\ stage[c] = "holding" /\ stage \in [Callers -> Stages] /\ inUse \in Nat
  BY MaxLimitPositive DEF SlotsInv, SemaphoreTypeOK, Release
<1>2. st \in [Callers -> Stages]
  BY <1>1 DEF Stages
<1>3. {d \in Callers : st[d] \in {"granted", "holding"}} = Owners \ {c} /\ c \in Owners
  BY <1>1 DEF Owners
<1>4. /\ Cardinality(Owners \ {c}) = inUse - 1
      /\ inUse - 1 \in Nat
  <2>1. Cardinality(Owners \ {c}) = Cardinality(Owners) - 1
    BY <1>3, OwnersFinite, FS_RemoveElement
  <2>2. IsFiniteSet(Owners \ {c})
    BY OwnersFinite, FS_RemoveElement
  <2>3. Cardinality(Owners \ {c}) \in Nat
    BY <2>2, FS_CardinalityType
  <2> QED BY <2>1, <2>3 DEF SlotsInv, SlotsAccounted
<1>5. AtLeast(0, inUse - 1) = inUse - 1
  BY <1>4 DEF AtLeast
<1>6. \A d \in Callers : st[d] = "queued" <=> \E i \in 1..Len(waiters) : waiters[i] = d
  BY <1>1 DEF SlotsInv, QueueExact
<1>7. Drain(waiters, inUse - 1, limit, st)
  BY <1>5 DEF Release
<1> HIDE DEF st
<1>8. /\ inUse' \in Nat /\ waiters' \in Seq(Callers) /\ stage' \in [Callers -> Stages]
      /\ QueueExact' /\ SlotsAccounted'
      /\ waiters' # <<>> => inUse' >= limit
  <2>1. \A i, j \in 1..Len(waiters) : waiters[i] = waiters[j] => i = j
    BY DEF SlotsInv, QueueExact
  <2> QED BY <1>1, <1>2, <1>3, <1>4, <1>6, <1>7, <2>1, DrainKeeps
<1> QED BY <1>1, <1>8 DEF SlotsInv, SemaphoreTypeOK, NoStrandedWaiter

LEMMA SetLimitKeeps ==
  ASSUME SlotsInv, NEW n \in 0..MaxLimit, SetLimit(n)
  PROVE  SlotsInv'
<1>1. limit' \in 1..MaxLimit
  BY MaxLimitPositive DEF SetLimit, AtLeast
<1>2. /\ inUse' \in Nat /\ waiters' \in Seq(Callers) /\ stage' \in [Callers -> Stages]
      /\ QueueExact' /\ SlotsAccounted'
      /\ waiters' # <<>> => inUse' >= limit'
  <2>1. PICK lim \in Nat \ {0} : lim = limit'
    BY <1>1
  <2>2. Drain(waiters, inUse, lim, stage)
    BY <2>1 DEF SetLimit
  <2>3. waiters \in Seq(Callers) /\ inUse \in Nat /\ stage \in [Callers -> Stages]
    BY DEF SlotsInv, SemaphoreTypeOK
  <2>4. /\ \A c \in Callers : stage[c] = "queued" <=> \E i \in 1..Len(waiters) : waiters[i] = c
        /\ \A i, j \in 1..Len(waiters) : waiters[i] = waiters[j] => i = j
    BY DEF SlotsInv, QueueExact
  <2>5. inUse = Cardinality({c \in Callers : stage[c] \in {"granted", "holding"}})
    BY DEF SlotsInv, SlotsAccounted, Owners
  <2> QED BY <2>1, <2>2, <2>3, <2>4, <2>5, DrainKeeps
<1> QED BY <1>1, <1>2 DEF SlotsInv, SemaphoreTypeOK, NoStrandedWaiter

\* Every step of the class keeps the inductive invariant.
LEMMA SemaphoreNextKeeps == SlotsInv /\ [SemaphoreNext]_semaphoreVars => SlotsInv'
<1> SUFFICES ASSUME SlotsInv, [SemaphoreNext]_semaphoreVars PROVE SlotsInv'
  OBVIOUS
<1>1. ASSUME NEW c \in Callers, Acquire(c) PROVE SlotsInv'
  BY <1>1, AcquireKeeps
<1>2. ASSUME NEW c \in Callers, Timeout(c) PROVE SlotsInv'
  BY <1>2, CancelKeeps DEF Timeout
<1>3. ASSUME NEW c \in Callers, Cancel(c) PROVE SlotsInv'
  BY <1>3, CancelKeeps DEF Cancel
<1>4. ASSUME NEW c \in Callers, Resume(c) PROVE SlotsInv'
  BY <1>4, ResumeKeeps
<1>5. ASSUME NEW c \in Callers, Release(c) PROVE SlotsInv'
  BY <1>5, ReleaseKeeps
<1>6. CASE CancelAll
  BY <1>6, CancelAllKeeps
<1>7. ASSUME NEW n \in 0..MaxLimit, SetLimit(n) PROVE SlotsInv'
  BY <1>7, SetLimitKeeps
<1>8. CASE UNCHANGED semaphoreVars
  BY <1>8 DEF semaphoreVars, SlotsInv, SemaphoreTypeOK, QueueExact, SlotsAccounted,
    NoStrandedWaiter, Owners
<1> QED BY <1>1, <1>2, <1>3, <1>4, <1>5, <1>6, <1>7, <1>8 DEF SemaphoreNext

\* Every method of the class keeps the inductive invariant.
THEOREM SlotsInductive == SemaphoreSpec => []SlotsInv
<1> QED BY InitSlotsInv, SemaphoreNextKeeps, PTL DEF SemaphoreSpec

\* The variables of the semaphore keep their types.
THEOREM SemaphoreTypes == SemaphoreSpec => []SemaphoreTypeOK
<1>1. SlotsInv => SemaphoreTypeOK
  BY DEF SlotsInv
<1> QED BY <1>1, SlotsInductive, PTL

\* inUse is the number of callers that own a slot: a timeout or an abort that
\* races a hand-over neither leaks a slot nor gives one out twice.
THEOREM SemaphoreAccount == SemaphoreSpec => []SlotsAccounted
<1>1. SlotsInv => SlotsAccounted
  BY DEF SlotsInv
<1> QED BY <1>1, SlotsInductive, PTL

\* The queue names exactly the callers still waiting, each once.
THEOREM SemaphoreQueue == SemaphoreSpec => []QueueExact
<1>1. SlotsInv => QueueExact
  BY DEF SlotsInv
<1> QED BY <1>1, SlotsInductive, PTL

\* Nobody waits while a slot is free, however the limit moves.
THEOREM SemaphoreNoStrand == SemaphoreSpec => []NoStrandedWaiter
<1>1. SlotsInv => NoStrandedWaiter
  BY DEF SlotsInv
<1> QED BY <1>1, SlotsInductive, PTL

=============================================================================
