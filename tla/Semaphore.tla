----------------------------- MODULE Semaphore -----------------------------
(***************************************************************************)
(* The in-memory counting semaphore of src/src/core/task-queue.ts (class   *)
(* Semaphore).  Every provider entry of the task queue owns one: a worker  *)
(* takes a slot before it starts a provider, and gives it back in a        *)
(* finally block.  The limit moves while slots are out, because a local    *)
(* provider is squeezed to one slot while its circuit is not closed.       *)
(*                                                                         *)
(* JavaScript runs one callback at a time, so a method body is one step;   *)
(* but a promise resolved by one callback is observed by its waiter in a   *)
(* later one.  "granted", "cancelled" and "timed_out" are that window: the *)
(* verdict is settled, the waiter has not resumed yet.                     *)
(***************************************************************************)
EXTENDS Integers, Sequences, FiniteSets

CONSTANTS Callers,    \* calls of acquire/acquireWithin; the waiterId is the task id
          MaxLimit    \* bound on the concurrency the queue asks for

ASSUME CallersFinite == IsFiniteSet(Callers)
ASSUME MaxLimitPositive == MaxLimit \in Nat \ {0}

VARIABLES limit,      \* Semaphore.limit
          inUse,      \* Semaphore.inUse
          waiters,    \* Semaphore.queue, oldest waiter first
          stage       \* where each caller's promise stands

semaphoreVars == <<limit, inUse, waiters, stage>>

Stages == {"idle", "queued", "granted", "cancelled", "timed_out", "holding"}

\* A slot is owned from the moment it is handed over until release().
Owners == {c \in Callers : stage[c] \in {"granted", "holding"}}

AtMost(a, b) == IF a <= b THEN a ELSE b
AtLeast(a, b) == IF a >= b THEN a ELSE b

-----------------------------------------------------------------------------
(* drain(): hand slots to the oldest waiters while both last.              *)

Handed(q, used, lim) == IF used >= lim THEN 0 ELSE AtMost(Len(q), lim - used)

Drain(q, used, lim, st) ==
  LET k == Handed(q, used, lim)
  IN  /\ inUse' = used + k
      /\ waiters' = SubSeq(q, k + 1, Len(q))
      /\ stage' = [c \in Callers |->
                     IF \E i \in 1..k : q[i] = c THEN "granted" ELSE st[c]]

\* queue.splice(index, 1)
Splice(q, i) == SubSeq(q, 1, i - 1) \o SubSeq(q, i + 1, Len(q))

-----------------------------------------------------------------------------
SemaphoreInit == /\ limit \in 1..MaxLimit
                 /\ inUse = 0
                 /\ waiters = <<>>
                 /\ stage = [c \in Callers |-> "idle"]

\* acquire(): take a free slot at once, or join the queue.
Acquire(c) ==
  /\ stage[c] = "idle"
  /\ IF inUse < limit
     THEN /\ inUse' = inUse + 1
          /\ stage' = [stage EXCEPT ![c] = "granted"]
          /\ UNCHANGED waiters
     ELSE /\ waiters' = Append(waiters, c)
          /\ stage' = [stage EXCEPT ![c] = "queued"]
          /\ UNCHANGED inUse
  /\ UNCHANGED limit

\* Mutant: the timer settles its caller without asking whether the waiter has
\* already crossed into a slot.
CancelIgnoresOwnership(c, verdict) ==
  /\ \/ stage[c] = "granted" /\ UNCHANGED waiters
     \/ \E i \in 1..Len(waiters) : waiters[i] = c /\ waiters' = Splice(waiters, i)
  /\ stage' = [stage EXCEPT ![c] = verdict]
  /\ UNCHANGED <<limit, inUse>>

\* cancel(): only a queued waiter can be cancelled.  The caller of cancel is
\* the wait timer, the abort signal or TaskQueueManager.abort(); a waiter that
\* has crossed into a slot is left alone.
CancelAs(c, verdict) ==
  /\ \E i \in 1..Len(waiters) : waiters[i] = c /\ waiters' = Splice(waiters, i)
  /\ stage' = [stage EXCEPT ![c] = verdict]
  /\ UNCHANGED <<limit, inUse>>

Timeout(c) == CancelAs(c, "timed_out")
Cancel(c)  == CancelAs(c, "cancelled")

\* cancelAll(), at close().
CancelAll ==
  /\ waiters # <<>>
  /\ waiters' = <<>>
  /\ stage' = [c \in Callers |-> IF stage[c] = "queued" THEN "cancelled" ELSE stage[c]]
  /\ UNCHANGED <<limit, inUse>>

\* The promise returned by acquireWithin() is observed by its caller.
Resume(c) ==
  /\ stage[c] \in {"granted", "cancelled", "timed_out"}
  /\ stage' = [stage EXCEPT ![c] = IF @ = "granted" THEN "holding" ELSE "idle"]
  /\ UNCHANGED <<limit, inUse, waiters>>

\* release(), which the holder calls once, in its finally block or on one of
\* the early returns after the wait.
Release(c) ==
  /\ stage[c] = "holding"
  /\ Drain(waiters, AtLeast(0, inUse - 1), limit, [stage EXCEPT ![c] = "idle"])
  /\ UNCHANGED limit

\* Mutant: a larger limit is stored but the waiters are not woken.
SetLimitWithoutDrain(n) ==
  /\ n \in 0..MaxLimit
  /\ limit' = AtLeast(1, n)
  /\ UNCHANGED <<inUse, waiters, stage>>

\* setLimit(): the concurrency may shrink below the slots already out.
SetLimit(n) ==
  /\ n \in 0..MaxLimit
  /\ limit' = AtLeast(1, n)
  /\ Drain(waiters, inUse, limit', stage)

SemaphoreNext ==
  \/ \E c \in Callers : Acquire(c) \/ Timeout(c) \/ Cancel(c) \/ Resume(c) \/ Release(c)
  \/ CancelAll
  \/ \E n \in 0..MaxLimit : SetLimit(n)

SemaphoreSpec == SemaphoreInit /\ [][SemaphoreNext]_semaphoreVars

-----------------------------------------------------------------------------
(* Properties *)

\* The variables have their types.
SemaphoreTypeOK ==
  /\ limit \in 1..MaxLimit
  /\ inUse \in Nat
  /\ waiters \in Seq(Callers)
  /\ stage \in [Callers -> Stages]

\* No slot leaks and none is given out twice: the counter is exactly the
\* number of callers that own a slot, whatever timeouts and cancellations
\* race with the hand-over.
SlotsAccounted == inUse = Cardinality(Owners)

\* The queue holds each waiter that is still waiting, once, and nobody whose
\* verdict is already settled.
QueueExact ==
  /\ \A c \in Callers : stage[c] = "queued" <=> \E i \in 1..Len(waiters) : waiters[i] = c
  /\ \A i, j \in 1..Len(waiters) : waiters[i] = waiters[j] => i = j

\* No lost wake-up: nobody waits while a slot is free.
NoStrandedWaiter == waiters # <<>> => inUse >= limit

=============================================================================
