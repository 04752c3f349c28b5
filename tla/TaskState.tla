----------------------------- MODULE TaskState -----------------------------
(***************************************************************************)
(* The state machine of one row of the tasks table                         *)
(* (src/src/core/task-state.ts).  Every writer of tasks.status goes        *)
(* through transitionTask, except the quality gate, the boot recovery and  *)
(* the boot-time restore of queued rows.  Pure operators, no state.        *)
(***************************************************************************)

TERMINAL_STATES == {"completed", "failed", "timed_out", "cancelled", "lease_expired"}

Open == {"pending", "queued", "assigned", "running", "streaming", "reviewing"}

Statuses == Open \cup TERMINAL_STATES

\* Rows a provider may own, and which therefore carry a lease.
Leased == {"assigned", "running", "streaming"}

ALLOWED_TRANSITIONS ==
  [ pending   |-> {"queued", "assigned", "running", "cancelled", "failed"},
    queued    |-> {"assigned", "running", "cancelled", "failed"},
    assigned  |-> Statuses \ {"pending", "queued", "assigned"},
    running   |-> Statuses \ {"pending", "queued", "assigned", "running"},
    streaming |-> Statuses \ {"pending", "queued", "assigned", "running", "streaming"},
    reviewing |-> {"completed", "failed", "cancelled"},
    completed |-> {}, failed |-> {}, timed_out |-> {}, cancelled |-> {}, lease_expired |-> {} ]

\* The conditional UPDATE of transitionTask changes exactly one row.  A row of
\* a team reaches completed only with an approval on record (or as part of the
\* audit control plane itself): that is what `approved` stands for.
Moves(from, to, approved) ==
  /\ from \in Statuses
  /\ to \in ALLOWED_TRANSITIONS[from]
  /\ to = "completed" => approved
=============================================================================
