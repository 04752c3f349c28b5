---------------------------- MODULE TaskContract ----------------------------
(***************************************************************************)
(* What the orchestrator promises a client about a task it has accepted.   *)
(* The client sees a task as absent, open, under review, done or closed    *)
(* without a result (failed, timed out, cancelled, lease expired).         *)
(*                                                                         *)
(* A task is closed once; the one correction a client can see afterwards   *)
(* is a done task that the quality gate takes back.  A task of a team is   *)
(* done only through a review that Nova-AX has accepted.                   *)
(***************************************************************************)
CONSTANTS Tasks, TeamTasks

VARIABLES view,      \* what GET /api/tasks/:id/status shows
          audited    \* tasks whose receipt Nova-AX has accepted

vars == <<view, audited>>

Init == view = [t \in Tasks |-> "absent"] /\ audited = {}

To(t, v) == view' = [view EXCEPT ![t] = v]

Submit(t) == view[t] = "absent" /\ To(t, "open") /\ UNCHANGED audited

Review(t) == t \in TeamTasks /\ view[t] = "open" /\ To(t, "review") /\ UNCHANGED audited

Done(t) == t \notin TeamTasks /\ view[t] = "open" /\ To(t, "done") /\ UNCHANGED audited

\* Nova-AX accepts a receipt; the task is done if it was still under review.
Audit(t) == /\ t \in TeamTasks
            /\ audited' = audited \cup {t}
            /\ IF view[t] = "review" THEN To(t, "done") ELSE UNCHANGED view

Closed(t) == view[t] \in {"open", "review", "done"} /\ To(t, "closed") /\ UNCHANGED audited

Next == \E t \in Tasks : Submit(t) \/ Review(t) \/ Done(t) \/ Audit(t) \/ Closed(t)

Spec == Init /\ [][Next]_vars
=============================================================================
