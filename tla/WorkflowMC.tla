----------------------------- MODULE WorkflowMC -----------------------------
(* TLC instances of Workflow.                                              *)
EXTENDS Workflow, TLC

CONSTANTS p1, p2, s1

Invited == {p1, p2}
Kept    == {s1}
=============================================================================
