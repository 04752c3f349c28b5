-------------------------- MODULE TaskLifecycleMC --------------------------
(* TLC instances of TaskLifecycle: one team task and one ordinary task.    *)
EXTENDS TaskLifecycle
=============================================================================
