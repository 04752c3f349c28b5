---------------------------- MODULE EnqueueLoopMC ----------------------------
(* TLC instances of EnqueueLoop: three providers, a task of the second one,  *)
(* and a team that may use the first two.                                    *)
EXTENDS EnqueueLoop

ThreeProviders == <<"a", "b", "c">>
Executors      == {"a", "b"}
=============================================================================
