---------------------------- MODULE SemaphoreMC ----------------------------
(* Semaphore with three callers and a limit that moves between 1 and 2.    *)
EXTENDS Semaphore
=============================================================================
