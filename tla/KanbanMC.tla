------------------------------ MODULE KanbanMC ------------------------------
(* TLC instances of Kanban.                                                  *)
EXTENDS Kanban, TLC

\* A card and the one that waits for it.
Chain == ("first" :> {}) @@ ("second" :> {"first"})
=============================================================================
