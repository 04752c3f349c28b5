----------------------------- MODULE TreasuryMC -----------------------------
(* TLC instances of Treasury: rates in which one coin in two, or in three,   *)
(* is a charge, so that every charge occurs with small amounts.              *)
EXTENDS Treasury, TLC

Fees    == (1 :> 0) @@ (2 :> 1)
Taxes   == (1 :> 0) @@ (2 :> 1)
Markets == (1 :> 0) @@ (2 :> 1)
Royalties == (1 :> 1) @@ (2 :> 1)
Weights == (0 :> 1) @@ (1 :> 1) @@ (2 :> 1)
Uses    == {{"transfers", "courts"}, {"transfers", "polls"}, {"courts", "polls"},
            {"courts", "market"}, {"polls", "market"}, {"transfers", "payroll", "issues"},
            {"payroll", "market"}, {"transfers", "orders"}, {"payroll", "orders"}}
Alike   == [c \in Citizens |-> 1]
\* Who sends nothing is not asked for the rows of the last minute.
Seen    == <<ledger, courts, polls, art, stop, black, dole, book, scene,
             IF scene \cap {"transfers", "payroll"} = {} THEN {} ELSE recent>>
Alikes  == Permutations(Citizens)
=============================================================================
