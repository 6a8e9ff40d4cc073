-------------------------- MODULE MCBudgetAllowance --------------------------
(* A small instance of BudgetAllowance.                                     *)
EXTENDS BudgetAllowance

OneOrigin == {{"key", "origin"}}

Each(n) == [l \in Ledgers |-> n]
Two   == Each(2)
Three == Each(3)
=============================================================================
