------------------------- MODULE MCAutoregressive -------------------------
(* Three repairs with one object, budgets on both sides of every bound, from the
   environment or passed. *)
EXTENDS Autoregressive

MCBudgets == {Unset, Words} \cup {Number(n) : n \in {-1, 0, 1, 5, 6}}
MCArguments == {Unset, Number(0), Number(6)}
=============================================================================
