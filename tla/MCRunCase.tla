----------------------------- MODULE MCRunCase -----------------------------
(* Three repairs, on new objects or on those of an earlier one. *)
EXTENDS RunCase
=============================================================================
