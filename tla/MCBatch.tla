------------------------------ MODULE MCBatch ------------------------------
(* Three cases, the first of which raises every time: one that stays at the head
   of the pending list.  Sessions are not bounded. *)
EXTENDS Batch

MCCases == <<"dream", "llada", "ar_full">>
=============================================================================
