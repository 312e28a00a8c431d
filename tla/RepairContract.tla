--------------------------- MODULE RepairContract ---------------------------
(***************************************************************************)
(* What every repairer that asks a model promises its caller: "failure is  *)
(* an outcome, not a crash".  A call ends in a plan the model answered, or *)
(* in the broken plan unchanged with one more failure on record.           *)
(***************************************************************************)
EXTENDS Naturals

VARIABLES
  asked,      \* a call of repair has not returned
  recorded,   \* how many failures are on record
  returned    \* "nothing" yet, an "answer", or the plan that was "given"
vars == <<asked, recorded, returned>>

Init == asked = FALSE /\ recorded = 0 /\ returned = "nothing"

Call ==
  /\ ~asked
  /\ asked' = TRUE /\ returned' = "nothing"
  /\ UNCHANGED recorded

Answer ==
  /\ asked
  /\ asked' = FALSE /\ returned' = "answer"
  /\ UNCHANGED recorded

GiveUp ==
  /\ asked
  /\ asked' = FALSE /\ returned' = "given"
  /\ recorded' = recorded + 1

Next == Call \/ Answer \/ GiveUp
Spec == Init /\ [][Next]_vars
=============================================================================
