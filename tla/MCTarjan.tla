------------------------------ MODULE MCTarjan ------------------------------
(* All graphs on three names; on four, those without self-loops and with at
   most two dependencies a name.  The roots are tried in one order only: every
   other order is this one on a renamed graph. *)
EXTENDS Tarjan

Three == {"a", "b", "c"}
Four == {"a", "b", "c", "d"}
AtMostTwo(x) == {S \in SUBSET (Four \ {x}) : Cardinality(S) <= 2}
Sparse ==
  {("a" :> s[1]) @@ ("b" :> s[2]) @@ ("c" :> s[3]) @@ ("d" :> s[4]) :
     s \in AtMostTwo("a") \X AtMostTwo("b") \X AtMostTwo("c") \X AtMostTwo("d")}

MCSpec ==
  /\ \/ \E dict \in [Three -> SUBSET Three] : Call(dict, <<"a", "b", "c">>)
     \/ \E dict \in Sparse : Call(dict, <<"a", "b", "c", "d">>)
  /\ [][TarjanNext]_tarjanVars
=============================================================================
