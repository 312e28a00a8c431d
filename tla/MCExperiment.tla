---------------------------- MODULE MCExperiment ----------------------------
(* Two cases, one for a diffusion and one for an autoregressive repairer; two
   sessions, one of which may die.  The second directory also holds the array of
   an earlier remeasurement. *)
EXTENDS Experiment

MCCases == <<"llada", "ar_full">>
MCKind == [c \in {"llada", "ar_full"} |-> IF c = "llada" THEN "diffusion" ELSE "ar"]
MCArrays == [d \in {"run1", "run2"} |-> IF d = "run2" THEN {"llada"} ELSE {}]
=============================================================================
