----------------------------- MODULE MCHarness -----------------------------
(* Every valid plan of up to three steps over two tools, every wiring of four whose
   middle steps share a tool, and a plan whose first step does what its third does
   once it consumes what the third consumes; corrupted once or twice. *)
EXTENDS Harness

MCUnknownNames == [id \in StepId |-> SelectSeq(<<id \o "_x", id \o "_x2">>, LAMBDA n : n \in StepId)]
MCCopyNames == [id \in StepId |-> SelectSeq(<<id \o "_dup", id \o "_dup2">>, LAMBDA n : n \in StepId)]
MCTokenLength == [t \in Tool |-> IF t = "odd" THEN 2 ELSE 1]

Names == <<"a", "b", "c", "d", "e", "f">>

\* Step i of n consumes earlier steps; the first does "op", the last has "ev".
StepsAt(i, n) ==
  {[id |-> Names[i], tool |-> t, arguments |-> "full", input_from |-> deps,
    produces |-> (IF i = 1 THEN {"op"} ELSE {}) \cup (IF i = n THEN {"ev"} ELSE {})] :
     t \in IF n < 4 THEN {"t1", "t2"} ELSE {<<"t1", "t2", "t2", "t1">>[i]}, deps \in SUBSET {Names[k] : k \in 1 .. i - 1}}

References(n) ==
  {p \in {[steps |-> ss, stop_condition |-> "stated"] :
            ss \in CASE n = 1 -> {<<s>> : s \in StepsAt(1, 1)}
                     [] n = 2 -> StepsAt(1, 2) \X StepsAt(2, 2)
                     [] n = 3 -> StepsAt(1, 3) \X StepsAt(2, 3) \X StepsAt(3, 3)
                     [] n = 4 -> StepsAt(1, 4) \X StepsAt(2, 4) \X StepsAt(3, 4) \X StepsAt(4, 4)} :
     Valid(p)}

NearTwins ==
  [steps |-> [i \in 1 .. 4 |-> [id |-> Names[i], tool |-> <<"t1", "t2", "t1", "t2">>[i], arguments |-> "full",
                                input_from |-> IF i = 1 THEN {} ELSE {Names[i - 1]},
                                produces |-> <<{}, {"op"}, {}, {"ev"}>>[i]]],
   stop_condition |-> "stated"]

\* A step that consumes the end of a chain, closed into it, does what a later one does.
FarTwins ==
  [steps |-> [i \in 1 .. 6 |-> [id |-> Names[i], tool |-> <<"t1", "t2", "t1", "t1", "t2", "t1">>[i], arguments |-> "full",
                                input_from |-> <<{}, {"a"}, {"b"}, {"c"}, {"a", "d"}, {"e"}>>[i],
                                produces |-> IF i = 1 THEN {"op"} ELSE IF i = 6 THEN {"ev"} ELSE {}]],
   stop_condition |-> "stated"]

MCSpec ==
  /\ \E p \in UNION {References(n) : n \in 1 .. 4} \cup {NearTwins, FarTwins} : Measure(p)
  /\ [][HarnessNext]_harnessVars
=============================================================================
