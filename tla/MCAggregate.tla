---------------------------- MODULE MCAggregate ----------------------------
(* Two files of up to two results.  The matrix has two cells; results also come for
   a corruption and a repairer it does not know, without a case, and of a case that does
   not name its corruption. *)
EXTENDS Aggregate

MCKind == [r \in {"llada", "ar_full"} |-> IF r = "llada" THEN "diffusion" ELSE "ar"]
CaseOf(m, c) == [model |-> m, domain |-> "domain_a", corruption |-> c]
Result(case, record) == [case |-> case, record |-> record]

MCPayload ==
  {Result(CaseOf("llada", "wrong_tool"), Record({}, TRUE, "yes", TRUE)),
   Result(CaseOf("llada", "wrong_tool"), Record({"backend"}, FALSE, "none", TRUE)),
   Result(CaseOf("ar_full", "wrong_tool"), Record({"api"}, FALSE, "none", FALSE)),
   Result(CaseOf("llada", "wrong_tool_length_matched"), Record({}, FALSE, "yes", TRUE)),
   Result(CaseOf("hybrid", "wrong_tool"), Record({}, FALSE, "yes", TRUE)),
   Result([model |-> "llada", domain |-> "domain_a"], Record({}, TRUE, "yes", TRUE)),
   Result(NoCase, Record({}, FALSE, "no", TRUE))}
=============================================================================
