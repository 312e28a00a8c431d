------------------------------- MODULE Results -------------------------------
(***************************************************************************)
(* The result of a case, as run_case records it and as the aggregator      *)
(* reads it.  A result says how its repairer failed, whether the plan that *)
(* came back was solved, whether the model's text parsed ("none" without   *)
(* diagnostics) and whether a step was masked.                             *)
(***************************************************************************)
EXTENDS Integers, FiniteSets

Record(failures, solved, parsed, masked) ==
  [failures |-> failures, solved |-> solved, parsed |-> parsed, masked |-> masked]

\* Of a diffusion repairer that failed before there was a text to parse.
GivenUp(failure) == {Record({failure}, FALSE, "none", m) : m \in BOOLEAN}

\* What a repairer of each kind can leave on record, beside what it was answered: a
\* plan, a text that is none, or nothing at all.
Recorded(kind) ==
  CASE kind = "ar" ->
         [answer : {"plan"}, record : {Record({}, s, "none", FALSE) : s \in BOOLEAN}]
         \cup [answer : {"text"}, record : {Record({"parse"}, FALSE, "none", FALSE)}]
         \cup [answer : {"nothing"}, record : {Record({"api"}, FALSE, "none", FALSE)}]
    [] kind = "diffusion" ->
         [answer : {"plan"}, record : {Record({}, s, "yes", TRUE) : s \in BOOLEAN}]
         \cup [answer : {"text"}, record : {Record({"parse"}, FALSE, "no", TRUE)}
                                           \cup GivenUp("backend")]
         \cup [answer : {"nothing"},
               record : GivenUp("backend") \cup GivenUp("alignment") \cup {Record({}, FALSE, "yes", FALSE)}]
    [] kind = "rules" -> [answer : {"plan"}, record : {Record({}, s, "none", FALSE) : s \in BOOLEAN}]

\* Mutant: an answer that never came is scored on what it left behind.
ClassifySilence(kind, record) ==
  IF record.failures \cap {"backend", "alignment"} # {} THEN "not_run"
  ELSE IF record.solved THEN "solved"
  ELSE IF record.parsed = "no" THEN "parse_failed"
  ELSE IF kind = "diffusion" /\ ~record.masked THEN "nothing_masked"
  ELSE "unsolved"

\* Infrastructure first, then silence; what is left was answered, unless nothing was asked.
Classify(kind, record) ==
  IF record.failures \cap {"backend", "alignment"} # {} THEN "not_run"
  ELSE IF record.failures \cap {"api"} # {} THEN "not_answered"
  ELSE IF record.solved THEN "solved"
  ELSE IF record.parsed = "no" THEN "parse_failed"
  ELSE IF kind = "diffusion" /\ ~record.masked THEN "nothing_masked"
  ELSE "unsolved"

MEASURED == {"solved", "unsolved", "parse_failed"}

\* A cell stands on the one measurement that claims it; found is a set of records with
\* the fields kind, record and whatever tells them apart.
Outcome(found) ==
  IF found = {} THEN "missing"
  ELSE IF Cardinality(found) > 1 THEN "ambiguous"
  ELSE LET m == CHOOSE one \in found : TRUE IN Classify(m.kind, m.record)
=============================================================================
