-------------------------------- MODULE Paths --------------------------------
(***************************************************************************)
(* Error paths as text, written by the validator and read back by the      *)
(* mask.  A text is a sequence of the few pieces that matter to reading    *)
(* it: the prefixes, the closing bracket, the dot, names of fields, and    *)
(* letters.  A name may hold any of them.                                  *)
(***************************************************************************)
EXTENDS Integers, Sequences, SequencesExt

CONSTANTS
  Letters,        \* pieces of a name that mean nothing to a path
  MaxName         \* bound: the length of a name

STEP == "$.steps[?"
MASKABLE_FIELDS == {"tool", "input_from"}

Name == BoundedSeq(Letters \cup {"]", ".", STEP} \cup MASKABLE_FIELDS, MaxName)
Bracketed(name) == "]" \in ToSet(name)

step_path(id) == <<STEP>> \o id \o <<"]">>
field_path(id, field) == step_path(id) \o <<".", field>>
requirement_path(prefix, name) == <<prefix>> \o name \o <<"]">>
stop_condition_path == <<"$.stop_condition">>

\* The text of a path of PlanModel whose step or requirement has this name.
Text(path, name) ==
  CASE path[1] = "step" -> step_path(name)
    [] path[1] \in MASKABLE_FIELDS -> field_path(name, path[1])
    [] path[1] = "evidence" -> requirement_path("$.required_evidence[?", name)
    [] path[1] = "operation" -> requirement_path("$.required_operations[?", name)
    [] path[1] = "stop_condition" -> stop_condition_path

NoStep == [step |-> FALSE]
Step(id, field) == [step |-> TRUE, id |-> id, field |-> field]
WholeStep == "whole"

\* What PathsToMask takes the path for.
Meant(path, name) ==
  IF path[1] = "step" THEN Step(name, WholeStep)
  ELSE IF path[1] \in MASKABLE_FIELDS THEN Step(name, path[1])
  ELSE NoStep

\* Only the names of fields a mask can take, and nothing after them.
Field(remainder) ==
  LET rest == IF remainder # <<>> /\ Head(remainder) = "." THEN Tail(remainder) ELSE remainder
  IN  IF Len(rest) = 1 /\ rest[1] \in MASKABLE_FIELDS THEN rest[1] ELSE WholeStep

\* The first closing bracket, Len(path) + 1 if there is none.
Closing(path) ==
  CHOOSE k \in 1 .. Len(path) + 1 :
    /\ k <= Len(path) => path[k] = "]"
    /\ \A j \in 1 .. k - 1 : path[j] # "]"

\* Mutant: every bracketed name is taken for a step's.
ParseAnyPrefix(path) ==
  LET closing == Closing(path)
  IN  IF closing > Len(path) THEN NoStep
      ELSE Step(SubSeq(path, 2, closing - 1), Field(SubSeq(path, closing + 1, Len(path))))

parse_path(path) ==
  LET closing == Closing(path)
  IN  IF path[1] # STEP \/ closing > Len(path) THEN NoStep
      ELSE Step(SubSeq(path, 2, closing - 1), Field(SubSeq(path, closing + 1, Len(path))))
=============================================================================
