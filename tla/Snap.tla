-------------------------------- MODULE Snap --------------------------------
(***************************************************************************)
(* The two completions of what a model wrote into a field: a tool name it  *)
(* nearly wrote, and a dependency list in which it named a tag instead of  *)
(* the step producing it.                                                  *)
(***************************************************************************)
EXTENDS Remask

CONSTANTS
  Ratio,        \* [value, tool] -> percent of the tool the value's front reproduces
  Blank         \* the empty string, as an element of a dependency list

SNAP_RATIO_FLOOR == 80

\* The values as sets: blanks dropped, the rest resolved one by one.
SnapToolValue(value) ==
  LET best == {t \in Available : /\ Ratio[value, t] >= SNAP_RATIO_FLOOR
                                 /\ \A u \in Available \ {t} : Ratio[value, u] < Ratio[value, t]}
  IN  IF value \in Available \/ best = {} THEN value ELSE CHOOSE t \in best : TRUE

\* Mutant: a tag is looked up among all the steps.
ProducersAnywhere(steps, id, tag) == {i \in DOMAIN steps : tag \in steps[i].produces}

\* The steps listed before the first one of that name which claim the tag.
ProducersBefore(steps, id, tag) ==
  {i \in DOMAIN steps : tag \in steps[i].produces /\ i < FirstAt(steps, id)}

SnapDependencyValue(value, steps, id) ==
  {IF d \in KnownIds(steps) \/ Cardinality(ProducersBefore(steps, id, d)) # 1 THEN d
   ELSE steps[CHOOSE i \in ProducersBefore(steps, id, d) : TRUE].id : d \in value \ {Blank}}

\* Only a value the model gave for a field, and nothing after it, is looked at.
SnappedText(text, span, steps, snap_tools, snap_dependencies) ==
  IF text.kind # "value" THEN text
  ELSE IF span[2] = TOOL_FIELD /\ snap_tools THEN Value(SnapToolValue(text.value))
  ELSE IF span[2] = DEPENDENCY_FIELD /\ snap_dependencies
       THEN Value(SnapDependencyValue(text.value, steps, span[1]))
  ELSE text

\* Which keys are a field's is read off the mask.
FieldSpans(spans, key) == {span \in spans : span[2] # Whole /\ Key(span) = key}

Snapped(filling, steps, spans, snap_tools, snap_dependencies) ==
  [key \in DOMAIN filling |->
     IF FieldSpans(spans, key) = {} THEN filling[key]
     ELSE SnappedText(filling[key], CHOOSE span \in FieldSpans(spans, key) : TRUE,
                      steps, snap_tools, snap_dependencies)]
=============================================================================
