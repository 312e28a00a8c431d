------------------------------- MODULE Remask -------------------------------
(***************************************************************************)
(* Selective remasking: which steps, or fields of them, a validation hands *)
(* over for regeneration, and how the fillings are put back.  Positions in *)
(* the text are the places of the steps in the list; a filling is what its *)
(* text says once the separators around it are stripped and it is parsed.  *)
(***************************************************************************)
EXTENDS Validator, SequencesExt

CONSTANT FieldKey        \* [step, field] -> the name of the step, a dot, the field

(***************************************************************************)
(* A dangling step is taken for a consequence of a broken reference when a *)
(* step listed later carries one: that step could have been its consumer.  *)
(***************************************************************************)
DerivedDangling(errors, steps) ==
  LET consumers == {LastAt(steps, id) : id \in
                      DetectedStepIds(OfType(errors, UNKNOWN_DEPENDENCY)) \cap KnownIds(steps)}
  IN  {id \in DetectedStepIds(OfType(errors, DANGLING_STEP)) \cap KnownIds(steps) :
         \E latest \in consumers : LastAt(steps, id) < latest}

\* Mutant: every finding is taken for damage.
PathsOfAll(errors, steps) == DetectedPaths(errors)

PathsToMask(errors, steps) ==
  LET derived == DerivedDangling(errors, steps)
  IN  DetectedPaths({e \in errors : ~(e.type = DANGLING_STEP /\ e.step_ids \subseteq derived)})

(***************************************************************************)
(* The mask.  Paths to the stop condition and to task requirements name no *)
(* step.  A step asked for as a whole is not asked for by field.           *)
(***************************************************************************)
Whole == "whole"
TOOL_FIELD == "tool"
DEPENDENCY_FIELD == "input_from"

ASSUME FieldKeyAssumption ==
  \A s, t \in StepId \X {TOOL_FIELD, DEPENDENCY_FIELD} : FieldKey[s] = FieldKey[t] => s = t

\* What a filling for a span goes under.  A field's can be the name of another step.
Key(span) == IF span[2] = Whole THEN span[1] ELSE FieldKey[span]

StepPaths(paths) == {path \in paths : path[1] \in {"step", TOOL_FIELD, DEPENDENCY_FIELD}}

MaskSpec(steps, paths) ==
  LET named == {path \in StepPaths(paths) : path[2] \in KnownIds(steps)}
      whole == {path[2] : path \in {x \in named : x[1] = "step"}}
      fields == {x \in named : x[1] # "step" /\ x[2] \notin whole}
      touched == {path[2] : path \in named}
  IN  [spans |-> {<<id, Whole>> : id \in whole} \cup {<<path[2], path[1]>> : path \in fields},
       masked_step_ids |-> touched,
       preserved_step_ids |-> KnownIds(steps) \ touched,
       unmaskable_step_ids |-> {path[2] : path \in StepPaths(paths) \ named}]

(***************************************************************************)
(* Fillings, one per span key.  For a whole step: the steps its text reads *)
(* as (it may read as two, or be blank), or None to drop it.  For a field: *)
(* a value, and after it further keys of the step it is pasted into, the   *)
(* last of one name being the one that is read.  A text may also reach out *)
(* of its line, for the whole to read as any steps, or be Junk: no plan.   *)
(***************************************************************************)
Steps(ss)       == [kind |-> "steps", value |-> ss]
Value(v)        == [kind |-> "value", value |-> v]
Naming(v, also) == [kind |-> "naming", value |-> v, also |-> also]
Reaching(ss)    == [kind |-> "reaching", value |-> ss]
Dropped         == [kind |-> "none"]
Junk            == [kind |-> "junk"]

\* Where the fillings of a mask go: a step whose name is a key is replaced whole, any
\* other gets what there is for its masked fields.
Placed(steps, filling, spans) ==
  LET lines == {<<id, Whole>> : id \in KnownIds(steps) \cap DOMAIN filling}
      fields == {span \in spans : /\ span[2] # Whole /\ span[1] \notin DOMAIN filling
                                  /\ Key(span) \in DOMAIN filling /\ filling[Key(span)] # Dropped}
  IN  [place \in lines \cup fields |-> filling[Key(place)]]

\* A field that got no text keeps its value.
TextOf(placed, step, part) ==
  IF <<step.id, part>> \in DOMAIN placed THEN placed[<<step.id, part>>] ELSE Value(step[part])

Named(text, field, old) ==
  IF text.kind = "naming" /\ field \in DOMAIN text.also THEN text.also[field] ELSE old

\* The fields are written in the order id, tool, arguments, input_from, produces, so
\* what a text names again is read where the field stood before it.  (The step is looked
\* up by its name, and one of a name that clashes is never masked by field.)
Rewritten(step, placed) ==
  LET tool == TextOf(placed, step, TOOL_FIELD)
      dependencies == TextOf(placed, step, DEPENDENCY_FIELD)
  IN  [step EXCEPT !.id = Named(dependencies, "id", Named(tool, "id", @)),
                   !.tool = Named(dependencies, TOOL_FIELD, tool.value),
                   !.arguments = Named(dependencies, "arguments", @),
                   !.input_from = dependencies.value]

\* Mutant: a step that should not exist keeps its line.
LineIfSteps(step, placed) ==
  IF <<step.id, Whole>> \notin DOMAIN placed THEN <<Rewritten(step, placed)>>
  ELSE IF placed[<<step.id, Whole>>] = Dropped THEN <<step>>
  ELSE placed[<<step.id, Whole>>].value

\* What the line of a step becomes: a line that gets nothing is copied.
Line(step, placed) ==
  IF <<step.id, Whole>> \notin DOMAIN placed THEN <<Rewritten(step, placed)>>
  ELSE IF placed[<<step.id, Whole>>] = Dropped THEN <<>>
  ELSE placed[<<step.id, Whole>>].value

Rebuilt(steps, placed) ==
  FlattenSeq([i \in DOMAIN steps |-> Line(steps[i], placed)])

Reaches(placed) == {place \in DOMAIN placed : placed[place].kind = "reaching"}

Fits(place, text) == text.kind \in IF place[2] = Whole THEN {"steps", "none"} ELSE {"value", "naming"}

LinesOf(steps, placed, text) ==
  {i \in DOMAIN steps : <<steps[i].id, Whole>> \in DOMAIN placed /\ placed[<<steps[i].id, Whole>>] = text}

\* A blank line leaves a comma too many, unless no other line is left.
Parses(steps, placed) ==
  LET blank == LinesOf(steps, placed, Steps(<<>>))
  IN  /\ \A place \in DOMAIN placed : placed[place] # Junk
      /\ Reaches(placed) # {} \/ \A place \in DOMAIN placed : Fits(place, placed[place])
      /\ \A i \in blank : DOMAIN steps \ {i} \subseteq LinesOf(steps, placed, Dropped)

\* What the text may read as: line by line, unless one reaches out.
Readings(steps, placed) ==
  IF Reaches(placed) = {} THEN {Rebuilt(steps, placed)}
  ELSE {placed[place].value : place \in Reaches(placed)}
=============================================================================
