----------------------------- MODULE Diffusion -----------------------------
(***************************************************************************)
(* DiffusionRepairer.repair between the validator and the score: mask,     *)
(* align, fill, snap, put back, parse.  What the backend returns is up to  *)
(* the backend: the two controls return a known answer, a model returns    *)
(* any texts, and may name spans it was not asked about.                   *)
(***************************************************************************)
EXTENDS Injection, Snap, Results

CONSTANTS
  Letters,                 \* what a name in a path may hold beside delimiters
  MaxName,                 \* bound: the length of such a name
  MaxModelCorruptions,     \* bound: with more of them, only the controls are asked
  MaxModelSpans,           \* bound: how many spans a model answers
  Guesses(_, _)            \* bound: the texts it may answer a span of these steps with

PathText == INSTANCE Paths

VARIABLES
  spec,          \* last_mask
  snaps,         \* the switches [tools, dependencies]
  backend,       \* which backend answered
  filling,       \* what it returned: span key -> filling
  failures,      \* the kinds recorded by _give_up
  plan,          \* what repair returns
  score,         \* and what it scores
  parsed,        \* what last_diagnostics says of the text, "none" without them
  stage          \* "inject", "align", "fill", "put_back", "returned", "scored"
diffusionVars == <<injectionVars, spec, snaps, backend, filling, failures, plan, score, parsed, stage>>

Measure(p) ==
  /\ Intact(p)
  /\ spec = <<>> /\ snaps = <<>> /\ backend = "none" /\ filling = <<>>
  /\ failures = {} /\ plan = p /\ score = <<>> /\ parsed = "none"
  /\ stage = "inject"

Corrupt ==
  /\ stage = "inject"
  /\ Inject \/ InjectAlone
  /\ UNCHANGED <<spec, snaps, backend, filling, failures, plan, score, parsed, stage>>

\* repair is called with the validation of the broken plan and masks by it.
Mask ==
  /\ stage = "inject" /\ injected # <<>>
  /\ LET errors == Errors(broken)
     IN  spec' = MaskSpec(broken.steps, PathsToMask(errors, broken.steps))
  /\ snaps' \in [tools : BOOLEAN, dependencies : BOOLEAN]
  /\ stage' = "align"
  /\ UNCHANGED <<injectionVars, backend, filling, failures, plan, score, parsed>>

\* A copy of the broken plan comes back, and the failure is on record.
GiveUp(kind) ==
  /\ failures' = failures \cup {kind}
  /\ plan' = broken
  /\ stage' = "returned"

\* A tokenizer failure is a failed repair, not a crash.
Align ==
  /\ stage = "align"
  /\ \/ GiveUp("alignment")
     \/ stage' = "fill" /\ UNCHANGED <<failures, plan>>
  /\ UNCHANGED <<injectionVars, spec, snaps, backend, filling, score, parsed>>

BackendFails ==
  /\ stage = "fill"
  /\ GiveUp("backend")
  /\ UNCHANGED <<injectionVars, spec, snaps, backend, filling, score, parsed>>

\* A dict over a plan's steps keeps the last one of a name.
LastStep(p, id) == p.steps[LastAt(p.steps, id)]

\* What a backend that has this step at hand puts into a span.
Answer(step, part) ==
  IF part = Whole THEN Steps(<<step>>)
  ELSE IF part = TOOL_FIELD THEN Value(step.tool) ELSE Value(step.input_from)

\* The spans are answered in the order of the plan: of two with one key, the last.
LastSpan(spans, key) ==
  LET asked == {span \in spans : Key(span) = key}
  IN  CHOOSE span \in asked :
        \A other \in asked : LastAt(broken.steps, other[1]) <= LastAt(broken.steps, span[1])

Keys(spans) == {Key(span) : span \in spans}

\* OracleBackend: the step as it was; None where there was none, unless it is a field's.
OracleFills ==
  LET answered == {span \in spec.spans : span[1] \in Known(reference) \/ span[2] = Whole}
  IN  filling' = [key \in Keys(answered) |->
                    LET span == LastSpan(answered, key)
                    IN  IF span[1] \in Known(reference)
                        THEN Answer(LastStep(reference, span[1]), span[2]) ELSE Dropped]

\* EchoBackend: the text of the span.
EchoFills ==
  filling' = [key \in Keys(spec.spans) |->
                LET span == LastSpan(spec.spans, key) IN Answer(LastStep(broken, span[1]), span[2])]

\* What a model may write into a span: steps, a value of the field with or without
\* further keys, a text that reaches out of its line, none, or no plan at all.
IsText(part, text) ==
  \/ text \in {Dropped, Junk}
  \/ text.kind = "reaching" /\ text = Reaching(text.value) /\ text.value \in Seq(Step)
  \/ part = Whole /\ text.kind = "steps" /\ text = Steps(text.value) /\ text.value \in Seq(Step)
  \/ /\ part # Whole /\ text.kind \in {"value", "naming"}
     /\ text.value \in IF part = TOOL_FIELD THEN Tool ELSE SUBSET StepId
     /\ \/ text = Value(text.value)
        \/ /\ text = Naming(text.value, text.also)
           /\ DOMAIN text.also \subseteq {"id", TOOL_FIELD, "arguments"}
           /\ \A field \in DOMAIN text.also :
                text.also[field] \in IF field = "id" THEN StepId ELSE IF field = TOOL_FIELD THEN Tool ELSE Argument

Texts(span) == {text \in Guesses(broken.steps, span) : IsText(span[2], text)}

\* A model answers the spans its tokens cover, all or some, and a backend gone wrong
\* answers for a step it was not asked about.
ModelFills ==
  /\ Len(injected) <= MaxModelCorruptions
  /\ \/ \E spans \in UNION {kSubset(n, spec.spans) : n \in 0 .. MaxModelSpans} :
          /\ filling' \in [Keys(spans) -> UNION {Texts(span) : span \in spans}]
          /\ \A key \in Keys(spans) : \E span \in spans : Key(span) = key /\ filling'[key] \in Texts(span)
     \/ \E id \in spec.preserved_step_ids :
          filling' = [key \in {id} |-> Dropped]

Fill ==
  /\ stage = "fill"
  /\ \/ backend' = "oracle" /\ OracleFills
     \/ backend' = "echo" /\ EchoFills
     \/ backend' = "model" /\ ModelFills
  /\ stage' = "put_back"
  /\ UNCHANGED <<injectionVars, spec, snaps, failures, plan, score, parsed>>

PutBackFilling ==
  Placed(broken.steps, Snapped(filling, broken.steps, spec.spans, snaps.tools, snaps.dependencies), spec.spans)

Return ==
  /\ \E ss \in Readings(broken.steps, PutBackFilling) : plan' = [broken EXCEPT !.steps = ss]
  /\ parsed' = "yes"
  /\ stage' = "returned"
  /\ UNCHANGED failures

\* Mutant: what a backend says of a step outside the mask is put in as well.
PutBackAnything ==
  /\ stage = "put_back"
  /\ IF ~Parses(broken.steps, PutBackFilling) THEN GiveUp("parse") /\ parsed' = "no" ELSE Return
  /\ UNCHANGED <<injectionVars, spec, snaps, backend, filling, score>>

\* Mutant: what the model produced is diagnosed only when it parsed.
PutBackUndiagnosed ==
  /\ stage = "put_back"
  /\ IF ~(DOMAIN filling \subseteq Keys(spec.spans)) THEN GiveUp("backend") /\ UNCHANGED parsed
     ELSE IF ~Parses(broken.steps, PutBackFilling) THEN GiveUp("parse") /\ UNCHANGED parsed
     ELSE Return
  /\ UNCHANGED <<injectionVars, spec, snaps, backend, filling, score>>

\* fill_masked refuses what the mask does not cover; a sequence that does not parse
\* is no plan, and is diagnosed before it is given up.
PutBack ==
  /\ stage = "put_back"
  /\ IF ~(DOMAIN filling \subseteq Keys(spec.spans)) THEN GiveUp("backend") /\ UNCHANGED parsed
     ELSE IF ~Parses(broken.steps, PutBackFilling) THEN GiveUp("parse") /\ parsed' = "no"
     ELSE Return
  /\ UNCHANGED <<injectionVars, spec, snaps, backend, filling, score>>

TakeScore ==
  /\ stage = "returned"
  /\ score' = Score(reference, broken, plan, Damaged)
  /\ stage' = "scored"
  /\ UNCHANGED <<injectionVars, spec, snaps, backend, filling, failures, plan, parsed>>

\* What run_case reads off the repairer and the score.
RunRecord == Record(failures, Solved(score), parsed, spec.masked_step_ids # {})

DiffusionNext == Corrupt \/ Mask \/ Align \/ BackendFails \/ Fill \/ PutBack \/ TakeScore

\* Only plans that are valid and run are corrupted.
DiffusionSpec ==
  /\ \E p \in AgentPlan : Valid(p) /\ Runs(p) /\ Measure(p)
  /\ [][DiffusionNext]_diffusionVars

-----------------------------------------------------------------------------
Returned == stage \in {"returned", "scored"}
Masked == stage = "align"
Fields(i) == {span[2] : span \in {k \in spec.spans : k[1] = broken.steps[i].id}}

\* No masked field is answered under the name of a step.
KeysApart == \A span \in spec.spans : span[2] # Whole => Key(span) \notin Known(broken)

\* No text reaches out of its line.
Contained == \A key \in DOMAIN filling : filling[key].kind # "reaching"

\* The fields of the step at i that may come back different: the masked ones, and those
\* a text written into one of them names again.
Open(i) ==
  LET key(part) == Key(<<broken.steps[i].id, part>>)
      naming == {part \in Fields(i) \ {Whole} : key(part) \in DOMAIN filling /\ filling[key(part)].kind = "naming"}
  IN  Fields(i) \cup UNION {DOMAIN filling[key(part)].also : part \in naming}

\* The step at k is the broken plan's step at i, but for what of i is open.
IsKept(i, k) ==
  /\ plan.steps[k].produces = broken.steps[i].produces
  /\ \A field \in {"id", TOOL_FIELD, "arguments", DEPENDENCY_FIELD} \ Open(i) :
       plan.steps[k][field] = broken.steps[i][field]

\* "Steps outside the mask are copied over verbatim", and of a step masked by field so
\* is the rest, unless what was written into it says otherwise: the steps that were not
\* masked as a whole come back in their order, each as it was outside its open fields,
\* with what it produces in any case.  So it is of every answer of a backend that keeps
\* to its lines, where no masked field is answered under the name of a step.
OnlyTheMaskChanges ==
  (Returned /\ KeysApart /\ Contained) =>
    LET kept == {i \in DOMAIN broken.steps : Whole \notin Fields(i)}
    IN  \E at \in [kept -> DOMAIN plan.steps] :
          \A i \in kept : IsKept(i, at[i]) /\ \A j \in kept : i < j => at[i] < at[j]

\* The mask takes nothing that is not damage: after one broken reference, one wrong
\* tool, or one deletion something depended on, every masked step is a damaged one.
MaskFitsDamage ==
  (Masked /\ Single /\ Damaged # {} /\ DEP_CYCLE \notin ErrorTypes(Errors(broken))
     /\ Types \subseteq {BROKEN_DEPENDENCY, WRONG_TOOL, STEP_DELETION, DROP_REQUIRED_STEP})
  => spec.masked_step_ids \subseteq Damaged

\* "If masking is correct this restores exactly the damaged steps": of the faults a
\* mask can reach, one is always masked, and of any number of them, with every damaged
\* step masked in whatever part, the oracle brings the reference back.  (A reference
\* to a step named by a blank would be cleaned away, and the answer for a field of one
\* step can go to another step's line.)
OracleRestores ==
  (Returned /\ backend = "oracle" /\ UniqueIds(broken.steps) /\ KeysApart /\ Blank \notin Known(reference)
     /\ Types \subseteq {BROKEN_DEPENDENCY, WRONG_TOOL, DUPLICATE_STEP}
     /\ (Single \/ Damaged \subseteq spec.masked_step_ids))
  => plan = reference

\* Nothing a filling says moves one step of the broken plan past another, or renames
\* a step it was to fill in.
Unmoved(ss) ==
  \A k, m \in DOMAIN ss :
    (k < m /\ {ss[k].id, ss[m].id} \subseteq Known(broken))
      => FirstAt(broken.steps, ss[k].id) <= FirstAt(broken.steps, ss[m].id)

Renames == \E key \in DOMAIN filling : filling[key].kind = "naming" /\ "id" \in DOMAIN filling[key].also

\* "What stops the cleaning from trading one error for another": of a filling that
\* has no step precede or wait for itself, the completed one has none either, so long
\* as the steps are where the completion took them to be.
SnapNeverDisorders ==
  (Returned /\ failures = {} /\ Contained /\ ~Renames) =>
    LET plain == Rebuilt(broken.steps, Placed(broken.steps, filling, spec.spans))
    IN  (UniqueIds(plain) /\ Unmoved(plain) /\ OrderingErrors(plain) = {} /\ CycleErrors(plain) = {})
          => OrderingErrors(plan.steps) = {} /\ CycleErrors(plan.steps) = {}

\* "A file is not always a measurement": of a plan that was broken, what run_case would
\* write down is one of the records the aggregator tells apart.
ResultIsExpected ==
  (stage = "scored" /\ ~(Valid(broken) /\ Runs(broken))) =>
    \E r \in Recorded("diffusion") :
      /\ r.record = RunRecord
      /\ r.answer = "text" <=> (filling # <<>> /\ plan = broken /\ failures # {})

\* Mask takes the paths of a validation for what they mean; the code hands them over as
\* text and parses it back.  Nothing is lost between the two: however the steps and the
\* requirements of the plan are named, each path reported is read as the step and the
\* field it was written for, or as no step, so long as no step's id holds a bracket.
PathsReadBack ==
  Masked =>
    \A path \in DetectedPaths(Errors(broken)), name \in PathText!Name :
      LET meant == PathText!Meant(path, name)
      IN  ~(meant.step /\ PathText!Bracketed(name)) => PathText!parse_path(PathText!Text(path, name)) = meant
=============================================================================
