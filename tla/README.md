# diffusion-llm-plan-repair, specified

TLA+ models of the plan repair harness in `src/`: what they cover, what TLC
checks on them, and what is proved of them for plans of every size.

The program validates, runs, damages, repairs and scores *plans*: lists of
steps that name a tool, arguments, the steps they consume (`input_from`) and
the tags they produce. Everything is one Python process, so its hard behaviour
is not concurrency. It is state that outlives what it was computed from (a
validation read by rules that change the plan under it, an alignment counted
from a text that has since got a prefix), names that several steps wear,
passes and work lists whose result must not depend on order, corruptions
chained through one another, a model that may answer anything, and a batch
runner that may die anywhere.

## Inventory

| Component | State | Operations | Talks to | What makes it correct |
|---|---|---|---|---|
| plan, task (`schema/`), canonical form (`canonical/`) | plans | compare two steps by body | everyone | names may clash; equality ignores name and order of dependencies |
| validator (`validation/`) | none between calls; Tarjan's stacks within one | nine checks; write a path, read it back | repairers, mask, score | reports all damage, and every cycle once; a path read is the path written |
| runtime (`runtime/`) | decided, reasons, pending | passes, settle, drain | score, agreement | order-free outcome; returns; keeps the validator's promise |
| deterministic repairer | the copy being repaired | four rules | given a validation | loses no work; restores order; declines the rest |
| injectors (`corruption/`) | broken plan, ground truth | seven corruptions, combinations | harness | the ground truth describes the damage |
| scoring | none | collateral, restoration | runs validator and runtime again | charges the repairer only for what it received intact |
| mask, text, snap (`remask`, `plan_io`, `snap`) | spans | mask by report, put back, complete | diffusion repairer | what is not masked comes back as it was |
| diffusion repairer, backends | last mask, alignment, diagnostics, failures; what the backend loaded and noted of its last fill | mask, align, fill, put back, give up | backend | every backend answer ends in a plan; no result speaks of another repair |
| tokenizer, denoising loop, hint | sequence, remaining positions | align, reveal, decode | model | healthy text frozen; ends within its passes |
| autoregressive repairer, API client | budget, SDK client, last answer, failures | connect, request, record, parse, give up | remote API | a plan comes back and the failures say whether it was answered; the budget is the one asked for |
| runner (`scripts/run_diffusion_experiment.py`) | files on disk | session, write, crash, report | repairers | results only change by `--force`; reruns come to every case that can be done |
| aggregator (`scripts/aggregate_results.py`) | files read, measurements, cells | load, classify, build the matrix | result files | measured means answered; every result is counted once or said to be left out |
| diagnostics, metrics, tables, assets | none | format | reports | not modelled |

## Modules

`Lists` → `PlanModel` → `Validator` → {`StepRules`, `Tarjan`, `DeterministicRepair`, `Injector`, `Remask`}.

| Module | Models | State |
|---|---|---|
| `Lists` | list comprehensions: the elements of a list at some of its places, in order | pure |
| `PlanModel` | plans, the task, bodies, paths as records | constants only |
| `Validator` | `validate_plan`, one operator per check; cyclic components by their definition | pure |
| `Paths` | the same paths as text: `step_path`, `requirement_path`, `parse_path` | pure |
| `Tarjan` | `_cyclic_components`, the explicit work list step by step, neighbours in any order | `index_of`, `low`, `counter`, `stack`, `work`, `components` |
| `StepRules` | what makes one step fail, wait or succeed; `FinalReason`, the outcome without executing | pure |
| `Dataflow` | abstract specification of `run_plan`: any decidable step may be decided next | `decided`, `reasons`, `finished` |
| `Runtime` | `run_plan` itself: passes over a snapshot in list order, the break, the drain; `INSTANCE Dataflow` | + `queue`, `progressed`, `pc` |
| `DeterministicRepair` | `repair()`: four rules on a copy, the reordering loop one emitted step at a time | `broken_plan`, `errors`, `plan`, `emitted`, `pc` |
| `Injector` | the seven injectors and the list `inject_multi` may call, each with its guards and its ground truth | pure |
| `Scoring` | `score_repair` | pure |
| `Injection` | a reference plan corrupted once or several times (`inject_multi`, interference guard) | `reference`, `broken`, `injected`, `claimed` |
| `Harness` | `repair_and_score`: `Injection` with `DeterministicRepair`, identity, oracle, `Scoring` | + `repairer`, `score`, `stage` |
| `Remask` | `paths_to_mask`, `mask_spec_from_paths`, `StepSpan.key`, `_rebuild`, whether the text parses and what it may read as | pure |
| `Snap` | completion of tool names and dependency lists | pure |
| `Diffusion` | `DiffusionRepairer.repair` with oracle, echo and an arbitrary backend, then the score and the result `run_case` records | + `spec`, `filling`, `failures`, ... |
| `Denoise` | `encode_with_offsets`, `align_mask`, `TorchDLLMBackend.fill`/`denoise`, `decode_spans` | `mask`, `ends`, `sequence`, `remaining`, ... |
| `RunCase` | `run_case` over a diffusion repairer and its torch backend, for several repairs on new or reused objects: each field they keep is the number of the repair it is of | `repairer`, `backend`, `given_up`, `result`, ... |
| `RepairContract` | abstract specification of a repairer that asks a model: a call ends in an answer, or in the plan given and one more failure | `asked`, `recorded`, `returned` |
| `Autoregressive` | `ARRepairer.repair` with the API client, several repairs with one object: budget, connection, request, record, parsing; `INSTANCE RepairContract` | `environment`, `budget`, `last_call`, `failures`, `stage`, ... |
| `Results` | a recorded result, how `classify` counts it and which records each kind of repairer can leave | pure |
| `Batch` | abstract specification of the runner: which cases have a file; sessions come, die and are rerun without end | `finished`, `session`, `todo`, ... |
| `Experiment` | `main` of the runner, its result files and crashes; the cells made of them; `INSTANCE Batch` | `disk`, `queue`, `pc`, ... |
| `Aggregate` | the aggregator over a tree of files, read one by one | `files`, `measurements`, `without_case`, `unreadable`, `cells`, ... |
| `ListsProofs` | what ranks, least elements, sublists and the ends of a list are, once for all proofs | |
| `RuntimeProofs`, `HarnessProofs`, `DenoiseProofs`, `ExperimentProofs` | theorems about the module each is named after, `RuntimeProofs` also about `Tarjan`, `HarnessProofs` also about `DeterministicRepair` | |
| `InjectionProofs` | what injectors make of plans and the validator of that, for all proofs about plans | |
| `ResultsProofs` | theorems about `RunCase`, `Autoregressive` and `Aggregate` | |
| `DiffusionProofs` | theorems about `Diffusion`, and what they need of `Remask` and `Snap` | |
| `SamplePlans`, `MC*` | corpora and constants for TLC | |

Models meet where the code's parts do. `Harness` and `Diffusion` put injection,
repair and score in one behaviour. `Results` is the seam between repairers and
scripts: `Diffusion` (invariant `ResultIsExpected`) shows that its repairs leave
only results that `Results` foresees, and `Experiment` lets its cases end in any
of those. `Diffusion` reads the validator's records of paths through `Paths`.

How code becomes actions. A call is split where something can be observed or
can go differently: one visit of the `for` in `run_plan` is one action, one
rule of the repairer is one action, one emitted step of the reordering is one
action, one denoising pass is one action, opening a result file and closing it
are two (a crash may come in between). Early returns and `except` branches are
actions or disjuncts of their own. Functions that keep nothing between calls
(validator checks, injectors, scoring, masks, snaps) are operators.

What is abstracted: names, tools, arguments and tags are members of small
sets; an argument is either blank or not; messages are left out and a
validation is the set of its errors; hashes of canonical JSON are equality of
bodies; a JSON text is the sequence of spans it is made of, a filling is what
its text says where it is pasted (see below); what a tokenizer cuts
and what a model predicts is a nondeterministic choice.

`input_from` and `produces` are sets. Nothing in the code depends on the order in
which dependencies are listed (bodies sort them, and `Tarjan` takes neighbours in
any order), but it does depend on repeats: `canonicalize.py:31` and `:45` keep them,
so that steps with `[a]` and `[a, a]` have different bodies, and `snap.py:294`
counts a step that lists one tag twice as two producers of it. The plans modelled
are those in which no step lists a dependency or a tag twice.

Preconditions. The injectors are called as their docstrings say: `inject_wrong_tool`
with a tool that the task does not offer, `inject_duplicate_step` under its original's
name or one that is free. Neither is checked (`injector.py:198`, `:353`); the callers
under `src/scripts` (`run_diffusion_experiment.py:94`) leave both to their defaults,
which are of that kind.

What a filling is. `fill_masked` strips the separators around a text and pastes it.
In place of a whole step it can say some steps (one, two, or none: a blank line), or be
`None`, and the step is dropped. In place of a field it can say a value, or a value and
then further keys of the step it stands in (`[], "tool": "x"`): the last of two equal
keys is read, so a key that the code writes later than the pasted field overrides what
the text says of it, and one written earlier (`id` and, after `input_from`, `tool` and
`arguments`) does not. It can close its line and go on, and the whole reads as any plan
at all (`Reaching`), or it can be no plan (`Junk`). A field's filling goes under the
step's id, a dot and the field, and is looked up among the ids of the steps first
(`Key`, `Placed`), as `remask.py:66` and `:330` do.

Definitions commented "Mutant" are plausible mistakes; each property of a
passing run is paired in `PROJECT.json` with one that TLC finds it violated
under.

## Runs

| Run | Checks | Instance | Why it is enough |
|---|---|---|---|
| `runtime` | types; the outcome is the one the plan determines (`OutcomeIsOrderFree`); a valid plan that is not empty and has no blank argument runs, and no other does; a valid plan takes one pass; hard errors are refuted by running; refinement of `Dataflow`; `Returns` | all plans of the `SamplePlans` corpus, for a task that requires nothing | the empty plan is valid there; every failure reason, chains, diamonds, name clashes; plans that need several passes, stall, or hold cycles with steps behind them |
| `repair` | no work lost, coverage and unknown-tool errors as they were (the other declined kinds, cycles and dangling steps, are not part of it), order restored when names clash only between copies, and lexicographically least | plans of up to four steps | copies, clashing names, unknown references and disorder meet in one plan |
| `tarjan` | the result is the set of cyclic components, each once | all small graphs, self-loops included, all neighbour orders | overlapping cycles and cross edges need three nodes |
| `harness` | ground truth, validator, runtime, repairers and score fit together | valid plans, every corruption and every legal pair | interference shows with two corruptions |
| `diffusion` | nothing changes but masked steps, masked fields and the fields an answer names beside them, as long as answers keep to their lines and go where they were meant to; the mask of one fault holds damage only; the oracle restores; snapping creates no disorder; the result is a foreseen one; paths read back | plans of two and three steps, among them one with steps `a` and `a.tool`, up to two corruptions; a model answers up to two spans with each of the kinds above; names of up to two pieces | a model's answers are tried on single corruptions; each hypothesis of the properties is met and missed here (without the one on keys, on lines, or on further keys TLC finds a counterexample); a name of two pieces can end in, or consist of, everything a path is delimited by |
| `denoise` | healthy text untouched, passes within budget, the text's own tokens decode to it | two steps, masked whole, in either field or in both, several cuts of the bytes (through a multi-byte character, a token across the boundary, a cut that does not add up), a text that reads as the mask token, hints, budgets 0 to 3 | straddling tokens and rounding show at this size |
| `run_case` | what a result says is of its own case; token counts are there just when the model ran | three repairs, every way of failing, new or reused objects | a leftover needs one repair to leave it and one to find it; the third meets a backend that is half loaded |
| `ar_client` | budget as asked; an empty answer is explained by its own response; refinement of `RepairContract` | three repairs with one object, four shapes of response, budgets −1, 0, 1, 5, 6 around a ceiling of 5, unset, or not a number, and 0 or 6 passed to the constructor | both sides of every bound; a stale record needs two repairs |
| `experiment` | files, crashes, `--force`, `--limit`, classification; refinement of `Batch` | two cases, two directories, two sessions, one crash | a rerun over a torn file, two settings for one cell |
| `reruns` | whoever keeps rerunning with a limit above the number of hopeless cases gets all others | three cases, the first hopeless, two directories, limits 1 to 3, any number of sessions, finitely many deaths | the hopeless case stands at the head of the queue, where a limit of 1 would starve the rest |
| `aggregate` | every result is counted once; a measured cell has one claimant | two files of up to two results out of seven (one of a case that lacks a name), half written, bare or listed | two files can claim a cell, and one file can twice |
| `multi_ordering` | one documented sentence, which the code does not keep | as `harness` | see Disagreements |

Bounds are constants of the modules (`MaxCorruptions`, `MaxModelCorruptions`,
`MaxModelSpans`, `MaxName`, `MaxRepairs`, `MaxSessions`, `MaxCrashes`,
`MaxFiles`, `MaxEntries`). Deadlock is checked in `reruns`, where sessions never
end, and off in the other runs: there the modelled call returns, or a bound on
the number of sessions or repairs is used up.

Fairness. `Runtime!Fairness` is weak fairness of the whole next-state relation:
`run_plan` is one sequential call that nothing interrupts. `Batch!Fairness` has
weak fairness of a running session's own steps, and, for each case that is not
hopeless and each directory, strong fairness of finishing it there: what made
the case raise passes (a rate limit, a full GPU). Starting a session and dying
are not fair; that the user keeps rerunning is the premise of
`RerunsReachEveryCase`, not an assumption. Nothing else assumes fairness.

## Proofs

TLAPS checks these for every set of names, tools and tags and for plans of every
length, for texts, cuts and budgets of every size, for any number of corruptions,
repairs, cases, directories, sessions and crashes. The only assumptions are those on
the constants in `PlanModel`, `Injector`, `Remask`, `Denoise`, `Aggregate`, `Batch`, `Autoregressive`,
`RunCase` and `Experiment`, which TLC evaluates on the instances. (What the files
the aggregator finds say is arbitrary, so long as a case maps some of the three names
to values; the tables of names an injector may take and the plans themselves are
arbitrary. Of a text, `Denoise` assumes that each character ends after the one before
it, that steps do not overlap and that a step and either of its fields starts and ends
with a brace, a bracket or a quote, and that tokens follow one another. `Remask` assumes
that two fields never share a key, which holds of an id, a dot and the field's name.)

Running a plan (`RuntimeProofs`):

- `AnyOrderAgrees`: the outcome of a step is `FinalReason`, whatever order steps are
  decided in. The inductive invariant `FlowInv` says that a step is decided only if
  nothing upstream of it waits for itself (*grounded*), and with its final reason.
  The one combinatorial lemma, `StuckReachesCycle`, shows that a step that cannot be
  decided at the end reaches a cycle: on a finite set of steps that all wait for one
  another, following the waits comes back to a step already seen.
- `TypeCorrect` and `StallIsFinal`. "The break is final" is not inductive: `StallInv`
  adds that a pass that has settled nothing has already found every index that left
  its snapshot waiting.
- `RefinesDataflow`: every visit that settles a step is `Dataflow!Decide`, the drain
  is `Dataflow!Finish` (by `StallInv`, nothing is decidable then), everything else
  stutters. `RunIsOrderFree` carries `AnyOrderAgrees` over this mapping.
- `ValidRunsInOnePass` and `ValidRuns`: in a valid plan names are unique, nothing is
  unknown and everything consumed stands earlier in the list, so (`RunInv`)
  everything before the index a pass has reached has succeeded, up to a blank argument.
  `ValidRuns` is an equivalence, and so says that the validator has two blind spots and
  no third: a blank argument, and a plan without steps.
- `RunsRefute`, the other direction: a plan that ran to its end has no step that
  waits for itself, so nothing the validator reports of it is an unknown tool, an
  unknown reference or a cycle.

The validator's search for cycles (`RuntimeProofs`):

- `EveryCycleIsFoundOnce`, from `TarjanInv`. The work list is a path of names in progress.
  They cut the stack, which is in the order of the numbers given, into regions: each name
  in progress and what was put on the stack after it and before the next. A region is
  strongly connected (`Regions`), and `low` of its name is the number of an open name it
  leads to, no later than that of any open name its region depends on (`Lows`). So a name
  done with `low` below its own number leads back to its parent, whose region takes its
  region in; one done with its own number has a region no open name before it is within
  reach of. Everything closed depends on closed names only (`Looked`), so that region is
  a whole class of names upstream of each other, and it is one of the cyclic components
  if it has two names or an edge to itself (`NextComponent`). This is what the invariant
  needs beyond the property: what was reported so far is what is cyclic among the closed
  names (`Found`), and in the end every name is closed.

The rules (`HarnessProofs`):

- `NoWorkIsLost` and `DeclinedErrorsAreKept`, from `WorkInv`: at every moment the
  plan in repair and the broken plan do the same work, step for step in both
  directions. A copy is dropped only for an earlier step with its body, never mind
  which names clash. Which errors are declined is then read off both plans:
  `ReportByCheck` sorts a report by the check each error comes from.
- `OrderIsLeast`, from `EmitInv`: each emitted step was ready when its turn came, and
  no step listed before it and still to come was. At the first place where another
  order differs, that order lists a step which was ready and stood behind.
- `OrderComesBack`, from `KeptInv` and `OrderInv`. After the copies are gone names are
  unique (`Kept`: the first of each body, and nothing else). Up to the reordering the
  list is an order-preserving selection of the broken one with fewer references. The
  loop does not get stuck: steps that all wait for one another hold a cycle
  (`StuckReachesCycle` again, for names), and a cycle of the plan in repair is one of
  the broken plan, which reported none.

The loop of corruption, repair and score (`HarnessProofs`, `InjectionProofs`):

- `PreservedStaysIntact`, from `GroundInv`: whatever is not named as damaged is a step of
  the reference, alone under its name, and what it consumes is still there. One lemma
  per injector says what it touches (`Spares`).
- `DamageComesToLight` and `OrderingIsItsOwnFault`: one corruption of a valid plan
  (`SingleInv`), injector by injector, produces the errors that name its damage, and
  no ordering error.
- `RulesHarmNothing`. `RulesInv` says that two steps of a broken plan share a name only
  if one was copied under that name, and then do the same (`Clashes`: this is what the
  interference guard is for); so `KeptInv` holds of the repair, and the score is taken on a
  plan that has every leading step of the broken one under its name.
- `RulesSolveMechanicalFaults`. `FaultInv` follows the three mechanical faults, in any
  number and order: each step of the reference is in the broken plan as it was and
  stands before its copies, and nothing else is there (`Shuffled`). What comes back
  then lists the steps of the reference (`SameSteps`), in order, since a plan with the
  references of a valid one has no cycle; such a plan is valid, and runs.
- `RepairedPlansRun`, for every combination of corruptions. `RunsInv` keeps that no
  corruption makes up a blank argument, and `CleanInv` that a step cleaned of unknown
  references stays clean. The plan is in order and its names are unique (`OrderInv`,
  `KeptInv`), so it runs if every reference names a step: one that names no step of the
  broken plan was reported and is gone, one that names a dropped copy is excepted.

Models that answer (`DenoiseProofs`, `ResultsProofs`):

- `HealthyIsFrozen`: `FrozenInv` keeps the layout of the prompt (hint, then one
  position per token) and says that what is still to reveal shows the mask token: a
  masked span's, or a token whose own text reads as it. The property excepts just the
  latter.
- `LoopKeepsBudget`: `BudgetInv` counts. While something is left, every pass so far
  revealed a full share, so all passes but the last revealed less than the whole; and
  a share, rounded up, times the budget is at least the whole.
- `OwnTextComesBack`: tokens are runs of bytes, one after another, and bytes are in the
  order of their characters (`TokensInOrder`, `CharactersInOrder`). A token that held
  characters of a span and of a preserved step would hold an end of that step as well,
  so `align_mask` leaves out no token of a span that spills into separators only
  (`OwnIsMasked`). Its range is then its own tokens, with at most tokens without text
  between them (`RangeIsOwn`), and stripping the separators leaves the span, which
  starts and ends with none (`StripsToSpan`).
- `BudgetHolds`: `SentInv` says which budget the object was built with, and that no
  other was ever sent. `KeepsContract`: `CallInv` says that a call in progress has
  returned nothing yet, and what may be on record; each step is one of
  `RepairContract` or a stutter. A call that raised (a response without choices)
  counts as one that did not come back. `EmptyAnswersAreExplained`: a failure for an
  empty answer was recorded by a call that got an answer, hence after that call's own
  record was written.
- `ResultsAreOfTheirCase` and `CountsAreOfTheirFill`, from one invariant, `ObjectsInv`:
  while new objects serve their first repair, each field they keep is unset or of that
  repair, and positions are counted just when denoising is behind them. `run_case`
  takes its result there; reused objects have no such invariant.

The aggregator (`ResultsProofs`):

- `EveryResultIsAccountedFor` and `MeasuredIsTheOnlyOne`, from `LoadInv`: what has been
  collected names the results of the files read so far, each at its place in the tree
  and each once, those without a case apart; a cell is made of the results that claim
  it, and it is measured if that is a single one.

The runner (`ExperimentProofs`):

- `DamageIsCounted`: `BrokenInv` counts the files that are no whole result: at most one
  per session that died, plus the one being written. `MeasuredIsAnswered`: `RecordedInv`
  keeps that every whole file holds a result its case's repairer can leave.
- `RerunsKeepResults` and `CleanMeansComplete`: `SessionInv` says that the queue repeats no
  case and, without `--force`, holds none that has a file; `DeliveryInv`, that every case
  asked for is in the queue or delivered. That the queue of a session holds all that is
  pending, and a limit takes the first of them, is a matter of ranks in the list of cases
  (`ListsProofs`).
- `RunnerKeepsBatch`: with the set of cases that have a file as `finished`, every step of
  the runner is one of `Batch` or a stutter; a file half written counts as one, as it does
  for the next session.

Repair by remasking (`DiffusionProofs`). The invariants are a chain, each with the ones
before it (`AnswerHolds`, `ResultHolds`, `SnapHolds`, `RestoreHolds`, `MaskHolds`):

- `OutsideTheMaskStands`. The rebuilt list is the broken one in which each step stands for
  itself, for what was answered in its place, or for nothing (`Rebuilt`, a concatenation).
  Where the keys are apart, nothing but an answer for the whole step is placed on its line;
  a step that is kept is changed in its masked fields and in those that further keys of an
  answer for one of them name (`Open`), never in what it produces.
- `EveryResultIsTold`: a call that ran into an error has recorded one and gives the broken
  plan back; any other has a filling that parses and lies within the mask.
- `CompletionDisordersNothing`, for texts that keep to their lines and, by further keys,
  rename nothing (a text with further keys is not completed). A reference that the
  completion writes names a step that
  stands before its reader in the broken plan. Let the lines of the plain filling be in
  order, and none of them have moved past another: then every new reference leads
  backwards, and a list whose references all lead backwards has no cycle.
- `OracleBringsBack`. However often it was corrupted, the reference is embedded in the
  broken plan (`Embeds`): its steps are there in order, those not damaged as they were,
  and between them stand copies only. Every copy is reported and masked
  (`OthersAreMasked`), and so is every step changed by a single fault (`SingleIsMasked`);
  after several faults that is the property's hypothesis. So every line of what the
  oracle recalls is the reference's step at its place, or nothing in place of a copy
  (`Spared`), and the completions leave such lines alone. That a concatenation of such
  pieces is the reference is `RecalledComesBack`. That the line of a healthy step gets
  none of the oracle's fillings is where the property needs that no masked field is
  answered under the name of a step.
- `OnlyDamageIsMasked`. A masked step was named by a report, and shows why (`Suspect`): its
  tool is unknown, a reference is unknown or late, something is its copy, or it dangles
  and no later broken reference explains that (`dangling_from_broken_references`). After
  one fault only the damaged steps do: what a deletion or a lost reference leaves
  dangling stands before the step that should have consumed it, since the reference was
  in order (`RewriteFits`, `DeletionFits`).

- `PathsAreReadBack`: the only brackets in the text of a record are its own if its step's
  name has none, so the closing one is found (`ClosesAt`) and what is read is the record
  (`TextReadsBack`); every path a report holds is of a kind that is written (`PathKinds`).

Why `Lists`. Comprehensions with a condition are modelled by index sets (`Sublist`, the
k-th smallest index) where theorems depend on them: `SelectSeq` is recursive, and an
induction principle is beyond the provers. Where a list is concatenated (`Rebuilt`) the
proofs do without one: of the places at which the recursive function and what is claimed
of it differ there is a least one (`LeastOf`), and one step of the recursion refutes it.

Only model-checked: liveness (`Returns`, `RerunsReachEveryCase`), since fairness and
ENABLED are out of the prover's reach. Every other property the passing runs check is a
theorem.

## Disagreements

One sentence the code does not keep is kept as a run, `multi_ordering`:
`inject_multi` of a cycle and a deletion of one of its steps can leave an ordering
violation, which `corruption/injector.py:7` says no corruption may create.

Others turned up as counterexamples while the models were written. The models
follow the code, and their properties say what it does keep.

- `repair/deterministic.py:125` says that a plan with a single step out of place
  comes back with only that step moved. The plan a (consumes d), b, c (consumes a),
  d comes back as b, d, a, c, where moving d alone to the front would do.
  `LeastOrder` states what the loop does give.
- `repair/deterministic.py:81`: a complete duplicate is redundant whatever it is called.
  A duplicate that other steps consume under its own name is not: the rules drop it, the
  references to it were none of those reported, and its consumers fail at run time. It
  takes two corruptions: close a chain a, b, c, d into a cycle by letting b consume d,
  which makes b the twin of a later step, then delete c. `RepairedPlanRuns` excepts just
  these plans, and the corpus of `harness` holds one.
- `tests/test_runtime.py:195` calls a blank argument "the one shape where the runtime is
  stricter" than the validator. An empty plan is another: the schema and, for a task that
  requires nothing, `validate_plan` pass it, and `execution.py:117` has it fail, as
  `tests/test_runtime.py:131` expects. `ValidPlanRuns` names both.
- `repair/remask.py:321` says that a field replacement rewrites one value and copies every
  other field across. The text is pasted as it is (line 369), so one that goes on with
  further keys, `[], "tool": "x"`, parses and changes a field that is not masked, and one
  that closes its line changes more. So `repair/dllm_backend.py:6`, that text outside the mask is
  copied verbatim, and `repair/diffusion.py:136`, that a backend cannot reach a healthy step
  even by mistake, hold of texts that keep to their line. That `produces` cannot come
  back different (line 323) does hold of those, since it is written last.
  `OnlyTheMaskChanges` states what is kept.
- `repair/dllm_backend.py:63` says that with a right mask the oracle leaves every other step
  untouched. A field's filling goes under the id, a dot and the field (`remask.py:66`), and
  is looked up among the ids of the steps first (`remask.py:330`): in a plan with steps `a`
  and `a.tool` whose `a` has a wrong tool, the oracle's filling is put in place of the whole
  of `a.tool`, and the text no longer parses. `KeysApart` excepts such plans, and the corpus
  of `diffusion` holds one.
- `corruption/injector.py:9`: ground truth points only at steps of the broken
  plan. `multi.py:85` may list as damaged a step that a later deletion removed.
- `repair/dllm_backend_torch.py:241` reads a mask token left over as passes that
  ran out. The passes never do (`PassesWithinBudget`): what is left over is what
  the model predicted.
- `repair/dllm_backend_torch.py:9` says the loop never writes to a position that
  was not masked. What is masked is read off the token ids: a token of a healthy
  step whose text spells the mask token is denoised too, and the check that frozen
  positions are untouched skips it. Only masked spans are decoded, so the plan that
  comes back is not harmed.
- `repair/dllm_backend_torch.py:239`, "facts about the last fill": a fill of
  another plan that returns early because nothing is masked (line 83), or fails,
  leaves some of the earlier fill's facts beside its own. `run_case` is not exposed
  to it, since it builds its objects per case (`ResultIsOfItsCase`).
- `repair/llm_client.py:160` speaks of the last call; a request that fails leaves
  the record of the call before it. `EmptyIsExplained` shows that the one reader
  of the record is not misled.
- `repair/ar.py:17`: what goes wrong becomes a recorded failure. A response without
  choices raises an `IndexError` (`llm_client.py:183`), and what the SDK's constructor
  raises (`llm_client.py:222`) stands outside the `try`; nothing catches either before
  `run_case`'s caller. A budget passed to the client's constructor is not checked against
  the ceiling, as that of the environment is.
- `repair/ar.py:13` takes the region a local repairer may rewrite for the one a
  diffusion repairer masks; steps that dangle only because another is damaged
  (`remask.py:185`) are masked and not in the region.
- `scripts/run_diffusion_experiment.py:10` says that a session that dies costs only
  the case it was in. A file cut inside a multi-byte character cannot be decoded,
  and then the report at the end of every later session (line 422) and the
  aggregator (`aggregate_results.py:238`) raise what neither catches. The aggregator also
  stops, with a `KeyError`, at a result whose case lacks a model, domain or corruption
  (line 257), where it counts one without a case.
- `scripts/aggregate_results.py:183` speaks of measurements that agree on everything
  their files record; what is compared (line 128) is the cell and two switches, not
  the backend's settings.
- `validation/paths.py:70`: `parse_path` is the inverse of `step_path`, except for an
  id that holds a closing bracket (line 75).

What the proofs brought out about `Diffusion` is in the hypotheses of its properties:

- The completion takes a tag for the step of the *broken* plan that produces it. An answer
  that renames a masked step, or moves one past another, can so be completed to a cycle or
  to a late reference. `SnapNeverDisorders` excepts these (`Unmoved`, `Renames`).
- `repair/diffusion_mock.py:8`: a correct mask lets the oracle restore exactly the damaged
  steps. With three corruptions it may not: a cycle is closed, then opened by a broken
  reference, while another cycle stands. The late reference left behind goes unreported,
  since ordering is not judged while there are cycles, and so unmasked. `OracleRestores` is
  therefore about one fault, or any number with all damaged steps masked.
- A step whose id is the blank name is cleaned away from the dependencies that an answer
  gives (`Blank \notin Known(reference)`).

Two facts the checks settle that a reader may not expect: a damaged step can become
the twin of a healthy later one, and the rule-based repairer then drops the healthy
one (scored as renamed, never as lost), for which one corruption suffices if it closes
a cycle and two if it does not; and a deletion of a step nobody consumed has an empty
ground truth.

What three properties leave open:

- `CleanSessionSkipsNothing` asks that a case has a file, and of a forced session that the
  file is its own. Without `--force` a rerun goes by the name of the file, so a result that
  was taken with other settings, or that recorded a failure to reach the model, counts as
  done; that the aggregator does not take it for a measurement is `MeasuredMeansAnswered`.
- `MeasuredMeansAnswered` is about the seam: of each kind of repairer `Results` lists the
  records it can leave and says which of them hold an answer. That no repair leaves any
  other is `ResultIsExpected`, for the diffusion repairer.
- `RerunsReachEveryCase` is about runs with finitely many deaths (`MaxCrashes`): a machine
  on which sessions never stop dying is not considered.

## Not modelled

- What pydantic finds wrong with a payload that is no plan, and the paths it is
  reported under. Nothing that is repaired has one; in `Diffusion` such a text simply
  does not parse.
- `validation` metrics, `diagnostics` (line, column and excerpt of a parse error, and
  counts over a batch), the aggregator's note on colliding results and the layout of
  its tables: formatting of what is modelled, on which nothing depends.
- Prompts, the scripted client of the tests, argument parsing, the choice of a case's
  corruption, model loading beyond whether it succeeded, tensors, quantization.
- The text layer below spans: quoting and escapes. What a text that reaches out of its line
  is read as is left open (any plan), and so is nothing said of it.
- Plans in which a step lists a dependency or a tag twice.
- The offsets a fast tokenizer reports itself (`HuggingFaceTokenizer`,
  `tokenization.py:124`): `Denoise` has the ones that are rebuilt from bytes.

## Plan

Done: all components that decide something, and the proofs of every safety property,
action property and refinement the runs check. What is left, in the order of importance:

1. Models: steps that list a dependency or a tag twice; a fast tokenizer's own offsets;
   schema errors as a state of the validator.
2. What the proofs could say beyond the runs: that the work of the Tarjan loop is bounded
   (a measure that every step lowers), and the same for the reordering loop.
