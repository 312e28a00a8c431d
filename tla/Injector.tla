------------------------------ MODULE Injector ------------------------------
(***************************************************************************)
(* The corruption injectors.  Each one is two operators: what it refuses   *)
(* (the ValueErrors, as a predicate that must hold) and what it returns, a *)
(* CorruptionResult: the broken plan and the ground truth about it.  Every *)
(* injector works on a deep copy, so the argument needs no state.          *)
(***************************************************************************)
EXTENDS Validator, Lists, SequencesExt

CONSTANTS
  UnknownNames,   \* id -> <<id_x, id_x2, ...>>, what _free_id may pick for a reference
  CopyNames,      \* id -> <<id_dup, id_dup2, ...>>, and for a copied step
  TokenLength     \* tool -> what its name costs in the tokenizer at hand

ASSUME InjectorAssumption ==
  /\ UnknownNames \in [StepId -> Seq(StepId)]
  /\ CopyNames \in [StepId -> Seq(StepId)]

BROKEN_DEPENDENCY  == "broken_dependency"
STEP_DELETION      == "step_deletion"
WRONG_TOOL         == "wrong_tool"
WRONG_ORDERING     == "wrong_ordering"
DROP_REQUIRED_STEP == "drop_required_step"
\* DUPLICATE_STEP and MISSING_STOP_CONDITION share their text with error types.

Injected(type, ids, paths) ==
  [corruption_type |-> type, damaged_step_ids |-> ids, damaged_paths |-> paths]
Result(broken, injected) == [broken |-> broken, injected |-> injected]

Known(p) == KnownIds(p.steps)
WithSteps(p, ss) == [p EXCEPT !.steps = ss]

\* _free_id: the candidate, numbered until no step carries it.  The tables of names
\* are a bound: where one ends before there is a free name, none is made up.
FreeIds(p, candidates) ==
  {candidates[k] : k \in {n \in DOMAIN candidates :
                            /\ candidates[n] \notin Known(p)
                            /\ \A m \in 1 .. n - 1 : candidates[m] \in Known(p)}}

\* inject_broken_dependency, mode "unknown": dep is chosen, or the last edge.
CanBreakDependency(p, id, dep) ==
  id \in Known(p) /\ dep \in p.steps[FirstAt(p.steps, id)].input_from

BreakDependency(p, id, dep, unknown_id) ==
  Result([p EXCEPT !.steps[FirstAt(p.steps, id)].input_from = (@ \ {dep}) \cup {unknown_id}],
         Injected(BROKEN_DEPENDENCY, {id}, {InputFromPath(id)}))

\* Mutant: that the new edge closes a cycle is taken on trust.
CanAddEdge(p, id, cycle_with) ==
  /\ {id, cycle_with} \subseteq Known(p)
  /\ cycle_with \notin p.steps[FirstAt(p.steps, id)].input_from

\* Mode "cycle".  _depends_on walks the same dict of edges the validator builds.
CanCloseCycle(p, id, cycle_with) ==
  /\ {id, cycle_with} \subseteq Known(p)
  /\ cycle_with \notin p.steps[FirstAt(p.steps, id)].input_from
  /\ id \in Upstream(Edges(p.steps), cycle_with)

CloseCycle(p, id, cycle_with) ==
  Result([p EXCEPT !.steps[FirstAt(p.steps, id)].input_from = @ \cup {cycle_with}],
         Injected(BROKEN_DEPENDENCY, {id}, {InputFromPath(id)}))

\* Mutant: the references of the dependents go with the step.
DeleteStepCleanly(p, id) ==
  LET left == Sublist(p.steps, DOMAIN p.steps \ At(p.steps, id))
      dependents == {left[i].id : i \in {j \in DOMAIN left : id \in left[j].input_from}}
  IN  Result(WithSteps(p, [i \in DOMAIN left |-> [left[i] EXCEPT !.input_from = @ \ {id}]]),
             Injected(STEP_DELETION, dependents, {InputFromPath(d) : d \in dependents}))

\* inject_step_deletion: every step of that name goes, the references to it stay.
DeleteStep(p, id) ==
  LET left == Sublist(p.steps, DOMAIN p.steps \ At(p.steps, id))
      dependents == {left[i].id : i \in {j \in DOMAIN left : id \in left[j].input_from}}
  IN  Result(WithSteps(p, left),
             Injected(STEP_DELETION, dependents, {InputFromPath(d) : d \in dependents}))

SetTool(p, id, tool) ==
  Result([p EXCEPT !.steps[FirstAt(p.steps, id)].tool = tool],
         Injected(WRONG_TOOL, {id}, {ToolPath(id)}))

\* length_matched_tools: outside the task's tools, and no longer or shorter.
LengthMatchedTools(tool, pool) ==
  {t \in pool \ {tool} : t \notin Available /\ TokenLength[t] = TokenLength[tool]}

(***************************************************************************)
(* inject_wrong_ordering pops the step and inserts it at to_index, by      *)
(* default the place of the earliest step it consumes.                     *)
(***************************************************************************)
Moved(ss, from, to) == InsertAt(RemoveAt(ss, from), to, ss[from])

KnownDeps(p, id) == p.steps[FirstAt(p.steps, id)].input_from \cap Known(p)

CanMove(p, id, to) ==
  /\ id \in Known(p) /\ KnownDeps(p, id) # {}
  /\ to \in 1 .. LastAt(p.steps, id) - 1
  /\ LET moved == Moved(p.steps, LastAt(p.steps, id), to)
     IN  \E d \in KnownDeps(p, id) : LastAt(moved, d) > LastAt(moved, id)

MoveEarlier(p, id, to) ==
  Result(WithSteps(p, Moved(p.steps, LastAt(p.steps, id), to)),
         Injected(WRONG_ORDERING, {id}, {StepPath(id)}))

\* inject_duplicate_step: the copy is inserted right after the original.
Duplicate(p, id, new_id) ==
  LET i == FirstAt(p.steps, id)
  IN  Result(WithSteps(p, InsertAt(p.steps, i + 1, [p.steps[i] EXCEPT !.id = new_id])),
             Injected(DUPLICATE_STEP, {new_id}, {StepPath(new_id)}))

\* inject_drop_required_step aims a deletion at the only producer of a requirement.
Producers(p, requirement) == {i \in DOMAIN p.steps : requirement \in p.steps[i].produces}

CanDropRequired(p, requirement) ==
  /\ requirement \in RequiredEvidence \cup RequiredOperation
  /\ Cardinality(Producers(p, requirement)) = 1

DropRequired(p, requirement) ==
  LET producer == CHOOSE i \in Producers(p, requirement) : TRUE
      deletion == DeleteStep(p, p.steps[producer].id)
      path == IF requirement \in RequiredEvidence
              THEN EvidencePath(requirement) ELSE OperationPath(requirement)
  IN  Result(deletion.broken,
             Injected(DROP_REQUIRED_STEP, deletion.injected.damaged_step_ids,
                      deletion.injected.damaged_paths \cup {path}))

DropStop(p) ==
  Result([p EXCEPT !.stop_condition = "none"],
         Injected(MISSING_STOP_CONDITION, {}, {StopPath}))

(***************************************************************************)
(* Every result of one call of one injector on p, each with the steps the  *)
(* call touches (touched_steps): its step_id and the steps its options     *)
(* name.  A dependency picked by default is no option, so it is not        *)
(* touched.                                                                *)
(***************************************************************************)
Touching(touched, result) == [touched |-> touched, result |-> result]

\* The corruptions inject_multi can combine, called as their docstrings say: a wrong
\* tool, given or made up by default, is any name the task does not offer, and a copy
\* gets a free name, by default, or the name of its original.  Neither is checked:
\* that a caller passes no offered tool as new_tool, and no third step's name as
\* new_id, is a precondition here.
Corruptions(p) ==
  (UNION {{Touching(c[1], BreakDependency(p, e[1], e[2], c[2])) :
             c \in {{e[1]}, {e[1], e[2]}} \X FreeIds(p, UnknownNames[e[2]])} :
             e \in {x \in Known(p) \X StepId : CanBreakDependency(p, x[1], x[2])}})
  \cup {Touching({e[1], e[2]}, CloseCycle(p, e[1], e[2])) :
          e \in {x \in Known(p) \X Known(p) : CanCloseCycle(p, x[1], x[2])}}
  \cup {Touching({id}, DeleteStep(p, id)) : id \in Known(p)}
  \cup {Touching({e[1]}, SetTool(p, e[1], e[2])) : e \in Known(p) \X (Tool \ Available)}
  \cup {Touching({e[1]}, MoveEarlier(p, e[1], e[2])) :
          e \in {x \in Known(p) \X DOMAIN p.steps : CanMove(p, x[1], x[2])}}
  \cup (UNION {{Touching({id}, Duplicate(p, id, new_id)) : new_id \in {id} \cup FreeIds(p, CopyNames[id])} :
                 id \in Known(p)})
  \cup {Touching({}, DropStop(p))}

\* And the two that are only called on their own.
AimedCorruptions(p) ==
  {Touching({}, DropRequired(p, r)) :
     r \in {x \in RequiredEvidence \cup RequiredOperation : CanDropRequired(p, x)}}
  \cup UNION {{Touching({id}, SetTool(p, id, t)) :
                 t \in LengthMatchedTools(p.steps[FirstAt(p.steps, id)].tool, Tool)} : id \in Known(p)}
=============================================================================
