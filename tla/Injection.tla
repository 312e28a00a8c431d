----------------------------- MODULE Injection -----------------------------
(***************************************************************************)
(* The first half of a measurement: a valid reference plan is corrupted,   *)
(* once or (as inject_multi does) several times over, and what was done is *)
(* written down as the ground truth the repair is later scored against.    *)
(***************************************************************************)
EXTENDS Injector, Scoring

CONSTANT MaxCorruptions      \* bound: how many corruptions are combined

VARIABLES
  reference,    \* the plan before corruption
  broken,       \* the plan after the corruptions so far
  injected,     \* the InjectedErrors, in the order they were applied
  claimed,      \* the steps the corruptions touch (the interference guard)
  alone         \* whether the injector is one inject_multi cannot call
injectionVars == <<reference, broken, injected, claimed, alone>>

Damaged == UNION {injected[k].damaged_step_ids : k \in DOMAIN injected}
DamagedPaths == UNION {injected[k].damaged_paths : k \in DOMAIN injected}
Types == {injected[k].corruption_type : k \in DOMAIN injected}
Single == Len(injected) = 1

\* Mutant: only the last corruption's damage is taken out.
PreservedByLast == Known(broken) \ injected[Len(injected)].damaged_step_ids

Preserved == Known(broken) \ Damaged

Intact(p) ==
  /\ reference = p /\ broken = p
  /\ injected = <<>> /\ claimed = {} /\ alone = FALSE

Apply(corruption) ==
  /\ broken' = corruption.result.broken
  /\ injected' = Append(injected, corruption.result.injected)
  /\ claimed' = claimed \cup corruption.touched
  /\ UNCHANGED reference

\* The guard looks at the names of the original plan, not of the broken one.
Inject ==
  /\ Len(injected) < MaxCorruptions /\ ~alone
  /\ \E c \in Corruptions(broken) :
       /\ c.touched \subseteq Known(reference) /\ c.touched \cap claimed = {}
       /\ Apply(c)
  /\ UNCHANGED alone

InjectAlone ==
  /\ injected = <<>>
  /\ \E c \in AimedCorruptions(broken) : Apply(c)
  /\ alone' = TRUE
=============================================================================
