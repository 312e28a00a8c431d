------------------------------ MODULE RunCase ------------------------------
(***************************************************************************)
(* run_case over the objects it builds: a diffusion repairer and its torch *)
(* backend, which keep what they saw of their last repair until the next   *)
(* one overwrites it.  Every such field is modelled by the number of the   *)
(* repair it is of, 0 when it is still unset.  run_case builds the objects *)
(* for one case; another caller may ask the same object again.             *)
(***************************************************************************)
EXTENDS Naturals, FiniteSets

CONSTANTS MaxRepairs     \* bound

ASSUME RunCaseAssumption == MaxRepairs \in Nat \ {0}

VARIABLES
  repair,      \* the number of the repair in progress, or of the last one
  served,      \* how many repairs these objects have served
  masked,      \* whether its mask holds a step
  hinted,      \* whether its mask earns a hint
  repairer,    \* last_mask, last_alignment, last_snaps, last_diagnostics
  given_up,    \* the repairs that were given up, with the kind
  backend,     \* last_hint, last_hint_tokens, last_masked_positions
  loaded,      \* which of "tokenizer", "model" the backend has loaded
  result,      \* what run_case returned for the case, <<>> if it raised
  pc
vars == <<repair, served, masked, hinted, repairer, given_up, backend, loaded, result, pc>>

NewRepairer == [mask |-> 0, alignment |-> 0, snaps |-> 0, diagnostics |-> 0]
NewBackend == [hint |-> 0, hint_tokens |-> 0, positions |-> 0]

Init ==
  /\ repair = 0 /\ served = 0
  /\ masked = FALSE /\ hinted = FALSE
  /\ repairer = NewRepairer /\ given_up = {}
  /\ backend = NewBackend /\ loaded = {}
  /\ result = <<>>
  /\ pc = "idle"

\* Mutant: the repairer and its backend are built for the first case and kept.
BuildOnce ==
  /\ pc = "idle" /\ repair < MaxRepairs
  /\ repair' = repair + 1 /\ served' = 1
  /\ result' = <<>>
  /\ pc' = "mask"
  /\ UNCHANGED <<masked, hinted, repairer, given_up, backend, loaded>>

\* Mutant: the backend, which holds the weights, is kept from case to case.
BuildRepairerOnly ==
  /\ pc = "idle" /\ repair < MaxRepairs
  /\ repair' = repair + 1 /\ served' = 1
  /\ repairer' = NewRepairer /\ given_up' = {}
  /\ result' = <<>>
  /\ pc' = "mask"
  /\ UNCHANGED <<masked, hinted, backend, loaded>>

\* build_repairer and build_backend: new objects for every case, unless the tokenizer
\* of the alignment cannot be loaded.
Build ==
  /\ pc = "idle" /\ repair < MaxRepairs
  /\ repair' = repair + 1 /\ served' = 1
  /\ repairer' = NewRepairer /\ given_up' = {}
  /\ backend' = NewBackend /\ loaded' = {}
  /\ result' = <<>>
  /\ pc' \in {"mask", "idle"}
  /\ UNCHANGED <<masked, hinted>>

\* Another caller asks the same objects for a further repair.
Again ==
  /\ pc = "returned" /\ repair < MaxRepairs
  /\ repair' = repair + 1 /\ served' = served + 1
  /\ pc' = "mask"
  /\ UNCHANGED <<masked, hinted, repairer, given_up, backend, loaded, result>>

Mask ==
  /\ pc = "mask"
  /\ masked' \in BOOLEAN
  /\ hinted' \in {h \in BOOLEAN : h => masked'}
  /\ repairer' = [repairer EXCEPT !.mask = repair, !.snaps = repair]
  /\ pc' = "align"
  /\ UNCHANGED <<repair, served, given_up, backend, loaded, result>>

GivesUp(kind) ==
  /\ given_up' = given_up \cup {<<kind, repair>>}
  /\ pc' = "returned"

Align ==
  /\ pc = "align"
  /\ \/ GivesUp("alignment") /\ UNCHANGED repairer
     \/ /\ repairer' = [repairer EXCEPT !.alignment = repair]
        /\ pc' = IF masked THEN "hint" ELSE "put_back"    \* nothing to regenerate
        /\ UNCHANGED given_up
  /\ UNCHANGED <<repair, served, masked, hinted, backend, loaded, result>>

\* The tokenizer could not be loaded: that is no DLLMError, and leaves repair.
Escape == result' = <<>> /\ pc' = "idle"

\* The hint is noted before it is encoded; one that holds the mask token is refused.
HintFails ==
  /\ pc = "hint"
  /\ backend' = [backend EXCEPT !.hint = repair]
  /\ \/ hinted /\ "tokenizer" \notin loaded /\ Escape /\ UNCHANGED <<given_up, loaded>>
     \/ hinted /\ loaded' \in {loaded, loaded \cup {"tokenizer"}} /\ GivesUp("backend") /\ UNCHANGED result
  /\ UNCHANGED <<repair, served, masked, hinted, repairer>>

Encode ==
  /\ pc = "hint"
  /\ backend' = [backend EXCEPT !.hint = repair, !.hint_tokens = repair]
  /\ loaded' = IF hinted THEN loaded \cup {"tokenizer"} ELSE loaded
  /\ pc' = "denoise"
  /\ UNCHANGED <<repair, served, masked, hinted, repairer, given_up, result>>

\* Weights that do not load, or answer without logits, are a DLLMError; memory that runs
\* out in a pass is not.
DenoiseFails ==
  /\ pc = "denoise"
  /\ \/ loaded' \in {loaded, loaded \cup {"model"}} /\ GivesUp("backend") /\ UNCHANGED result
     \/ loaded' = loaded \cup {"model"} /\ Escape /\ UNCHANGED given_up
  /\ UNCHANGED <<repair, served, masked, hinted, repairer, backend>>

Denoise ==
  /\ pc = "denoise"
  /\ loaded' = loaded \cup {"model"}
  /\ backend' = [backend EXCEPT !.positions = repair]
  /\ pc' = "decode"
  /\ UNCHANGED <<repair, served, masked, hinted, repairer, given_up, result>>

\* decode_spans needs the tokenizer again.
Decode ==
  /\ pc = "decode"
  /\ \/ "tokenizer" \notin loaded /\ Escape /\ UNCHANGED loaded
     \/ loaded' = loaded \cup {"tokenizer"} /\ pc' = "put_back" /\ UNCHANGED result
  /\ UNCHANGED <<repair, served, masked, hinted, repairer, given_up, backend>>

\* A text that does not parse is diagnosed before it is given up.
PutBack ==
  /\ pc = "put_back"
  /\ repairer' = [repairer EXCEPT !.diagnostics = repair]
  /\ \/ masked /\ GivesUp("parse")
     \/ pc' = "returned" /\ UNCHANGED given_up
  /\ UNCHANGED <<repair, served, masked, hinted, backend, loaded, result>>

\* run_case reads everything off the objects it built.
TakeResult ==
  /\ pc = "returned" /\ served = 1
  /\ result' = [of |-> repair, masked |-> masked, failures |-> given_up,
                stamps |-> {repairer.mask, repairer.alignment, repairer.snaps, repairer.diagnostics},
                facts |-> {backend.hint, backend.hint_tokens, backend.positions},
                positions |-> backend.positions]
  /\ pc' = "idle"
  /\ UNCHANGED <<repair, served, masked, hinted, repairer, given_up, backend, loaded>>

Next ==
  \/ Build \/ Again \/ Mask \/ Align \/ HintFails \/ Encode
  \/ DenoiseFails \/ Denoise \/ Decode \/ PutBack \/ TakeResult
Spec == Init /\ [][Next]_vars

-----------------------------------------------------------------------------
\* A result file speaks of its own case alone: no mask, alignment, diagnostics or
\* failure in it is left over from an earlier repair.
ResultIsOfItsCase ==
  result # <<>> =>
    /\ result.stamps \subseteq {0, result.of}
    /\ \A f \in result.failures : f[2] = result.of
    /\ Cardinality(result.failures) <= 1

\* Nor are the backend's token counts, and a case whose mask the model filled has them:
\* they are there just when the model ran to the end.
CountsMeanTheModelRan ==
  result # <<>> =>
    /\ result.facts \subseteq {0, result.of}
    /\ (result.masked /\ {f[1] : f \in result.failures} \subseteq {"parse"}) <=> result.positions = result.of
=============================================================================
