------------------------------ MODULE Denoise ------------------------------
(***************************************************************************)
(* From a mask over characters to text that comes back: a byte-level       *)
(* tokenizer cuts the text into tokens and reconstructs where each came    *)
(* from, align_mask picks the tokens to regenerate, the denoising loop     *)
(* reveals them pass by pass, and each masked span is read back out.       *)
(*                                                                         *)
(* A token id is the place of the token in the plan, so that two tokens    *)
(* are equal only if they are the same one; the model may also predict     *)
(* ANOTHER token, or the mask token itself.  A text that spells the mask   *)
(* token out is encoded to it.                                             *)
(***************************************************************************)
EXTENDS Integers, Sequences, FiniteSets, SequencesExt, FiniteSetsExt

CONSTANTS
  CharEnd,      \* the byte each character of the text ends with, as a sequence
  Separator,    \* the places that hold a blank or a comma
  Steps,        \* the steps of the plan
  Span,         \* step -> the places of its characters
  FieldValue,   \* [step, field] -> the places of its tool's name, of its references
  Cuts,         \* the ways the tokenizer may cut: the bytes its tokens end with
  MaskTexts,    \* the runs of places that read as the mask token
  Hints,        \* the token sequences the hint may become, none if no tool is on offer
  Budgets       \* the values of `steps`, the passes denoising is given

MASK == -1
ANOTHER == -2
HINT == -3

Fields == {"tool", "input_from"}

\* A step stands between its braces and a value between its quotes or brackets.
IsRun(places) ==
  \E first, last \in DOMAIN CharEnd \ Separator : first <= last /\ places = first .. last

ASSUME DenoiseAssumption ==
  /\ CharEnd \in Seq(Nat)
  /\ \A c \in DOMAIN CharEnd : CharEnd[c] > 0 /\ \A d \in 1 .. c - 1 : CharEnd[d] < CharEnd[c]
  /\ \A s \in Steps : IsRun(Span[s])
  /\ \A x \in Steps \X Fields : IsRun(FieldValue[x]) /\ FieldValue[x] \subseteq Span[x[1]]
  /\ \A s, t \in Steps : s # t => Span[s] \cap Span[t] = {}
  /\ {} \notin MaskTexts
  /\ Budgets \subseteq Int
  /\ Cuts \subseteq Seq(Nat) /\ Hints \subseteq Seq(Int)
  /\ \A cut \in Cuts : \A k \in DOMAIN cut : \A j \in 1 .. k : cut[j] <= cut[k]

VARIABLES
  mask,         \* step -> what of it is masked: nothing, "whole", or fields
  ends,         \* the byte each token ends with
  budget,
  prefix,       \* the encoded hint
  sequence,     \* the tokens, masked ones revealed as the loop goes
  remaining,    \* positions still masked
  passes,       \* how often the loop went round
  pc            \* "align", "denoise", "filled", "failed"
vars == <<mask, ends, budget, prefix, sequence, remaining, passes, pc>>

-----------------------------------------------------------------------------
(***************************************************************************)
(* Offsets.  A token's characters run from the one holding its first byte  *)
(* to the one holding its last, so tokens that share a character overlap.  *)
(***************************************************************************)
CharAtByte ==
  [b \in 1 .. (IF CharEnd = <<>> THEN 0 ELSE Last(CharEnd)) |->
     CHOOSE c \in DOMAIN CharEnd : b <= CharEnd[c] /\ \A d \in 1 .. c - 1 : CharEnd[d] < b]

Tokens == DOMAIN ends
Start(k) == IF k = 1 THEN 0 ELSE ends[k - 1]
Bytes(k) == Start(k) + 1 .. ends[k]
Chars(k) == {CharAtByte[b] : b \in Bytes(k)}

\* encode_with_offsets raises unless the tokens cover exactly the text.
Covers == Start(Len(ends) + 1) = Len(CharAtByte)

-----------------------------------------------------------------------------
MaskedSteps == {s \in Steps : mask[s] # {}}
Spans == {span \in Steps \X (Fields \cup {"whole"}) : span[2] \in mask[span[1]]}
Places(span) == IF span[2] = "whole" THEN Span[span[1]] ELSE FieldValue[span]
Touches(k, places) == Chars(k) \cap places # {}

\* Mutant: overlapping a masked span is enough.
OverlappingTokens == {k \in Tokens : \E span \in Spans : Touches(k, Places(span))}

\* align_mask: a token that touches a masked span and no preserved step.
MaskedTokens ==
  {k \in Tokens : /\ \E span \in Spans : Touches(k, Places(span))
                  /\ \A s \in Steps \ MaskedSteps : ~Touches(k, Span[s])}

\* masked_token_ids: what stands in the prompt as the mask token, the tokens the text
\* itself spells among them.
MasksShown == MaskedTokens \cup {k \in Tokens : Chars(k) \in MaskTexts}

\* Mutant: the range ends before the last token.
TokenRangeShort(span) ==
  LET covered == {k \in MaskedTokens : Touches(k, Places(span))}
  IN  Min(covered) .. Max(covered) - 1

\* token_ranges: from the first to the last masked token of a span.
TokenRange(span) ==
  LET covered == {k \in MaskedTokens : Touches(k, Places(span))}
  IN  IF covered = {} THEN {} ELSE Min(covered) .. Max(covered)

\* valid_tool_hint: only when some step is masked in its tool.
HintApplies == \E span \in Spans : span[2] = "tool"

Init ==
  /\ mask \in [Steps -> (SUBSET Fields) \cup {{"whole"}}]
  /\ ends \in Cuts
  /\ budget \in Budgets
  /\ prefix = <<>> /\ sequence = <<>> /\ remaining = {}
  /\ passes = 0 /\ pc = "align"

\* The tokens do not add up to the text: an alignment failure.
AlignmentFails ==
  /\ pc = "align" /\ ~Covers
  /\ pc' = "failed"
  /\ UNCHANGED <<mask, ends, budget, prefix, sequence, remaining, passes>>

\* Nothing is masked: fill returns {} and asks no model.
NothingToFill ==
  /\ pc = "align" /\ Covers /\ MaskedSteps = {}
  /\ pc' = "filled"
  /\ UNCHANGED <<mask, ends, budget, prefix, sequence, remaining, passes>>

\* fill builds the prompt, unless the hint itself would be taken for masked.
BuildPrompt ==
  /\ pc = "align" /\ Covers /\ MaskedSteps # {}
  /\ prefix' \in IF HintApplies THEN Hints ELSE {<<>>}
  /\ IF MASK \in ToSet(prefix')
     THEN /\ pc' = "failed"
          /\ UNCHANGED <<sequence, remaining>>
     ELSE /\ sequence' = prefix' \o [k \in Tokens |-> IF k \in MasksShown THEN MASK ELSE k]
          /\ remaining' = {i \in DOMAIN sequence' : sequence'[i] = MASK}
          /\ pc' = "denoise"
  /\ UNCHANGED <<mask, ends, budget, passes>>

\* The positions masked when the loop started.
ToReveal == {Len(prefix) + k : k \in MasksShown}
AtLeast1(n) == IF n > 1 THEN n ELSE 1

\* Mutant: rounded down, the passes reveal too few.
PerPassDown == AtLeast1(Cardinality(ToReveal) \div AtLeast1(budget))

PerPass == AtLeast1((Cardinality(ToReveal) + AtLeast1(budget) - 1) \div AtLeast1(budget))

\* What the token at a position was in the plan, or something else.
Predictions(i) == {i - Len(prefix), ANOTHER, MASK}

\* One pass.  How sure the model is of a position is the model's business, so any
\* PerPass of the remaining positions may be the ones select_reveals picks.
Pass ==
  /\ pc = "denoise" /\ remaining # {}
  /\ \E chosen \in kSubset(IF PerPass < Cardinality(remaining) THEN PerPass ELSE Cardinality(remaining), remaining) :
       /\ \E predicted \in [chosen -> UNION {Predictions(i) : i \in chosen}] :
            /\ \A i \in chosen : predicted[i] \in Predictions(i)
            /\ sequence' = [i \in DOMAIN sequence |-> IF i \in chosen THEN predicted[i] ELSE sequence[i]]
       /\ remaining' = remaining \ chosen
  /\ passes' = passes + 1
  /\ UNCHANGED <<mask, ends, budget, prefix, pc>>

\* The loop ends, and fill checks that nothing outside the mask was rewritten.
Frozen(i) == i \notin ToReveal => sequence[i] = (prefix \o [k \in Tokens |-> k])[i]

Filled ==
  /\ pc = "denoise" /\ remaining = {}
  /\ pc' = IF \A i \in DOMAIN sequence : Frozen(i) THEN "filled" ELSE "failed"
  /\ UNCHANGED <<mask, ends, budget, prefix, sequence, remaining, passes>>

Next == AlignmentFails \/ NothingToFill \/ BuildPrompt \/ Pass \/ Filled
Spec == Init /\ [][Next]_vars

-----------------------------------------------------------------------------
\* decode_spans, on the filled sequence without its prefix.
Decoded(span) ==
  [j \in 1 .. Cardinality(TokenRange(span)) |-> sequence[Len(prefix) + Min(TokenRange(span)) + j - 1]]

\* The bytes a run of the plan's tokens stands for, and what normalise_filling leaves
\* of them: the separators at either end go.
TextOf(ids) == UNION {Bytes(ids[j]) : j \in DOMAIN ids}
Stripped(bytes) ==
  LET solid == {b \in bytes : CharAtByte[b] \notin Separator}
  IN  {b \in bytes : \E low, high \in solid : low <= b /\ b <= high}

-----------------------------------------------------------------------------
\* "A token carrying any character of a healthy step is never masked": whatever the
\* cut and whatever the model predicts, in no pass is such a token another one, unless
\* it is the mask token itself, spelled out in the text of the step.
HealthyTextUntouched ==
  sequence # <<>> =>
    \A s \in Steps \ MaskedSteps : \A k \in Tokens :
      (Touches(k, Span[s]) /\ Chars(k) \notin MaskTexts) => sequence[Len(prefix) + k] = k

\* The loop goes round at most as often as it was given passes, and at least once
\* however few it was given.
PassesWithinBudget == passes <= AtLeast1(budget)

\* A model that writes back what was there changes nothing: a span whose tokens hold
\* nothing else but separators decodes to its own text, once these are stripped.
OwnTextRoundTrips ==
  pc = "filled" =>
    \A span \in Spans :
      LET own == {k \in Tokens : Touches(k, Places(span))}
      IN  (own # {} /\ \A k \in own : Chars(k) \subseteq Places(span) \cup Separator
                            /\ sequence[Len(prefix) + k] = k)
          => /\ ToSet(Decoded(span)) \subseteq Tokens
             /\ Stripped(TextOf(Decoded(span))) = {b \in DOMAIN CharAtByte : CharAtByte[b] \in Places(span)}
=============================================================================
