--------------------------- MODULE DenoiseProofs ---------------------------
(***************************************************************************)
(* For every text, every cut of it into tokens, every mask, hint and       *)
(* number of passes: healthy text is never rewritten, and the loop goes    *)
(* round no more often than it was given passes.                           *)
(***************************************************************************)
EXTENDS Denoise, ListsProofs, SequenceTheorems

\* Where the prompt has been built, its positions are those of the hint and then
\* one for each token, and whatever was not masked still holds its own token.
Laid ==
  /\ DOMAIN sequence = 1 .. Len(prefix) + Len(ends)
  /\ \A k \in Tokens \ MasksShown : sequence[Len(prefix) + k] = k

FrozenInv ==
  /\ ends \in Seq(Nat) /\ prefix \in Seq(Int)
  /\ remaining \subseteq ToReveal
  /\ pc = "align" => sequence = <<>> /\ remaining = {}
  /\ (pc = "denoise" \/ sequence # <<>>) => Laid

\* The masked tokens depend on the mask and the cut alone.
LEMMA AlignmentIsKept ==
  UNCHANGED <<mask, ends>> => UNCHANGED <<MasksShown, MaskedTokens, MaskedSteps, Spans, Tokens>>
<1> SUFFICES ASSUME mask' = mask, ends' = ends PROVE UNCHANGED <<MasksShown, MaskedTokens, MaskedSteps, Spans, Tokens>>
  OBVIOUS
<1>1. \A k : Bytes(k)' = Bytes(k)
  BY DEF Bytes, Start
<1>2. Tokens' = Tokens /\ \A k : Chars(k)' = Chars(k)
  BY <1>1 DEF Chars, Tokens
<1>3. MaskedSteps' = MaskedSteps /\ Spans' = Spans /\ \A span : Places(span)' = Places(span)
  BY DEF MaskedSteps, Spans, Places
<1> QED BY <1>2, <1>3 DEF MasksShown, MaskedTokens, Touches

LEMMA FrozenInit == Init => FrozenInv
BY DenoiseAssumption DEF DenoiseAssumption, Init, FrozenInv, ToReveal

\* A prompt is laid out as Laid says, and holds the mask where tokens are masked.
LEMMA PromptIsLaid ==
  ASSUME ends \in Seq(Nat), NEW p \in Seq(Int)
  PROVE  LET s == p \o [k \in Tokens |-> IF k \in MasksShown THEN MASK ELSE k]
         IN  /\ DOMAIN s = 1 .. Len(p) + Len(ends)
             /\ \A k \in Tokens : s[Len(p) + k] = IF k \in MasksShown THEN MASK ELSE k
             /\ \A i \in 1 .. Len(p) : s[i] = p[i]
<1> DEFINE t == [k \in Tokens |-> IF k \in MasksShown THEN MASK ELSE k]
<1>1. Tokens = 1 .. Len(ends) /\ Len(ends) \in Nat
  BY DEF Tokens
<1>2. t \in Seq(Int) /\ Len(t) = Len(ends)
  BY <1>1 DEF MASK
<1>3. \A k \in Tokens : t[k] = IF k \in MasksShown THEN MASK ELSE k
  OBVIOUS
<1> HIDE DEF t
<1>4. /\ Len(p \o t) = Len(p) + Len(ends) /\ p \o t \in Seq(Int)
      /\ \A i \in 1 .. Len(p) + Len(t) : (p \o t)[i] = IF i <= Len(p) THEN p[i] ELSE t[i - Len(p)]
  <2>1. /\ p \o t \in Seq(Int)
        /\ Len(p \o t) = Len(p) + Len(t)
        /\ \A i \in 1 .. Len(p) + Len(t) : (p \o t)[i] = IF i <= Len(p) THEN p[i] ELSE t[i - Len(p)]
    BY <1>2, ConcatProperties, Zenon
  <2> QED BY <1>2, <2>1
<1>5. DOMAIN (p \o t) = 1 .. Len(p) + Len(ends)
  BY <1>4
<1>6. \A k \in Tokens : (p \o t)[Len(p) + k] = t[k]
  <2> TAKE k \in Tokens
  <2>1. Len(p) \in Nat /\ k \in 1 .. Len(ends)
    BY <1>1
  <2>2. PICK i : i = Len(p) + k
    OBVIOUS
  <2>3. i \in 1 .. Len(p) + Len(t) /\ ~(i <= Len(p)) /\ i - Len(p) = k
    BY <1>1, <1>2, <2>1, <2>2
  <2>4. (p \o t)[i] = t[i - Len(p)]
    BY <1>4, <2>3
  <2> QED BY <2>2, <2>3, <2>4
<1>7. \A i \in 1 .. Len(p) : (p \o t)[i] = p[i]
  BY <1>1, <1>2, <1>4
<1> QED BY <1>3, <1>5, <1>6, <1>7 DEF t

\* Building the prompt lays it out, and leaves exactly the masked tokens to reveal.
LEMMA PromptMasksAll ==
  ASSUME FrozenInv, BuildPrompt
  PROVE  FrozenInv' /\ (remaining' # {} => remaining' = ToReveal')
<1> USE DEF FrozenInv
<1>1. prefix' \in Seq(Int)
  <2>1. Hints \subseteq Seq(Int) /\ <<>> \in Seq(Int)
    BY DenoiseAssumption DEF DenoiseAssumption
  <2>2. prefix' \in Hints \/ prefix' = <<>>
    <3>1. CASE HintApplies
      BY <3>1 DEF BuildPrompt
    <3>2. CASE ~HintApplies
      BY <3>2 DEF BuildPrompt
    <3> QED BY <3>1, <3>2
  <2> QED BY <2>1, <2>2
<1>2. /\ ends' = ends /\ mask' = mask /\ MasksShown' = MasksShown /\ Tokens' = Tokens
      /\ pc = "align"
  BY AlignmentIsKept DEF BuildPrompt
<1>3. CASE MASK \in ToSet(prefix')
  <2>1. pc' = "failed" /\ sequence' = <<>> /\ remaining' = {}
    BY <1>2, <1>3 DEF BuildPrompt
  <2> QED BY <1>1, <1>2, <2>1
<1>4. CASE MASK \notin ToSet(prefix')
  <2> DEFINE s == prefix' \o [k \in Tokens |-> IF k \in MasksShown THEN MASK ELSE k]
  <2>1. sequence' = s /\ pc' = "denoise" /\ remaining' = {i \in DOMAIN s : s[i] = MASK}
    BY <1>4 DEF BuildPrompt
  <2>2. /\ DOMAIN s = 1 .. Len(prefix') + Len(ends)
        /\ \A k \in Tokens : s[Len(prefix') + k] = IF k \in MasksShown THEN MASK ELSE k
        /\ \A i \in 1 .. Len(prefix') : s[i] = prefix'[i]
    BY <1>1, PromptIsLaid
  <2> HIDE DEF s
  <2>3. remaining' = ToReveal'
    <3>1. /\ Len(ends) \in Nat /\ Tokens = 1 .. Len(ends) /\ MasksShown \subseteq Tokens
          /\ Len(prefix') \in Nat
      BY <1>1 DEF Tokens, MasksShown, MaskedTokens
    <3>2. ToReveal' = {Len(prefix') + k : k \in MasksShown}
      BY <1>2 DEF ToReveal
    <3>3. ASSUME NEW i \in 1 .. Len(prefix') PROVE s[i] # MASK /\ i \notin ToReveal'
      <4>1. s[i] = prefix'[i] /\ prefix'[i] \in ToSet(prefix')
        BY <1>1, <2>2 DEF ToSet
      <4>2. i \notin ToReveal'
        BY <3>1, <3>2
      <4> QED BY <1>4, <4>1, <4>2
    <3>4. ASSUME NEW k \in Tokens
          PROVE  /\ Len(prefix') + k \in DOMAIN s
                 /\ s[Len(prefix') + k] = MASK <=> Len(prefix') + k \in ToReveal'
      <4>1. Len(prefix') + k \in DOMAIN s
        BY <2>2, <3>1
      <4>2. Len(prefix') + k \in ToReveal' <=> k \in MasksShown
        BY <3>1, <3>2
      <4>3. k # MASK
        BY <3>1 DEF MASK
      <4> QED BY <2>2, <4>1, <4>2, <4>3
    <3>5. \A i \in DOMAIN s : i \in 1 .. Len(prefix') \/ \E k \in Tokens : i = Len(prefix') + k
      <4> TAKE i \in DOMAIN s
      <4>1. CASE i <= Len(prefix')
        BY <2>2, <3>1, <4>1
      <4>2. CASE ~(i <= Len(prefix'))
        <5>1. i - Len(prefix') \in Tokens /\ i = Len(prefix') + (i - Len(prefix'))
          BY <2>2, <3>1, <4>2
        <5> QED BY <5>1
      <4> QED BY <4>1, <4>2
    <3>6. ToReveal' \subseteq DOMAIN s
      BY <3>1, <3>2, <3>4
    <3> QED BY <2>1, <3>3, <3>4, <3>5, <3>6
  <2>4. Laid'
    BY <1>2, <2>1, <2>2 DEF Laid
  <2> QED BY <1>1, <1>2, <2>1, <2>3, <2>4
<1> QED BY <1>3, <1>4

LEMMA FrozenNext == FrozenInv /\ [Next]_vars => FrozenInv'
<1> SUFFICES ASSUME FrozenInv, [Next]_vars PROVE FrozenInv'
  OBVIOUS
<1> USE DEF FrozenInv
<1>1. CASE AlignmentFails
  BY <1>1, AlignmentIsKept DEF AlignmentFails, Laid, ToReveal
<1>2. CASE NothingToFill
  BY <1>2, AlignmentIsKept DEF NothingToFill, Laid, ToReveal
<1>3. CASE BuildPrompt
  BY <1>3, PromptMasksAll
<1>4. CASE Pass
  <2>1. PICK chosen \in SUBSET remaining : \E predicted :
           /\ sequence' = [i \in DOMAIN sequence |-> IF i \in chosen THEN predicted[i] ELSE sequence[i]]
           /\ remaining' = remaining \ chosen
    BY <1>4 DEF Pass, kSubset
  <2>2. UNCHANGED <<mask, ends, prefix, pc>> /\ pc = "denoise"
    BY <1>4 DEF Pass
  <2>3. MasksShown' = MasksShown /\ Tokens' = Tokens /\ ToReveal' = ToReveal
    BY <2>2, AlignmentIsKept DEF ToReveal
  <2>4. \A k \in Tokens \ MasksShown : Len(prefix) + k \in DOMAIN sequence /\ Len(prefix) + k \notin chosen
    <3> TAKE k \in Tokens \ MasksShown
    <3>1. Len(prefix) \in Nat /\ k \in 1 .. Len(ends) /\ MasksShown \subseteq 1 .. Len(ends) /\ Len(ends) \in Nat
      BY DEF Tokens, MasksShown, MaskedTokens
    <3>2. Len(prefix) + k \notin ToReveal
      BY <3>1 DEF ToReveal
    <3> QED BY <2>1, <2>2, <3>1, <3>2 DEF Laid
  <2>5. Laid'
    BY <2>1, <2>2, <2>3, <2>4 DEF Laid
  <2> QED BY <2>1, <2>2, <2>3, <2>5
<1>5. CASE Filled
  BY <1>5, AlignmentIsKept DEF Filled, Laid, ToReveal
<1>6. CASE UNCHANGED vars
  BY <1>6, AlignmentIsKept DEF vars, Laid, ToReveal
<1> QED BY <1>1, <1>2, <1>3, <1>4, <1>5, <1>6 DEF Next

\* For every text and every cut of it, whatever the model predicts, no token that holds
\* a character of a healthy step is ever another one, unless it reads as the mask token.
THEOREM HealthyIsFrozen == Spec => []HealthyTextUntouched
<1>1. FrozenInv => HealthyTextUntouched
  <2> SUFFICES ASSUME FrozenInv, sequence # <<>>, NEW s \in Steps \ MaskedSteps, NEW k \in Tokens,
                      Touches(k, Span[s]), Chars(k) \notin MaskTexts
               PROVE  sequence[Len(prefix) + k] = k
    BY DEF HealthyTextUntouched
  <2>1. k \notin MasksShown
    BY DEF MasksShown, MaskedTokens
  <2> QED BY <2>1 DEF FrozenInv, Laid
<1> QED BY <1>1, FrozenInit, FrozenNext, PTL DEF Spec
-----------------------------------------------------------------------------
\* While something is left, every pass so far revealed a full share of the whole;
\* so all passes but the last revealed less than the whole.
BudgetInv ==
  /\ FrozenInv /\ budget \in Int /\ passes \in Nat
  /\ pc = "align" => passes = 0
  /\ remaining # {} => Cardinality(remaining) = Cardinality(ToReveal) - passes * PerPass
  /\ passes # 0 => (passes - 1) * PerPass < Cardinality(ToReveal)

LEMMA ShiftIsFinite ==
  ASSUME NEW m \in Nat, NEW n \in Nat, NEW S \in SUBSET (1 .. n)
  PROVE  IsFiniteSet({m + k : k \in S}) /\ Cardinality({m + k : k \in S}) \in Nat
<1>1. IsFiniteSet(1 .. m + n)
  BY FS_Interval
<1>2. {m + k : k \in S} \subseteq 1 .. m + n
  OBVIOUS
<1> QED BY <1>1, <1>2, FS_Subset, FS_CardinalityType

LEMMA ToRevealIsFinite ==
  ASSUME FrozenInv
  PROVE  IsFiniteSet(ToReveal) /\ Cardinality(ToReveal) \in Nat
<1>1. Len(prefix) \in Nat /\ Len(ends) \in Nat /\ MasksShown \in SUBSET (1 .. Len(ends))
  BY DEF FrozenInv, MasksShown, MaskedTokens, Tokens
<1> QED BY <1>1, ShiftIsFinite DEF ToReveal

\* A share is the whole divided by the passes, rounded up: so many are enough.
LEMMA SharesSuffice ==
  ASSUME NEW t \in Nat, NEW b \in Nat \ {0}
  PROVE  /\ AtLeast1((t + b - 1) \div b) \in Nat \ {0}
         /\ t <= b * AtLeast1((t + b - 1) \div b)
<1> DEFINE q == (t + b - 1) \div b
<1>1. q \in Nat /\ t + b - 1 < b * q + b
  OBVIOUS
<1> HIDE DEF q
<1>2. t < b * q + 1
  BY <1>1
<1>3. CASE q > 1
  BY <1>2, <1>3, <1>1 DEF AtLeast1, q
<1>4. CASE q = 1
  BY <1>2, <1>4, <1>1 DEF AtLeast1, q
<1>5. CASE q = 0
  BY <1>2, <1>5, <1>1 DEF AtLeast1, q
<1> QED BY <1>1, <1>3, <1>4, <1>5

\* Two facts of arithmetic about n passes of p reveals each.
LEMMA FewerThanBudget ==
  ASSUME NEW n \in Nat, NEW b \in Nat, NEW p \in Nat, NEW t \in Nat,
         (n - 1) * p < t, t <= b * p
  PROVE  n <= b
<1> SUFFICES ASSUME b <= n - 1 PROVE b * p <= (n - 1) * p
  OBVIOUS
<1>1. PICK d \in Nat : n - 1 = b + d
  <2>1. n - 1 - b \in Nat /\ n - 1 = b + (n - 1 - b)
    OBVIOUS
  <2> QED BY <2>1
<1>2. (b + d) * p = b * p + d * p /\ d * p \in Nat
  OBVIOUS
<1> QED BY <1>1, <1>2

LEMMA OnePassMore ==
  ASSUME NEW n \in Nat, NEW p \in Nat
  PROVE  (n + 1) * p = n * p + p
OBVIOUS

LEMMA PerPassSuffices ==
  ASSUME FrozenInv, budget \in Int
  PROVE  /\ AtLeast1(budget) \in Nat \ {0} /\ PerPass \in Nat \ {0}
         /\ Cardinality(ToReveal) <= AtLeast1(budget) * PerPass
<1>1. AtLeast1(budget) \in Nat \ {0}
  BY DEF AtLeast1
<1> QED BY <1>1, ToRevealIsFinite, SharesSuffice DEF PerPass

LEMMA BudgetNext == BudgetInv /\ [Next]_vars => BudgetInv'
<1> SUFFICES ASSUME BudgetInv, [Next]_vars PROVE BudgetInv'
  OBVIOUS
<1>1. FrozenInv /\ FrozenInv'
  BY FrozenNext DEF BudgetInv
<1>2. CASE UNCHANGED <<mask, ends, budget, prefix, passes, remaining>> /\ pc' # "align"
  <2>1. ToReveal' = ToReveal /\ PerPass' = PerPass
    BY <1>2, AlignmentIsKept DEF PerPass, ToReveal
  <2> QED BY <1>1, <1>2, <2>1 DEF BudgetInv
<1>3. CASE BuildPrompt
  <2>1. passes' = 0 /\ budget' = budget /\ pc' # "align" /\ (remaining' = {} \/ pc' = "denoise")
    BY <1>1, <1>3 DEF BuildPrompt, BudgetInv, FrozenInv
  <2>2. remaining' # {} => remaining' = ToReveal'
    BY <1>3, PromptMasksAll DEF BudgetInv
  <2>3. PerPass' \in Nat /\ Cardinality(ToReveal)' \in Nat
    <3>1. /\ Len(prefix') \in Nat /\ Len(ends') \in Nat
          /\ MasksShown' \in SUBSET (1 .. Len(ends'))
      BY <1>1 DEF FrozenInv, MasksShown, MaskedTokens, Tokens
    <3>2. Cardinality(ToReveal)' \in Nat
      BY <3>1, ShiftIsFinite DEF ToReveal
    <3>3. AtLeast1(budget') \in Nat \ {0}
      BY <2>1 DEF BudgetInv, AtLeast1
    <3> QED BY <3>2, <3>3, SharesSuffice DEF PerPass
  <2>4. 0 * PerPass' = 0
    <3>1. \A p \in Nat : 0 * p = 0
      OBVIOUS
    <3> QED BY <2>3, <3>1
  <2> QED BY <1>1, <2>1, <2>2, <2>3, <2>4 DEF BudgetInv
<1>4. CASE Pass
  <2> DEFINE left == Cardinality(remaining)
             whole == Cardinality(ToReveal)
             share == IF PerPass < left THEN PerPass ELSE left
  <2>1. PICK chosen \in kSubset(share, remaining) : remaining' = remaining \ chosen
    BY <1>4 DEF Pass
  <2>2. chosen \subseteq remaining /\ Cardinality(chosen) = share
    BY <2>1 DEF kSubset
  <2>3. UNCHANGED <<mask, ends, budget, prefix, pc>> /\ passes' = passes + 1 /\ remaining # {} /\ pc = "denoise"
    BY <1>4 DEF Pass
  <2>4. ToReveal' = ToReveal /\ PerPass' = PerPass
    BY <2>3, AlignmentIsKept DEF PerPass, ToReveal
  <2>5. /\ PerPass \in Nat \ {0} /\ whole \in Nat
        /\ IsFiniteSet(remaining) /\ left \in Nat \ {0}
    <3>1. IsFiniteSet(remaining)
      BY <1>1, ToRevealIsFinite, FS_Subset DEF FrozenInv
    <3>2. left \in Nat /\ left # 0
      BY <2>3, <3>1, FS_CardinalityType, FS_EmptySet
    <3> QED BY <1>1, <3>1, <3>2, PerPassSuffices, ToRevealIsFinite DEF BudgetInv
  <2>6. left = whole - passes * PerPass /\ passes \in Nat /\ passes * PerPass \in Nat
    BY <2>3, <2>5 DEF BudgetInv
  <2>7. remaining' # {} => Cardinality(remaining') = left - PerPass
    <3>1. CASE PerPass < left
      <4>1. remaining \cap chosen = chosen
        BY <2>2
      <4>2. Cardinality(remaining \ chosen) = left - Cardinality(remaining \cap chosen)
        BY <2>5, FS_Difference
      <4> QED BY <2>1, <2>2, <3>1, <4>1, <4>2
    <3>2. CASE ~(PerPass < left)
      <4>1. chosen = remaining
        BY <2>2, <2>5, <3>2, FS_Subset
      <4> QED BY <2>1, <4>1
    <3> QED BY <3>1, <3>2
  <2>8. (passes + 1) * PerPass = passes * PerPass + PerPass
    BY <2>5, <2>6, OnePassMore
  <2>9. remaining' # {} => Cardinality(remaining') = whole - passes' * PerPass
    BY <2>3, <2>5, <2>6, <2>7, <2>8
  <2>10. (passes' - 1) * PerPass < whole
    <3>1. passes' - 1 = passes
      BY <2>3, <2>6
    <3> QED BY <2>5, <2>6, <3>1
  <2> QED BY <1>1, <2>3, <2>4, <2>6, <2>9, <2>10 DEF BudgetInv
<1>5. CASE UNCHANGED vars
  BY <1>1, <1>5, AlignmentIsKept DEF vars, BudgetInv, PerPass, ToReveal
<1> QED BY <1>2, <1>3, <1>4, <1>5 DEF Next, AlignmentFails, NothingToFill, Filled

\* However many tokens are masked and whatever the budget, zero and negative ones
\* included, the denoising loop goes round no more often than it was given passes.
THEOREM LoopKeepsBudget == Spec => []PassesWithinBudget
<1>1. Init => BudgetInv
  BY FrozenInit, DenoiseAssumption DEF Init, BudgetInv, DenoiseAssumption
<1>2. BudgetInv => PassesWithinBudget
  <2> SUFFICES ASSUME BudgetInv PROVE passes <= AtLeast1(budget)
    BY DEF PassesWithinBudget
  <2>1. /\ AtLeast1(budget) \in Nat \ {0} /\ PerPass \in Nat \ {0}
        /\ Cardinality(ToReveal) <= AtLeast1(budget) * PerPass /\ Cardinality(ToReveal) \in Nat
    BY PerPassSuffices, ToRevealIsFinite DEF BudgetInv
  <2>2. CASE passes = 0
    BY <2>1, <2>2
  <2>3. CASE passes # 0
    BY <2>1, <2>3, FewerThanBudget DEF BudgetInv
  <2> QED BY <2>2, <2>3
<1> QED BY <1>1, <1>2, BudgetNext, PTL DEF Spec
-----------------------------------------------------------------------------
\* Every byte of the text belongs to one character, the characters take their bytes in
\* order, and each has one.
LEMMA CharactersInOrder ==
  /\ Len(CharAtByte) \in Nat /\ DOMAIN CharAtByte = 1 .. Len(CharAtByte)
  /\ \A b \in DOMAIN CharAtByte : CharAtByte[b] \in DOMAIN CharEnd
  /\ \A a, b \in DOMAIN CharAtByte : a <= b => CharAtByte[a] <= CharAtByte[b]
  /\ \A c \in DOMAIN CharEnd : \E b \in DOMAIN CharAtByte : CharAtByte[b] = c
<1> DEFINE n == Len(CharEnd)
           total == IF CharEnd = <<>> THEN 0 ELSE Last(CharEnd)
           has(c, b) == b <= CharEnd[c] /\ \A d \in 1 .. c - 1 : CharEnd[d] < b
<1>1. /\ n \in Nat /\ DOMAIN CharEnd = 1 .. n /\ \A c \in 1 .. n : CharEnd[c] \in Nat
      /\ CharEnd # <<>> => n > 0 /\ total = CharEnd[n]
      /\ CharEnd = <<>> => n = 0 /\ total = 0
  BY DenoiseAssumption DEF DenoiseAssumption, Last
<1>2. \A c \in 1 .. n : CharEnd[c] > 0 /\ \A d \in 1 .. c - 1 : CharEnd[d] < CharEnd[c]
  BY <1>1, DenoiseAssumption DEF DenoiseAssumption
<1>3. /\ total \in Nat
      /\ \A c \in 1 .. n : CharEnd[c] <= total
  <2>1. n = 0 \/ (n > 0 /\ n \in 1 .. n)
    BY <1>1
  <2>2. ASSUME NEW c \in 1 .. n PROVE CharEnd[c] <= total
    <3>1. CASE c = n
      BY <1>1, <3>1
    <3>2. CASE c # n
      <4>1. n \in 1 .. n /\ c \in 1 .. n - 1
        <5>1. n \in Nat
          BY <1>1
        <5> HIDE DEF n
        <5> QED BY <3>2, <5>1
      <4>2. CharEnd[c] < CharEnd[n] /\ CharEnd[c] \in Nat /\ total = CharEnd[n] /\ total \in Nat
        BY <1>1, <1>2, <2>1, <4>1
      <4> QED BY <4>2
    <3> QED BY <3>1, <3>2
  <2> QED BY <1>1, <2>1, <2>2
<1>4. CharAtByte = [b \in 1 .. total |-> CHOOSE c \in 1 .. n : has(c, b)]
  BY <1>1 DEF CharAtByte
<1>5. ASSUME NEW b \in 1 .. total PROVE \E c \in 1 .. n : has(c, b)
  <2> DEFINE K == {c \in 1 .. n : b <= CharEnd[c]}
  <2>1. n \in K
    BY <1>1, <1>3
  <2>2. K \in SUBSET Int /\ IsFiniteSet(K)
    BY <1>1, IndicesAreFinite
  <2>3. PICK c \in K : \A d \in K : c <= d
    BY <2>1, <2>2, LeastOf
  <2>4. ASSUME NEW d \in 1 .. c - 1 PROVE CharEnd[d] < b
    <3>1. c \in 1 .. n /\ d \in 1 .. n /\ ~(c <= d) /\ d \in Int
      BY <1>1
    <3>2. d \notin K
      BY <2>3, <3>1
    <3>3. CharEnd[d] \in Nat /\ ~(b <= CharEnd[d])
      BY <1>1, <3>1, <3>2
    <3> QED BY <1>3, <3>3
  <2> QED BY <2>3, <2>4
<1>6. /\ DOMAIN CharAtByte = 1 .. total /\ Len(CharAtByte) = total
      /\ \A b \in 1 .. total : CharAtByte[b] \in 1 .. n /\ has(CharAtByte[b], b)
  <2>1. \A b \in 1 .. total : CharAtByte[b] = CHOOSE c \in 1 .. n : has(c, b)
    BY <1>4
  <2>2. \A b \in 1 .. total : CharAtByte[b] \in 1 .. n /\ has(CharAtByte[b], b)
    <3> HIDE DEF has
    <3> QED BY <1>5, <2>1
  <2>3. CharAtByte \in [1 .. total -> 1 .. n]
    BY <1>4, <2>2
  <2>4. CharAtByte \in Seq(1 .. n)
    BY <1>3, <2>3
  <2>5. DOMAIN CharAtByte = 1 .. total /\ DOMAIN CharAtByte = 1 .. Len(CharAtByte) /\ Len(CharAtByte) \in Nat
    BY <2>3, <2>4
  <2>6. Len(CharAtByte) = total
    <3> HIDE DEF total
    <3> QED BY <1>3, <2>5
  <2> QED BY <2>2, <2>5, <2>6
<1> HIDE DEF total
<1>7. ASSUME NEW a \in 1 .. total, NEW b \in 1 .. total, a <= b PROVE CharAtByte[a] <= CharAtByte[b]
  <2> DEFINE c == CharAtByte[a]
             d == CharAtByte[b]
  <2>1. c \in 1 .. n /\ d \in 1 .. n /\ has(c, a) /\ has(d, b)
    BY <1>6
  <2> HIDE DEF c, d
  <2>2. CASE d < c
    <3>1. d \in 1 .. c - 1
      BY <1>1, <2>1, <2>2
    <3>2. CharEnd[d] < a /\ b <= CharEnd[d] /\ CharEnd[d] \in Nat
      BY <1>1, <2>1, <3>1
    <3> QED BY <1>3, <1>7, <3>2
  <2>3. c <= d
    BY <1>1, <2>1, <2>2, <1>7
  <2> QED BY <2>3 DEF c, d
<1>8. ASSUME NEW c \in 1 .. n PROVE \E b \in 1 .. total : CharAtByte[b] = c
  <2> DEFINE b == CharEnd[c]
             d == CharAtByte[b]
  <2>1. b \in 1 .. total /\ b \in Nat
    BY <1>1, <1>2, <1>3
  <2>2. d \in 1 .. n /\ has(d, b)
    BY <1>6, <2>1
  <2>3. ~(d < c)
    BY <1>1, <1>2, <2>1, <2>2
  <2>4. ~(c < d)
    BY <1>1, <2>1, <2>2
  <2> HIDE DEF d
  <2>5. d = c
    BY <1>1, <2>2, <2>3, <2>4
  <2> QED BY <2>1, <2>5 DEF d
<1> QED BY <1>1, <1>3, <1>6, <1>7, <1>8

\* Tokens that cover the text hold each of its bytes, and hold them in order.
LEMMA TokensInOrder ==
  ASSUME ends \in Cuts, Covers
  PROVE  /\ Len(ends) \in Nat /\ Tokens = 1 .. Len(ends)
         /\ \A k \in Tokens : Bytes(k) \subseteq DOMAIN CharAtByte
         /\ \A b \in DOMAIN CharAtByte : \E k \in Tokens : b \in Bytes(k)
         /\ \A j, k \in Tokens : \A a \in Bytes(j) : \A b \in Bytes(k) : j < k => a < b
<1> DEFINE n == Len(ends)
           total == Len(CharAtByte)
<1>1. /\ ends \in Seq(Nat) /\ n \in Nat /\ Tokens = 1 .. n /\ \A k \in 1 .. n : ends[k] \in Nat
      /\ \A k \in 1 .. n : \A j \in 1 .. k : ends[j] <= ends[k]
  BY DenoiseAssumption DEF DenoiseAssumption, Tokens
<1>2. total \in Nat /\ DOMAIN CharAtByte = 1 .. total
  BY CharactersInOrder
<1>3. (n = 0 => total = 0) /\ (n > 0 => total = ends[n])
  BY <1>1 DEF Covers, Start
<1> HIDE DEF total
<1>4. \A k \in 1 .. n : Start(k) \in Nat /\ (k > 1 => Start(k) = ends[k - 1])
  BY <1>1 DEF Start
<1>5. ASSUME NEW k \in 1 .. n, NEW b \in Bytes(k) PROVE b \in 1 .. total
  <2>1. k \in 1 .. n /\ n \in 1 .. n /\ n > 0
    BY <1>1
  <2>2. ends[k] <= total
    BY <1>1, <1>3, <2>1
  <2>3. b \in Start(k) + 1 .. ends[k] /\ ends[k] \in Nat /\ Start(k) \in Nat
    BY <1>1, <1>4 DEF Bytes
  <2> QED BY <1>2, <2>2, <2>3
<1>6. ASSUME NEW b \in 1 .. total PROVE \E k \in 1 .. n : b \in Bytes(k)
  <2> DEFINE K == {k \in 1 .. n : b <= ends[k]}
  <2>1. n \in K
    BY <1>1, <1>2, <1>3
  <2>2. K \in SUBSET Int /\ IsFiniteSet(K)
    BY <1>1, IndicesAreFinite
  <2>3. PICK k \in K : \A j \in K : k <= j
    BY <2>1, <2>2, LeastOf
  <2>4. Start(k) < b
    <3>1. CASE k = 1
      BY <1>2, <3>1 DEF Start
    <3>2. CASE k # 1
      <4>1. k \in 1 .. n /\ k - 1 \in 1 .. n /\ ~(k <= k - 1) /\ k > 1
        BY <1>1, <3>2
      <4>2. k - 1 \notin K
        BY <2>3, <4>1
      <4>3. Start(k) = ends[k - 1] /\ ends[k - 1] \in Nat /\ ~(b <= ends[k - 1])
        BY <1>1, <1>4, <4>1, <4>2
      <4> QED BY <1>2, <4>3
    <3> QED BY <3>1, <3>2
  <2>5. b \in Bytes(k)
    BY <1>1, <1>2, <1>4, <2>3, <2>4 DEF Bytes
  <2> QED BY <2>3, <2>5
<1>7. ASSUME NEW j \in 1 .. n, NEW k \in 1 .. n, NEW a \in Bytes(j), NEW b \in Bytes(k), j < k PROVE a < b
  <2>1. k - 1 \in 1 .. n /\ j \in 1 .. k - 1 /\ k > 1
    BY <1>1, <1>7
  <2>2. ends[j] <= ends[k - 1] /\ Start(k) = ends[k - 1]
    BY <1>1, <1>4, <2>1
  <2>3. a \in Start(j) + 1 .. ends[j] /\ b \in Start(k) + 1 .. ends[k]
    BY DEF Bytes
  <2>4. /\ a \in Int /\ b \in Int /\ ends[j] \in Nat /\ Start(k) \in Nat
        /\ a <= ends[j] /\ Start(k) + 1 <= b
    BY <1>1, <1>4, <2>3
  <2> QED BY <2>2, <2>4
<1> QED BY <1>1, <1>2, <1>5, <1>6, <1>7

\* Once the prompt is built the tokens cover the text, and they still stand behind the
\* hint when it is filled.
TextInv ==
  /\ FrozenInv /\ ends \in Cuts
  /\ mask \in [Steps -> (SUBSET Fields) \cup {{"whole"}}]
  /\ pc \in {"denoise", "filled"} => Covers
  /\ (pc = "filled" /\ Spans # {}) => Laid

LEMMA TextNext == TextInv /\ [Next]_vars => TextInv'
<1> SUFFICES ASSUME TextInv, [Next]_vars PROVE TextInv'
  OBVIOUS
<1>1. FrozenInv /\ FrozenInv'
  BY FrozenNext DEF TextInv
<1>2. UNCHANGED <<mask, ends, Spans, MasksShown, Tokens, Covers>>
  <2>1. UNCHANGED <<mask, ends>>
    BY DEF Next, AlignmentFails, NothingToFill, BuildPrompt, Pass, Filled, vars
  <2> QED BY <2>1, AlignmentIsKept DEF Covers, Start
<1>3. pc' \in {"denoise", "filled"} => Covers
  BY DEF TextInv, Next, AlignmentFails, NothingToFill, BuildPrompt, Pass, Filled, vars
<1>4. (pc' = "filled" /\ Spans # {}) => Laid'
  <2> SUFFICES ASSUME pc' = "filled", Spans # {} PROVE Laid'
    OBVIOUS
  <2>1. CASE Filled
    BY <1>1, <1>2, <2>1 DEF Filled, FrozenInv, Laid
  <2>2. CASE UNCHANGED vars
    BY <1>2, <2>2 DEF vars, TextInv, Laid
  <2> QED BY <2>1, <2>2 DEF Next, AlignmentFails, NothingToFill, BuildPrompt, Pass, MaskedSteps, Spans
<1> QED BY <1>1, <1>2, <1>3, <1>4 DEF TextInv

\* A step that is not masked cannot share a token with a masked place unless the token
\* holds a separator-free end of it: a token's characters are a run.
LEMMA TokensAreRuns ==
  ASSUME ends \in Cuts, Covers, NEW k \in Tokens, NEW x \in Chars(k), NEW y \in Chars(k),
         NEW z \in DOMAIN CharEnd, x <= z, z <= y
  PROVE  z \in Chars(k)
<1>1. PICK a \in Bytes(k), b \in Bytes(k) : CharAtByte[a] = x /\ CharAtByte[b] = y
  BY DEF Chars
<1>2. PICK m \in DOMAIN CharAtByte : CharAtByte[m] = z
  BY CharactersInOrder
<1>3. a \in DOMAIN CharAtByte /\ b \in DOMAIN CharAtByte
  BY TokensInOrder
<1>4. /\ a \in Int /\ b \in Int /\ m \in Int /\ Start(k) \in Int /\ ends[k] \in Int
      /\ x \in Int /\ y \in Int /\ z \in Int
  <2>1. DOMAIN CharAtByte \subseteq Int /\ DOMAIN CharEnd \subseteq Int
    BY CharactersInOrder, DenoiseAssumption DEF DenoiseAssumption
  <2>2. x \in DOMAIN CharEnd /\ y \in DOMAIN CharEnd
    BY <1>1, <1>3, CharactersInOrder
  <2>3. Start(k) \in Int /\ ends[k] \in Int
    <3>1. ends \in Seq(Nat) /\ k \in 1 .. Len(ends)
      BY DenoiseAssumption DEF DenoiseAssumption, Tokens
    <3> QED BY <3>1 DEF Start
  <2> QED BY <1>2, <1>3, <2>1, <2>2, <2>3
<1>5. CASE m < a
  <2>1. z = x
    BY <1>1, <1>2, <1>3, <1>4, <1>5, CharactersInOrder
  <2> QED BY <2>1
<1>6. CASE b < m
  <2>1. z = y
    BY <1>1, <1>2, <1>3, <1>4, <1>6, CharactersInOrder
  <2> QED BY <2>1
<1>7. CASE a <= m /\ m <= b
  <2>1. m \in Bytes(k)
    BY <1>1, <1>4, <1>7 DEF Bytes
  <2> QED BY <1>2, <2>1 DEF Chars
<1> QED BY <1>4, <1>5, <1>6, <1>7

Own(span) == {k \in Tokens : Touches(k, Places(span))}

\* What OwnTextRoundTrips supposes of a span.
Untouched(span) ==
  /\ span \in Spans /\ Own(span) # {}
  /\ \A k \in Own(span) : Chars(k) \subseteq Places(span) \cup Separator /\ sequence[Len(prefix) + k] = k

LEMMA MaskedIsRun ==
  ASSUME mask \in [Steps -> (SUBSET Fields) \cup {{"whole"}}], NEW span \in Spans
  PROVE  IsRun(Places(span)) /\ Places(span) \subseteq Span[span[1]] /\ span[1] \in Steps
BY DenoiseAssumption DEF DenoiseAssumption, Spans, Places

\* A token of such a span touches no preserved step: one that did would hold an end of
\* that step, which is neither masked nor a separator.
LEMMA OwnIsMasked ==
  ASSUME TextInv, Covers, NEW span, Untouched(span)
  PROVE  Own(span) = {k \in MaskedTokens : Touches(k, Places(span))}
<1>1. ends \in Cuts /\ span \in Spans /\ mask \in [Steps -> (SUBSET Fields) \cup {{"whole"}}]
  BY DEF TextInv, Untouched
<1>2. ASSUME NEW k \in Own(span), NEW t \in Steps \ MaskedSteps PROVE ~Touches(k, Span[t])
  <2> SUFFICES ASSUME Touches(k, Span[t]) PROVE FALSE
    OBVIOUS
  <2>1. k \in Tokens /\ Chars(k) \subseteq Places(span) \cup Separator
    BY DEF Own, Untouched
  <2>2. PICK x \in Chars(k) : x \in Places(span)
    BY DEF Own, Touches
  <2>3. PICK y \in Chars(k) : y \in Span[t]
    BY DEF Touches
  <2>4. /\ span[1] \in Steps /\ Places(span) \subseteq Span[span[1]] /\ Span[span[1]] \cap Span[t] = {}
        /\ IsRun(Span[t])
    <3>1. span[1] \in MaskedSteps
      BY <1>1 DEF Spans, MaskedSteps
    <3> QED BY <1>1, <3>1, MaskedIsRun, DenoiseAssumption DEF DenoiseAssumption
  <2>5. PICK first \in DOMAIN CharEnd \ Separator, last \in DOMAIN CharEnd \ Separator :
          first <= last /\ Span[t] = first .. last
    BY <2>4 DEF IsRun
  <2>6. first \notin Chars(k) /\ last \notin Chars(k)
    <3>1. first \in Span[t] /\ last \in Span[t]
      <4>1. first \in Int /\ last \in Int
        BY DenoiseAssumption DEF DenoiseAssumption
      <4> QED BY <2>5, <4>1
    <3> QED BY <2>1, <2>4, <2>5, <3>1
  <2>7. x \in Int /\ y \in Int /\ first \in Int /\ last \in Int
    <3>1. DOMAIN CharEnd \subseteq Int
      BY DenoiseAssumption DEF DenoiseAssumption
    <3>2. \A b \in Bytes(k) : CharAtByte[b] \in DOMAIN CharEnd
      BY <1>1, <2>1, TokensInOrder, CharactersInOrder
    <3> QED BY <3>1, <3>2 DEF Chars
  <2>8. x \notin Span[t] /\ first <= y /\ y <= last
    BY <2>2, <2>3, <2>4, <2>5, <2>7
  <2>9. CASE x < first
    BY <1>1, <2>1, <2>6, <2>7, <2>8, <2>9, TokensAreRuns
  <2>10. CASE last < x
    BY <1>1, <2>1, <2>6, <2>7, <2>8, <2>10, TokensAreRuns
  <2> QED BY <2>5, <2>7, <2>8, <2>9, <2>10
<1>3. ASSUME NEW k \in Own(span) PROVE k \in MaskedTokens /\ Touches(k, Places(span))
  BY <1>1, <1>2 DEF Own, MaskedTokens
<1>4. MaskedTokens \subseteq Tokens
  BY DEF MaskedTokens
<1> QED BY <1>3, <1>4 DEF Own

\* The range of such a span holds its own tokens, and between them only tokens that
\* stand for no text; each is the token it was.
LEMMA RangeIsOwn ==
  ASSUME TextInv, pc = "filled", NEW span, Untouched(span)
  PROVE  \E low, high \in Own(span) :
           /\ TokenRange(span) = low .. high /\ Own(span) \subseteq low .. high /\ Min(TokenRange(span)) = low
           /\ \A k \in low .. high :
                k \in Tokens /\ sequence[Len(prefix) + k] = k /\ (k \in Own(span) \/ Bytes(k) = {})
<1> DEFINE n == Len(ends)
<1>1. ends \in Cuts /\ Covers /\ Laid /\ span \in Spans /\ mask \in [Steps -> (SUBSET Fields) \cup {{"whole"}}]
  BY DEF TextInv, Untouched
<1>2. n \in Nat /\ Tokens = 1 .. n /\ Own(span) \in SUBSET (1 .. n) /\ Own(span) # {}
  BY <1>1, TokensInOrder DEF Own, Untouched
<1>3. Own(span) \in SUBSET Int /\ IsFiniteSet(Own(span))
  BY <1>2, IndicesAreFinite
<1>4. PICK low \in Own(span) : \A k \in Own(span) : low <= k
  BY <1>2, <1>3, LeastOf
<1>5. PICK high \in Own(span) : \A k \in Own(span) : k <= high
  BY <1>2, <1>3, GreatestOf
<1>6. low \in Int /\ high \in Int /\ low <= high /\ Own(span) \subseteq low .. high
  BY <1>3, <1>4, <1>5
<1>7. Min(Own(span)) = low /\ Max(Own(span)) = high
  <2>1. ASSUME NEW k \in Own(span), \A m \in Own(span) : k <= m PROVE k = low
    BY <1>3, <1>4, <2>1
  <2>2. ASSUME NEW k \in Own(span), \A m \in Own(span) : k >= m PROVE k = high
    BY <1>3, <1>5, <2>2
  <2>3. \A m \in Own(span) : high >= m
    BY <1>3, <1>5
  <2> QED BY <1>4, <2>1, <2>2, <2>3 DEF Min, Max
<1>8. TokenRange(span) = low .. high
  <2>1. Own(span) = {k \in MaskedTokens : Touches(k, Places(span))}
    BY <1>1, OwnIsMasked
  <2> QED BY <1>2, <1>7, <2>1 DEF TokenRange
<1>9. Min(low .. high) = low
  <2>1. low \in low .. high /\ \A k \in low .. high : low <= k
    BY <1>6
  <2>2. ASSUME NEW k \in low .. high, \A m \in low .. high : k <= m PROVE k = low
    BY <1>6, <2>1, <2>2
  <2> QED BY <2>1, <2>2 DEF Min
<1>10. PICK first \in DOMAIN CharEnd, last \in DOMAIN CharEnd : Places(span) = first .. last
  BY <1>1, MaskedIsRun DEF IsRun
<1>11. ASSUME NEW k \in low .. high, k \notin Own(span) PROVE Bytes(k) = {}
  <2> SUFFICES ASSUME NEW m \in Bytes(k) PROVE FALSE
    OBVIOUS
  <2>1. k \in Tokens /\ low \in Tokens /\ high \in Tokens /\ low < k /\ k < high
    BY <1>2, <1>4, <1>5, <1>6, <1>11
  <2>2. PICK a \in Bytes(low) : CharAtByte[a] \in Places(span)
    BY DEF Own, Touches, Chars
  <2>3. PICK b \in Bytes(high) : CharAtByte[b] \in Places(span)
    BY DEF Own, Touches, Chars
  <2>4. /\ a \in DOMAIN CharAtByte /\ b \in DOMAIN CharAtByte /\ m \in DOMAIN CharAtByte
        /\ a < m /\ m < b
    BY <1>1, <2>1, TokensInOrder
  <2>5. DOMAIN CharAtByte \subseteq Int /\ DOMAIN CharEnd \subseteq Int
    BY CharactersInOrder, DenoiseAssumption DEF DenoiseAssumption
  <2>6. a <= m /\ m <= b
    BY <2>4, <2>5
  <2>7. CharAtByte[a] <= CharAtByte[m] /\ CharAtByte[m] <= CharAtByte[b] /\ CharAtByte[m] \in DOMAIN CharEnd
        /\ CharAtByte[a] \in DOMAIN CharEnd /\ CharAtByte[b] \in DOMAIN CharEnd
    BY <2>4, <2>6, CharactersInOrder
  <2>8. CharAtByte[m] \in Places(span)
    BY <1>10, <2>2, <2>3, <2>5, <2>7
  <2> QED BY <1>11, <2>1, <2>8 DEF Own, Touches, Chars
<1>12. ASSUME NEW k \in low .. high
       PROVE  k \in Tokens /\ sequence[Len(prefix) + k] = k /\ (k \in Own(span) \/ Bytes(k) = {})
  <2>1. k \in Tokens
    BY <1>2, <1>4, <1>5, <1>6, <1>12
  <2>2. CASE k \in Own(span)
    BY <2>1, <2>2 DEF Untouched
  <2>3. CASE k \notin Own(span)
    <3>1. Bytes(k) = {}
      BY <1>11, <2>3
    <3>2. Chars(k) = {}
      BY <3>1 DEF Chars
    <3>3. k \notin MasksShown
      BY <3>2, DenoiseAssumption DEF DenoiseAssumption, MasksShown, MaskedTokens, Touches
    <3> QED BY <1>1, <2>1, <3>1, <3>3 DEF Laid
  <2> QED BY <2>2, <2>3
<1> QED BY <1>6, <1>8, <1>9, <1>12

\* So it decodes to the bytes of its own tokens.
LEMMA DecodedIsOwn ==
  ASSUME TextInv, pc = "filled", NEW span, Untouched(span)
  PROVE  /\ ToSet(Decoded(span)) \subseteq Tokens
         /\ TextOf(Decoded(span)) = UNION {Bytes(k) : k \in Own(span)}
<1>1. PICK low \in Own(span), high \in Own(span) :
        /\ TokenRange(span) = low .. high /\ Own(span) \subseteq low .. high /\ Min(TokenRange(span)) = low
        /\ \A k \in low .. high :
             k \in Tokens /\ sequence[Len(prefix) + k] = k /\ (k \in Own(span) \/ Bytes(k) = {})
  BY RangeIsOwn
<1>2. low \in Nat /\ high \in Nat /\ low <= high /\ Len(prefix) \in Nat
  <2>1. Tokens \subseteq Nat
    BY DEF TextInv, FrozenInv, Tokens
  <2>2. low \in Tokens /\ high \in Tokens /\ high \in low .. high
    BY <1>1 DEF Own
  <2> QED BY <2>1, <2>2 DEF TextInv, FrozenInv
<1>3. Cardinality(low .. high) = high - low + 1
  BY <1>2, FS_Interval
<1>4. /\ DOMAIN Decoded(span) = 1 .. high - low + 1
      /\ \A j \in 1 .. high - low + 1 : Decoded(span)[j] = low + j - 1 /\ low + j - 1 \in low .. high
  <2>1. Decoded(span) = [j \in 1 .. high - low + 1 |-> sequence[Len(prefix) + low + j - 1]]
    BY <1>1, <1>3 DEF Decoded
  <2>2. ASSUME NEW j \in 1 .. high - low + 1
        PROVE  low + j - 1 \in low .. high /\ Len(prefix) + low + j - 1 = Len(prefix) + (low + j - 1)
    BY <1>2
  <2> QED BY <1>1, <2>1, <2>2
<1>5. \A k \in low .. high : \E j \in 1 .. high - low + 1 : k = low + j - 1
  <2> TAKE k \in low .. high
  <2>1. k - low + 1 \in 1 .. high - low + 1 /\ k = low + (k - low + 1) - 1
    BY <1>2
  <2> QED BY <2>1
<1>6. ToSet(Decoded(span)) = low .. high
  BY <1>4, <1>5 DEF ToSet
<1>7. TextOf(Decoded(span)) = UNION {Bytes(k) : k \in low .. high}
  <2>1. \A j \in DOMAIN Decoded(span) : Decoded(span)[j] \in low .. high
    BY <1>4
  <2>2. \A k \in low .. high : \E j \in DOMAIN Decoded(span) : Decoded(span)[j] = k
    BY <1>4, <1>5
  <2> QED BY <2>1, <2>2 DEF TextOf
<1>8. UNION {Bytes(k) : k \in low .. high} = UNION {Bytes(k) : k \in Own(span)}
  BY <1>1
<1> QED BY <1>1, <1>6, <1>7, <1>8

\* Stripped of separators, they are the bytes of the span: it has all of these, it starts
\* and ends with what is no separator, and what else its tokens hold is one.
LEMMA StripsToSpan ==
  ASSUME TextInv, Covers, NEW span, Untouched(span)
  PROVE  Stripped(UNION {Bytes(k) : k \in Own(span)}) = {b \in DOMAIN CharAtByte : CharAtByte[b] \in Places(span)}
<1> DEFINE bytes == UNION {Bytes(k) : k \in Own(span)}
           held == {b \in DOMAIN CharAtByte : CharAtByte[b] \in Places(span)}
           solid == {b \in bytes : CharAtByte[b] \notin Separator}
<1>1. ends \in Cuts /\ span \in Spans /\ mask \in [Steps -> (SUBSET Fields) \cup {{"whole"}}]
  BY DEF TextInv, Untouched
<1>2. PICK first \in DOMAIN CharEnd \ Separator, last \in DOMAIN CharEnd \ Separator :
        first <= last /\ Places(span) = first .. last
  BY <1>1, MaskedIsRun DEF IsRun
<1>3. DOMAIN CharAtByte \subseteq Int /\ DOMAIN CharEnd \subseteq Int
  BY CharactersInOrder, DenoiseAssumption DEF DenoiseAssumption
<1>4. \A b \in bytes : b \in DOMAIN CharAtByte /\ CharAtByte[b] \in Places(span) \cup Separator
  <2>1. \A k \in Own(span) : \A b \in Bytes(k) : CharAtByte[b] \in Places(span) \cup Separator
    BY DEF Untouched, Chars
  <2>2. \A k \in Own(span) : Bytes(k) \subseteq DOMAIN CharAtByte
    BY <1>1, TokensInOrder DEF Own
  <2> QED BY <2>1, <2>2
<1>5. held \subseteq bytes
  <2> SUFFICES ASSUME NEW b \in held PROVE b \in bytes
    OBVIOUS
  <2>1. PICK k \in Tokens : b \in Bytes(k)
    BY <1>1, TokensInOrder
  <2>2. k \in Own(span)
    BY <2>1 DEF Own, Touches, Chars
  <2> QED BY <2>1, <2>2
<1> HIDE DEF bytes
<1>6. solid \subseteq held
  BY <1>4
<1>7. ASSUME NEW b \in bytes, NEW low \in solid, NEW high \in solid, low <= b, b <= high PROVE b \in held
  <2>1. /\ CharAtByte[low] <= CharAtByte[b] /\ CharAtByte[b] <= CharAtByte[high]
        /\ CharAtByte[b] \in DOMAIN CharEnd
    BY <1>4, <1>7, CharactersInOrder
  <2>2. CharAtByte[low] \in first .. last /\ CharAtByte[high] \in first .. last
    BY <1>2, <1>6, <1>7
  <2>3. CharAtByte[b] \in first .. last
    BY <1>2, <1>3, <2>1, <2>2
  <2> QED BY <1>2, <1>4, <1>7, <2>3
<1>8. ASSUME NEW c \in {first, last} PROVE \E b \in solid : CharAtByte[b] = c
  <2>1. PICK b \in DOMAIN CharAtByte : CharAtByte[b] = c
    BY <1>8, CharactersInOrder
  <2>2. c \in Places(span) /\ c \notin Separator
    BY <1>2, <1>3, <1>8
  <2> QED BY <1>5, <2>1, <2>2
<1>9. ASSUME NEW b \in held PROVE \E low \in solid : \E high \in solid : low <= b /\ b <= high
  <2>1. b \in bytes /\ b \in DOMAIN CharAtByte /\ b \in Int /\ CharAtByte[b] \in first .. last
    BY <1>2, <1>3, <1>5
  <2>2. \E low \in solid : low <= b
    <3>1. PICK a \in solid : CharAtByte[a] = first
      BY <1>8
    <3>2. a \in DOMAIN CharAtByte /\ a \in Int
      BY <1>3, <1>4
    <3>3. CASE b < a
      <4>1. CharAtByte[b] = first
        <5>1. CharAtByte[b] <= CharAtByte[a]
          BY <2>1, <3>2, <3>3, CharactersInOrder
        <5> QED BY <1>3, <2>1, <3>1, <5>1
      <4>2. b \in solid /\ b <= b
        BY <2>1, <4>1
      <4> QED BY <4>2
    <3>4. CASE ~(b < a)
      BY <2>1, <3>2, <3>4
    <3> QED BY <3>3, <3>4
  <2>3. \E high \in solid : b <= high
    <3>1. PICK a \in solid : CharAtByte[a] = last
      BY <1>8
    <3>2. a \in DOMAIN CharAtByte /\ a \in Int
      BY <1>3, <1>4
    <3>3. CASE a < b
      <4>1. CharAtByte[b] = last
        <5>1. CharAtByte[a] <= CharAtByte[b]
          BY <2>1, <3>2, <3>3, CharactersInOrder
        <5> QED BY <1>3, <2>1, <3>1, <5>1
      <4>2. b \in solid /\ b <= b
        BY <2>1, <4>1
      <4> QED BY <4>2
    <3>4. CASE ~(a < b)
      BY <2>1, <3>2, <3>4
    <3> QED BY <3>3, <3>4
  <2> QED BY <2>2, <2>3
<1>10. Stripped(bytes) = {b \in bytes : \E low \in solid : \E high \in solid : low <= b /\ b <= high}
  BY DEF Stripped
<1> HIDE DEF solid
<1>11. Stripped(bytes) = held
  <2> HIDE DEF held
  <2> QED BY <1>5, <1>7, <1>9, <1>10
<1> QED BY <1>11 DEF bytes

\* For every text, mask and cut: a span the model wrote back as it was decodes to its own
\* text, however its tokens spill over into the separators around it.
THEOREM OwnTextComesBack == Spec => []OwnTextRoundTrips
<1>1. Init => TextInv
  BY FrozenInit DEF Init, TextInv
<1>2. TextInv => OwnTextRoundTrips
  <2> SUFFICES ASSUME TextInv, pc = "filled", NEW span \in Spans, Own(span) # {},
                      \A k \in Own(span) : Chars(k) \subseteq Places(span) \cup Separator /\ sequence[Len(prefix) + k] = k
               PROVE  /\ ToSet(Decoded(span)) \subseteq Tokens
                      /\ Stripped(TextOf(Decoded(span))) = {b \in DOMAIN CharAtByte : CharAtByte[b] \in Places(span)}
    BY DEF OwnTextRoundTrips, Own
  <2>1. Untouched(span) /\ Covers
    BY DEF Untouched, TextInv
  <2> QED BY <2>1, DecodedIsOwn, StripsToSpan
<1> QED BY <1>1, <1>2, TextNext, PTL DEF Spec
=============================================================================
