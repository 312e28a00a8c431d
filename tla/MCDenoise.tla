----------------------------- MODULE MCDenoise -----------------------------
(* A text of two steps: an indent, the first step, a separator, the second
   step, a closing.  One character of the first step costs two bytes.  It is cut
   in every way there is into at most five tokens, and into tokens that miss it. *)
EXTENDS Denoise

\*              .  a  a  ,  b  b  .
MCCharEnd == << 1, 3, 4, 5, 6, 7, 8 >>
MCSpan == [s \in Steps |-> IF s = "a" THEN 2 .. 3 ELSE 5 .. 6]
MCFieldValue ==
  [x \in Steps \X Fields |-> IF x[1] = "a" THEN IF x[2] = "tool" THEN {2} ELSE {3}
                             ELSE IF x[2] = "tool" THEN {5} ELSE {6}]

\* No token is longer than four bytes.
Length(cut, k) == cut[k] - IF k = 1 THEN 0 ELSE cut[k - 1]
CutsOf(n) ==
  {cut \in UNION {[1 .. m -> 1 .. n] : m \in 1 .. 5} :
     Last(cut) = n /\ \A k \in DOMAIN cut : Length(cut, k) \in 1 .. 4}

MCCuts == CutsOf(8) \cup {<<0, 4, 8>>, <<0, 1, 4, 5, 7, 8>>, <<4, 4, 8>>, <<4, 7>>, <<4, 9>>}
MCMaskTexts == {{5, 6}}
MCHints == {<<HINT>>, <<HINT, HINT>>, <<HINT, MASK>>}
=============================================================================
