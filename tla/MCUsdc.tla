------------------------------- MODULE MCUsdc -------------------------------
(***************************************************************************)
(* Constants for model-checking Usdc: every text over a small alphabet, up *)
(* to one digit more than fits before and after the point.                 *)
(***************************************************************************)
EXTENDS Usdc

Chars == Digit \cup {Plus, Other}

MCTexts ==
  [whole : BoundedSeq(Chars, 2), point : {TRUE}, frac : BoundedSeq(Chars, Decimals + 1)]
    \cup [whole : BoundedSeq(Chars, 4), point : {FALSE}, frac : {<< >>}]

=============================================================================
