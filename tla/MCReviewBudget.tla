--------------------------- MODULE MCReviewBudget ---------------------------
(* ReviewBudget for TLC.  Two models have a price and one has none; a call *)
(* may be estimated at one or two input tokens and report none or three.   *)
EXTENDS ReviewBudget, TLC

CONSTANTS cheap, dear, unpriced

Tokens(i, o) == [t \in Token |-> IF t = "input_tokens" THEN i ELSE o]

Prices == [mdl \in Model |-> CASE mdl = cheap    -> Tokens(1, 1)
                               [] mdl = dear     -> Tokens(1, 2)
                               [] mdl = unpriced -> Unpriced]
Ceilings(i, o, c) ==
    [m \in Meter |-> IF m = "input_tokens" THEN i
                     ELSE IF m = "output_tokens" THEN o ELSE c]
TightLimit == Ceilings(3, 2, 5)
Estimates == {Tokens(1, 1), Tokens(2, 1)}
Usages == {Tokens(0, 1), Tokens(3, 1)}
Symmetry == Permutations(Call)
=============================================================================
