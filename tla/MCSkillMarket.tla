--------------------------- MODULE MCSkillMarket ---------------------------
EXTENDS SkillMarket, TLC

CONSTANTS ann, bob, plain, keyed, stray, r1, r2, r3, a1, a2

(* bob sells a plain skill and one that needs an API key; the third skill has
   no uploader and a price half of which is nothing. *)
MCPrice == [s \in Skills |-> IF s = stray THEN 1 ELSE 4]
MCRequiredEnv == [s \in Skills |-> s = keyed]
MCUploader == [s \in Skills |-> IF s = stray THEN Nobody ELSE bob]

Symmetry == Permutations(Requests)
=============================================================================
