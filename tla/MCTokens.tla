------------------------------ MODULE MCTokens ------------------------------
(* Few tokens, two values.                                                 *)
EXTENDS TokenProperties, TLC

CONSTANTS one, two

Both == {one, two}
BothBase == {Both}
OnlyOne == {{one}}
Permuted == Permutations(Token)
=============================================================================
