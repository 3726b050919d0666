----------------------------- MODULE MCTokenBars -----------------------------
(* Instances of TokenBars for TLC. *)
EXTENDS TokenBars, TLC

CONSTANTS t1, t2

TwoTokens == {t1, t2}
Interchangeable == Permutations(TwoTokens)
==============================================================================
