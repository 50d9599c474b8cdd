---------------------------- MODULE MCMediaUpload ----------------------------
EXTENDS MediaUpload, TLC

CONSTANTS i1, i2

\* The token of i2 expires with its first grant, that of i1 later than the clock runs.
MCTokenExpires == i1 :> MaxTime + 1 @@ i2 :> MaxTime

\* No two calls and no two contents are told apart.
Symmetry == Permutations(Call) \cup Permutations(Content)
==============================================================================
