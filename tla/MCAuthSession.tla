---------------------------- MODULE MCAuthSession ----------------------------
EXTENDS AuthSession, TLC

\* No two calls, sessions or tokens are told apart.
Symmetry == Permutations(Call) \cup Permutations(Session) \cup Permutations(Token)
==============================================================================
