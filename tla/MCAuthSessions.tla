--------------------------- MODULE MCAuthSessions ---------------------------
EXTENDS LogoutAll, TLC

Symmetry == Permutations(Users) \cup Permutations(Tokens)
=============================================================================
