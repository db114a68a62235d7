---------------------------- MODULE MCChatHistory ----------------------------
EXTENDS ChatHistory, TLC

\* No property of the run is a liveness property.
Symmetry == Permutations(Users) \cup Permutations(Sessions) \cup Permutations(Turns)
=============================================================================
