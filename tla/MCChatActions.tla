--------------------------- MODULE MCChatActions ----------------------------
EXTENDS ChatActions, TLC

Symmetry == Permutations(Threads)
=============================================================================
