---------------------------- MODULE MCGameStore ----------------------------
\* An instance of GameStore for TLC: the requests are alike.
EXTENDS GameStore, TLC

Alike == Permutations(Requests)
=============================================================================
