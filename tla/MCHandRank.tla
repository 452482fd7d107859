----------------------------- MODULE MCHandRank -----------------------------
\* An instance of HandRank for TLC.
EXTENDS HandRank, TLC

\* The wheel and the straight above it, of both rule sets.
MCInPlay == [long |-> 2..6 \cup {14}, short |-> 6..10 \cup {14}]

\* No suit is better than another.
Alike == Permutations(Suits)
=============================================================================
