----------------------------- MODULE MCPresence -----------------------------
\* An instance of Presence for TLC: the connections of one user.  Users share
\* nothing but the mutex of a room, so a second one adds no behaviour.
EXTENDS Presence, TLC

CONSTANT u1

MCUserOf == [c \in Connections |-> u1]

\* The connections are alike, and so are the rooms.
Alike == Permutations(Connections) \cup Permutations(Rooms)
=============================================================================
