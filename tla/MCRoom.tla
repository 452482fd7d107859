------------------------------- MODULE MCRoom -------------------------------
(* Instances of Room for TLC. *)
EXTENDS Room, TLC

CONSTANTS u1, u2, u3

MCUsers == {u1, u2, u3}
MCTwoUsers == {u1, u2}

\* The users other than the owner are interchangeable.
MCSymmetry == Permutations({u2, u3})
=============================================================================
