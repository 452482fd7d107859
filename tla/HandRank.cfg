SPECIFICATION Spec
CONSTANTS
    Suits = {s, h, d, c}
    InPlay <- MCInPlay
SYMMETRY Alike
INVARIANTS
    BestIsWorth
    HandsAreOrdered
\* Seven cards are dealt at most.
CHECK_DEADLOCK FALSE
