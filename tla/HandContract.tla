---------------------------- MODULE HandContract ----------------------------
(***************************************************************************)
(* What a hand promises to the room that plays it: it is settled once, and *)
(* the settlement assigns to every seat a profit that no stack can fail to *)
(* cover and that creates no chips.  ArchiveHandResult of                  *)
(* backend/internal/storage/storage.go relies on it when it adds           *)
(* awards - committed to the wallets.                                      *)
(***************************************************************************)
EXTENDS Integers, Functions

CONSTANT Players

VARIABLES stake,   \* the chips each player brought to the hand
          open,    \* the hand is being played
          profit   \* won minus committed, zero while the hand is open

vars == <<stake, open, profit>>

\* The settlements a room may rely on.
Settlement(p) == /\ p \in [Players -> Int]
                 /\ \A i \in Players : p[i] >= -stake[i]
                 /\ SumFunction(p) <= 0

Init == /\ stake \in [Players -> Nat \ {0}]
        /\ \/ open = TRUE /\ profit = [i \in Players |-> 0]
           \/ open = FALSE /\ Settlement(profit)

Settle == /\ open
          /\ open' = FALSE
          /\ Settlement(profit')
          /\ UNCHANGED stake

Next == Settle

Spec == Init /\ [][Next]_vars
=============================================================================
