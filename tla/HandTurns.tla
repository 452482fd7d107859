------------------------------ MODULE HandTurns ------------------------------
(***************************************************************************)
(* Hand with a history variable: the seats that still owe an action on the *)
(* street, by the rules of the game and without the engine's HasActed.     *)
(***************************************************************************)
EXTENDS Hand

\* The seats that have not had a turn since the street began or since the bet
\* was last raised by at least the minimum raise.

VARIABLE owing

FullRaise == table'.bet - table.bet >= table.minRaise

OwingInit == owing = Active(table)

OwingNext ==
    owing' = IF stage' # stage THEN Active(table')
             ELSE IF FullRaise THEN Active(table') \ {currentSeat}
             ELSE owing \ {currentSeat}

\* Somebody always acts: in a room the action timer plays for a silent player.
OwingSpec == /\ Init /\ OwingInit
             /\ [][Next /\ OwingNext]_<<vars, owing>>
             /\ WF_<<vars, owing>>(Next /\ OwingNext)

\* Steps: no street closes, into the next one or into the showdown, before every
\* seat that can still act has had its turn since the last full raise, the big
\* blind's option included (bettingRoundComplete, resetActedExcept,
\* resetStreetState); only when the others have folded may seats be left.
NobodySkipped ==
    [][stage' # stage /\ ~OnlyOneLive(table')
          => owing \cap Active(table') \subseteq {currentSeat}]_<<vars, owing>>
=============================================================================
