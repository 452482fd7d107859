-------------------------------- MODULE Hand --------------------------------
(***************************************************************************)
(* One hand of poker: the engine of backend/internal/game/game.go.         *)
(*                                                                         *)
(* Game.New is the initial predicate; Game.Apply is one action per command *)
(* (Fold, Check, Call, Bet, Raise, AllIn), each with all that Apply does   *)
(* after the command: the settlement by folds, the run-out when nobody can *)
(* act, the next street, or the next actor.                                *)
(*                                                                         *)
(* Cards are abstracted: a showdown compares an arbitrary strength of each *)
(* live hand (an element of Ranks).  The recorded actions and snapshots,   *)
(* hence Version, are left out; no rule of the engine reads them.          *)
(***************************************************************************)
EXTENDS Integers, FiniteSets, FiniteSetsExt, Pots

CONSTANTS NumSeats,  \* number of seats, numbered 1..NumSeats
          Button,    \* ButtonSeat
          Bettings,  \* the betting structures a hand may be created with
          BuyIns,    \* the stacks a hand may be created with
          Amounts,   \* the amounts that requests carry
          Ranks,     \* hand strengths at showdown
          Guided     \* TRUE: every request comes from the table's controls

Seats == 1..NumSeats

BlindsStructures ==
    {b \in [type : {"blinds"}, smallBlind : Nat \ {0}, bigBlind : Nat \ {0}] :
        b.smallBlind < b.bigBlind}
AnteStructures ==
    [type : {"ante"}, ante : Nat \ {0}, buttonBlind : Nat \ {0}]

\* validateSeats and normalizeBettingStructure reject every other configuration.
ASSUME SeatsAssumption == NumSeats \in 2..10 /\ Button \in Seats
ASSUME BettingsAssumption == Bettings \subseteq BlindsStructures \cup AnteStructures
ASSUME BuyInsAssumption == BuyIns \subseteq [Seats -> Nat \ {0}]
ASSUME RequestsAssumption == Amounts \subseteq Int /\ Guided \in BOOLEAN
ASSUME RanksAssumption == Ranks \subseteq Nat

Stages == {"preflop", "flop", "turn", "river", "finished"}
Statuses == {"active", "folded", "all_in"}

VARIABLES betting,      \* Betting
          buyIn,        \* the stacks the hand was created with
          stage,        \* Stage, as an observer between two calls sees it
          currentSeat,  \* CurrentSeat, 0 when nobody is to act
          table         \* the fields of Seats, CurrentBet and MinRaise

vars == <<betting, buyIn, stage, currentSeat, table>>

-----------------------------------------------------------------------------
\* Seats

\* Mutant of NextSeat: no wrap around the table.
SeatPlusOne(s) == s + 1

NextSeat(s) == (s % NumSeats) + 1

Active(t) == {s \in Seats : t.status[s] = "active"}
Live(t) == {s \in Seats : t.status[s] \in {"active", "all_in"}}

\* How many seats clockwise from s to u.
Distance(s, u) == (u - s) % NumSeats

\* The first active seat clockwise after s, s itself excluded; 0 if none.
NextActorAfter(t, s) ==
    LET others == Active(t) \ {s}
    IN  IF others = {} THEN 0
        ELSE CHOOSE u \in others :
                 \A v \in others : Distance(s, u) <= Distance(s, v)

\* The table with other chips and statuses, and with another state of the
\* betting round.
WithChips(t, stack, status, street, hand) ==
    [stack |-> stack, status |-> status, street |-> street, hand |-> hand,
     acted |-> t.acted, bet |-> t.bet, minRaise |-> t.minRaise]

WithRound(t, acted, bet, minRaise) ==
    [stack |-> t.stack, status |-> t.status, street |-> t.street, hand |-> t.hand,
     acted |-> acted, bet |-> bet, minRaise |-> minRaise]

-----------------------------------------------------------------------------
\* Forced bets

SmallBlindSeat == IF NumSeats = 2 THEN Button ELSE NextSeat(Button)
BigBlindSeat == NextSeat(SmallBlindSeat)

ForcedBet(b, s) ==
    IF b.type = "ante"
    THEN b.ante + (IF s = Button THEN b.buttonBlind ELSE 0)
    ELSE IF s = SmallBlindSeat THEN b.smallBlind
    ELSE IF s = BigBlindSeat THEN b.bigBlind
    ELSE 0

Smaller(m, n) == IF m < n THEN m ELSE n

\* commitForced: a short stack posts what it has.
ForcedPaid(b, stacks, s) == Smaller(ForcedBet(b, s), stacks[s])

MinimumOpenBet(b) == IF b.type = "ante" THEN b.buttonBlind ELSE b.bigBlind

\* CurrentBet after the forced bets: what the big blind really posted, or the
\* highest ante with the button's blind.
OpeningBet(b, stacks) ==
    IF b.type = "ante"
    THEN CHOOSE m \in {ForcedPaid(b, stacks, s) : s \in Seats} :
             \A s \in Seats : ForcedPaid(b, stacks, s) <= m
    ELSE ForcedPaid(b, stacks, BigBlindSeat)

AfterForcedBets(b, stacks) ==
    [stack    |-> [s \in Seats |-> stacks[s] - ForcedPaid(b, stacks, s)],
     status   |-> [s \in Seats |-> IF ForcedPaid(b, stacks, s) = stacks[s]
                                   THEN "all_in" ELSE "active"],
     street   |-> [s \in Seats |-> ForcedPaid(b, stacks, s)],
     hand     |-> [s \in Seats |-> ForcedPaid(b, stacks, s)],
     acted    |-> [s \in Seats |-> FALSE],
     bet      |-> OpeningBet(b, stacks),
     minRaise |-> MinimumOpenBet(b)]

PreflopFirstActor(b, t) ==
    IF b.type = "ante" THEN NextActorAfter(t, Button)
    ELSE IF NumSeats = 2 THEN Button
    ELSE NextSeat(BigBlindSeat)

-----------------------------------------------------------------------------
\* Settlement

OnlyOneLive(t) == Cardinality(Live(t)) = 1

\* Mutant of NobodyCanAct: the next street waits for an action all the same.
NoRunOut(t) == FALSE

NobodyCanAct(t) == Active(t) = {} /\ Cardinality(Live(t)) > 1

\* refreshPots runs after every command and before every settlement, so the
\* pots are those of the current commitments.
PotsOf(t) == Build(t.hand, Live(t))

NoChips == [s \in Seats |-> 0]
NobodyActed == [s \in Seats |-> FALSE]

ResetStreet(b, t) ==
    WithRound(WithChips(t, t.stack, t.status, NoChips, t.hand),
              NobodyActed, 0, MinimumOpenBet(b))

Paying(t, award) ==
    WithChips(t, [s \in Seats |-> t.stack[s] + award[s]], t.status, t.street, t.hand)

\* settleByFolds, and the end of the betting round that Apply adds.
SettledByFolds(t) ==
    LET total == PotTotal(PotsOf(t))
    IN  WithRound(Paying(t, [s \in Seats |-> IF s \in Live(t) THEN total ELSE 0]),
                  t.acted, 0, t.minRaise)

SettledByShowdown(t, rank) ==
    LET pots == PotsOf(t)
    IN  Paying(t, [s \in Seats |-> AwardTo(pots, rank, Button, NumSeats, s)])

-----------------------------------------------------------------------------
\* Game.New

Init ==
    /\ betting \in Bettings
    /\ buyIn \in BuyIns
    /\ LET t == AfterForcedBets(betting, buyIn)
       IN  \/ /\ ~NobodyCanAct(t)
              /\ table = t
              /\ stage = "preflop"
              /\ currentSeat = PreflopFirstActor(betting, t)
           \/ /\ NobodyCanAct(t)
              /\ \E rank \in [Live(t) -> Ranks] :
                     table = SettledByShowdown(ResetStreet(betting, t), rank)
              /\ stage = "finished"
              /\ currentSeat = 0

-----------------------------------------------------------------------------
\* The tail of Apply, once seat s has acted and left the table as t.

Street(st) == CASE st = "preflop" -> "flop"
                [] st = "flop"    -> "turn"
                [] st = "turn"    -> "river"
                [] st = "river"   -> "finished"

\* Mutants of BettingRoundComplete: a seat that matches the bet loses its
\* option; a seat that acted need not match a later short all-in.
BetsMatched(t) == \A s \in Active(t) : t.street[s] = t.bet
EverybodyActed(t) == \A s \in Active(t) : t.acted[s]

BettingRoundComplete(t) ==
    \A s \in Active(t) : t.acted[s] /\ t.street[s] = t.bet

WinByFolds(t) ==
    /\ OnlyOneLive(t)
    /\ table' = SettledByFolds(t)
    /\ stage' = "finished"
    /\ currentSeat' = 0

Showdown(t) ==
    /\ \E rank \in [Live(t) -> Ranks] :
           table' = SettledByShowdown(ResetStreet(betting, t), rank)
    /\ stage' = "finished"
    /\ currentSeat' = 0

\* advanceStreet before the river
NextStreet(t) ==
    /\ table' = ResetStreet(betting, t)
    /\ stage' = Street(stage)
    /\ currentSeat' = NextActorAfter(t, Button)

NextActor(t, s) ==
    /\ table' = t
    /\ currentSeat' = NextActorAfter(t, s)
    /\ UNCHANGED stage

AfterTable(t, s) ==
    \/ WinByFolds(t)
    \/ /\ NobodyCanAct(t)
       /\ Showdown(t)
    \/ /\ ~OnlyOneLive(t) /\ ~NobodyCanAct(t)
       /\ \/ BettingRoundComplete(t) /\ stage = "river" /\ Showdown(t)
          \/ BettingRoundComplete(t) /\ stage # "river" /\ NextStreet(t)
          \/ ~BettingRoundComplete(t) /\ NextActor(t, s)

\* The singleton makes TLC evaluate the result of the command once.
After(result, s) ==
    /\ \E t \in {result} : AfterTable(t, s)
    /\ UNCHANGED <<betting, buyIn>>

-----------------------------------------------------------------------------
\* Commands

\* The payment of an amount by seat s; a seat without chips is all in.  A
\* negative amount puts chips back into the stack.
Pay(t, s, paid) ==
    WithChips(t, [t.stack  EXCEPT ![s] = @ - paid],
                 [t.status EXCEPT ![s] = IF t.stack[s] = paid THEN "all_in" ELSE @],
                 [t.street EXCEPT ![s] = @ + paid],
                 [t.hand   EXCEPT ![s] = @ + paid])

\* Mutant of Commit: not capped at the stack.
CommitInFull(t, s, amount) == Pay(t, s, amount)

Commit(t, s, amount) == Pay(t, s, Smaller(amount, t.stack[s]))

\* Mutant of ActedToo: the action is not marked.
NotMarked(t, s) == t.acted

\* HasActed after an action of seat s: the others keep theirs, or, after a bet
\* or raise of full size (resetActedExcept), the active ones lose it.
ActedToo(t, s) == [t.acted EXCEPT ![s] = TRUE]
ActedAlone(t, s) == [u \in Seats |-> u = s \/ (t.acted[u] /\ u \notin Active(t))]

CanAct(s) == /\ stage # "finished"
             /\ s = currentSeat
             /\ table.status[s] = "active"

\* LegalActions, for the seat to act.
LegalActions(s) ==
    {"fold", "all_in"} \cup
    IF table.street[s] = table.bet
    THEN {"check"} \cup IF table.bet = 0 THEN {"bet"} ELSE {}
    ELSE {"call", "raise"}

\* calculateBetAmountBounds and clampBetAmount of bettingControls.ts.
ControlBounds(s, type) ==
    LET most == table.street[s] + table.stack[s]
        full == IF type = "raise" THEN table.bet + table.minRaise
                                  ELSE table.minRaise
    IN  Smaller(full, most)..most

\* The requests that reach the engine: with Guided only what the table's
\* buttons offer, otherwise whatever a client of the API sends.
Requested(s, type, amount) ==
    Guided => /\ type \in LegalActions(s)
              /\ type \in {"bet", "raise"} => amount \in ControlBounds(s, type)

Acting(t, s) == WithRound(t, ActedToo(t, s), t.bet, t.minRaise)

Folded(s) ==
    Acting(WithChips(table, table.stack, [table.status EXCEPT ![s] = "folded"],
                     table.street, table.hand), s)

Fold(s) ==
    /\ CanAct(s)
    /\ Requested(s, "fold", 0)
    /\ After(Folded(s), s)

Check(s) ==
    /\ CanAct(s)
    /\ Requested(s, "check", 0)
    /\ table.street[s] = table.bet
    /\ After(Acting(table, s), s)

\* Mutant of Missing: counts what the seat paid on earlier streets too.
MissingFromHand(s, total) == total - table.hand[s]

\* What seat s must add to reach a total of the street.
Missing(s, total) == total - table.street[s]

Called(s) == Acting(Commit(table, s, Missing(s, table.bet)), s)

Call(s) ==
    /\ CanAct(s)
    /\ Requested(s, "call", 0)
    /\ table.bet > table.street[s]
    /\ After(Called(s), s)

WithBet(s, amount) ==
    LET t == Commit(table, s, amount)
    IN  WithRound(t, ActedAlone(t, s), t.street[s], amount)

Bet(s, amount) ==
    /\ CanAct(s)
    /\ Requested(s, "bet", amount)
    /\ table.bet = 0
    /\ amount >= MinimumOpenBet(betting)
    /\ After(WithBet(s, amount), s)

\* The target of a raise is the total of the street; only the commitment is
\* capped at the stack, raiseBy is computed from the amount asked for.
Raised(s, amount) ==
    LET raiseBy == amount - table.bet
        t == Commit(table, s, Missing(s, amount))
    IN  IF raiseBy >= table.minRaise
        THEN WithRound(t, ActedAlone(t, s), t.street[s], raiseBy)
        ELSE WithRound(t, ActedToo(t, s), t.street[s], t.minRaise)

Raise(s, amount) ==
    /\ CanAct(s)
    /\ Requested(s, "raise", amount)
    /\ amount > table.bet
    /\ \/ amount - table.bet >= table.minRaise
       \/ amount >= table.street[s] + table.stack[s]
    /\ After(Raised(s, amount), s)

PutAllIn(s) ==
    LET allInTo == table.street[s] + table.stack[s]
        raiseBy == allInTo - table.bet
        t == Commit(table, s, table.stack[s])
    IN  IF raiseBy >= table.minRaise
        THEN WithRound(t, ActedAlone(t, s), allInTo, raiseBy)
        ELSE WithRound(t, ActedToo(t, s), IF raiseBy > 0 THEN allInTo ELSE t.bet, t.minRaise)

AllIn(s) ==
    /\ CanAct(s)
    /\ Requested(s, "all_in", 0)
    /\ After(PutAllIn(s), s)

Next == \E s \in Seats : \/ Fold(s)
                         \/ Check(s)
                         \/ Call(s)
                         \/ AllIn(s)
                         \/ \E amount \in Amounts : Bet(s, amount) \/ Raise(s, amount)

Spec == Init /\ [][Next]_vars

-----------------------------------------------------------------------------
\* Properties

\* The records with the fields of a table; the stacks are typed apart.
TableType(stacks) ==
    [stack : {stacks}, status : [Seats -> Statuses],
     street : [Seats -> Nat], hand : [Seats -> Nat], acted : [Seats -> BOOLEAN],
     bet : Nat, minRaise : Nat \ {0}]

\* The types of the variables.  What a settled hand adds to the stacks is a
\* sum over the pots: SettlementExact says what it comes to.
TypeOK ==
    /\ betting \in Bettings
    /\ buyIn \in BuyIns
    /\ stage \in Stages
    /\ currentSeat \in Seats \cup {0}
    /\ table \in TableType(table.stack)
    /\ stage # "finished" => table.stack \in [Seats -> Nat]

\* Until the settlement every chip a seat brought is in its stack or in the
\* pots, a seat that can act has chips and an all-in seat has none (Apply,
\* commit: a raise may commit a negative amount).
ChipsBehind ==
    stage # "finished" =>
        \A s \in Seats : /\ table.stack[s] + table.hand[s] = buyIn[s]
                         /\ table.status[s] = "active" => table.stack[s] > 0
                         /\ table.status[s] = "all_in" => table.stack[s] = 0

\* Between two streets all seats that can still act have paid the same into
\* the pots, although each street only compares the payments of that street
\* and short blinds, capped raises and antes are not equal payments.
EqualStakes ==
    stage # "finished" =>
        \A s, u \in Active(table) :
            table.hand[s] - table.street[s] = table.hand[u] - table.street[u]

Won(s) == table.stack[s] + table.hand[s] - buyIn[s]

\* A pot of a showdown that no live seat is eligible for.
Unclaimed(level) == PotsOf(table)[level].eligible = {}

UnclaimedTotal ==
    IF Cardinality(Live(table)) = 1 THEN 0
    ELSE SumFunctionOnSet([level \in DOMAIN PotsOf(table) |-> PotsOf(table)[level].amount],
                          {level \in DOMAIN PotsOf(table) : Unclaimed(level)})

\* The settlement pays out all the pots, odd chips included, to the chip,
\* except a pot of a showdown that nobody is eligible for (refreshPots,
\* settleByFolds, settleShowdown, SplitAward).
SettlementExact ==
    stage = "finished" =>
        SumFunction([s \in Seats |-> Won(s)]) = SumFunction(table.hand) - UnclaimedTotal

\* A folded seat wins nothing, and at a showdown a seat wins from each
\* opponent at most what it has itself put in (pot.Build, EligibleSeats).
SidePotRule ==
    stage = "finished" =>
        \A s \in Seats :
            /\ Won(s) >= 0
            /\ table.status[s] = "folded" => Won(s) = 0
            /\ Cardinality(Live(table)) > 1 =>
                   Won(s) <= SumFunction([u \in Seats |-> Smaller(table.hand[u], table.hand[s])])

\* Steps: chips never come back from the pots before the settlement, and the
\* cards of a folded seat stay folded (commit, Apply).
CommittedChipsStay ==
    [][\A s \in Seats : /\ table'.hand[s] >= table.hand[s]
                        /\ table.status[s] = "folded" => table'.status[s] = "folded"
                        /\ s # currentSeat => table'.hand[s] = table.hand[s]]_vars

EqualStacks == \A s, u \in Seats : buyIn[s] = buyIn[u]

\* A hand between equal stacks whose seats never stop acting is settled
\* (advanceStreet, nextActorAfter, bettingRoundComplete).
HandEnds == EqualStacks => <>(stage = "finished")

\* While the hand is not settled there is a seat that the engine lets act.
SomebodyCanAct == stage # "finished" => \E s \in Seats : CanAct(s)

\* A hand between equal stacks is never stuck, whatever is requested: the blinds,
\* the end of a street and the end of a turn leave it settled or with a seat to
\* act that can (preflopFirstActor, advanceStreet, nextActorAfter).
EvenHandsPlayOn == EqualStacks => SomebodyCanAct

StreetsLeft == [preflop |-> 4, flop |-> 3, turn |-> 2, river |-> 1, finished |-> 0]
ChipsLeft(t) == SumFunction(t.stack)

\* The seats that keep the betting round open.
Asked(t) == {s \in Active(t) : ~t.acted[s] \/ t.street[s] # t.bet}

\* Steps: between equal stacks every command brings the settlement nearer,
\* whatever is requested: it closes the street, puts chips into the pots, or
\* leaves a seat less to ask (Apply, resetActedExcept, bettingRoundComplete).
EvenHandsAdvance ==
    [][EqualStacks =>
          \/ StreetsLeft[stage'] < StreetsLeft[stage]
          \/ /\ stage' = stage
             /\ \/ ChipsLeft(table') < ChipsLeft(table)
                \/ /\ ChipsLeft(table') = ChipsLeft(table)
                   /\ Cardinality(Asked(table')) < Cardinality(Asked(table))]_vars

\* Every pot of a showdown has a winner.
EveryPotHasAWinner ==
    stage = "finished" /\ Cardinality(Live(table)) > 1 =>
        \A level \in DOMAIN PotsOf(table) : ~Unclaimed(level)

\* What the room sees of the hand.
Contract == INSTANCE HandContract
            WITH Players <- Seats,
                 stake   <- buyIn,
                 open    <- (stage # "finished"),
                 profit  <- [s \in Seats |-> IF stage = "finished"
                                             THEN table.stack[s] - buyIn[s] ELSE 0]

\* The hand implements its contract with the room.
ImplementsContract == Contract!Spec
=============================================================================
