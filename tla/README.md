# DePu: a verification project

TLA+ modules, model-checking configurations and machine-checked proofs for the
poker server and table of this repository: a Go backend (`backend/`), MySQL,
and a Vue front end (`frontend/`). Every definition is translated from the Go
and TypeScript source; `PROJECT.json` ("map") names the lines.

## The system

| Part | State it keeps | Operations | Talks to |
|---|---|---|---|
| Hand engine, `backend/internal/game/game.go` | one `Game`: stage, seats (stack, committed chips, status, HasActed), CurrentBet, MinRaise, CurrentSeat, pots | `New`, `Apply` (fold, check, call, bet, raise, all_in), `SetDebugCards` | pots, evaluation, rules |
| Pots, `backend/internal/pot/pot.go` | none | `Build`, `SplitAward` | called by the engine |
| Evaluation and rules, `handeval`, `rules` | none | `Evaluate`, `Compare`, tables | called by the engine |
| Rooms, seats, wallets, `storage.go`, `server.go` | rooms, room_members, room_seats, wallets, wallet_transactions, hand_results | join, take and leave seat, leave room, start hand, archive a hand, recharge | engine, store, hub |
| Table turns, `socket.go`, `server.go` | `timerVersion` per room, sleeping goroutines | start, action, action timeout, automatic next hand | rooms, engine; under the room's mutex |
| Game store, `storage.go`, `server.go` | games, actions, snapshots | save, load, history, snapshot, `/api/games` | engine |
| Socket hub, `socket.go` | connections, subscriptions, presence, action log, chat | subscribe, unsubscribe, connect, disconnect, broadcast | client state |
| Client state, `useAppState.ts`, `socketClient.ts` | accepted room and hand versions, socket, pending commands | apply events and snapshots, reconnect | hub |
| Accounts, routing, framing, pages, scripts | sessions, layout | | |

What is hard in it:

* **The betting round.** When a street closes, who acts next, when nobody can
  act any more, and what a short stack may do are spread over `HasActed`,
  `CurrentBet`, `MinRaise` and seat statuses that several functions write.
* **The side pots** of several all-ins and folds, with odd chips.
* **Concurrency.** Start, action and leave-room commands take a mutex per
  room; seat changes and recharges do not. Transactions lock some of the rows
  they read and not others.
* **Timers.** A goroutine per turn and per settlement sleeps, and only a
  version number says whether it still counts.
* **Failure.** A settlement that cannot be archived is rolled back.
* **Ordering** of broadcasts, snapshots and reconnects at the client.
* **Overlapping saves.** The requests of `/api/games` load, check a version,
  change and save without a lock.
* **Counting** connections: subscriptions, leaves and lost connections change
  the presence counters and broadcast the changes outside the hub's lock.

What makes each part correct: a hand neither creates nor loses chips, asks
everybody who owes an action, and ends; the best hand wins; a room's tables
agree and hands do not overlap; a turn has its timer and a timer its turn; a
version counts once and a replay shows the game that was played; a connected
user is online and a room knows it; a client catches up, and no event takes it
back to an older step of its hand.

## Modules

| Module | Models | Correspondence |
|---|---|---|
| `Pots` | `pot.go`, and the awarding part of `settleShowdown` | `Build`, `SplitAward`, `AwardTo` are operators; each level of the contributions is one pot |
| `Hand` | `game.go` | `table` holds the fields of the seats and of the betting round; one action per `ActionType`; `After` is the tail of `Apply` that every action runs (settle by folds, run out, next street, next actor) |
| `HandContract` | what a room relies on | a hand is open, then settles once, with profits that sum to zero or lose the unclaimed pots, never more than a stake |
| `HandTurns` | `Hand` with the history variable `owing` | who still owes an action on the street by the rules of the game, independent of `HasActed` |
| `HandRank` | `evaluator.go`, `rules.go` | cards are dealt one by one; `Evaluate` is the best of the `evaluateFive` of all combinations. `Worth`, the reference, reads the strongest class and its ranks off all the cards |
| `Room` | storage transactions and the commands that call them | a locked transaction is one action; a read followed by an unlocked write is a `...Read`, a record in `pending` and a `...Write`; `Abort` is a failure of the database or a stop of the server between them |
| `TableTurns` | timers and turns | `timers` is the set of sleeping goroutines, `version` is `timerVersion`, `Arm` is `scheduleActionTimeout`, `StartNext` the body of `scheduleAutoNextHand`; `Restart` is a new process with an empty hub |
| `GameStore` | one stored game, `/api/games`, `Save`, `Load`, `History`, `SnapshotAt` | a game is the sequence of its recorded actions and its version their number; a request is loaded, changed, saving, done; `replay` is a reader that goes through the steps one by one |
| `Presence` | `socketHub`: connections, subscriptions, counters | every method of the hub is one step under its lock; `handleSubscribe` is `Check`, `Subscribe`, `MarkOnline`, `AnnounceOnline`; `remove` is `Remove` and one `AnnounceOffline` for each change |
| `RoomFeed` | commits, broadcasts, a connection and the client's version rules | a room is its version, a hand its number and version; a message is made when it is written; `shown` is what the page shows together with `acceptedRoomVersion`, `acceptedHandId`, `acceptedHandVersion`, `awaitingReconnectSnapshot` |
| `MCHand`, `MCHandTurns`, `MCHandRank`, `MCRoom`, `MCGameStore`, `MCPresence` | instances for TLC | stacks, structures, ranks, users, symmetry |
| `SumProofs` | sums of integers over finite sets | lemmas for the pots and the wallets |
| `HandProofs`, `HandRankProofs`, `TableTurnsProofs`, `RoomProofs`, `GameStoreProofs`, `PresenceProofs`, `RoomFeedProofs` | the theorems | each extends the module it is about, `HandProofs` with `Pots` |

`Room` uses `HandContract` for the hand that is played in it, and `Hand` is
shown to implement the same contract (`ImplementsContract`). `Hand` takes any
ranking of the seats at a showdown; `HandRank` shows that the code's ranking is
one, total and with ties only between equal hands. `TableTurns` abstracts the
hand to whose turn it is and the room to whether a hand can start; what it
needs from the room, that hands do not overlap and that a settlement clears the
current game, is what `Room` checks. All of them take a room's hand to be played by
the room's commands (see the deviations for `/api/games`). `RoomFeed` composes the server's half of
the events with the client's half.

Abstractions: cards appear only in `HandRank`. A room's versions appear only in
`RoomFeed`, names and notes nowhere. Stacks and amounts are natural numbers
without overflow (the buy-in is capped at a million). `Guided = TRUE` restricts
the amounts to those that `bettingControls.ts` can produce, `FALSE` allows any
amount of `Amounts`. In `GameStore` the actions are distinguished by their
type, the request that made them and the version it was sent with; whether
`Apply` accepts an action is a choice, except where the game is finished or the
debug cards are locked. A connection delivers its messages in order until it
ends, which is what a websocket does.

## Runs

| Run | Shows |
|---|---|
| `hand_api` | types, `ChipsBehind`, `EqualStakes`, `SettlementExact`, `SidePotRule` for three seats and any amount of an API client; `EvenHandsPlayOn`, `EvenHandsAdvance`: a hand between equal stacks never sticks, and every command brings its settlement nearer |
| `hand_turns` | `CommittedChipsStay`, `NobodySkipped` (no street closes, the river into the showdown included, over a seat that owes an action), `HandEnds`, `ImplementsContract` for three seats with the table's controls |
| `hand_rank` | `BestIsWorth`: the best of the combinations is what all the cards are worth; `HandsAreOrdered`: the order of hands is total and ties are equal hands |
| `room` | `RoomConsistent`, `ChipsAccountedFor`, `HandsDoNotOverlap` under all interleavings of requests |
| `table_turns` | `TimerArmed`, `TimeoutPlaysItsTurn`, `NextHandFollowsItsSettlement`, `TurnEnds`, `TablePlaysOn`, with restarts |
| `game_store` | `TablesAgree`, `OncePerVersion` whatever requests overlap; `ReplayFaithful`, `ReplayOfOneGame` while none saves over another |
| `presence` | `OnlineWhileConnected`, `CountsExact`, `Announced` under all interleavings of connections and leaves |
| `room_feed` | `CaughtUp`: after everything has arrived the client shows the server's hand, and the room as of its last change; `HearsOfEveryVersion`: also after races it has accepted a message of the last version of the room, unless it was never told; `HandNeverGoesBack`: no event brings back an older step or an older hand |

Four runs show a disagreement of the code with the documents of the
repository; `PROJECT.json` ("findings") quotes the lines:

| Run | What happens |
|---|---|
| `hand_stuck` | one active seat is left against all-ins; `nextActorAfter` finds nobody, the hand is open and no command is accepted |
| `hand_unclaimed` | a pot only a folded seat has paid for is awarded to nobody |
| `room_unbookable` | a loss of more than the rest of the wallet cannot be archived; the hand stays open |
| `feed_locked_out` | a hand starts while a reconnected client subscribes; the client drops its snapshot as too old and refuses every action until it loses the connection again |

So `SettlementExact` and `HandContract` allow for unclaimed pots, `HandEnds`,
`EvenHandsPlayOn` and `EvenHandsAdvance` are stated for equal stacks (with
different stacks a hand may get stuck), and `ChipsAccountedFor` for users who
do not recharge (a recharge may overwrite, or be overwritten by, another change
of the balance, since `AddWalletTransaction` does not lock the row it reads).

### Other deviations the models have

These are behaviours of the models that no run reports; the properties above
are worded around them.

* A raise beyond the stack lowers `CurrentBet`, and a later raise may commit a
  negative amount (`game.go:343`); it takes an amount the table's controls do
  not offer, so `CommittedChipsStay` is checked with `Guided`.
* A short all-in lets seats that have acted raise again (`game.go:361`).
* A seat may be left while the owner's start is under way; the hand is dealt
  to somebody who has been refunded (`server.go:943`).
* A hand settled by the HTTP endpoint is not followed by the automatic next one
  (`server.go:838`): `TablePlaysOn` speaks of socket commands and timeouts.
* After a restart nothing ends the turn that was running, nor starts the next
  hand, until a command arrives (`untimed`).
* Two requests of `/api/games` with the same version may both be accepted, and
  the later save drops the action of the earlier (`overlapped`). The tables
  still agree and no version counts twice, but the replay mixes snapshots of
  both, since `saveGameInTx` looks them up by number.
* `room.unsubscribe`, which the client sends before it closes a connection,
  does not count the connection down: the user stays online in the room until
  he leaves it (`miscounted`). So does a user who leaves between his
  subscription and its count.
* A change of presence is sent to one of the user's rooms, not always to the
  one it happened in, and two changes at once may arrive in the other order
  (`raced` of `Presence`).
* A client may miss a hand event that a room event with a higher version
  overtook, an HTTP response may take the room or the hand back, an older
  `hand.started` may replace a hand that only HTTP has shown, and hands played
  over HTTP are not broadcast (`raced` of `RoomFeed`); the next subscription
  makes good for each of them. `HearsOfEveryVersion` holds through all but the
  last, and but for what is broadcast between the reading of the room and the
  joining of the hub (`unheard`).
* `POST /api/games/{id}/actions` (`server.go:230-258`) accepts the id of a room's
  current hand. It takes no mutex of the room, sets no timer, archives nothing
  and broadcasts nothing. `GameStore` has the request, but `TableTurns`, `Room`
  and `RoomFeed` have no such step: what they check and prove is about rooms
  whose hands are played by the room's commands. In a hand played past them a
  turn may be without its timer, and a settled hand stays the room's current
  game.

### Bounds

* Hands: three seats with stacks of 1, 4 and 7 under blinds 2 and 3 or an ante
  of 1 with a button blind of 2. A stack of 1 is below every forced bet, 4
  allows a bet but no raise, 7 a raise and a re-raise: short blinds, short
  all-ins, two side pots, split pots with odd chips and run-outs from every
  street occur. Amounts run past the largest stack; 0 is an amount too. Two
  seats, whose blinds and order differ, have no run of their own: the theorems
  cover them, chips, settlement and turn order alike, and only termination is
  checked for three seats alone.
* Cards: up to seven from the ace and the five lowest ranks of each rule set,
  in four suits that are alike. They hold the wheel, the straight above it,
  six in a row, flushes with more than five cards, three pairs, two triples
  and quads with every kicker; the code compares ranks and never computes with
  them beyond neighbours, so further ranks add no case; the theorems hold for
  all of them.
* Rooms: three users and three seats, a minimum of two players, one buy-in of
  1, two hands, one recharge, so that a user can sit, leave, sit elsewhere and be
  the next owner while a hand is started or finished. A hand ends in any way
  `HandContract` allows: with three seats one wins the chips of both others, two
  share those of the third, everybody gets his own back, or a pot goes
  unclaimed. A hand of two seats with one chip each is settled by its blinds and
  stays the current game; hands of two that are played are in
  `room_unbookable`, with a buy-in of 3. A buy-in of 2 multiplies the outcomes
  and the states beyond what a run may take, so other stakes are left to the
  theorems. `MaxHands` and `Rechargers` are guards of `StartRead` and
  `RechargeRead`. The users other than the owner are symmetric.
* Turns: two seats, three hands of up to two turns, one command under way.
  Three hands are the least in which an outdated automatic start can meet a
  later settlement, two turns the least in which a timer or a command of one
  turn can meet a later turn of the same seat. `MaxHands`, `MaxTurns` and
  `MaxSent` are guards of `Start`, `PassTurn` and `Send`; the theorems hold
  for every value of them.
* Store: three requests, the least in which two overlap after a third has
  changed the game, and nine actions, so that each may add a street and the
  settlement. `MaxActions` is a guard of `Change`.
* Presence: one user, two connections, two rooms. Two connections are what it
  takes for one to end or be thrown out while the other subscribes, two rooms
  for a change to be sent to the wrong one; users share no counter. `MaxCount`
  is a guard of `MarkOnline`: a counter grows only by unsubscriptions that
  leave a count behind.
* Feed: four room versions, two hands of two plays and a settlement, two
  connections, one HTTP request or command: a hand is started, played, settled
  and followed by another while a change or a response is under way and the
  connection is replaced. `MaxRoom`, `MaxHands`, `MaxPlays`, `MaxConnections`
  and `MaxHttp` are guards of the commits, of `Connect` and of `OverHttp`. The
  run that finds the client locked out needs one hand and no HTTP.

Runs do not check deadlock where the system may stop: a settled hand takes no
commands, all cards are dealt, every request is done, everybody may have left a
room, or a bound is reached.

### Fairness

`HandTurns` assumes that the step of the hand itself is weakly fair: in a room
the action timer plays for a silent player. `TableTurns` assumes that a
sleeping goroutine eventually wakes up and gets the mutex
(`WF(\E t \in timers : WakeUp(t))`), and nothing of the players, who may never
answer; a restart may come at any time. The other modules have only safety
properties and no fairness: `CaughtUp` and `Announced` are stated of the states
in which nothing is under way instead.

## Proofs

Every invariant and action property of a passing run is a theorem; the runs
show each of them on a small instance.

### Pots and sums

`SumProofs` has the sums over finite sets that pots and wallets need: an
element may be taken out (`SumRemove`), sums are added and compared term by term
(`SumPlus`, `SumLeq`), and the rows of a table add up to what its columns do
(`SumSwap`). An induction theorem takes the predicate as a parameter, which no
installed prover can instantiate; so the induction is over sets instead. If a
sum were wrong for some subset it would be wrong for a smallest one
(`MinimalSubset`, since a finite set's subsets are well-founded), but with one
element less it is right (`SubsetInduction`).

`HandProofs` proves first, for any number of seats, contributions and folds:

* `SplitExact`, `PotPaidOut`: `SplitAward` pays a pot out to the chip, the odd
  chips to the winners next to the button;
* `PotTotalExact`: `Build` neither loses nor invents a chip;
* `AwardsExact`: all seats together take the pots that a live seat is eligible
  for;
* `AwardBounded`: a seat takes at most what each seat has put in up to its own
  contribution.

A pot lies between two neighbouring levels of the contributions. That the pots
up to a level hold what each seat has put in up to that level (`PotsUpToLevel`)
is what `PotTotalExact` and `AwardBounded` rest on.

### The hand

`HandProofs` then proves, for every number of seats, every set of stacks, of
betting structures, of amounts and of rankings that the assumptions of `Hand`
allow:

* `TypeCorrect`, `ChipsAreBehind`, `StakesAreEqual`: `TypeOK`, `ChipsBehind`
  and `EqualStakes` always hold;
* `SettlementIsExact`, `SidePotsAreFair`: `SettlementExact` and `SidePotRule`;
* `KeepsContract`: `Spec => ImplementsContract`, every step of a hand is a step
  of `HandContract` or leaves it alone;
* `ChipsStayIn`: `Guided /\ Spec => CommittedChipsStay`;
* `NobodyIsSkipped`: `OwingSpec => NobodySkipped`;
* `EvenHandsNeverStick`, `EvenHandsComeNearer`: `EvenHandsPlayOn` and
  `EvenHandsAdvance`, for hands between equal stacks.

They follow from `Invariance`, that the inductive invariant `IInv` holds:
`TypeOK`; until the settlement a table that is "in play" (`TableInPlay`) with
two live seats; after it a table that is settled (`SettledTable`). The
properties are not inductive one by one. That stacks and committed chips stay
natural numbers when a raise commits a negative amount needs `ChipsBehind` and
that a seat has put no more into the street than into the hand, a conjunct no
run checks on its own; that a street closes on equal stakes needs all of them
and what `bettingRoundComplete` has just tested. That a showdown has somebody to
win needs a live seat, and that a fold cannot leave none needs two.

`IInv` is carried through `Apply` in two stages, as the code is written: the
`...InPlay` lemmas show that each action leaves a table in play, and
`AfterKeepsInvariant` that whatever the tail of `Apply` does to such a table
(settle, run out, change the street, pass the turn) restores `IInv`.
`SettledTable` says what each stack has gained under some ranking, and the
theorems about the pots turn that into sums: the gains of all seats are the
claimed pots, a seat's gain is bounded, a folded seat's is 0. The contract's
`Settle` is read off the same facts.

`ChipsStayIn` has an invariant of its own (`GuidedInv`): nobody's street is
above the bet and one minimum raise, so that what the table's controls offer is
never below what the seat has put in. Without `Guided` the theorem is false
(see the deviations). `NobodyIsSkipped` needs that a seat that owes an action
has not acted in the sense of the code (`OwingInv`), that is, that `HasActed`
is reset whenever the history variable says that an action is owed.

`EvenHandsNeverStick` is about the turn. With different stacks a hand may stick
(`hand_stuck`); with equal ones it does not, because of two facts that hold
together (`EvenInv`). The first is about chips (`EvenTable`): all live seats
have the same in the street and behind it, and the bet is no more. So a seat
that is all in has put in all that the others have, no active seat is left
beside it when a round is complete, and the next street finds its first actor
(`StreetOpens`); and when the forced bets leave anybody active, they leave the
first to act active (`ForcedBetsEven`). The second is about order
(`TurnsInOrder`): the seat to act is asked for an action, and clockwise from it
the seats that are asked come before those that are not. `nextActorAfter` looks
for an active seat and not for one that is asked; without the order the turn
could pass to a seat that has acted and matches the bet. `TurnPasses` shows that
the order survives a turn: the actor becomes the farthest seat, and is the only
one that stops being asked unless everybody else is asked again.

`EvenHandsComeNearer` takes from the same invariant that the actor is asked: a
command that pays nothing leaves a seat less to ask, and every other puts chips
in. Streets, chips and seats to ask are three natural numbers that fall
lexicographically, so a hand between equal stacks takes finitely many commands,
and `EvenHandsNeverStick` says that there is always a next one. What remains of
`HandEnds` is that somebody does act; this step from fairness stays with TLC,
since liveness is out of the prover's reach.

### The order of hands

`HandRankProofs` proves, for both rule sets, any deck (`InPlay`), up to four
suits and any number of cards:

* `HandsStayOrdered`: `Spec => []HandsAreOrdered`;
* `BestStaysWorth`: `Spec => []BestIsWorth`;
* `CompareTransitive`: no hands win from each other in a circle;
* `OneBestHand`: of the combinations of five or more cards one wins from all
  others, so that `Evaluate` finds the same whatever order it meets them in;
* `MoreCardsNeverHurt`: the best hand gets no worse with another card.

`Compare` is a lexicographic order: by the place of the class in the ranking
(`ScoresDiffer`, since a rule set ranks each class once), then by the first
rank that differs (`DifferenceIs`, `LessTransitive`). A finite set of such hands
has one highest (`HighestIs`), and what `evaluateFive` returns is such a hand
(`FiveAreRanked`): a class of the rule set, and integers. `HighestFirst` says
that the i-th of the sorted ranks has i - 1 above it, and that there is one is
`Placed`.

`BestIsWorth` compares two algorithms. `Worth` never chooses five cards: it
reads off all the cards what they offer of each class (`Offers`), and takes the
first class of the ranking of which there is an offer. Two lemmas show that the
combinations come to the same:

* `OffersAsGood`: of the class of any five of the cards there is an offer that
  does not lose to them. The kickers are the highest of more ranks
  (`KickersBest`, from `MoreIsHigher`: with more ranks to sort, each place has a
  rank at least as high);
* `OffersMade`: each offer is the hand of some five of the cards, or those five
  are of a stronger class still (a straight that is also a flush, high cards
  that are a straight). The five are put together rank by rank (`Picked`,
  `Made`) or from one suit (`MadeOfSuit`).

Both need to know what `evaluateFive` makes of five cards. The number of cards
is the sum of the counts of their ranks (`CountsAddUp`), so that five cards have
one of six shapes (`Shapes`: fours, threes, pairs and singles), and the shape
gives the order of `rankGroups` (`GroupsByShape`) and, with the suits and
`straightHigh`, the class (`ClassIs`). That a straight has five ranks that decide
its highest, and that the wheel is not taken for another one, is `StraightIs`
and `StraightFrom`.

`EvaluateIsWorth` puts them together. The strongest class that is offered is
made by five cards, since the stronger class they might be would be offered too
(`StrongerScore`: it comes first in both rule sets); by `OffersAsGood` no hand is
of a stronger class, nor better in it. The assumptions are that an instance
deals for rule sets that exist (`InPlayAssumption`) and that there are at most
four suits (`SuitsAssumption`), as in the code: with a fifth there would be
five cards of one rank, which are of no class.

### The table's turns

`TableTurnsProofs` proves, for every set of seats and every bound:

* `TypesHold`: `Spec => []TypeOK`;
* `TurnsAreTimed`: `Spec => []TimerArmed`;
* `TimersPlayTheirTurn`: `Spec => TimeoutPlaysItsTurn`;
* `HandsFollowTheirSettlement`: `Spec => NextHandFollowsItsSettlement`.

Its inductive invariant adds to `TypeOK` and `TimerArmed` what makes the
version a proof of identity: no timer is ahead of `timerVersion`
(`VersionsPast`), while a seat can act the timers that carry `timerVersion`
were set for this turn (`LatestIsThisTurns`), and between hands a next-hand
timer that carries it belongs to the last settlement
(`LatestIsLastSettlements`). Without the first, a timer still asleep could be
taken for the one that is armed next; the other two are what the action
properties read off. One lemma per change of the hand (`StartKeeps`,
`PassTurnKeeps`, `SettleKeeps`, `RefuseKeeps`), used for the command, the
timeout and the start that make it.

A restart keeps it: no timer is left, and the turn it fell into is `untimed`
until the next command arms a timer again. `TurnEnds` and `TablePlaysOn` are
liveness and stay with TLC.

### The room

`RoomProofs` proves, for any users, seats and buy-ins:

* `EverySettlementIsBooked`: the profits a hand of the room may end with
  (`Settlements`) are all those `HandContract` allows, of any size. The range
  they are chosen from is given by awards of at most all the chips; that it
  leaves nothing out follows from the sum of the profits, which is at most 0,
  and from no seat losing more than its stake;
* `TablesAreConsistent`: `Spec => []RoomConsistent`;
* `HandsNeverOverlap`: `Spec => HandsDoNotOverlap`;
* `TypeCorrect`: `Spec => []TypeOK`, no wallet goes below zero;
* `ChipsAreAccountedFor`: `Spec => []ChipsAccountedFor`.

Its invariant adds what the mutex gives: at most one start or settlement is
under way, and while it is, the room is still in the status in which it was
read (`Locked`). Joins, seat changes and recharges run outside it, and the proof
is that they cannot change that status. That the next owner is a seated member
is `NextOwnerSits`, since some occupied seat is the nearest clockwise.

The balances need a second invariant on top of it (`Books`). A user's wallet
and the chips of his seat are his balance and what he has won, as long as he has
not been recharged (`Accounted`). A settlement writes balances it has read
before, so it must be known that they are still current: what waits to be
written carries the wallet of every user who has not been recharged since
(`PendingTyped`), because between its read and its write nothing but a recharge
may write a wallet: a seat cannot be taken or left while the room plays.

### The game store

`GameStoreProofs` proves, for any requests and any number of actions:

* `TypesHold`, `TablesAlwaysAgree`, `VersionsOnce`: `TypeOK`, `TablesAgree` and
  `OncePerVersion` hold whatever requests overlap;
* `ReplaysAreFaithful`, `ReplaysAreOfOneGame`: `ReplayFaithful` and
  `ReplayOfOneGame` hold while none saves over another.

The invariant has two parts. `Stored` holds always: the stored game and the one
each request holds are `Good` (an action was sent with the number of actions
before it as its version), from which a version counts once. `Followed` holds
until a request saves over another one: what a request or a replay has read is
a prefix of the stored game, and the snapshots it has read are those prefixes.
That a save keeps it is the heart of the proof, since what it writes by number
is right only because the numbers still belong to the same actions.

### The hub

`PresenceProofs` proves, for any users, rooms and connections:

* `TypesHold`, `OnlineIsShown`, `CountsAreExact`: `TypeOK`,
  `OnlineWhileConnected` and `CountsExact`;
* `RoomsAreTold`: `Announced`.

None of the last three is inductive. For the counts, the invariant is that a counter is at
least the number of the counted connections that hear the room, and exactly
that number unless the presence is `miscounted`; without the inequality a user
whose one connection unsubscribed could be counted out next to another one.

For `Announced` it is what the room is about to be told (`Telling`): unless two
changes are in a race, every broadcast to come carries the status of the
moment, and when none is to come the room has been told it.

### The feed

`RoomFeedProofs` proves, for every bound:

* `TypesHold`, `HandsStay`: `TypeOK` and `HandNeverGoesBack`;
* `ClientCatchesUp`: `CaughtUp`;
* `EveryVersionIsHeard`: `HearsOfEveryVersion`.

`HandsStay` needs that an event on the connection is of no older hand than the
messages before it and than the hand accepted last (`FeedOrdered`), which holds
because commands broadcast under the mutex, and because nothing is under way
before the subscription (`NothingBefore`), a command is about the latest hand
(`LatestHand`) and nobody has read a hand that does not exist yet
(`KnownHands`).

`ClientCatchesUp` is about the end of a queue of messages, each of which the
client may take or drop. Its invariant (`FeedInv`) is about the view they lead
to (`Leads`: a trajectory of views, each the last one `After` one message).
Appending a message extends the trajectory and receiving one shortens it, so a
step need only be looked at where it changes that view. Unless a race came in
between, the view has the server's hand, or the command that changed it has yet
to broadcast it and the client will take it (`HandPromised`); it has the last
change of the room, or that has yet to be broadcast and nothing that was sent is
as new (`RoomPromised`). Versions have to be bounded too (`Past`, `Bounded`,
`CommandsHand`): a message that carried a version of the future would make the
client drop the next one. Where no message is under way the view is the one
shown, and that is `CaughtUp`.

`EveryVersionIsHeard` cannot use that view, since it speaks of clients after
races too. Its invariant says where the server's version of the room is
(`Reaches`): accepted, in a message under way, with the command or the change
that has yet to be broadcast, or with the snapshot under way. No step loses it.
A broadcast reads the version after its commit, so that what takes the last
commit out of the server's hands carries the last version
(`BroadcastReaches`); and the client does not drop a message that carries it,
since nothing it can compare it with is of the future (`Past`), whatever HTTP
has shown in the meantime (`ReceiveHeard`).

## Not modelled, and why

* The deck and the cards of `SetDebugCards`, which may deal a card twice: a
  hand with a duplicate makes `Evaluate` fail and its seat win nothing. The
  documents ask for unique cards (`specs/001-poker-simulator/spec.md:66,150`).
  `GameStore` has its place among the actions.
* The summaries in recorded actions: `record` takes them before the pots and
  the turn are updated (`game.go:808`).
* Several rooms with shared wallets, whose archives may deadlock in the
  database (`storage.go:875`); seats with a gap, which cannot start
  (`server.go:1066`); hands that the blinds settle, which `Room` has and which
  are never archived (`server.go:1085`).
* A command that is late and played in a later turn of its seat
  (`server.go:1181`): `TableTurns` has it; no document promises otherwise.
* The action log (whose numbers stop at 51, `socket.go:258`), chat,
  leaderboard and wallet events: lists that are shown and decide nothing.
* Accounts, sessions, routing, framing, room options, histories, pages and
  scripts: I/O, layout or a single row per request.

## Plan

1. Done: `Pots`, `Hand`, `HandContract`, `HandTurns`, `HandProofs`, `Room`,
   `TableTurns`, `TableTurnsProofs`.
2. Done: `GameStore`, `Presence`, `RoomFeed`, `HandRank`, restarts in
   `TableTurns`; `RoomProofs`, `GameStoreProofs`, `PresenceProofs`,
   `RoomFeedProofs`.
3. Done: the settlement (`SumProofs`, `HandProofs`: `KeepsContract`), turn order
   and committed chips, the wallets, `Announced` and `CaughtUp` as theorems.
4. Done: the order of hands, and that the best hand is what the cards are worth
   (`HandRankProofs`).
5. Next: a module for the deck and the debug cards.
