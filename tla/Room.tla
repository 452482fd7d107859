-------------------------------- MODULE Room --------------------------------
(***************************************************************************)
(* One room and the wallets of its users: the transactions of              *)
(* backend/internal/storage/storage.go and the commands of                 *)
(* backend/internal/api/server.go that call them.                          *)
(*                                                                         *)
(* A transaction that reads the rows it writes "for update" is one step.   *)
(* A command that reads before it writes, or a transaction whose plain     *)
(* select is not locked, is two steps with a record in pending between     *)
(* them: other requests come in between.  The per-room mutex of the socket *)
(* hub excludes the commands that take it, and only those.                 *)
(*                                                                         *)
(* The hand is what HandContract promises.  Room versions are left out.    *)
(***************************************************************************)
EXTENDS Integers, FiniteSets, FiniteSetsExt, Functions

CONSTANTS Users,
          Owner,       \* the user who creates the room
          NoUser,      \* an empty seat, a closed room's owner
          NumSeats,    \* seat_count
          MinPlayers,  \* min_players_to_start
          BuyIns,      \* min_buy_in..max_buy_in
          Balance,     \* of every wallet when the room is created
          SmallBlind, BigBlind,
          Recharge,    \* the amount of a recharge
          Rechargers,  \* bound: the users who recharge, once each
          MaxHands     \* bound on the hands started

Seats == 1..NumSeats

ASSUME UsersAssumption == Owner \in Users /\ NoUser \notin Users
ASSUME SeatsAssumption == NumSeats \in 2..9 /\ MinPlayers \in 2..NumSeats
ASSUME ChipsAssumption ==
    /\ BuyIns \subseteq Nat \ {0}
    /\ Balance \in Nat /\ Recharge \in Nat \ {0} /\ MaxHands \in Nat
    /\ Rechargers \subseteq Users
    /\ SmallBlind \in Nat \ {0} /\ BigBlind \in Nat /\ SmallBlind < BigBlind

VARIABLES status,   \* of the room: waiting, playing or closed
          owner,    \* owner_user_id
          hand,     \* current_game_id, 0 for none
          members,  \* room_members
          seats,    \* room_seats: the user and the bought-in chips of each seat
          wallet,   \* wallets
          game,     \* the stored game that hand refers to
          pending   \* the operations under way

\* History: the hands started, what hands and recharges have credited.
VARIABLES hands, won, credited

vars == <<status, owner, hand, members, seats, wallet, game, pending,
          hands, won, credited>>

-----------------------------------------------------------------------------
Empty == [user |-> NoUser, chips |-> 0]

Occupied(ss) == {s \in Seats : ss[s].user # NoUser}
SeatsOf(u) == {s \in Seats : seats[s].user = u}
ChipsOf(u) == MapThenSumSet(LAMBDA s : seats[s].chips, SeatsOf(u))

\* Mutant of LockFree: the mutex is not taken.
NeverLocked == TRUE

\* withRoomLock: the commands that start a hand, act in it or leave the room.
LockFree == \A op \in pending : op.kind = "recharge"

NoGame == [open   |-> FALSE,
           stake  |-> [s \in Seats |-> 0],
           player |-> [s \in Seats |-> NoUser]]

Init == /\ status = "waiting"
        /\ owner = Owner
        /\ hand = 0
        /\ members = {Owner}
        /\ seats = [s \in Seats |-> Empty]
        /\ wallet = [u \in Users |-> Balance]
        /\ game = NoGame
        /\ pending = {}
        /\ hands = 0
        /\ won = [u \in Users |-> 0]
        /\ credited = [u \in Users |-> 0]

-----------------------------------------------------------------------------
\* Members and seats

Join(u) ==
    /\ u \notin members
    /\ members' = members \cup {u}
    /\ UNCHANGED <<status, owner, hand, seats, wallet, game, pending, hands, won, credited>>

\* Mutant of SeatsMayChange: during a hand too.
RoomOpen == status # "closed"

SeatsMayChange == status = "waiting"

\* No mutex: only the row locks of the transaction.
TakeSeat(u, s, chips) ==
    /\ SeatsMayChange
    /\ u \in members
    /\ wallet[u] >= chips
    /\ SeatsOf(u) = {}
    /\ seats[s] = Empty
    /\ wallet' = [wallet EXCEPT ![u] = @ - chips]
    /\ seats' = [seats EXCEPT ![s] = [user |-> u, chips |-> chips]]
    /\ UNCHANGED <<status, owner, hand, members, game, pending, hands, won, credited>>

LeaveSeat(u, s) ==
    /\ SeatsMayChange
    /\ seats[s].user = u
    /\ wallet' = [wallet EXCEPT ![u] = @ + seats[s].chips]
    /\ seats' = [seats EXCEPT ![s] = Empty]
    /\ UNCHANGED <<status, owner, hand, members, game, pending, hands, won, credited>>

Clockwise(s, t) == (t - s - 1) % NumSeats

\* Mutant of NextOwner: the search starts at seat 1 and stops at the seat left.
NextOwnerBefore(from, occupied) ==
    LET candidates == {s \in occupied : s < from}
    IN  IF candidates = {} THEN NoUser
        ELSE seats[CHOOSE s \in candidates : \A t \in candidates : s <= t].user

\* The user of the first occupied seat clockwise after the one left.
NextOwner(from, occupied) ==
    IF occupied = {} THEN NoUser
    ELSE seats[CHOOSE s \in occupied :
                   \A t \in occupied : Clockwise(from, s) <= Clockwise(from, t)].user

\* A user without a seat hands the room over as if leaving seat 1.
SeatLeft(u) == IF SeatsOf(u) = {} THEN 1 ELSE CHOOSE s \in SeatsOf(u) : TRUE

LeaveRoom(u) ==
    /\ LockFree
    /\ status # "playing"
    /\ u \in members
    /\ wallet' = [wallet EXCEPT ![u] = @ + ChipsOf(u)]
    /\ seats' = [s \in Seats |-> IF s \in SeatsOf(u) THEN Empty ELSE seats[s]]
    /\ members' = members \ {u}
    /\ owner' = IF u = owner THEN NextOwner(SeatLeft(u), Occupied(seats'))
                ELSE owner
    /\ status' = IF u = owner /\ owner' = NoUser THEN "closed" ELSE status
    /\ UNCHANGED <<hand, game, pending, hands, won, credited>>

-----------------------------------------------------------------------------
\* Hands

\* game.New with the seats that were read: refused unless they are 1..k.
Dealable(ss) ==
    /\ Cardinality(Occupied(ss)) >= MinPlayers
    /\ Occupied(ss) = 1..Cardinality(Occupied(ss))

\* Two stacks that the blinds put all in are shown down at once.
SettledByBlinds(ss) ==
    Occupied(ss) = {1, 2} /\ ss[1].chips <= SmallBlind /\ ss[2].chips <= BigBlind

NewGame(ss) == [open   |-> ~SettledByBlinds(ss),
                stake  |-> [s \in Seats |-> ss[s].chips],
                player |-> [s \in Seats |-> ss[s].user]]

\* startRoomHandForUser, for the owner or for the automatic next hand: first
\* RoomByID and the checks ...
StartRead(by) ==
    /\ LockFree
    /\ status = "waiting" /\ hand = 0
    /\ owner # NoUser
    /\ Dealable(seats)
    /\ hands < MaxHands
    /\ pending' = pending \cup {[kind |-> "start", by |-> by, seats |-> seats]}
    /\ UNCHANGED <<status, owner, hand, members, seats, wallet, game, hands, won, credited>>

\* ... then Save and SetRoomCurrentGame, which checks nothing again.
StartWrite(op) ==
    /\ op.kind = "start"
    /\ hands' = hands + 1
    /\ hand' = hands + 1
    /\ status' = "playing"
    /\ game' = NewGame(op.seats)
    /\ pending' = pending \ {op}
    /\ UNCHANGED <<owner, members, seats, wallet, won, credited>>

Contract == INSTANCE HandContract
            WITH Players <- Seats,
                 stake   <- game.stake,
                 open    <- game.open,
                 profit  <- [s \in Seats |-> 0]

\* What the contract allows, a profit being an award minus what the seat has put
\* in.  An award is at most all the chips, so the range leaves nothing out.
Settlements ==
    LET Chips == SumFunction(game.stake)
        Awards == [Seats -> 0..Chips]
    IN  {p \in {[s \in Seats |-> award[s] - game.stake[s]] : award \in Awards} :
            /\ \A s \in Seats : game.stake[s] = 0 => p[s] = 0
            /\ Contract!Settlement(p)}

\* The command that ends the hand; ArchiveHandResult reads the seats and, by
\* the snapshot of its transaction, the wallets ...
FinishRead ==
    /\ LockFree
    /\ status = "playing"
    /\ game.open
    /\ pending' = pending \cup {[kind |-> "finish", wallet |-> wallet,
                                user |-> [s \in Seats |-> seats[s].user]]}
    /\ UNCHANGED <<status, owner, hand, members, seats, wallet, game, hands, won, credited>>

\* awards - committed, added up for each user who was read to hold a seat.
Gains(op) ==
    {[u \in Users |-> MapThenSumSet(LAMBDA s : profit[s], {s \in Seats : op.user[s] = u})]
        : profit \in Settlements}

\* Mutant of Bookable: the sign of the balance is not tested.
AlwaysBookable(op, gain) == TRUE

Bookable(op, gain) == \A u \in Users : op.wallet[u] + gain[u] >= 0

\* ... and writes balances computed from what it read, unless one would be
\* negative: then everything is rolled back, the finished game too.  (How the
\* hand ended is chosen here: nothing looks at it before.)
FinishWrite(op) ==
    /\ op.kind = "finish"
    /\ pending' = pending \ {op}
    /\ \E gain \in Gains(op) :
           \/ /\ Bookable(op, gain)
              /\ wallet' = [u \in Users |-> IF gain[u] = 0 THEN wallet[u]
                                            ELSE op.wallet[u] + gain[u]]
              /\ won' = [u \in Users |-> won[u] + gain[u]]
              /\ status' = "waiting"
              /\ hand' = 0
              /\ game' = NoGame
           \/ /\ ~Bookable(op, gain)
              /\ UNCHANGED <<status, hand, wallet, game, won>>
    /\ UNCHANGED <<owner, members, seats, hands, credited>>

-----------------------------------------------------------------------------
\* AddWalletTransaction: a plain select, then the new balance.

Recharging(u) == credited[u] > 0 \/ \E op \in pending : op.kind = "recharge" /\ op.user = u

RechargeRead(u) ==
    /\ u \in Rechargers /\ ~Recharging(u)
    /\ pending' = pending \cup {[kind |-> "recharge", user |-> u, balance |-> wallet[u]]}
    /\ UNCHANGED <<status, owner, hand, members, seats, wallet, game, hands, won, credited>>

RechargeWrite(op) ==
    /\ op.kind = "recharge"
    /\ wallet' = [wallet EXCEPT ![op.user] = op.balance + Recharge]
    /\ credited' = [credited EXCEPT ![op.user] = @ + Recharge]
    /\ pending' = pending \ {op}
    /\ UNCHANGED <<status, owner, hand, members, seats, game, hands, won>>

\* The database fails, or the server stops, before the write: the transaction
\* is rolled back.  A game that was saved but never became current is forgotten.
Abort(op) ==
    /\ pending' = pending \ {op}
    /\ UNCHANGED <<status, owner, hand, members, seats, wallet, game, hands, won, credited>>

Next ==
    \/ \E u \in Users : \/ Join(u)
                        \/ LeaveRoom(u)
                        \/ RechargeRead(u)
                        \/ \E s \in Seats : \/ LeaveSeat(u, s)
                                            \/ \E chips \in BuyIns : TakeSeat(u, s, chips)
    \/ \E by \in {"owner", "auto"} : StartRead(by)
    \/ FinishRead
    \/ \E op \in pending : \/ StartWrite(op)
                             \/ FinishWrite(op)
                             \/ RechargeWrite(op)
                             \/ Abort(op)

Spec == Init /\ [][Next]_vars

-----------------------------------------------------------------------------
\* Properties

TypeOK ==
    /\ status \in {"waiting", "playing", "closed"}
    /\ owner \in Users \cup {NoUser}
    /\ hand \in 0..hands /\ hands \in 0..MaxHands
    /\ members \subseteq Users
    /\ seats \in [Seats -> [user : Users \cup {NoUser}, chips : Nat]]
    /\ wallet \in [Users -> Nat]
    /\ game.open \in BOOLEAN /\ game.stake \in [Seats -> Nat]
    /\ won \in [Users -> Int] /\ credited \in [Users -> {0, Recharge}]

\* The tables agree with each other: the room is playing exactly when it has a
\* current game, seats are held by members, one each, an open room's owner is a
\* member, and a closed room has neither owner, players nor hand (LeaveRoom's
\* hand-over against TakeSeat, LeaveSeat and SetRoomCurrentGame).
RoomConsistent ==
    /\ status = "playing" <=> hand # 0
    /\ \A s \in Occupied(seats) : /\ seats[s].user \in members
                                  /\ SeatsOf(seats[s].user) = {s}
    /\ IF status = "closed" THEN owner = NoUser /\ Occupied(seats) = {}
       ELSE owner \in members

\* The chips of a user who does not recharge, in the wallet and at the table,
\* are the balance he began with and what hands booked to him: no refund twice,
\* no seat without payment, no settlement over a refund (TakeSeat, LeaveSeat,
\* LeaveRoom, ArchiveHandResult).
ChipsAccountedFor ==
    \A u \in Users :
        ~Recharging(u) => wallet[u] + ChipsOf(u) = Balance + won[u]

\* Steps: a hand is replaced only after its settlement is booked, whoever
\* starts the next (startRoomHandForUser, scheduleAutoNextHand).
HandsDoNotOverlap == [][hand' # hand => hand = 0 \/ hand' = 0]_vars

\* The settlement of a hand that ends can be booked.
EveryHandCanBeBooked ==
    \A op \in pending : op.kind = "finish" => \A gain \in Gains(op) : Bookable(op, gain)
=============================================================================
