------------------------------ MODULE RoomProofs ------------------------------
(***************************************************************************)
(* Proofs about Room: the room's tables agree, hands do not overlap and    *)
(* the chips of a user are accounted for, for any number of users, seats,  *)
(* buy-ins and hands, however requests, the unlocked parts of transactions *)
(* and failures interleave.                                                *)
(***************************************************************************)
EXTENDS Room, SumProofs

USE UsersAssumption, SeatsAssumption, ChipsAssumption

-----------------------------------------------------------------------------
(* The inductive invariant.                                                *)

RoomTyped ==
    /\ status \in {"waiting", "playing", "closed"}
    /\ hands \in Nat /\ hand \in Nat
    /\ members \subseteq Users
    /\ seats \in [Seats -> [user : Users \cup {NoUser}, chips : Nat]]

(* Seats are held by members, one each.                                    *)
Seated ==
    \A s \in Seats : seats[s].user # NoUser =>
        /\ seats[s].user \in members
        /\ \A t \in Seats : seats[t].user = seats[s].user => t = s

Opened ==
    /\ status = "playing" <=> hand # 0
    /\ IF status = "closed" THEN owner = NoUser /\ Occupied(seats) = {}
       ELSE owner \in members

(* The mutex: one start or settlement at a time, and until it writes, the  *)
(* room stays as it was when it read.                                      *)
Locked ==
    \A op \in pending :
        /\ op.kind \in {"start", "finish", "recharge"}
        /\ op.kind = "start" => status = "waiting" /\ hand = 0
        /\ op.kind = "finish" => status = "playing"
        /\ op.kind # "recharge" =>
               \A other \in pending : other.kind # "recharge" => other = op

IInv == RoomTyped /\ Seated /\ Opened /\ Locked

\* The invariant contains the property the runs check.
LEMMA TablesConsistent == IInv => RoomConsistent
<1> SUFFICES ASSUME IInv PROVE RoomConsistent
  OBVIOUS
<1>1. ASSUME NEW s \in Occupied(seats)
      PROVE  seats[s].user \in members /\ SeatsOf(seats[s].user) = {s}
  BY DEF IInv, Seated, Occupied, SeatsOf
<1> QED BY <1>1 DEF IInv, Opened, RoomConsistent

-----------------------------------------------------------------------------
(* The hand-over of a room.                                                *)

\* The distance of two seats is a natural number.
LEMMA ClockwiseNatural ==
    ASSUME NEW s \in Seats, NEW t \in Seats
    PROVE  Clockwise(s, t) \in Nat
<1>1. t - s - 1 \in Int /\ NumSeats \in Nat \ {0}
  BY DEF Seats
<1> QED BY <1>1 DEF Clockwise

\* The next owner sits on an occupied seat; there is none only if nobody sits.
LEMMA NextOwnerSits ==
    ASSUME NEW from \in Seats, NEW occupied, occupied \subseteq Seats, occupied # {}
    PROVE  \E s \in occupied : NextOwner(from, occupied) = seats[s].user
<1> DEFINE T == {Clockwise(from, s) : s \in occupied}
<1>1. T \subseteq Nat /\ T # {}
  BY ClockwiseNatural
<1>2. PICK x \in T : \A y \in T : x <= y
  BY <1>1, LeastNatural
<1>3. \E s \in occupied : \A t \in occupied : Clockwise(from, s) <= Clockwise(from, t)
  BY <1>2
<1>4. (CHOOSE s \in occupied :
          \A t \in occupied : Clockwise(from, s) <= Clockwise(from, t)) \in occupied
  BY <1>3
<1> QED BY <1>4 DEF NextOwner

-----------------------------------------------------------------------------
(* One lemma per action, or per group of actions with the same effect.     *)

\* A user becomes a member.
LEMMA JoinKeeps ==
    ASSUME IInv, NEW u \in Users, Join(u)
    PROVE  IInv'
<1>1. /\ members' = members \cup {u}
      /\ UNCHANGED <<status, owner, hand, seats, pending, hands>>
  BY DEF Join
<1>2. RoomTyped' /\ Seated'
  BY <1>1 DEF IInv, RoomTyped, Seated
<1>3. Opened' /\ Locked'
  BY <1>1 DEF IInv, Opened, Locked, Occupied
<1> QED BY <1>2, <1>3 DEF IInv

\* A member takes an empty seat.
LEMMA TakeSeatKeeps ==
    ASSUME IInv, NEW u \in Users, NEW s \in Seats, NEW chips \in BuyIns, TakeSeat(u, s, chips)
    PROVE  IInv'
<1>1. /\ status = "waiting" /\ u \in members /\ SeatsOf(u) = {} /\ chips \in Nat
      /\ seats' = [seats EXCEPT ![s] = [user |-> u, chips |-> chips]]
      /\ UNCHANGED <<status, owner, hand, members, pending, hands>>
  BY DEF TakeSeat, SeatsMayChange
<1>2. RoomTyped'
  BY <1>1 DEF IInv, RoomTyped
<1>3. \A t \in Seats : seats[t].user # u
  BY <1>1 DEF SeatsOf
<1>4. \A t \in Seats : seats'[t].user = IF t = s THEN u ELSE seats[t].user
  BY <1>1 DEF IInv, RoomTyped
<1>5. Seated'
  BY <1>1, <1>3, <1>4 DEF IInv, Seated
<1>6. Opened' /\ Locked'
  BY <1>1 DEF IInv, Opened, Locked
<1> QED BY <1>2, <1>5, <1>6 DEF IInv

\* A member leaves a seat.
LEMMA LeaveSeatKeeps ==
    ASSUME IInv, NEW u \in Users, NEW s \in Seats, LeaveSeat(u, s)
    PROVE  IInv'
<1>1. /\ status = "waiting"
      /\ seats' = [seats EXCEPT ![s] = [user |-> NoUser, chips |-> 0]]
      /\ UNCHANGED <<status, owner, hand, members, pending, hands>>
  BY DEF LeaveSeat, SeatsMayChange, Empty
<1>2. RoomTyped'
  BY <1>1 DEF IInv, RoomTyped
<1>3. \A t \in Seats : seats'[t].user = IF t = s THEN NoUser ELSE seats[t].user
  BY <1>1 DEF IInv, RoomTyped
<1>4. Seated'
  BY <1>1, <1>3 DEF IInv, Seated
<1>5. Opened' /\ Locked'
  BY <1>1 DEF IInv, Opened, Locked
<1> QED BY <1>2, <1>4, <1>5 DEF IInv

\* A member leaves the room, and hands it over if it is his.
LEMMA LeaveRoomKeeps ==
    ASSUME IInv, NEW u \in Users, LeaveRoom(u)
    PROVE  IInv'
<1>1. /\ status # "playing" /\ u \in members /\ u # NoUser
      /\ seats' = [s \in Seats |-> IF s \in SeatsOf(u) THEN Empty ELSE seats[s]]
      /\ members' = members \ {u}
      /\ owner' = IF u = owner THEN NextOwner(SeatLeft(u), Occupied(seats')) ELSE owner
      /\ status' = IF u = owner /\ owner' = NoUser THEN "closed" ELSE status
      /\ UNCHANGED <<hand, pending, hands>>
      /\ \A op \in pending : op.kind = "recharge"
  BY DEF LeaveRoom, LockFree
<1>2. \A s \in Seats : seats'[s].user = IF seats[s].user = u THEN NoUser ELSE seats[s].user
  BY <1>1 DEF SeatsOf, Empty, IInv, RoomTyped
<1>3. RoomTyped'
  <2>1. seats' \in [Seats -> [user : Users \cup {NoUser}, chips : Nat]]
    BY <1>1 DEF Empty, IInv, RoomTyped
  <2> QED BY <1>1, <2>1 DEF IInv, RoomTyped
<1>4. Seated'
  BY <1>1, <1>2 DEF IInv, Seated
<1>5. Locked'
  BY <1>1 DEF Locked
<1>6. \A s \in Occupied(seats') : s \in Seats /\ seats[s].user \in members' /\ seats[s].user # NoUser
  BY <1>1, <1>2 DEF Occupied, IInv, Seated
<1>7. Occupied(seats') \subseteq Occupied(seats)
  BY <1>2 DEF Occupied
<1>8. SeatLeft(u) \in Seats
  <2>1. 1 \in Seats
    BY DEF Seats
  <2>2. SeatsOf(u) # {} => (CHOOSE s \in SeatsOf(u) : TRUE) \in SeatsOf(u)
    OBVIOUS
  <2> QED BY <2>1, <2>2 DEF SeatLeft, SeatsOf
<1>9. Opened'
  <2>1. CASE u # owner
    BY <1>1, <1>7, <2>1 DEF IInv, Opened
  <2>2. CASE u = owner /\ Occupied(seats') = {}
    <3>1. owner' = NoUser /\ status' = "closed"
      BY <1>1, <2>2 DEF NextOwner
    <3> QED BY <1>1, <2>2, <3>1 DEF IInv, Opened
  <2>3. CASE u = owner /\ Occupied(seats') # {}
    <3>1. PICK occupied : occupied = Occupied(seats')
      OBVIOUS
    <3>2. \E s \in occupied : NextOwner(SeatLeft(u), occupied) = seats[s].user
      BY <1>6, <1>8, <2>3, <3>1, NextOwnerSits
    <3>3. owner' \in members' /\ owner' # NoUser
      BY <1>1, <1>6, <2>3, <3>1, <3>2
    <3>4. status' = status /\ status # "closed"
      BY <1>1, <2>3, <3>3 DEF IInv, Opened
    <3> QED BY <1>1, <3>3, <3>4 DEF IInv, Opened
  <2> QED BY <2>1, <2>2, <2>3
<1> QED BY <1>3, <1>4, <1>5, <1>9 DEF IInv

\* A command reads what it will write later: while it waits nobody else may.
LEMMA ReadKeeps ==
    ASSUME IInv, NEW op,
           UNCHANGED <<status, owner, hand, members, seats, hands>>,
           pending' = pending \cup {op},
           \/ op.kind = "recharge"
           \/ LockFree /\ op.kind = "start" /\ status = "waiting" /\ hand = 0
           \/ LockFree /\ op.kind = "finish" /\ status = "playing"
    PROVE  IInv'
<1>1. RoomTyped' /\ Seated' /\ Opened'
  BY DEF IInv, RoomTyped, Seated, Opened
<1>2. Locked'
  BY DEF IInv, Locked, LockFree
<1> QED BY <1>1, <1>2 DEF IInv

\* An operation ends that leaves the room as it is.
LEMMA EndKeeps ==
    ASSUME IInv, NEW op \in pending,
           UNCHANGED <<status, owner, hand, members, seats, hands>>,
           pending' = pending \ {op}
    PROVE  IInv'
<1>1. RoomTyped' /\ Seated' /\ Opened'
  BY DEF IInv, RoomTyped, Seated, Opened
<1>2. Locked'
  BY DEF IInv, Locked
<1> QED BY <1>1, <1>2 DEF IInv

\* The new hand becomes current.
LEMMA StartWriteKeeps ==
    ASSUME IInv, NEW op \in pending, StartWrite(op)
    PROVE  IInv' /\ hand = 0
<1>1. /\ op.kind = "start" /\ hands' = hands + 1 /\ hand' = hands + 1 /\ status' = "playing"
      /\ pending' = pending \ {op}
      /\ UNCHANGED <<owner, members, seats>>
  BY DEF StartWrite
<1>2. status = "waiting" /\ hand = 0
  BY <1>1 DEF IInv, Locked
<1>3. RoomTyped' /\ Seated'
  BY <1>1 DEF IInv, RoomTyped, Seated
<1>4. Opened'
  BY <1>1, <1>2 DEF IInv, Opened, RoomTyped
<1>5. \A other \in pending' : other.kind = "recharge"
  BY <1>1 DEF IInv, Locked
<1>6. Locked'
  BY <1>5 DEF Locked
<1> QED BY <1>2, <1>3, <1>4, <1>6 DEF IInv

\* The settlement is booked, or rolled back.
LEMMA FinishWriteKeeps ==
    ASSUME IInv, NEW op \in pending, FinishWrite(op)
    PROVE  IInv' /\ (hand' = 0 \/ hand' = hand)
<1>1. /\ op.kind = "finish" /\ pending' = pending \ {op}
      /\ UNCHANGED <<owner, members, seats, hands>>
      /\ \/ status' = "waiting" /\ hand' = 0
         \/ UNCHANGED <<status, hand>>
  BY DEF FinishWrite
<1>2. CASE status' = "waiting" /\ hand' = 0
  <2>1. status = "playing"
    BY <1>1 DEF IInv, Locked
  <2>2. RoomTyped' /\ Seated'
    BY <1>1, <1>2 DEF IInv, RoomTyped, Seated
  <2>3. Opened'
    BY <1>1, <1>2, <2>1 DEF IInv, Opened
  <2>4. \A other \in pending' : other.kind = "recharge"
    BY <1>1 DEF IInv, Locked
  <2>5. Locked'
    BY <2>4 DEF Locked
  <2> QED BY <1>2, <2>2, <2>3, <2>5 DEF IInv
<1>3. CASE UNCHANGED <<status, hand>>
  BY <1>1, <1>3, EndKeeps
<1> QED BY <1>1, <1>2, <1>3

-----------------------------------------------------------------------------
(* The invariant of the specification.                                     *)

\* A new room has its owner as the only member.
LEMMA InitInvariant == Init => IInv
<1> SUFFICES ASSUME Init PROVE IInv
  OBVIOUS
<1>1. /\ status = "waiting" /\ owner = Owner /\ hand = 0 /\ members = {Owner}
      /\ seats = [s \in Seats |-> [user |-> NoUser, chips |-> 0]]
      /\ pending = {} /\ hands = 0
  BY DEF Init, Empty
<1>2. \A s \in Seats : seats[s].user = NoUser
  BY <1>1
<1>3. RoomTyped /\ Seated
  BY <1>1, <1>2 DEF RoomTyped, Seated
<1>4. Opened /\ Locked
  BY <1>1 DEF Opened, Locked
<1> QED BY <1>3, <1>4 DEF IInv

\* Every step keeps the invariant, and replaces no current hand by another.
LEMMA NextInvariant ==
    ASSUME IInv, [Next]_vars
    PROVE  IInv' /\ (hand' # hand => hand = 0 \/ hand' = 0)
<1>1. ASSUME NEW u \in Users, Join(u) PROVE IInv' /\ hand' = hand
  BY <1>1, JoinKeeps DEF Join
<1>2. ASSUME NEW u \in Users, LeaveRoom(u) PROVE IInv' /\ hand' = hand
  BY <1>2, LeaveRoomKeeps DEF LeaveRoom
<1>3. ASSUME NEW u \in Users, RechargeRead(u) PROVE IInv' /\ hand' = hand
  <2>1. PICK op : op = [kind |-> "recharge", user |-> u, balance |-> wallet[u]]
    OBVIOUS
  <2>2. op.kind = "recharge" /\ pending' = pending \cup {op}
        /\ UNCHANGED <<status, owner, hand, members, seats, hands>>
    BY <1>3, <2>1 DEF RechargeRead
  <2> QED BY <2>2, ReadKeeps
<1>4. ASSUME NEW u \in Users, NEW s \in Seats, LeaveSeat(u, s) PROVE IInv' /\ hand' = hand
  BY <1>4, LeaveSeatKeeps DEF LeaveSeat
<1>5. ASSUME NEW u \in Users, NEW s \in Seats, NEW chips \in BuyIns, TakeSeat(u, s, chips)
      PROVE  IInv' /\ hand' = hand
  BY <1>5, TakeSeatKeeps DEF TakeSeat
<1>6. ASSUME NEW by \in {"owner", "auto"}, StartRead(by) PROVE IInv' /\ hand' = hand
  <2>1. PICK op : op = [kind |-> "start", by |-> by, seats |-> seats]
    OBVIOUS
  <2>2. /\ LockFree /\ status = "waiting" /\ hand = 0
        /\ op.kind = "start" /\ pending' = pending \cup {op}
        /\ UNCHANGED <<status, owner, hand, members, seats, hands>>
    BY <1>6, <2>1 DEF StartRead
  <2> QED BY <2>2, ReadKeeps
<1>7. ASSUME FinishRead PROVE IInv' /\ hand' = hand
  <2>1. \E op : op.kind = "finish" /\ pending' = pending \cup {op}
    BY <1>7 DEF FinishRead
  <2>2. PICK op : op.kind = "finish" /\ pending' = pending \cup {op}
    BY <2>1
  <2>3. LockFree /\ status = "playing" /\ UNCHANGED <<status, owner, hand, members, seats, hands>>
    BY <1>7 DEF FinishRead
  <2> QED BY <2>2, <2>3, ReadKeeps
<1>8. ASSUME NEW op \in pending, StartWrite(op) PROVE IInv' /\ hand = 0
  BY <1>8, StartWriteKeeps
<1>9. ASSUME NEW op \in pending, FinishWrite(op) PROVE IInv' /\ (hand' = 0 \/ hand' = hand)
  BY <1>9, FinishWriteKeeps
<1>10. ASSUME NEW op \in pending, RechargeWrite(op) \/ Abort(op) PROVE IInv' /\ hand' = hand
  BY <1>10, EndKeeps DEF RechargeWrite, Abort
<1>11. CASE UNCHANGED vars
  <2>1. UNCHANGED <<status, owner, hand, members, seats, pending, hands>>
    BY <1>11 DEF vars
  <2>2. RoomTyped' /\ Seated' /\ Opened' /\ Locked'
    BY <2>1 DEF IInv, RoomTyped, Seated, Opened, Locked
  <2> QED BY <2>1, <2>2 DEF IInv
<1> QED BY <1>1, <1>2, <1>3, <1>4, <1>5, <1>6, <1>7, <1>8, <1>9, <1>10, <1>11 DEF Next

-----------------------------------------------------------------------------
(* The theorems.                                                           *)

\* The invariant holds however commands, transactions and failures interleave.
THEOREM Invariance == Spec => []IInv
<1>1. IInv /\ [Next]_vars => IInv'
  BY NextInvariant
<1> QED BY <1>1, InitInvariant, PTL DEF Spec

\* The room plays exactly while it has a current hand, seats are held by members,
\* one each, and an open room's owner is a member (LeaveRoom, TakeSeat,
\* SetRoomCurrentGame).
THEOREM TablesAreConsistent == Spec => []RoomConsistent
BY Invariance, TablesConsistent, PTL

\* No start replaces a hand whose settlement is not booked (startRoomHandForUser,
\* scheduleAutoNextHand, ArchiveHandResult).
THEOREM HandsNeverOverlap == Spec => HandsDoNotOverlap
<1>1. IInv /\ [Next]_vars => [hand' # hand => hand = 0 \/ hand' = 0]_vars
  BY NextInvariant
<1> QED BY <1>1, Invariance, PTL DEF Spec, HandsDoNotOverlap

-----------------------------------------------------------------------------
(* The chips of a user at the table, and what a settlement books to him.   *)

\* There are finitely many seats.
LEMMA SeatsFinite == IsFiniteSet(Seats)
<1>1. NumSeats \in Nat
  OBVIOUS
<1> QED BY <1>1, FS_Interval DEF Seats

\* ChipsOf for given seats.
ChipsIn(ss, u) == MapThenSumSet(LAMBDA s : ss[s].chips, {s \in Seats : ss[s].user = u})

\* The chips of a user at the table, as a sum over his seats.
LEMMA ChipsInIs ==
    ASSUME NEW ss, NEW u, NEW T, T = {s \in Seats : ss[s].user = u},
           NEW f, \A s \in Seats : f[s] = ss[s].chips
    PROVE  ChipsIn(ss, u) = SumFunctionOnSet(f, T)
<1> DEFINE total(it) == [w \in SUBSET T |->
                            IF w = {} THEN 0 ELSE ss[First(w)].chips + it[w \ {First(w)}]]
<1>1. ChipsIn(ss, u) = (CHOOSE it : it = total(it))[T]
  BY DEF ChipsIn, MapThenSumSet, MapThenFoldSet, First
<1>2. ASSUME NEW it PROVE total(it) = [w \in SUBSET T |-> IF w = {} THEN 0
                                                      ELSE f[First(w)] + it[w \ {First(w)}]]
  BY FirstIn
<1>3. \A it : it = total(it) <=> Adds(it, f, SUBSET T)
  BY <1>2 DEF Adds
<1>4. IsFiniteSet(T)
  BY SeatsFinite, FS_Subset
<1> HIDE DEF total
<1>5. \E it : it = total(it)
  BY <1>3, <1>4, AddsExists
<1>6. PICK a : a = CHOOSE it : it = total(it)
  OBVIOUS
<1>7. Adds(a, f, SUBSET T)
  BY <1>3, <1>5, <1>6
<1>8. a[T] = SumFunctionOnSet(f, T)
  BY ONLY <1>7, <1>4, SumOfAdds
<1> QED BY <1>1, <1>6, <1>8

\* The chips of a hand are a natural number.
LEMMA StakesNatural ==
    ASSUME game.stake \in [Seats -> Nat]
    PROVE  SumFunction(game.stake) \in Nat
<1>1. SumFunction(game.stake) = SumFunctionOnSet(game.stake, Seats)
  BY DEF SumFunction
<1> QED BY <1>1, SeatsFinite, SumNatural

\* HandContract's sums are the same sums.
LEMMA ContractSum == \A f : Contract!SumFunction(f) = SumFunction(f)
BY DEF Contract!SumFunction, Contract!SumFunctionOnSet, Contract!FoldFunctionOnSet,
       Contract!MapThenFoldSet, SumFunction, SumFunctionOnSet, FoldFunctionOnSet, MapThenFoldSet

\* Settlements are integers.
LEMMA SettlementsTyped ==
    ASSUME NEW p \in Settlements
    PROVE  p \in [Seats -> Int]
<1>1. Contract!Settlement(p)
  BY DEF Settlements
<1> QED BY <1>1 DEF Contract!Settlement

\* No settlement is left out: every assignment of profits that HandContract
\* allows is among those that FinishWrite books, however much a seat gains
\* (ArchiveHandResult adds award - committed without a bound).
THEOREM EverySettlementIsBooked ==
    ASSUME game.stake \in [Seats -> Nat], NEW p, Contract!Settlement(p),
           \A s \in Seats : game.stake[s] = 0 => p[s] = 0
    PROVE  p \in Settlements
<1> DEFINE award == [s \in Seats |-> p[s] + game.stake[s]]
<1>1. /\ p \in [Seats -> Int] /\ \A s \in Seats : p[s] >= -game.stake[s]
      /\ SumFunctionOnSet(p, Seats) <= 0
  BY ContractSum DEF Contract!Settlement, SumFunction
<1>2. PICK chips \in Nat : chips = SumFunction(game.stake)
  BY StakesNatural
<1>3. SumFunctionOnSet(game.stake, Seats) = chips
  BY <1>2 DEF SumFunction
<1>4. \A s \in Seats : p[s] \in Int /\ game.stake[s] \in Int /\ award[s] \in Nat
                       /\ award[s] = p[s] + game.stake[s] /\ award[s] \in Int
  BY <1>1
<1> HIDE DEF award
<1>5. SumFunctionOnSet(award, Seats)
          = SumFunctionOnSet(p, Seats) + SumFunctionOnSet(game.stake, Seats)
  BY <1>4, SeatsFinite, SumPlus
<1>6. SumFunctionOnSet(award, Seats) <= chips
  <2>1. SumFunctionOnSet(p, Seats) \in Int
    BY <1>4, SeatsFinite, SumType
  <2> QED BY <1>1, <1>3, <1>5, <2>1
<1>7. ASSUME NEW s \in Seats PROVE award[s] \in 0..chips
  <2>1. PICK rest : rest = Seats \ {s}
    OBVIOUS
  <2>2. IsFiniteSet(rest)
    BY <2>1, SeatsFinite, FS_Subset
  <2>3. SumFunctionOnSet(award, rest) \in Nat
    BY <1>4, <2>1, <2>2, SumNatural
  <2>4. SumFunctionOnSet(award, Seats) = award[s] + SumFunctionOnSet(award, rest)
    BY <1>4, <2>1, SeatsFinite, SumRemove
  <2> QED BY <1>4, <1>6, <2>3, <2>4
<1>8. award \in [Seats -> 0..chips]
  BY <1>7 DEF award
<1>9. p = [s \in Seats |-> award[s] - game.stake[s]]
  BY <1>1, <1>4
<1> QED BY <1>2, <1>8, <1>9 DEF Settlements

\* The profits of a user's seats add up to an integer.
LEMMA GainsTyped ==
    ASSUME NEW op, NEW gain \in Gains(op)
    PROVE  gain \in [Users -> Int]
<1>1. PICK profit \in Settlements :
          gain = [u \in Users |-> MapThenSumSet(LAMBDA s : profit[s],
                                               {s \in Seats : op.user[s] = u})]
  BY DEF Gains
<1>2. profit \in [Seats -> Int]
  BY SettlementsTyped
<1>3. ASSUME NEW u \in Users
      PROVE  MapThenSumSet(LAMBDA s : profit[s], {s \in Seats : op.user[s] = u}) \in Int
  <2>1. PICK T, f : T = {s \in Seats : op.user[s] = u} /\ f = profit
    OBVIOUS
  <2> DEFINE total(it) == [w \in SUBSET T |->
                              IF w = {} THEN 0 ELSE profit[First(w)] + it[w \ {First(w)}]]
  <2>2. MapThenSumSet(LAMBDA s : profit[s], T) = (CHOOSE it : it = total(it))[T]
    BY DEF MapThenSumSet, MapThenFoldSet, First
  <2>3. \A it : it = total(it) <=> Adds(it, f, SUBSET T)
    BY <2>1 DEF Adds
  <2>4. IsFiniteSet(T)
    BY <2>1, SeatsFinite, FS_Subset
  <2> HIDE DEF total
  <2>5. \E it : it = total(it)
    BY <2>3, <2>4, AddsExists
  <2>6. PICK a : a = CHOOSE it : it = total(it)
    OBVIOUS
  <2>7. Adds(a, f, SUBSET T)
    BY <2>3, <2>5, <2>6
  <2>8. a[T] = SumFunctionOnSet(f, T)
    BY ONLY <2>7, <2>4, SumOfAdds
  <2>9. \A s \in T : f[s] \in Int
    BY <1>2, <2>1
  <2>10. SumFunctionOnSet(f, T) \in Int
    BY <2>4, <2>9, SumType
  <2> QED BY <2>1, <2>2, <2>6, <2>8, <2>10
<1> QED BY <1>1, <1>3

\* Nobody's chips, the chips of one seat, the same chips.
LEMMA ChipsNone ==
    ASSUME NEW ss, NEW u, \A s \in Seats : ss[s].user # u
    PROVE  ChipsIn(ss, u) = 0
<1>1. PICK f : f = [s \in Seats |-> ss[s].chips]
  OBVIOUS
<1>2. {s \in Seats : ss[s].user = u} = {} /\ \A s \in Seats : f[s] = ss[s].chips
  BY <1>1
<1>3. ChipsIn(ss, u) = SumFunctionOnSet(f, {})
  BY <1>2, ChipsInIs
<1> QED BY <1>3, SumEmpty

\* The chips of a user who has one seat.
LEMMA ChipsOne ==
    ASSUME NEW ss, NEW u, NEW s \in Seats, ss[s].chips \in Int, ss[s].user = u,
           \A t \in Seats : ss[t].user = u => t = s
    PROVE  ChipsIn(ss, u) = ss[s].chips
<1>1. PICK f : f = [t \in Seats |-> ss[t].chips]
  OBVIOUS
<1>2. {t \in Seats : ss[t].user = u} = {s} /\ \A t \in Seats : f[t] = ss[t].chips
  BY <1>1
<1>3. ChipsIn(ss, u) = SumFunctionOnSet(f, {s})
  BY <1>2, ChipsInIs
<1>4. f[s] \in Int /\ f[s] = ss[s].chips
  BY <1>1
<1> QED BY <1>3, <1>4, SumOne

\* Seats that a step leaves alone hold the same chips.
LEMMA ChipsSame ==
    ASSUME NEW ss, NEW tt, NEW u,
           \A s \in Seats : /\ ss[s].user = u <=> tt[s].user = u
                            /\ ss[s].user = u => tt[s].chips = ss[s].chips,
           \A s \in Seats : ss[s].chips \in Int
    PROVE  ChipsIn(tt, u) = ChipsIn(ss, u)
<1>1. PICK T, f, g : /\ T = {s \in Seats : ss[s].user = u}
                     /\ f = [s \in Seats |-> ss[s].chips] /\ g = [s \in Seats |-> tt[s].chips]
  OBVIOUS
<1>2. T = {s \in Seats : tt[s].user = u} /\ IsFiniteSet(T)
  <2>1. T = {s \in Seats : tt[s].user = u}
    BY <1>1
  <2> QED BY <1>1, <2>1, SeatsFinite, FS_Subset
<1>3. ChipsIn(ss, u) = SumFunctionOnSet(f, T)
  BY <1>1, ChipsInIs
<1>4. ChipsIn(tt, u) = SumFunctionOnSet(g, T)
  BY <1>1, <1>2, ChipsInIs
<1>5. \A s \in T : f[s] \in Int /\ g[s] = f[s]
  BY <1>1
<1> QED BY <1>2, <1>3, <1>4, <1>5, SumEqual

\* Who sits at one seat at most has an integer number of chips.
LEMMA ChipsInteger ==
    ASSUME IInv, NEW u \in Users
    PROVE  ChipsIn(seats, u) \in Nat
<1>1. \A s \in Seats : seats[s].chips \in Nat /\ seats[s].chips \in Int
  BY DEF IInv, RoomTyped
<1>2. CASE \A s \in Seats : seats[s].user # u
  BY <1>2, ChipsNone
<1>3. ASSUME NEW s \in Seats, seats[s].user = u PROVE ChipsIn(seats, u) \in Nat
  <2>1. \A t \in Seats : seats[t].user = u => t = s
    BY <1>3 DEF IInv, Seated
  <2>2. ChipsIn(seats, u) = seats[s].chips
    BY <1>1, <1>3, <2>1, ChipsOne
  <2> QED BY <1>1, <2>2
<1> QED BY <1>2, <1>3

-----------------------------------------------------------------------------
(* The books: the inductive invariant of the wallets.                      *)

BooksTyped ==
    /\ hand <= hands /\ hands <= MaxHands
    /\ wallet \in [Users -> Nat]
    /\ game.open \in BOOLEAN /\ game.stake \in [Seats -> Nat]
    /\ won \in [Users -> Int] /\ credited \in [Users -> {0, Recharge}]

\* What an operation has read and will write.  A settlement that waits has
\* read the current wallet of everybody who has not been recharged since:
\* while it waits only a recharge can write.
PendingTyped ==
    \A op \in pending :
        /\ op.kind = "start" => /\ op.seats \in [Seats -> [user : Users \cup {NoUser}, chips : Nat]]
                                /\ hands < MaxHands
        /\ op.kind = "finish" =>
               \A u \in Users : /\ op.wallet[u] \in Nat
                                /\ credited[u] = 0 => op.wallet[u] = wallet[u]
        /\ op.kind = "recharge" =>
               /\ op.user \in Users /\ op.balance \in Nat /\ credited[op.user] = 0
               /\ \A other \in pending :
                      other.kind = "recharge" /\ other.user = op.user => other = op

\* Before the recharge is booked the user's chips are accounted for.
Accounted == \A u \in Users : credited[u] = 0 => wallet[u] + ChipsIn(seats, u) = Balance + won[u]

Books == BooksTyped /\ PendingTyped /\ Accounted

\* The two properties follow from the books.
LEMMA BooksImply ==
    ASSUME IInv, Books
    PROVE  TypeOK /\ ChipsAccountedFor
<1>1. owner \in Users \cup {NoUser}
  BY DEF IInv, Opened, RoomTyped
<1>2. hand \in 0..hands /\ hands \in 0..MaxHands
  BY DEF IInv, RoomTyped, Books, BooksTyped
<1>3. TypeOK
  BY <1>1, <1>2 DEF IInv, RoomTyped, Books, BooksTyped, TypeOK
<1>4. ASSUME NEW u \in Users, ~Recharging(u)
      PROVE  wallet[u] + ChipsOf(u) = Balance + won[u]
  <2>1. credited[u] = 0
    BY <1>4 DEF Recharging, Books, BooksTyped
  <2>2. ChipsOf(u) = ChipsIn(seats, u)
    BY DEF ChipsOf, SeatsOf, ChipsIn
  <2> QED BY <2>1, <2>2 DEF Books, Accounted
<1> QED BY <1>3, <1>4 DEF ChipsAccountedFor

\* Seats, wallets and what has been booked stay as they are.
LEMMA AccountedStays ==
    ASSUME Accounted, UNCHANGED <<seats, wallet, won, credited>>
    PROVE  Accounted'
BY DEF Accounted

\* Taking a seat moves chips from the wallet to the table.
LEMMA TakeSeatBooks ==
    ASSUME IInv, Books, NEW u \in Users, NEW s \in Seats, NEW chips \in BuyIns,
           TakeSeat(u, s, chips)
    PROVE  Books'
<1>1. /\ status = "waiting" /\ chips \in Nat /\ wallet[u] >= chips
      /\ SeatsOf(u) = {} /\ seats[s] = [user |-> NoUser, chips |-> 0]
      /\ wallet' = [wallet EXCEPT ![u] = @ - chips]
      /\ seats' = [seats EXCEPT ![s] = [user |-> u, chips |-> chips]]
      /\ UNCHANGED <<hand, pending, game, hands, won, credited>>
  BY DEF TakeSeat, SeatsMayChange, Empty
<1>2. BooksTyped'
  BY <1>1 DEF Books, BooksTyped
<1>3. \A op \in pending : op.kind # "finish"
  BY <1>1 DEF IInv, Locked
<1>4. PendingTyped'
  BY <1>1, <1>3 DEF Books, PendingTyped
<1>5. ASSUME NEW v \in Users, credited'[v] = 0
      PROVE  wallet'[v] + ChipsIn(seats', v) = Balance + won'[v]
  <2>1. /\ wallet[v] + ChipsIn(seats, v) = Balance + won[v]
        /\ wallet[v] \in Nat /\ wallet'[v] = IF v = u THEN wallet[v] - chips ELSE wallet[v]
    BY <1>1, <1>5 DEF Books, BooksTyped, Accounted
  <2>2. /\ \A t \in Seats : /\ seats'[t].user = IF t = s THEN u ELSE seats[t].user
                            /\ seats'[t].chips = IF t = s THEN chips ELSE seats[t].chips
                            /\ seats[t].chips \in Int /\ seats[t].user # u
        /\ seats[s].user = NoUser /\ u # NoUser /\ v # NoUser
    BY <1>1 DEF IInv, RoomTyped, SeatsOf
  <2>3. CASE v = u
    <3>1. ChipsIn(seats, u) = 0
      BY <2>2, ChipsNone
    <3>2. ChipsIn(seats', u) = chips
      <4>1. PICK ss : ss = seats'
        OBVIOUS
      <4>2. /\ ss[s].user = u /\ ss[s].chips = chips /\ ss[s].chips \in Int
            /\ \A t \in Seats : ss[t].user = u => t = s
        BY <1>1, <2>2, <4>1
      <4>3. ChipsIn(ss, u) = ss[s].chips
        BY <4>2, ChipsOne
      <4> QED BY <4>1, <4>2, <4>3
    <3> QED BY <1>1, <2>1, <2>3, <3>1, <3>2
  <2>4. CASE v # u
    <3>1. \A t \in Seats : /\ seats[t].user = v <=> seats'[t].user = v
                           /\ seats[t].user = v => seats'[t].chips = seats[t].chips
      BY <2>2, <2>4
    <3>2. ChipsIn(seats', v) = ChipsIn(seats, v)
      BY <2>2, <3>1, ChipsSame
    <3> QED BY <1>1, <2>1, <2>4, <3>2
  <2> QED BY <2>3, <2>4
<1> QED BY <1>2, <1>4, <1>5 DEF Books, Accounted

\* A seat is given back against its chips.
LEMMA LeaveSeatBooks ==
    ASSUME IInv, Books, NEW u \in Users, NEW s \in Seats, LeaveSeat(u, s)
    PROVE  Books'
<1>1. /\ status = "waiting" /\ seats[s].user = u
      /\ wallet' = [wallet EXCEPT ![u] = @ + seats[s].chips]
      /\ seats' = [seats EXCEPT ![s] = [user |-> NoUser, chips |-> 0]]
      /\ UNCHANGED <<hand, pending, game, hands, won, credited>>
  BY DEF LeaveSeat, SeatsMayChange, Empty
<1>2. \A t \in Seats : /\ seats[t].chips \in Nat /\ seats[t].chips \in Int
                       /\ seats'[t].user = IF t = s THEN NoUser ELSE seats[t].user
                       /\ seats'[t].chips = IF t = s THEN 0 ELSE seats[t].chips
  BY <1>1 DEF IInv, RoomTyped
<1>3. BooksTyped'
  BY <1>1, <1>2 DEF Books, BooksTyped
<1>4. \A op \in pending : op.kind # "finish"
  BY <1>1 DEF IInv, Locked
<1>5. PendingTyped'
  BY <1>1, <1>4 DEF Books, PendingTyped
<1>6. u # NoUser /\ \A t \in Seats : seats[t].user = u => t = s
  BY <1>1 DEF IInv, Seated
<1>7. ASSUME NEW v \in Users, credited'[v] = 0
      PROVE  wallet'[v] + ChipsIn(seats', v) = Balance + won'[v]
  <2>1. /\ wallet[v] + ChipsIn(seats, v) = Balance + won[v] /\ wallet[v] \in Nat
        /\ wallet'[v] = IF v = u THEN wallet[v] + seats[s].chips ELSE wallet[v]
    BY <1>1, <1>7 DEF Books, BooksTyped, Accounted
  <2>2. CASE v = u
    <3>1. ChipsIn(seats, u) = seats[s].chips
      BY <1>1, <1>2, <1>6, ChipsOne
    <3>2. \A t \in Seats : seats'[t].user # u
      BY <1>2, <1>6
    <3>3. ChipsIn(seats', u) = 0
      BY <3>2, ChipsNone
    <3> QED BY <1>1, <1>2, <2>1, <2>2, <3>1, <3>3
  <2>3. CASE v # u
    <3>1. \A t \in Seats : /\ seats[t].user = v <=> seats'[t].user = v
                           /\ seats[t].user = v => seats'[t].chips = seats[t].chips
      BY <1>1, <1>2, <2>3
    <3>2. ChipsIn(seats', v) = ChipsIn(seats, v)
      BY <1>2, <3>1, ChipsSame
    <3> QED BY <1>1, <2>1, <2>3, <3>2
  <2> QED BY <2>2, <2>3
<1> QED BY <1>3, <1>5, <1>7 DEF Books, Accounted

\* Who leaves the room takes the chips along.
LEMMA LeaveRoomBooks ==
    ASSUME IInv, Books, NEW u \in Users, LeaveRoom(u)
    PROVE  Books'
<1>1. /\ \A op \in pending : op.kind = "recharge"
      /\ wallet' = [wallet EXCEPT ![u] = @ + ChipsOf(u)]
      /\ seats' = [s \in Seats |-> IF s \in SeatsOf(u) THEN Empty ELSE seats[s]]
      /\ UNCHANGED <<hand, pending, game, hands, won, credited>>
  BY DEF LeaveRoom, LockFree
<1>2. \A t \in Seats :
          /\ seats[t].chips \in Nat /\ seats[t].chips \in Int
          /\ seats'[t].user = IF seats[t].user = u THEN NoUser ELSE seats[t].user
          /\ seats[t].user # u => seats'[t].chips = seats[t].chips
  BY <1>1 DEF IInv, RoomTyped, SeatsOf, Empty
<1>3. PICK k : k = ChipsIn(seats, u)
  OBVIOUS
<1>4. k \in Nat
  BY <1>3, ChipsInteger
<1>5. wallet' = [wallet EXCEPT ![u] = @ + k]
  BY <1>1, <1>3 DEF ChipsOf, SeatsOf, ChipsIn
<1>6. BooksTyped'
  BY <1>1, <1>4, <1>5 DEF Books, BooksTyped
<1>7. PendingTyped'
  BY <1>1 DEF Books, PendingTyped
<1>8. ASSUME NEW v \in Users, credited'[v] = 0
      PROVE  wallet'[v] + ChipsIn(seats', v) = Balance + won'[v]
  <2>1. /\ wallet[v] + ChipsIn(seats, v) = Balance + won[v] /\ wallet[v] \in Nat
        /\ wallet'[v] = IF v = u THEN wallet[v] + k ELSE wallet[v]
    BY <1>1, <1>5, <1>8 DEF Books, BooksTyped, Accounted
  <2>2. CASE v = u
    <3>1. \A t \in Seats : seats'[t].user # u
      BY <1>2
    <3>2. ChipsIn(seats', u) = 0
      BY <3>1, ChipsNone
    <3> QED BY <1>1, <1>3, <1>4, <2>1, <2>2, <3>2
  <2>3. CASE v # u
    <3>1. \A t \in Seats : /\ seats[t].user = v <=> seats'[t].user = v
                           /\ seats[t].user = v => seats'[t].chips = seats[t].chips
      BY <1>2, <2>3
    <3>2. ChipsIn(seats', v) = ChipsIn(seats, v)
      BY <1>2, <3>1, ChipsSame
    <3> QED BY <1>1, <2>1, <2>3, <3>2
  <2> QED BY <2>2, <2>3
<1> QED BY <1>6, <1>7, <1>8 DEF Books, Accounted

\* A start or a settlement reads while the room is locked for it alone.
LEMMA StartReadBooks ==
    ASSUME IInv, Books, NEW by, StartRead(by)
    PROVE  Books'
<1>1. PICK op : op = [kind |-> "start", by |-> by, seats |-> seats]
  OBVIOUS
<1>2. /\ pending' = pending \cup {op} /\ hands < MaxHands
      /\ UNCHANGED <<hand, seats, wallet, game, hands, won, credited>>
  BY <1>1 DEF StartRead
<1>3. op.kind = "start" /\ op.seats \in [Seats -> [user : Users \cup {NoUser}, chips : Nat]]
  BY <1>1 DEF IInv, RoomTyped
<1>4. BooksTyped' /\ Accounted'
  BY <1>2, AccountedStays DEF Books, BooksTyped
<1>5. PendingTyped'
  BY <1>2, <1>3 DEF Books, PendingTyped
<1> QED BY <1>4, <1>5 DEF Books

\* A settlement that is only read changes no account.
LEMMA FinishReadBooks ==
    ASSUME IInv, Books, FinishRead
    PROVE  Books'
<1>1. PICK op : op = [kind |-> "finish", wallet |-> wallet,
                      user |-> [s \in Seats |-> seats[s].user]]
  OBVIOUS
<1>2. /\ pending' = pending \cup {op}
      /\ UNCHANGED <<hand, seats, wallet, game, hands, won, credited>>
  BY <1>1 DEF FinishRead
<1>3. op.kind = "finish" /\ op.wallet = wallet
  BY <1>1
<1>4. BooksTyped' /\ Accounted'
  BY <1>2, AccountedStays DEF Books, BooksTyped
<1>5. \A u \in Users : wallet[u] \in Nat
  BY DEF Books, BooksTyped
<1>6. PendingTyped'
  BY <1>2, <1>3, <1>5 DEF Books, PendingTyped
<1> QED BY <1>4, <1>6 DEF Books

\* A recharge that is only read changes no account.
LEMMA RechargeReadBooks ==
    ASSUME IInv, Books, NEW u \in Users, RechargeRead(u)
    PROVE  Books'
<1>1. PICK op : op = [kind |-> "recharge", user |-> u, balance |-> wallet[u]]
  OBVIOUS
<1>2. /\ ~Recharging(u) /\ pending' = pending \cup {op}
      /\ UNCHANGED <<hand, seats, wallet, game, hands, won, credited>>
  BY <1>1 DEF RechargeRead
<1>3. /\ op.kind = "recharge" /\ op.user = u /\ op.balance \in Nat
      /\ credited[u] = 0
      /\ \A other \in pending : ~(other.kind = "recharge" /\ other.user = u)
  BY <1>1, <1>2 DEF Recharging, Books, BooksTyped
<1>4. BooksTyped' /\ Accounted'
  BY <1>2, AccountedStays DEF Books, BooksTyped
<1>5. PendingTyped'
  BY <1>2, <1>3 DEF Books, PendingTyped
<1> QED BY <1>4, <1>5 DEF Books

\* The start of a hand moves no chips.
LEMMA StartWriteBooks ==
    ASSUME IInv, Books, NEW op \in pending, StartWrite(op)
    PROVE  Books'
<1>1. /\ op.kind = "start" /\ hands' = hands + 1 /\ hand' = hands + 1
      /\ game' = NewGame(op.seats) /\ pending' = pending \ {op}
      /\ UNCHANGED <<seats, wallet, won, credited>>
  BY DEF StartWrite
<1>2. op.seats \in [Seats -> [user : Users \cup {NoUser}, chips : Nat]] /\ hands < MaxHands
  BY <1>1 DEF Books, PendingTyped
<1>3. game'.open \in BOOLEAN /\ game'.stake \in [Seats -> Nat]
  BY <1>1, <1>2 DEF NewGame
<1>4. BooksTyped'
  BY <1>1, <1>2, <1>3 DEF Books, BooksTyped, IInv, RoomTyped
<1>5. \A other \in pending' : other.kind = "recharge"
  BY <1>1 DEF IInv, Locked
<1>6. PendingTyped'
  BY <1>1, <1>5 DEF Books, PendingTyped
<1> QED BY <1>1, <1>4, <1>6, AccountedStays DEF Books

\* The settlement books what it computed from the wallets it read: the current
\* ones of all who have not been recharged.
LEMMA FinishWriteBooks ==
    ASSUME IInv, Books, NEW op \in pending, FinishWrite(op)
    PROVE  Books'
<1>1. /\ op.kind = "finish" /\ pending' = pending \ {op}
      /\ UNCHANGED <<seats, hands, credited>>
  BY DEF FinishWrite
<1>2. \A u \in Users : /\ op.wallet[u] \in Nat
                       /\ credited[u] = 0 => op.wallet[u] = wallet[u]
  BY <1>1 DEF Books, PendingTyped
<1>3. PICK gain \in Gains(op) :
          \/ /\ Bookable(op, gain)
             /\ wallet' = [u \in Users |-> IF gain[u] = 0 THEN wallet[u] ELSE op.wallet[u] + gain[u]]
             /\ won' = [u \in Users |-> won[u] + gain[u]]
             /\ hand' = 0 /\ game' = NoGame
          \/ UNCHANGED <<hand, wallet, game, won>>
  BY DEF FinishWrite
<1>4. \A u \in Users : gain[u] \in Int
  BY GainsTyped
<1>5. \A other \in pending' : other.kind = "recharge"
  BY <1>1 DEF IInv, Locked
<1>6. PendingTyped'
  BY <1>1, <1>5 DEF Books, PendingTyped
<1>7. CASE /\ Bookable(op, gain)
           /\ wallet' = [u \in Users |-> IF gain[u] = 0 THEN wallet[u] ELSE op.wallet[u] + gain[u]]
           /\ won' = [u \in Users |-> won[u] + gain[u]]
           /\ hand' = 0 /\ game' = NoGame
  <2>1. \A u \in Users : op.wallet[u] + gain[u] \in Nat
    BY <1>2, <1>4, <1>7 DEF Bookable
  <2>2. NoGame.open \in BOOLEAN /\ NoGame.stake \in [Seats -> Nat]
    BY DEF NoGame
  <2>3. BooksTyped'
    BY <1>1, <1>4, <1>7, <2>1, <2>2 DEF Books, BooksTyped, IInv, RoomTyped
  <2>4. ASSUME NEW u \in Users, credited'[u] = 0
        PROVE  wallet'[u] + ChipsIn(seats', u) = Balance + won'[u]
    <3>1. /\ wallet[u] + ChipsIn(seats, u) = Balance + won[u]
          /\ wallet[u] \in Nat /\ won[u] \in Int /\ op.wallet[u] = wallet[u]
      BY <1>1, <1>2, <2>4 DEF Books, BooksTyped, Accounted
    <3>2. /\ wallet'[u] = wallet[u] + gain[u]
          /\ won'[u] = won[u] + gain[u]
      BY <1>4, <1>7, <3>1
    <3>3. ChipsIn(seats, u) \in Int
      BY ChipsInteger
    <3> QED BY <1>1, <1>4, <3>1, <3>2, <3>3
  <2> QED BY <1>6, <2>3, <2>4 DEF Books, Accounted
<1>8. CASE UNCHANGED <<hand, wallet, game, won>>
  <2>1. BooksTyped' /\ Accounted'
    BY <1>1, <1>8, AccountedStays DEF Books, BooksTyped
  <2> QED BY <1>6, <2>1 DEF Books
<1> QED BY <1>3, <1>7, <1>8

\* A recharge adds to the wallet what it adds to the account.
LEMMA RechargeWriteBooks ==
    ASSUME IInv, Books, NEW op \in pending, RechargeWrite(op)
    PROVE  Books'
<1>1. /\ op.kind = "recharge" /\ pending' = pending \ {op}
      /\ wallet' = [wallet EXCEPT ![op.user] = op.balance + Recharge]
      /\ credited' = [credited EXCEPT ![op.user] = @ + Recharge]
      /\ UNCHANGED <<hand, seats, game, hands, won>>
  BY DEF RechargeWrite
<1>2. /\ op.user \in Users /\ op.balance \in Nat /\ credited[op.user] = 0
      /\ \A other \in pending : other.kind = "recharge" /\ other.user = op.user => other = op
  BY <1>1 DEF Books, PendingTyped
<1>3. BooksTyped'
  BY <1>1, <1>2 DEF Books, BooksTyped
<1>4. credited'[op.user] # 0
  BY <1>1, <1>2 DEF Books, BooksTyped
<1>5. \A u \in Users : u # op.user => credited'[u] = credited[u] /\ wallet'[u] = wallet[u]
  BY <1>1 DEF Books, BooksTyped
<1>6. PendingTyped'
  BY <1>1, <1>2, <1>4, <1>5 DEF Books, PendingTyped
<1>7. Accounted'
  BY <1>1, <1>4, <1>5 DEF Books, Accounted
<1> QED BY <1>3, <1>6, <1>7 DEF Books

\* The books are right before anybody has joined.
LEMMA BooksInit == Init => Books
<1> SUFFICES ASSUME Init PROVE Books
  OBVIOUS
<1>1. /\ hand = 0 /\ hands = 0 /\ pending = {} /\ game = NoGame
      /\ seats = [s \in Seats |-> [user |-> NoUser, chips |-> 0]]
      /\ wallet = [u \in Users |-> Balance] /\ won = [u \in Users |-> 0]
      /\ credited = [u \in Users |-> 0]
  BY DEF Init, Empty
<1>2. BooksTyped
  BY <1>1 DEF BooksTyped, NoGame
<1>3. PendingTyped
  BY <1>1 DEF PendingTyped
<1>4. ASSUME NEW u \in Users PROVE ChipsIn(seats, u) = 0
  <2>1. \A s \in Seats : seats[s].user # u
    BY <1>1
  <2> QED BY <2>1, ChipsNone
<1> QED BY <1>1, <1>2, <1>3, <1>4 DEF Books, Accounted

\* No step makes the books wrong.
LEMMA BooksNext == IInv /\ Books /\ [Next]_vars => Books'
<1> SUFFICES ASSUME IInv, Books, [Next]_vars PROVE Books'
  OBVIOUS
<1>1. ASSUME UNCHANGED <<hand, seats, wallet, game, pending, hands, won, credited>> PROVE Books'
  BY <1>1, AccountedStays DEF Books, BooksTyped, PendingTyped
<1>2. ASSUME NEW u \in Users, Join(u) PROVE Books'
  BY <1>1, <1>2 DEF Join
<1>3. ASSUME NEW op \in pending, Abort(op) PROVE Books'
  BY <1>3, AccountedStays DEF Abort, Books, BooksTyped, PendingTyped
<1>4. CASE UNCHANGED vars
  BY <1>1, <1>4 DEF vars
<1> QED BY <1>2, <1>3, <1>4, TakeSeatBooks, LeaveSeatBooks, LeaveRoomBooks, StartReadBooks,
           FinishReadBooks, RechargeReadBooks, StartWriteBooks, FinishWriteBooks,
           RechargeWriteBooks DEF Next

\* The tables and wallets keep their types: no wallet goes below zero, no user
\* is recharged twice and no hand is started beyond the last.
THEOREM TypeCorrect == Spec => []TypeOK
<1>1. Spec => [](IInv /\ Books)
  BY Invariance, InitInvariant, BooksInit, BooksNext, PTL DEF Spec
<1>2. IInv /\ Books => TypeOK
  BY BooksImply
<1> QED BY <1>1, <1>2, PTL

\* The chips of a user who has not been recharged are what he began with and
\* what hands booked to him, whatever happens between the reads and the writes
\* of a start, a settlement or another user's recharge.
THEOREM ChipsAreAccountedFor == Spec => []ChipsAccountedFor
<1>1. Spec => [](IInv /\ Books)
  BY Invariance, InitInvariant, BooksInit, BooksNext, PTL DEF Spec
<1>2. IInv /\ Books => ChipsAccountedFor
  BY BooksImply
<1> QED BY <1>1, <1>2, PTL
=============================================================================
