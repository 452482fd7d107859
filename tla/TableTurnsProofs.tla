-------------------------- MODULE TableTurnsProofs --------------------------
(***************************************************************************)
(* Proofs about TableTurns: a turn always has its timer, a timer plays the *)
(* turn it was set for, and an automatic hand follows the settlement that  *)
(* scheduled it, for any number of seats, hands and turns.                 *)
(***************************************************************************)
EXTENDS TableTurns, TLAPS

(* The versions of the timers are not ahead of timerVersion, and a timer   *)
(* that carries timerVersion itself is the one of the present turn, or     *)
(* belongs to the last settlement.  Without it a timer that is still       *)
(* asleep could be taken for the one armed later.                          *)

VersionsPast == \A t \in timers : t.version <= version

LatestIsThisTurns ==
    able => \A t \in timers : t.version = version
                => t.kind = "action" /\ t.hand = hand /\ t.turn = turn

LatestIsLastSettlements ==
    hand = 0 => \A t \in timers : t.version = version /\ t.kind = "next" => t.hand = hands

IInv == TypeOK /\ VersionsPast /\ LatestIsThisTurns /\ LatestIsLastSettlements /\ TimerArmed

USE SeatsAssumption, BoundsAssumption DEF NoTurn

\* TypeOK in two parts: the provers that know numbers do not know flags.
Flags == able \in BOOLEAN /\ startable \in BOOLEAN /\ untimed \in BOOLEAN

Values ==
    /\ hands \in 0..MaxHands /\ hand \in {0, hands}
    /\ turn \in 0..MaxTurns /\ (turn = 0 <=> hand = 0)
    /\ seat \in Seats \cup {NoTurn}
    /\ settledBy \in {"none", "socket", "http", "timeout"}
    /\ version \in Nat
    /\ timers \subseteq Timer
    /\ commands \subseteq Command

\* TypeOK is its two parts and that only a seat can be able.
LEMMA Types == TypeOK <=> Flags /\ Values /\ (able => seat # NoTurn)
BY ZenonT(30) DEF TypeOK, Flags, Values

\* The same of the state after a step.
LEMMA TypesNext == Flags' /\ Values' /\ (able' => seat' # NoTurn) => TypeOK'
BY ZenonT(30) DEF TypeOK, Flags, Values

-----------------------------------------------------------------------------
(* The parts of a step that change the hand.                               *)

\* What a step does to the players' side is apart from the hand.
PlayersTyped == startable' \in BOOLEAN /\ commands' \subseteq Command

\* A seat that is asked for gets a timer newer than every one that sleeps.
LEMMA ArmTyped ==
    ASSUME IInv, NEW slept, slept \subseteq timers,
           NEW h \in 1..MaxHands, NEW n \in 1..MaxTurns, NEW s \in Seats,
           Arm(slept, h, n, s)
    PROVE  /\ version' = version + 1 /\ version' \in Nat
           /\ timers' = slept \cup {ActionTimer(version', h, n, s)}
           /\ timers' \subseteq Timer
           /\ \A t \in slept : t.version < version'
           /\ ActionTimer(version', h, n, s).version = version'
<1>1. s # NoTurn
  OBVIOUS
<1>2. /\ version' = version + 1 /\ version' \in Nat
      /\ timers' = slept \cup {ActionTimer(version', h, n, s)}
  BY <1>1 DEF Arm, IInv, TypeOK
<1>3. ActionTimer(version', h, n, s) \in Timer
  BY <1>2 DEF ActionTimer, Timer
<1>4. \A t \in slept : t.version \in Nat /\ t.version <= version
  BY DEF IInv, TypeOK, Timer, VersionsPast
<1> QED BY <1>2, <1>3, <1>4 DEF IInv, TypeOK, ActionTimer

\* The start of a hand, by the owner or by the automatic start.
LEMMA StartKeeps ==
    ASSUME IInv, NEW slept, slept \subseteq timers, Start(slept), PlayersTyped
    PROVE  IInv'
<1>1. hands \in 0..MaxHands /\ hands < MaxHands
  BY DEF IInv, TypeOK, Start
<1>2. /\ hand' = hands' /\ hands' \in 0..MaxHands /\ hand' \in 1..MaxHands
      /\ turn' = 1 /\ turn' \in 1..MaxTurns
  BY <1>1 DEF Start
<1>3. CASE seat' = NoTurn
  <2>1. version' = version /\ timers' = slept /\ able' = FALSE
    BY <1>3 DEF Start, Arm
  <2>2. VersionsPast' /\ LatestIsThisTurns' /\ LatestIsLastSettlements' /\ TimerArmed'
    BY <1>2, <2>1 DEF IInv, VersionsPast, LatestIsThisTurns, LatestIsLastSettlements, TimerArmed
  <2>3. Values'
    BY <1>2, <1>3, <2>1, Types DEF Start, Values, IInv, PlayersTyped
  <2>4. Flags' /\ ~able'
    BY <2>1 DEF Start, Flags, PlayersTyped
  <2>5. TypeOK'
    BY <2>3, <2>4, TypesNext
  <2> QED BY <2>2, <2>5 DEF IInv
<1>4. CASE seat' \in Seats
  <2>0. PICK h \in 1..MaxHands, n \in 1..MaxTurns : h = hand' /\ n = turn'
    BY <1>2
  <2> DEFINE new == ActionTimer(version', h, n, seat')
  <2>1. Arm(slept, h, n, seat')
    BY <2>0 DEF Start
  <2>2. /\ version' = version + 1 /\ version' \in Nat
        /\ timers' = slept \cup {new}
        /\ timers' \subseteq Timer
        /\ \A t \in slept : t.version < version'
        /\ new.version = version'
    BY <1>4, <2>1, ArmTyped
  <2>3. new.kind = "action" /\ new.hand = hand' /\ new.turn = turn'
    BY <2>0 DEF ActionTimer
  <2>4. \A t \in slept : t.version \in Nat
    BY DEF IInv, TypeOK, Timer
  <2> HIDE DEF new
  <2>5. VersionsPast' /\ LatestIsThisTurns' /\ LatestIsLastSettlements'
    BY <1>2, <2>2, <2>3, <2>4 DEF VersionsPast, LatestIsThisTurns, LatestIsLastSettlements
  <2>6. TimerArmed'
    BY <2>0, <2>2 DEF TimerArmed, new
  <2>7. Values'
    BY <1>2, <1>4, <2>2, Types DEF Start, Values, IInv, PlayersTyped
  <2>8. Flags'
    BY DEF Start, Flags, PlayersTyped
  <2>9. TypeOK'
    BY <1>4, <2>7, <2>8, TypesNext
  <2> QED BY <2>5, <2>6, <2>9 DEF IInv
<1> QED BY <1>3, <1>4 DEF Start

\* A command or a timeout that gives the turn to the next seat.
LEMMA PassTurnKeeps ==
    ASSUME IInv, able, hand # 0, NEW slept, slept \subseteq timers,
           PassTurn(slept), PlayersTyped
    PROVE  IInv'
<1>1. hand \in 1..MaxHands /\ hand' = hand /\ hands' = hands
      /\ turn' = turn + 1 /\ turn' \in 1..MaxTurns
  BY DEF IInv, TypeOK, PassTurn
<1>2. CASE seat' = NoTurn
  <2>1. version' = version /\ timers' = slept /\ able' = FALSE
    BY <1>2 DEF PassTurn, Arm
  <2>2. VersionsPast' /\ LatestIsThisTurns' /\ LatestIsLastSettlements' /\ TimerArmed'
    BY <1>1, <2>1 DEF IInv, VersionsPast, LatestIsThisTurns, LatestIsLastSettlements, TimerArmed
  <2>3. Values'
    BY <1>1, <1>2, <2>1, Types DEF PassTurn, Values, IInv, PlayersTyped
  <2>4. Flags' /\ ~able'
    BY <2>1 DEF PassTurn, Flags, PlayersTyped
  <2>5. TypeOK'
    BY <2>3, <2>4, TypesNext
  <2> QED BY <2>2, <2>5 DEF IInv
<1>3. CASE seat' \in Seats
  <2> DEFINE new == ActionTimer(version', hand, turn', seat')
  <2>1. Arm(slept, hand, turn', seat')
    BY DEF PassTurn
  <2>2. /\ version' = version + 1 /\ version' \in Nat
        /\ timers' = slept \cup {new}
        /\ timers' \subseteq Timer
        /\ \A t \in slept : t.version < version'
        /\ new.version = version'
    BY <1>1, <1>3, <2>1, ArmTyped, SMTT(30)
  <2>3. new.kind = "action" /\ new.hand = hand' /\ new.turn = turn'
    BY <1>1 DEF ActionTimer
  <2>4. \A t \in slept : t.version \in Nat
    BY DEF IInv, TypeOK, Timer
  <2> HIDE DEF new
  <2>5. VersionsPast' /\ LatestIsThisTurns' /\ LatestIsLastSettlements'
    BY <1>1, <2>2, <2>3, <2>4 DEF VersionsPast, LatestIsThisTurns, LatestIsLastSettlements
  <2>6. TimerArmed'
    BY <1>1, <2>2 DEF TimerArmed, new
  <2>7. Values'
    BY <1>1, <1>3, <2>2, Types DEF PassTurn, Values, IInv, PlayersTyped
  <2>8. Flags'
    BY DEF PassTurn, Flags, PlayersTyped
  <2>9. TypeOK'
    BY <1>3, <2>7, <2>8, TypesNext
  <2> QED BY <2>5, <2>6, <2>9 DEF IInv
<1> QED BY <1>2, <1>3 DEF PassTurn

\* A command or a timeout that settles the hand outdates every timer.
LEMMA SettleKeeps ==
    ASSUME IInv, hand # 0, NEW slept, slept \subseteq timers,
           NEW by \in {"socket", "http", "timeout"}, Settle(slept, by), PlayersTyped
    PROVE  IInv'
<1>1. /\ hand' = 0 /\ turn' = 0 /\ seat' = NoTurn /\ able' = FALSE
      /\ settledBy' = by /\ untimed' = FALSE /\ hands' = hands
  BY DEF Settle
<1>2. hand = hands /\ hand \in 1..MaxHands
  BY DEF IInv, TypeOK
<1>3. \A t \in slept : t.version \in Nat /\ t.version <= version /\ t \in Timer
  BY DEF IInv, TypeOK, Timer, VersionsPast
<1>4. /\ version' \in Nat /\ version < version'
      /\ timers' \subseteq Timer
      /\ \A t \in timers' : t \in slept \/ (t.version = version' /\ t.hand = hands)
  <2>1. CASE PlaysOn(by)
    <3> DEFINE new == NextTimer(version + 2, hand)
    <3>1. version' = version + 2 /\ timers' = slept \cup {new}
      BY <2>1 DEF Settle
    <3>2. new \in Timer /\ new.version = version + 2 /\ new.hand = hand
      BY <1>2 DEF NextTimer, Timer, IInv, TypeOK
    <3> HIDE DEF new
    <3> QED BY <1>2, <1>3, <3>1, <3>2 DEF IInv, TypeOK
  <2>2. CASE ~PlaysOn(by)
    <3>1. version' = version + 1 /\ timers' = slept
      BY <2>2 DEF Settle
    <3> QED BY <1>3, <3>1 DEF IInv, TypeOK
  <2> QED BY <2>1, <2>2
<1>5. version \in Nat
  BY DEF IInv, TypeOK
<1>6. VersionsPast' /\ LatestIsThisTurns' /\ LatestIsLastSettlements' /\ TimerArmed'
  BY <1>1, <1>3, <1>4, <1>5 DEF VersionsPast, LatestIsThisTurns, LatestIsLastSettlements, TimerArmed
<1>7. Values'
  BY <1>1, <1>2, <1>4, Types DEF Values, IInv, PlayersTyped
<1>8. Flags' /\ ~able'
  BY <1>1 DEF Flags, PlayersTyped
<1>9. TypeOK'
  BY <1>7, <1>8, TypesNext
<1> QED BY <1>6, <1>9 DEF IInv

\* A settlement that the archive refuses changes neither hand nor version.
LEMMA RefuseKeeps ==
    ASSUME IInv, NEW slept, slept \subseteq timers, Refuse(slept), PlayersTyped
    PROVE  IInv'
BY DEF Refuse, IInv, TypeOK, PlayersTyped, VersionsPast, LatestIsThisTurns,
       LatestIsLastSettlements, TimerArmed

\* Whatever a command or a timeout does.
LEMMA PlayKeeps ==
    ASSUME IInv, able, hand # 0, NEW slept, slept \subseteq timers,
           NEW by \in {"socket", "http", "timeout"}, Play(slept, by), PlayersTyped
    PROVE  IInv'
BY PassTurnKeeps, SettleKeeps, RefuseKeeps DEF Play

-----------------------------------------------------------------------------
(* Every step.                                                             *)

\* The room without a hand and without timers.
LEMMA InitInvariant == Init => IInv
<1> SUFFICES ASSUME Init PROVE IInv
  OBVIOUS
<1>1. Values
  BY DEF Init, Values
<1>2. Flags /\ ~able
  BY DEF Init, Flags
<1>3. VersionsPast /\ LatestIsThisTurns /\ LatestIsLastSettlements /\ TimerArmed
  BY DEF Init, VersionsPast, LatestIsThisTurns, LatestIsLastSettlements, TimerArmed
<1> QED BY <1>1, <1>2, <1>3, Types DEF IInv

\* A timer that goes without effect is not the one the turn waits for.
LEMMA ExpireKeeps ==
    ASSUME IInv, NEW t \in timers, Expire(t)
    PROVE  IInv'
<1>1. ActionTimer(version, hand, turn, seat) = t => ~able
  BY DEF Expire, Expires, Counts, ActionTimer
<1>2. TimerArmed'
  BY <1>1 DEF Expire, room, IInv, TimerArmed
<1> QED BY <1>2 DEF Expire, room, IInv, TypeOK, VersionsPast, LatestIsThisTurns,
           LatestIsLastSettlements

\* After a restart no timer is asleep, and the turn counts as untimed.
LEMMA RestartKeeps == ASSUME IInv, Restart PROVE IInv'
<1>1. /\ timers' = {} /\ commands' = {} /\ version' = 0
      /\ untimed' = TRUE /\ settledBy' = "none"
      /\ UNCHANGED <<hand, turn, seat, able, hands, startable>>
  BY DEF Restart
<1>2. able => seat # NoTurn
  BY DEF IInv, TypeOK
<1>3. VersionsPast' /\ LatestIsThisTurns' /\ LatestIsLastSettlements'
  BY <1>1 DEF VersionsPast, LatestIsThisTurns, LatestIsLastSettlements
<1>4. TimerArmed'
  BY <1>1, Zenon DEF TimerArmed
<1>5. Values'
  BY <1>1 DEF Values, IInv, TypeOK
<1>6. Flags' /\ (able' => seat' # NoTurn)
  <2>1. untimed' \in BOOLEAN
    BY <1>1
  <2>2. able' \in BOOLEAN /\ startable' \in BOOLEAN
    BY <1>1, Zenon DEF IInv, TypeOK
  <2> QED BY <1>1, <1>2, <2>1, <2>2, Zenon DEF Flags
<1>7. TypeOK'
  BY <1>5, <1>6, TypesNext
<1> QED BY <1>3, <1>4, <1>7 DEF IInv

\* Every step: of the players, of a command under way, of a timer.
LEMMA NextInvariant == IInv /\ [Next]_vars => IInv'
<1> SUFFICES ASSUME IInv, [Next]_vars PROVE IInv'
  OBVIOUS
<1>1. CASE Sit
  BY <1>1 DEF Sit, room, IInv, TypeOK, VersionsPast, LatestIsThisTurns,
     LatestIsLastSettlements, TimerArmed
<1>2. CASE Leave
  BY <1>2 DEF Leave, IInv, TypeOK, VersionsPast, LatestIsThisTurns,
     LatestIsLastSettlements, TimerArmed
<1>3. CASE OwnerStarts
  BY <1>3, StartKeeps DEF OwnerStarts, PlayersTyped, IInv, TypeOK
<1>4. ASSUME NEW s \in Seats, NEW by \in {"socket", "http"}, Send(s, by) PROVE IInv'
  <2>1. [seat |-> s, by |-> by] \in Command
    BY DEF Command
  <2>2. commands' \subseteq Command
    BY <1>4, <2>1 DEF Send, IInv, TypeOK
  <2> QED BY <1>4, <2>2 DEF Send, room, IInv, TypeOK, VersionsPast, LatestIsThisTurns,
          LatestIsLastSettlements, TimerArmed
<1>5. ASSUME NEW c \in commands, Drop(c) PROVE IInv'
  BY <1>5 DEF Drop, room, IInv, TypeOK, VersionsPast, LatestIsThisTurns,
     LatestIsLastSettlements, TimerArmed
<1>6. ASSUME NEW c \in commands, Handle(c) PROVE IInv'
  <2>1. c.by \in {"socket", "http", "timeout"}
    BY DEF IInv, TypeOK, Command
  <2>2. PlayersTyped
    BY <1>6 DEF Handle, PlayersTyped, IInv, TypeOK
  <2> QED BY <1>6, <2>1, <2>2, PlayKeeps DEF Handle
<1>7. ASSUME NEW t \in timers, WakeUp(t) PROVE IInv'
  <2>1. CASE Expire(t)
    BY <2>1, ExpireKeeps
  <2>2. CASE TimeOut(t)
    <3>1. able /\ hand # 0
      BY <2>2 DEF TimeOut, Expires, IInv, TypeOK, Timer
    <3>2. PlayersTyped
      BY <2>2 DEF TimeOut, PlayersTyped, IInv, TypeOK
    <3> QED BY <2>2, <3>1, <3>2, PlayKeeps DEF TimeOut
  <2>3. CASE StartNext(t)
    <3>1. PlayersTyped
      BY <2>3 DEF StartNext, PlayersTyped, IInv, TypeOK
    <3> QED BY <2>3, <3>1, StartKeeps DEF StartNext
  <2> QED BY <1>7, <2>1, <2>2, <2>3 DEF WakeUp
<1>8. CASE Restart
  BY <1>8, RestartKeeps
<1>9. CASE UNCHANGED vars
  BY <1>9 DEF vars, room, IInv, TypeOK, VersionsPast, LatestIsThisTurns,
     LatestIsLastSettlements, TimerArmed
<1> QED BY <1>1, <1>2, <1>3, <1>4, <1>5, <1>6, <1>7, <1>8, <1>9 DEF Next

\* Every reachable state satisfies the inductive invariant.
THEOREM Invariance == Spec => []IInv
BY InitInvariant, NextInvariant, PTL DEF Spec

\* Every variable has its type, for any number of seats, hands and turns.
THEOREM TypesHold == Spec => []TypeOK
<1>1. IInv => TypeOK
  BY DEF IInv
<1> QED BY <1>1, Invariance, PTL

\* A turn is never left without the timer that will end it, for any number of
\* seats, hands and turns (scheduleActionTimeout).
THEOREM TurnsAreTimed == Spec => []TimerArmed
<1>1. IInv => TimerArmed
  BY DEF IInv
<1> QED BY <1>1, Invariance, PTL

\* A timer that was overtaken by the player's command never plays
\* (applyTimeoutAction).
THEOREM TimersPlayTheirTurn == Spec => TimeoutPlaysItsTurn
<1>1. IInv /\ [Next]_vars
        => [\A t \in timers : TimeOut(t) => t.hand = hand /\ t.turn = turn]_vars
  BY DEF IInv, LatestIsThisTurns, TimeOut, Expires, Counts
<1> QED BY <1>1, Invariance, PTL DEF Spec, TimeoutPlaysItsTurn

\* An automatic start that the owner's start came before never counts
\* (scheduleAutoNextHand).
THEOREM HandsFollowTheirSettlement == Spec => NextHandFollowsItsSettlement
<1>1. IInv /\ [Next]_vars => [\A t \in timers : StartNext(t) => t.hand = hands]_vars
  BY DEF IInv, LatestIsLastSettlements, StartNext, Expires, Counts
<1> QED BY <1>1, Invariance, PTL DEF Spec, NextHandFollowsItsSettlement
=============================================================================
