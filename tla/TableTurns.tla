----------------------------- MODULE TableTurns -----------------------------
(***************************************************************************)
(* Who plays next at a table, and when: the commands of the players, the   *)
(* action timer and the automatic next hand of                             *)
(* backend/internal/api/socket.go and server.go.                           *)
(*                                                                         *)
(* All of them run under the room's mutex, each is one step.  A goroutine  *)
(* that sleeps is an element of timers: it wakes up at any time, and only  *)
(* the version it carries tells whether it still counts.  A command is in  *)
(* the network between being sent and being handled.                       *)
(*                                                                         *)
(* The hand is abstracted to whose turn it is: a command that Apply        *)
(* accepts gives the turn to any seat, to none when the hand is stuck, or  *)
(* settles the hand.  It is played by the room's commands only: an action  *)
(* posted to /api/games/{id}/actions (server.go, submitAction), which      *)
(* takes no mutex and arms no timer, is outside this model.                *)
(***************************************************************************)
EXTENDS Integers, FiniteSets

CONSTANTS Seats,
          MaxHands,  \* bound on the hands
          MaxTurns,  \* bound on the turns of a hand
          MaxSent    \* bound on the commands under way

ASSUME SeatsAssumption == Seats \subseteq Nat \ {0}
ASSUME BoundsAssumption == MaxHands \in Nat /\ MaxTurns \in Nat \ {0} /\ MaxSent \in Nat

VARIABLES hand,      \* current_game_id, 0 for none
          turn,      \* the turns of the hand so far
          seat,      \* CurrentSeat, 0 when nobody is to act
          able,      \* the status of that seat is active
          startable, \* the room is open and enough players are seated
          version,   \* timerVersion
          timers,    \* the sleeping goroutines
          commands   \* the players' commands under way

\* History: the hands started, how the last one was settled if nobody has left
\* and the server has not restarted since, and whether since the last hand
\* event the archive has refused a settlement or the server has restarted.
VARIABLES hands, settledBy, untimed

room == <<hand, turn, seat, able, hands, settledBy, untimed>>
vars == <<room, startable, version, timers, commands>>

NoTurn == 0

Init == /\ hand = 0 /\ turn = 0 /\ seat = NoTurn /\ able = FALSE
        /\ startable = FALSE
        /\ version = 0
        /\ timers = {}
        /\ commands = {}
        /\ hands = 0 /\ settledBy = "none" /\ untimed = FALSE

-----------------------------------------------------------------------------
\* Timers

ActionTimer(v, h, n, s) == [kind |-> "action", version |-> v, hand |-> h, turn |-> n, seat |-> s]
NextTimer(v, h) == [kind |-> "next", version |-> v, hand |-> h, turn |-> 0, seat |-> NoTurn]

\* Mutant of Arm: a timer that is still asleep is left to do the job.
ArmIfNone(slept, h, n, s) ==
    IF s = NoTurn \/ \E t \in slept : t.kind = "action" THEN version' = version /\ timers' = slept
    ELSE /\ version' = version + 1
         /\ timers' = slept \cup {ActionTimer(version + 1, h, n, s)}

\* Mutant of Arm: a seat is not asked for.
ArmAnyway(slept, h, n, s) ==
    /\ version' = version + 1
    /\ timers' = slept \cup {ActionTimer(version + 1, h, n, s)}

\* scheduleActionTimeout
Arm(slept, h, n, s) ==
    IF s = NoTurn THEN version' = version /\ timers' = slept
    ELSE /\ version' = version + 1
         /\ timers' = slept \cup {ActionTimer(version + 1, h, n, s)}

\* Mutant of Counts: the version is not compared.
Always(t) == TRUE

Counts(t) == t.version = version

-----------------------------------------------------------------------------
\* startRoomHandForUser; slept are the timers that are asleep.

Start(slept) ==
    /\ hand = 0
    /\ startable
    /\ hands < MaxHands
    /\ hands' = hands + 1
    /\ hand' = hands + 1
    /\ turn' = 1
    /\ seat' \in Seats \cup {NoTurn}
    /\ able' \in (IF seat' = NoTurn THEN {FALSE} ELSE BOOLEAN)
    /\ settledBy' = "none"
    /\ untimed' = FALSE
    /\ Arm(slept, hand', turn', seat')

-----------------------------------------------------------------------------
\* applyRoomActionForSeat and what its callers do when it has settled the hand.

\* Mutant of PlaysOn: the timeout path does not schedule the next hand.
SocketPlaysOn(by) == by = "socket"

\* handleAction and applyTimeoutAction schedule the next hand, the HTTP
\* endpoint does not.
PlaysOn(by) == by # "http"

PassTurn(slept) ==
    /\ turn < MaxTurns
    /\ turn' = turn + 1
    /\ seat' \in Seats \cup {NoTurn}
    /\ able' = (seat' # NoTurn)
    /\ untimed' = FALSE
    /\ Arm(slept, hand, turn', seat')
    /\ UNCHANGED <<hand, hands, settledBy>>

Settle(slept, by) ==
    /\ hand' = 0 /\ turn' = 0 /\ seat' = NoTurn /\ able' = FALSE
    /\ settledBy' = by
    /\ untimed' = FALSE
    /\ IF PlaysOn(by)
       THEN /\ version' = version + 2
            /\ timers' = slept \cup {NextTimer(version + 2, hand)}
       ELSE version' = version + 1 /\ timers' = slept
    /\ UNCHANGED hands

\* ArchiveHandResult failed: the stored hand is as before, no timer is set.
Refuse(slept) ==
    /\ untimed' = TRUE
    /\ timers' = slept
    /\ UNCHANGED <<hand, turn, seat, able, hands, settledBy, version>>

Play(slept, by) == PassTurn(slept) \/ Settle(slept, by) \/ Refuse(slept)

-----------------------------------------------------------------------------
\* Steps

Sit == /\ hand = 0
       /\ startable' = TRUE
       /\ UNCHANGED <<room, version, timers, commands>>

Leave == /\ hand = 0
         /\ startable' = FALSE
         /\ settledBy' = "none"
         /\ UNCHANGED <<hand, turn, seat, able, hands, untimed, version, timers, commands>>

OwnerStarts == /\ Start(timers)
               /\ UNCHANGED <<startable, commands>>

\* The player whose turn it is sends a command.  It names no turn, so it may
\* be handled in a later turn of the seat.
Send(s, by) ==
    /\ hand # 0 /\ seat = s /\ able
    /\ Cardinality(commands) < MaxSent
    /\ commands' = commands \cup {[seat |-> s, by |-> by]}
    /\ UNCHANGED <<room, startable, version, timers>>

\* A connection breaks, or Apply or the seat check rejects the command.
Drop(c) ==
    /\ commands' = commands \ {c}
    /\ UNCHANGED <<room, startable, version, timers>>

Handle(c) ==
    /\ hand # 0 /\ seat = c.seat /\ able
    /\ Play(timers, c.by)
    /\ commands' = commands \ {c}
    /\ UNCHANGED startable

\* A timer that no longer counts, or finds another hand, another seat to act,
\* a seat that cannot act, or a room that cannot start.
Expires(t) ==
    \/ ~Counts(t)
    \/ t.kind = "action" /\ ~(t.hand = hand /\ t.seat = seat /\ able)
    \/ t.kind = "next" /\ ~(hand = 0 /\ startable)

Expire(t) ==
    /\ Expires(t)
    /\ timers' = timers \ {t}
    /\ UNCHANGED <<room, startable, version, commands>>

\* applyTimeoutAction
TimeOut(t) ==
    /\ t.kind = "action" /\ ~Expires(t)
    /\ Play(timers \ {t}, "timeout")
    /\ UNCHANGED <<startable, commands>>

\* scheduleAutoNextHand
StartNext(t) ==
    /\ t.kind = "next" /\ ~Expires(t)
    /\ Start(timers \ {t})
    /\ UNCHANGED <<startable, commands>>

WakeUp(t) == Expire(t) \/ TimeOut(t) \/ StartNext(t)

\* The process ends and starts again: the hub is new, the rooms are stored.  The
\* timers and the commands under way are lost, and nothing arms them again.
Restart ==
    /\ version' = 0
    /\ timers' = {}
    /\ commands' = {}
    /\ untimed' = TRUE
    /\ settledBy' = "none"
    /\ UNCHANGED <<hand, turn, seat, able, hands, startable>>

Next == \/ Sit \/ Leave \/ OwnerStarts
        \/ \E s \in Seats, by \in {"socket", "http"} : Send(s, by)
        \/ \E c \in commands : Handle(c) \/ Drop(c)
        \/ \E t \in timers : WakeUp(t)
        \/ Restart

\* A goroutine that sleeps wakes up and gets the mutex; players owe nothing.
Spec == Init /\ [][Next]_vars /\ WF_vars(\E t \in timers : WakeUp(t))

-----------------------------------------------------------------------------
\* Properties

Timer == [kind : {"action"}, version : Nat, hand : 1..MaxHands,
          turn : 1..MaxTurns, seat : Seats]
         \cup
         [kind : {"next"}, version : Nat, hand : 1..MaxHands, turn : {0}, seat : {NoTurn}]
Command == [seat : Seats, by : {"socket", "http"}]

TypeOK ==
    /\ hands \in 0..MaxHands /\ hand \in {0, hands}
    /\ turn \in 0..MaxTurns /\ (turn = 0 <=> hand = 0)
    /\ seat \in Seats \cup {NoTurn} /\ (able => seat # NoTurn)
    /\ settledBy \in {"none", "socket", "http", "timeout"}
    /\ startable \in BOOLEAN /\ untimed \in BOOLEAN /\ able \in BOOLEAN
    /\ version \in Nat
    /\ timers \subseteq Timer
    /\ commands \subseteq Command

\* A turn is never left without a timer that will end it, unless the archive
\* refused the settlement or the server restarted; the first command after that
\* is timed again (scheduleActionTimeout in every path of a command, and nothing
\* else may outdate its version).
TimerArmed ==
    able /\ ~untimed => ActionTimer(version, hand, turn, seat) \in timers

\* Steps: a timer plays only the turn it was set for, and not a later turn of
\* the same seat (timerVersion against a player's command that comes first).
TimeoutPlaysItsTurn ==
    [][\A t \in timers : TimeOut(t) => t.hand = hand /\ t.turn = turn]_vars

\* Steps: the automatic next hand follows the settlement that scheduled it,
\* not one that the owner's own start and a later settlement came before.
NextHandFollowsItsSettlement ==
    [][\A t \in timers : StartNext(t) => t.hand = hands]_vars

\* Every turn ends though the player never answers.
TurnEnds ==
    \A h \in 1..MaxHands, n \in 1..MaxTurns :
        (hand = h /\ turn = n /\ able) ~> (hand # h \/ turn # n \/ untimed)

\* After a settlement by a socket command or a timeout the table plays on
\* without the owner, unless players leave or the server restarts.
TablePlaysOn ==
    (hand = 0 /\ settledBy \in {"socket", "timeout"} /\ hands < MaxHands)
        ~> (hand # 0 \/ ~startable \/ settledBy = "none")
=============================================================================
