------------------------------ MODULE RoomFeed ------------------------------
(***************************************************************************)
(* What a client shows of its room: the commits and broadcasts of          *)
(* backend/internal/api/server.go and socket.go, the connection, and the   *)
(* event order of frontend/src/composables/useAppState.ts.                 *)
(*                                                                         *)
(* A room is its version, a hand its number and its version: every change  *)
(* of either raises one.  What the server reads after a commit and before  *)
(* a message is written may be any version in between, so a message is     *)
(* made when it is written, of a version since the commit.                 *)
(*                                                                         *)
(* One client is observed.  Commands and changes are everybody's.          *)
(***************************************************************************)
EXTENDS Integers, Sequences, FiniteSetsExt

CONSTANTS MaxRoom,        \* bound on rooms.version
          MaxHands,       \* bound on the hands
          MaxPlays,       \* bound on the version of a hand
          MaxConnections, \* bound on the connections of the client
          MaxHttp         \* bound on the commands and requests over HTTP

ASSUME BoundsAssumption ==
    /\ MaxRoom \in Nat \ {0} /\ MaxHands \in Nat
    /\ MaxPlays \in Nat \ {0} /\ MaxConnections \in Nat /\ MaxHttp \in Nat

VARIABLES roomVersion, \* rooms.version
          hand,        \* current_game_id, 0 for none
          games,       \* the version of every stored game, 0 if there is none
          hands,       \* the hands so far
          command,     \* the command that holds the room's mutex
          changes      \* changes that are committed and not yet broadcast

VARIABLES sub,         \* the client's subscription at the server
          wire,        \* the messages under way on the connection
          response,    \* the HTTP response under way to the client
          shown,       \* what the client shows and has accepted
          connections, \* the connections so far
          https        \* the commands and requests over HTTP so far

\* History: a race has made what the client received since the last
\* subscription differ from the order of the commits; the version of the last
\* commit that is broadcast with the room itself (hand.started is not); since
\* the subscription has read the room, a version came that the client is not
\* told.
VARIABLES raced, changed, unheard

server == <<roomVersion, hand, games, hands, command, changes>>
vars == <<server, sub, wire, response, shown, connections, https, raced, changed, unheard>>

NoHand == 0
Idle == [kind |-> "none"]
Away == [stage |-> "away"]
NoResponse == [kind |-> "none"]

Init == /\ roomVersion = 1
        /\ hand = NoHand
        /\ games = [h \in 1..MaxHands |-> 0]
        /\ hands = 0
        /\ command = Idle
        /\ changes = {}
        /\ sub = Away
        /\ wire = <<>>
        /\ response = NoResponse
        /\ shown = [room |-> 1, hand |-> NoHand, version |-> 0,
                    acceptedRoom |-> 0, acceptedHand |-> NoHand, acceptedVersion |-> 0,
                    awaiting |-> FALSE]
        /\ connections = 0
        /\ https = 0
        /\ raced = FALSE
        /\ changed = 1
        /\ unheard = FALSE

-----------------------------------------------------------------------------
\* Messages

Message(type, room, h, v) == [type |-> type, room |-> room, hand |-> h, version |-> v]

\* broadcastRoomEvent: to the clients that are subscribed.  One that has read
\* the room and not yet joined the hub misses it.
Broadcast(message) ==
    /\ wire' = IF sub.stage \in {"joined", "on"} THEN Append(wire, message) ELSE wire
    /\ unheard' = (unheard \/ (sub.stage = "read" /\ message.room > sub.room))

\* A commit that the snapshot of the subscription under way may not contain.
Overlaps == \/ sub.stage = "joined"
            \/ sub.stage = "read" /\ roomVersion' # roomVersion

\* A message that an earlier one with a later room version makes the client drop.
Overtaken(version) ==
    \/ version < shown.acceptedRoom \/ version < shown.room
    \/ \E i \in DOMAIN wire : version < wire[i].room

\* An earlier message already carries this version of the room, or a later one.
Contained(version) ==
    \/ version <= shown.room
    \/ \E i \in DOMAIN wire : wire[i].type \in {"room", "snapshot"} /\ version <= wire[i].room

OverHttp == https < MaxHttp /\ https' = https + 1

-----------------------------------------------------------------------------
\* Commits

\* Start, play and settle hold the mutex until they have broadcast; the HTTP
\* endpoint does not broadcast.
Commit(kind, h, by) ==
    /\ command' = IF by = "http" THEN Idle
                  ELSE [kind |-> kind, hand |-> h, since |-> roomVersion']
    /\ raced' = (raced \/ by = "http" \/ Overlaps)
    /\ unheard' = (unheard \/ (by = "http" /\ roomVersion' # roomVersion))
    /\ IF by = "http" THEN OverHttp ELSE UNCHANGED https
    /\ UNCHANGED <<changes, sub, wire, response, shown, connections>>

\* SetRoomCurrentGame
Start(by) ==
    /\ command = Idle
    /\ hand = NoHand /\ hands < MaxHands /\ roomVersion < MaxRoom
    /\ hands' = hands + 1
    /\ hand' = hands'
    /\ games' = [games EXCEPT ![hand'] = 1]
    /\ roomVersion' = roomVersion + 1
    /\ UNCHANGED changed
    /\ Commit("started", hand', by)

\* Save
Play(by) ==
    /\ command = Idle
    /\ hand # NoHand /\ games[hand] < MaxPlays
    /\ games' = [games EXCEPT ![hand] = @ + 1]
    /\ UNCHANGED <<roomVersion, hand, hands, changed>>
    /\ Commit("updated", hand, by)

\* ArchiveHandResult
Settle(by) ==
    /\ command = Idle
    /\ hand # NoHand /\ roomVersion < MaxRoom
    /\ games' = [games EXCEPT ![hand] = @ + 1]
    /\ hand' = NoHand
    /\ roomVersion' = roomVersion + 1
    /\ changed' = roomVersion'
    /\ UNCHANGED hands
    /\ Commit("settled", hand, by)

\* Mutant of SendHandEvent: the state is broadcast before the version is known.
SendUnversioned ==
    /\ command.kind \in {"started", "updated", "settled"}
    /\ Broadcast(Message(command.kind, 0, command.hand, games[command.hand]))
    /\ raced' = raced
    /\ command' = IF command.kind = "settled" THEN [command EXCEPT !.kind = "archived"] ELSE Idle
    /\ UNCHANGED <<roomVersion, hand, games, hands, changes, sub, response, shown, connections, https, changed>>

\* broadcastHandState, and hand.settled: the version of the room was read after
\* the commit.
SendHandEvent ==
    /\ command.kind \in {"started", "updated", "settled"}
    /\ \E version \in command.since..roomVersion :
           /\ Broadcast(Message(command.kind, version, command.hand, games[command.hand]))
           /\ raced' = (raced \/ (sub.stage \in {"joined", "on"} /\ Overtaken(version)))
    /\ command' = IF command.kind = "settled" THEN [command EXCEPT !.kind = "archived"] ELSE Idle
    /\ UNCHANGED <<roomVersion, hand, games, hands, changes, sub, response, shown, connections, https, changed>>

\* handleAction and applyTimeoutAction, after hand.settled.
SendRoomEvent ==
    /\ command.kind = "archived"
    /\ \E version \in command.since..roomVersion :
           Broadcast(Message("room", version, NoHand, 0))
    /\ command' = Idle
    /\ UNCHANGED <<roomVersion, hand, games, hands, changes, sub, response, shown, connections, https, raced, changed>>

\* Joining, taking and leaving a seat: no mutex, the broadcast follows at any time.
Change ==
    /\ roomVersion < MaxRoom
    /\ roomVersion' = roomVersion + 1
    /\ changes' = changes \cup {roomVersion'}
    /\ changed' = roomVersion'
    /\ raced' = (raced \/ Overlaps)
    /\ UNCHANGED <<hand, games, hands, command, sub, wire, response, shown, connections, https, unheard>>

SendChange(c) ==
    /\ \E version \in c..roomVersion :
           /\ Broadcast(Message("room", version, NoHand, 0))
           /\ raced' = (raced \/ (/\ sub.stage \in {"joined", "on"}
                                 /\ Overtaken(version) /\ ~Contained(version)))
    /\ changes' = changes \ {c}
    /\ UNCHANGED <<roomVersion, hand, games, hands, command, sub, response, shown, connections, https, changed>>

-----------------------------------------------------------------------------
\* Subscription: handleSubscribe reads the room, joins the hub, loads the
\* current game of the room it has read, and writes the snapshot.

Connect ==
    /\ sub.stage = "away" /\ connections < MaxConnections
    /\ connections' = connections + 1
    /\ sub' = [stage |-> "asked"]
    /\ shown' = [shown EXCEPT !.acceptedRoom = shown.room,
                              !.acceptedHand = shown.hand,
                              !.acceptedVersion = shown.version,
                              !.awaiting = connections > 0]
    /\ UNCHANGED <<server, wire, response, https, raced, changed, unheard>>

ReadRoom ==
    /\ sub.stage = "asked"
    /\ sub' = [stage |-> "read", room |-> roomVersion, hand |-> hand]
    /\ raced' = FALSE
    /\ unheard' = FALSE
    /\ UNCHANGED <<server, wire, response, shown, connections, https, changed>>

JoinHub ==
    /\ sub.stage = "read"
    /\ sub' = [stage |-> "joined", room |-> sub.room, hand |-> sub.hand,
               since |-> IF sub.hand = NoHand THEN 0 ELSE games[sub.hand]]
    /\ UNCHANGED <<server, wire, response, shown, connections, https, raced, changed, unheard>>

SendSnapshot ==
    /\ sub.stage = "joined"
    /\ \E version \in IF sub.hand = NoHand THEN {0} ELSE sub.since..games[sub.hand] :
           Broadcast(Message("snapshot", sub.room, sub.hand, version))
    /\ sub' = [stage |-> "on"]
    /\ UNCHANGED <<server, response, shown, connections, https, raced, changed>>

Disconnect ==
    /\ sub.stage # "away"
    /\ sub' = Away
    /\ wire' = <<>>
    /\ UNCHANGED <<server, response, shown, connections, https, raced, changed, unheard>>

-----------------------------------------------------------------------------
\* The client

CurrentRoom == Max({shown.acceptedRoom, shown.room})

\* Mutant of AcceptsRoom: a message of the version that is shown is dropped.
AcceptsNewer(message) == message.room > CurrentRoom

AcceptsRoom(message) == message.room >= CurrentRoom

CurrentHand == IF shown.hand # NoHand THEN shown.hand ELSE shown.acceptedHand

CurrentVersion(h) ==
    IF shown.hand = h THEN Max({shown.acceptedVersion, shown.version}) ELSE shown.acceptedVersion

\* Mutant of AcceptsHand: any version of the hand that is shown.
AcceptsAnyVersion(message) ==
    CurrentHand \in {NoHand, message.hand} \/ message.type = "started"

\* Another hand only by hand.started, the same hand only in a later version.
AcceptsHand(message) ==
    /\ CurrentHand \in {NoHand, message.hand} \/ message.type = "started"
    /\ ~(CurrentHand = message.hand /\ message.version <= CurrentVersion(message.hand))

\* Mutant of ShowSnapshot: the hand is left to the events.
ShowSnapshotRoom(message) ==
    [shown EXCEPT !.room = message.room, !.acceptedRoom = message.room, !.awaiting = FALSE]

ShowSnapshot(message) ==
    [room |-> message.room, hand |-> message.hand, version |-> message.version,
     acceptedRoom |-> message.room, acceptedHand |-> message.hand,
     acceptedVersion |-> message.version, awaiting |-> FALSE]

ShowRoom(message) == [shown EXCEPT !.room = message.room, !.acceptedRoom = message.room]

\* A settled hand is no longer shown.
ShowHand(message) ==
    [shown EXCEPT !.acceptedRoom = message.room,
                  !.acceptedHand = message.hand, !.acceptedVersion = message.version,
                  !.hand = IF message.type = "settled" THEN NoHand ELSE message.hand,
                  !.version = IF message.type = "settled" THEN 0 ELSE message.version]

Shown(message) ==
    CASE ~AcceptsRoom(message) -> shown
      [] AcceptsRoom(message) /\ message.type = "snapshot" -> ShowSnapshot(message)
      [] AcceptsRoom(message) /\ message.type = "room" -> ShowRoom(message)
      [] OTHER -> IF AcceptsHand(message) THEN ShowHand(message)
                  ELSE [shown EXCEPT !.acceptedRoom = message.room]

Receive ==
    /\ wire # <<>>
    /\ wire' = Tail(wire)
    /\ shown' = Shown(Head(wire))
    /\ UNCHANGED <<server, sub, response, connections, https, raced, changed, unheard>>

-----------------------------------------------------------------------------
\* HTTP: refreshRoom and the responses to changes, safeRefreshCurrentRoomHand.

RequestRoom ==
    /\ response = NoResponse
    /\ OverHttp
    /\ response' = [kind |-> "room", room |-> roomVersion]
    /\ UNCHANGED <<server, sub, wire, shown, connections, raced, changed, unheard>>

RequestHand ==
    /\ response = NoResponse
    /\ OverHttp
    /\ response' = [kind |-> "hand", hand |-> hand,
                    since |-> IF hand = NoHand THEN 0 ELSE games[hand]]
    /\ UNCHANGED <<server, sub, wire, shown, connections, raced, changed, unheard>>

\* The response is shown as it is, whatever has arrived in the meantime.
Respond ==
    /\ \/ response.kind = "room" /\ shown' = [shown EXCEPT !.room = response.room]
       \/ /\ response.kind = "hand"
          /\ \E version \in IF response.hand = NoHand THEN {0}
                            ELSE response.since..games[response.hand] :
                 shown' = [shown EXCEPT !.hand = response.hand, !.version = version]
    /\ raced' = (raced \/ shown' # shown)
    /\ response' = NoResponse
    /\ UNCHANGED <<server, sub, wire, connections, https, changed, unheard>>

Next == \/ \E by \in {"socket", "http"} : Start(by) \/ Play(by) \/ Settle(by)
        \/ SendHandEvent \/ SendRoomEvent
        \/ Change \/ \E c \in changes : SendChange(c)
        \/ Connect \/ ReadRoom \/ JoinHub \/ SendSnapshot \/ Disconnect
        \/ Receive
        \/ RequestRoom \/ RequestHand \/ Respond

Spec == Init /\ [][Next]_vars

-----------------------------------------------------------------------------
\* Properties

Versions == 0..MaxPlays + 1
Hands == 0..MaxHands
Rooms == 1..MaxRoom

Messages == [type : {"snapshot", "room", "started", "updated", "settled"},
             room : Rooms, hand : Hands, version : Versions]

Subscriptions ==
    [stage : {"away", "asked", "on"}]
    \cup [stage : {"read"}, room : Rooms, hand : Hands]
    \cup [stage : {"joined"}, room : Rooms, hand : Hands, since : Versions]

TypeOK ==
    /\ roomVersion \in Rooms
    /\ hands \in Hands /\ hand \in {NoHand, hands}
    /\ games \in [1..MaxHands -> Versions]
    /\ command \in {Idle} \cup [kind : {"started", "updated", "settled", "archived"},
                               hand : 1..MaxHands, since : Rooms]
    /\ changes \subseteq Rooms
    /\ sub \in Subscriptions
    /\ wire \in Seq(Messages)
    /\ response \in {NoResponse} \cup [kind : {"room"}, room : Rooms]
                    \cup [kind : {"hand"}, hand : Hands, since : Versions]
    /\ shown \in [room : Rooms, hand : Hands, version : Versions,
                  acceptedRoom : Rooms \cup {0}, acceptedHand : Hands,
                  acceptedVersion : Versions, awaiting : BOOLEAN]
    /\ connections \in 0..MaxConnections /\ https \in 0..MaxHttp
    /\ raced \in BOOLEAN /\ unheard \in BOOLEAN

\* Everything the server has to send is sent and has arrived.
Quiet == /\ sub.stage = "on" /\ wire = <<>>
         /\ command = Idle /\ changes = {} /\ response = NoResponse

ShowsTheServer ==
    /\ shown.room >= changed
    /\ shown.hand = hand
    /\ shown.version = (IF hand = NoHand THEN 0 ELSE games[hand])
    /\ ~shown.awaiting

\* A client that has received everything shows the server's hand, in its
\* version, and the room as of the last change that is broadcast with the room
\* itself or later, after any reconnects, unless one of the races named above
\* came in between (handleSubscribe, the broadcasts, and the client's version
\* rules together).
CaughtUp == Quiet /\ ~raced => ShowsTheServer

\* A client that has received everything has accepted a message of the server's
\* room version, also after races: whatever events were overtaken, dropped, or
\* compared with a response of HTTP that ran ahead of them or went back, the
\* last news of the room is not among the dropped (acceptRoomVersion against
\* broadcasts that read the version after their commit, in any order).  Not told
\* are the commits of HTTP commands, and what is broadcast between the reading
\* of the room and the joining of the hub.
HearsOfEveryVersion == Quiet /\ ~unheard => shown.acceptedRoom = roomVersion

\* Steps: an event of a hand never brings back an older step of the hand that is
\* shown, though HTTP may have shown a newer one before it arrived, and no event
\* of an older hand replaces the hand last accepted (applyHandSocketPayload with
\* acceptRoomVersion; an older hand.started may replace a hand only HTTP has shown).
HandNeverGoesBack ==
    [][Receive /\ Head(wire).type \in {"started", "updated", "settled"} =>
           /\ shown'.hand = shown.hand => shown'.version >= shown.version
           /\ shown'.acceptedHand >= shown.acceptedHand]_vars

\* A client that has received everything does not wait for a snapshot: it may
\* act again after a reconnect.
MayActAgain == Quiet => ~shown.awaiting
=============================================================================
