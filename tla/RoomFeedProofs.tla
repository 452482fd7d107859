---------------------------- MODULE RoomFeedProofs ----------------------------
(***************************************************************************)
(* Proofs about RoomFeed, for any bounds: whatever connections, broadcasts *)
(* and HTTP responses interleave, an event never makes the client show an  *)
(* older step of a hand, and once every message has arrived it has         *)
(* accepted one of the server's room version, and shows the hand and the   *)
(* room of the server, but for the races that RoomFeed names.              *)
(***************************************************************************)
EXTENDS RoomFeed, SequenceTheorems, TLAPS

USE BoundsAssumption

-----------------------------------------------------------------------------
(* The inductive invariant.                                                *)

HandEvents == {"started", "updated", "settled"}

\* What a broadcast may carry: an event is of the latest hand.
Sendable(m) ==
    /\ m \in Messages /\ m.hand <= hands
    /\ m.type \in HandEvents => m.hand = hands /\ hands >= 1
    /\ m.type = "snapshot" /\ m.hand = NoHand => m.version = 0

(* An event is of no older hand than the messages before it and than the   *)
(* hand accepted last.                                                     *)
FeedOrdered ==
    \A j \in 1..Len(wire) :
        /\ wire[j].hand <= hands
        /\ wire[j].type = "snapshot" /\ wire[j].hand = NoHand => wire[j].version = 0
        /\ wire[j].type \in HandEvents =>
               /\ wire[j].hand >= 1 /\ shown.acceptedHand <= wire[j].hand
               /\ \A i \in 1..j : wire[i].hand <= wire[j].hand

(* Nothing is under way before the subscription.                           *)
NothingBefore == sub.stage \in {"away", "asked", "read"} => wire = <<>>

(* A command is about the latest hand, which takes no more than MaxPlays   *)
(* before it is settled.                                                   *)
LatestHand ==
    /\ hand # NoHand => games[hand] \in 1..MaxPlays
    /\ command.kind \in HandEvents => command.hand = hands /\ hands >= 1

(* Nobody has read a hand that does not exist yet.                         *)
KnownHands ==
    /\ shown.hand <= hands /\ shown.acceptedHand <= hands
    /\ shown.hand = NoHand => shown.version = 0
    /\ sub.stage \in {"read", "joined"} => sub.hand <= hands
    /\ response.kind = "hand" => response.hand <= hands

IInv == TypeOK /\ FeedOrdered /\ NothingBefore /\ LatestHand /\ KnownHands

-----------------------------------------------------------------------------
(* The feed.                                                               *)

\* A broadcast keeps the order of the feed.
LEMMA BroadcastKeeps ==
    ASSUME IInv, NEW m, Sendable(m), Broadcast(m),
           UNCHANGED <<hands, shown>>, sub' = sub \/ sub'.stage = "on"
    PROVE  wire' \in Seq(Messages) /\ FeedOrdered' /\ NothingBefore'
<1>1. wire \in Seq(Messages) /\ m \in Messages /\ Len(wire) \in Nat
  BY LenProperties DEF IInv, TypeOK, Sendable
<1>2. CASE sub.stage \in {"joined", "on"}
  <2>1. /\ wire' \in Seq(Messages) /\ Len(wire') = Len(wire) + 1
        /\ \A i \in 1..Len(wire) : wire'[i] = wire[i]
        /\ wire'[Len(wire) + 1] = m
    BY <1>1, <1>2, AppendProperties DEF Broadcast
  <2>2. \A i \in 1..Len(wire) : wire[i].hand <= hands /\ wire[i].hand \in Nat
    <3>1. \A i \in 1..Len(wire) : wire[i] \in Messages
      BY <1>1, ElementOfSeq
    <3> QED BY <3>1 DEF IInv, FeedOrdered, Messages, Hands
  <2>3. shown.acceptedHand <= hands
    BY DEF IInv, KnownHands
  <2>4. FeedOrdered'
    <3> SUFFICES ASSUME NEW j \in 1..Len(wire')
                 PROVE  /\ wire'[j].hand <= hands
                        /\ wire'[j].type = "snapshot" /\ wire'[j].hand = NoHand => wire'[j].version = 0
                        /\ wire'[j].type \in HandEvents =>
                               /\ wire'[j].hand >= 1 /\ shown.acceptedHand <= wire'[j].hand
                               /\ \A i \in 1..j : wire'[i].hand <= wire'[j].hand
      BY DEF FeedOrdered
    <3>1. CASE j \in 1..Len(wire)
      <4>1. wire'[j] = wire[j] /\ \A i \in 1..j : wire'[i] = wire[i]
        BY <1>1, <2>1, <3>1
      <4> QED BY <3>1, <4>1 DEF IInv, FeedOrdered
    <3>2. CASE j = Len(wire) + 1
      <4>1. wire'[j] = m
        BY <2>1, <3>2
      <4>2. ASSUME m.type \in HandEvents, NEW i \in 1..j PROVE wire'[i].hand <= hands
        BY <1>1, <2>1, <2>2, <3>2, <4>2 DEF Sendable
      <4> QED BY <2>3, <4>1, <4>2 DEF Sendable
    <3> QED BY <1>1, <2>1, <3>1, <3>2
  <2>5. NothingBefore'
    BY <1>2 DEF NothingBefore
  <2> QED BY <2>1, <2>4, <2>5
<1>3. CASE sub.stage \notin {"joined", "on"}
  <2>1. wire' = wire
    BY <1>3 DEF Broadcast
  <2>2. FeedOrdered' /\ NothingBefore'
    BY <2>1 DEF IInv, FeedOrdered, NothingBefore
  <2> QED BY <1>1, <2>1, <2>2
<1> QED BY <1>2, <1>3

\* What the client shows after a message is typed, and no more recent than it.
LEMMA ShownTyped ==
    ASSUME TypeOK, KnownHands, NEW m \in Messages, m.hand <= hands,
           m.type = "snapshot" /\ m.hand = NoHand => m.version = 0,
           m.type \in HandEvents => m.hand >= 1
    PROVE  /\ Shown(m) \in [room : Rooms, hand : Hands, version : Versions,
                            acceptedRoom : Rooms \cup {0}, acceptedHand : Hands,
                            acceptedVersion : Versions, awaiting : BOOLEAN]
           /\ Shown(m).hand <= hands /\ Shown(m).acceptedHand <= hands
           /\ Shown(m).hand = NoHand => Shown(m).version = 0
           /\ Shown(m).acceptedHand \in {shown.acceptedHand, m.hand}
<1>0. PICK r : r = shown
  OBVIOUS
<1>1. r \in [room : Rooms, hand : Hands, version : Versions,
             acceptedRoom : Rooms \cup {0}, acceptedHand : Hands,
             acceptedVersion : Versions, awaiting : BOOLEAN]
      /\ r.hand <= hands /\ r.acceptedHand <= hands /\ (r.hand = NoHand => r.version = 0)
  BY <1>0 DEF TypeOK, KnownHands
<1>2. /\ m.room \in Rooms /\ m.hand \in Hands /\ m.version \in Versions
      /\ 0 \in Versions /\ NoHand \in Hands /\ NoHand = 0 /\ hands \in Nat
  BY DEF Messages, Hands, Versions, NoHand, TypeOK
<1>3. \/ Shown(m) = shown
      \/ Shown(m) = ShowSnapshot(m) /\ m.type = "snapshot"
      \/ Shown(m) = ShowRoom(m)
      \/ m.type \in HandEvents /\ Shown(m) = ShowHand(m)
      \/ Shown(m) = [shown EXCEPT !.acceptedRoom = m.room]
  BY DEF Shown, Messages, HandEvents
<1>4. CASE Shown(m) = shown
  BY <1>0, <1>1, <1>4
<1>5. CASE Shown(m) = ShowSnapshot(m) /\ m.type = "snapshot"
  BY <1>2, <1>5 DEF ShowSnapshot
<1>6. CASE Shown(m) = ShowRoom(m)
  BY <1>0, <1>1, <1>2, <1>6 DEF ShowRoom
<1>7. CASE m.type \in HandEvents /\ Shown(m) = ShowHand(m)
  <2>1. CASE m.type = "settled"
    <3>1. Shown(m) = [r EXCEPT !.acceptedRoom = m.room, !.acceptedHand = m.hand,
                               !.acceptedVersion = m.version, !.hand = 0, !.version = 0]
      BY <1>0, <1>2, <1>7, <2>1 DEF ShowHand
    <3>2. PICK q : q = Shown(m)
      OBVIOUS
    <3>3. /\ q.hand = 0 /\ q.version = 0 /\ q.acceptedHand = m.hand
          /\ q \in [room : Rooms, hand : Hands, version : Versions,
                    acceptedRoom : Rooms \cup {0}, acceptedHand : Hands,
                    acceptedVersion : Versions, awaiting : BOOLEAN]
      BY <1>1, <1>2, <3>1, <3>2
    <3> QED BY <1>2, <3>2, <3>3
  <2>2. CASE m.type # "settled"
    <3>1. Shown(m) = [r EXCEPT !.acceptedRoom = m.room, !.acceptedHand = m.hand,
                               !.acceptedVersion = m.version, !.hand = m.hand, !.version = m.version]
      BY <1>0, <1>7, <2>2 DEF ShowHand
    <3>2. m.hand # NoHand
      BY <1>2, <1>7
    <3> QED BY <1>0, <1>1, <1>2, <3>1, <3>2
  <2> QED BY <2>1, <2>2
<1>8. CASE Shown(m) = [shown EXCEPT !.acceptedRoom = m.room]
  BY <1>0, <1>1, <1>2, <1>8
<1> QED BY <1>3, <1>4, <1>5, <1>6, <1>7, <1>8

\* A message that arrives leaves the rest of the feed as it was.
LEMMA ReceiveKeeps ==
    ASSUME IInv, Receive
    PROVE  IInv'
<1>1. PICK m : m = Head(wire)
  OBVIOUS
<1>2. /\ wire # <<>> /\ wire' = Tail(wire) /\ shown' = Shown(m)
      /\ UNCHANGED <<server, sub, response, connections, https, raced, changed, unheard>>
  BY <1>1 DEF Receive
<1>3. wire \in Seq(Messages) /\ Len(wire) \in Nat /\ Len(wire) >= 1
  BY <1>2, LenProperties, EmptySeq DEF IInv, TypeOK
<1>4. /\ m \in Messages /\ m = wire[1]
      /\ wire' \in Seq(Messages) /\ Len(wire') = Len(wire) - 1
      /\ \A i \in 1..Len(wire') : wire'[i] = wire[i + 1]
  BY <1>1, <1>2, <1>3, HeadTailProperties
<1>5. /\ m.hand <= hands
      /\ m.type = "snapshot" /\ m.hand = NoHand => m.version = 0
      /\ m.type \in HandEvents => m.hand >= 1
  BY <1>3, <1>4 DEF IInv, FeedOrdered
<1>6. UNCHANGED <<roomVersion, hand, games, hands, command, changes>>
  BY <1>2 DEF server
<1>7. /\ shown' \in [room : Rooms, hand : Hands, version : Versions,
                     acceptedRoom : Rooms \cup {0}, acceptedHand : Hands,
                     acceptedVersion : Versions, awaiting : BOOLEAN]
      /\ shown'.hand <= hands /\ shown'.acceptedHand <= hands
      /\ shown'.hand = NoHand => shown'.version = 0
      /\ shown'.acceptedHand \in {shown.acceptedHand, m.hand}
  BY <1>2, <1>4, <1>5, ShownTyped DEF IInv
<1>8. TypeOK'
  BY <1>2, <1>4, <1>6, <1>7 DEF IInv, TypeOK
<1>9. FeedOrdered'
  <2> SUFFICES ASSUME NEW j \in 1..Len(wire')
               PROVE  /\ wire'[j].hand <= hands'
                      /\ wire'[j].type = "snapshot" /\ wire'[j].hand = NoHand => wire'[j].version = 0
                      /\ wire'[j].type \in HandEvents =>
                             /\ wire'[j].hand >= 1 /\ shown'.acceptedHand <= wire'[j].hand
                             /\ \A i \in 1..j : wire'[i].hand <= wire'[j].hand
    BY DEF FeedOrdered
  <2>1. wire'[j] = wire[j + 1] /\ j + 1 \in 1..Len(wire) /\ 1 \in 1..j + 1
    BY <1>3, <1>4
  <2>2. \A i \in 1..j : wire'[i] = wire[i + 1] /\ i + 1 \in 1..j + 1
    BY <1>3, <1>4
  <2> QED BY <1>4, <1>6, <1>7, <2>1, <2>2 DEF IInv, FeedOrdered
<1>10. NothingBefore'
  BY <1>2 DEF IInv, NothingBefore
<1>11. LatestHand' /\ KnownHands'
  BY <1>2, <1>6, <1>7 DEF IInv, LatestHand, KnownHands
<1> QED BY <1>8, <1>9, <1>10, <1>11 DEF IInv

-----------------------------------------------------------------------------
(* The server.                                                             *)

\* A hand starts, moves on or is settled.
LEMMA CommitKeeps ==
    ASSUME IInv, NEW by \in {"socket", "http"}, Start(by) \/ Play(by) \/ Settle(by)
    PROVE  IInv'
<1>1. /\ UNCHANGED <<changes, sub, wire, response, shown, connections>>
      /\ raced' \in BOOLEAN /\ unheard' \in BOOLEAN
      /\ https' = https \/ (https < MaxHttp /\ https' = https + 1)
  <2>1. Commit("started", hand', by) \/ Commit("updated", hand, by) \/ Commit("settled", hand, by)
    BY DEF Start, Play, Settle
  <2>2. /\ UNCHANGED <<changes, sub, wire, response, shown, connections>>
        /\ https' = https \/ (https < MaxHttp /\ https' = https + 1)
    BY <2>1 DEF Commit, OverHttp
  <2>3. raced' \in BOOLEAN /\ unheard' \in BOOLEAN
    BY <2>1 DEF Commit
  <2> QED BY <2>2, <2>3
<1>2. /\ roomVersion' \in Rooms /\ hands' \in Hands /\ hands' >= hands
      /\ hand' \in {NoHand, hands'}
      /\ games' \in [1..MaxHands -> Versions]
      /\ hand' # NoHand => games'[hand'] \in 1..MaxPlays
  <2>0. /\ roomVersion \in Rooms /\ hands \in Hands /\ hand \in {NoHand, hands} /\ NoHand = 0
        /\ games \in [1..MaxHands -> Versions]
        /\ hand # NoHand => games[hand] \in 1..MaxPlays
    BY DEF IInv, TypeOK, LatestHand, NoHand
  <2>1. CASE Start(by)
    BY <2>0, <2>1 DEF Start, Rooms, Hands, Versions
  <2>2. CASE Play(by)
    BY <2>0, <2>2 DEF Play, Rooms, Hands, Versions
  <2>3. CASE Settle(by)
    BY <2>0, <2>3 DEF Settle, Rooms, Hands, Versions
  <2> QED BY <2>1, <2>2, <2>3
<1>3. /\ command' \in {Idle} \cup [kind : {"started", "updated", "settled", "archived"},
                                  hand : 1..MaxHands, since : Rooms]
      /\ command'.kind \in HandEvents => command'.hand = hands' /\ hands' >= 1
  <2>1. \E kind \in HandEvents : Commit(kind, hands', by) /\ hands' \in 1..MaxHands
    BY DEF Start, Play, Settle, HandEvents, IInv, TypeOK, Hands, NoHand
  <2>2. PICK kind \in HandEvents : Commit(kind, hands', by) /\ hands' \in 1..MaxHands
    BY <2>1
  <2>3. command' = Idle \/ command' = [kind |-> kind, hand |-> hands', since |-> roomVersion']
    BY <2>2 DEF Commit
  <2> QED BY <1>2, <2>2, <2>3 DEF Idle, HandEvents
<1>4. TypeOK'
  BY <1>1, <1>2, <1>3 DEF IInv, TypeOK
<1>5. FeedOrdered'
  <2>1. \A j \in 1..Len(wire) : wire[j] \in Messages
    BY ElementOfSeq DEF IInv, TypeOK
  <2>2. \A j \in 1..Len(wire) : wire[j].hand \in Nat
    BY <2>1 DEF Messages, Hands
  <2>3. hands \in Nat /\ hands' \in Nat /\ hands' >= hands /\ wire' = wire /\ shown' = shown
    BY <1>1, <1>2 DEF IInv, TypeOK, Hands
  <2> QED BY <2>2, <2>3 DEF IInv, FeedOrdered
<1>6. NothingBefore' /\ LatestHand'
  BY <1>1, <1>2, <1>3 DEF IInv, NothingBefore, LatestHand
<1>7. KnownHands'
  <2>1. shown.hand \in Hands /\ shown.acceptedHand \in Hands /\ hands \in Hands
    BY DEF IInv, TypeOK
  <2>2. sub.stage \in {"read", "joined"} => sub.hand \in Hands
    BY DEF IInv, TypeOK, Subscriptions
  <2>3. response.kind = "hand" => response.hand \in Hands
    BY DEF IInv, TypeOK, NoResponse
  <2> QED BY <1>1, <1>2, <2>1, <2>2, <2>3 DEF IInv, KnownHands, Hands
<1> QED BY <1>4, <1>5, <1>6, <1>7 DEF IInv

\* A message is written to the feed.
LEMMA SendKeeps ==
    ASSUME IInv, SendHandEvent \/ SendRoomEvent \/ (\E c \in changes : SendChange(c))
    PROVE  IInv'
<1>0. /\ roomVersion \in Rooms /\ hands \in Hands /\ NoHand = 0 /\ games \in [1..MaxHands -> Versions]
      /\ 0 \in Hands /\ 0 \in Versions /\ 0 <= hands
  BY DEF IInv, TypeOK, Hands, Versions, NoHand
<1>1. \E m : Sendable(m) /\ Broadcast(m)
  <2>1. CASE SendHandEvent
    <3>1. PICK version \in command.since..roomVersion :
              Broadcast(Message(command.kind, version, command.hand, games[command.hand]))
      BY <2>1 DEF SendHandEvent
    <3>2. /\ command.kind \in HandEvents /\ command.hand = hands /\ hands >= 1
          /\ command.hand \in 1..MaxHands /\ command.since \in Rooms
      BY <2>1 DEF SendHandEvent, HandEvents, IInv, TypeOK, LatestHand, Idle
    <3>3. version \in Rooms /\ games[command.hand] \in Versions /\ command.hand \in Hands
      BY <1>0, <3>2 DEF Rooms, Hands
    <3>4. Sendable(Message(command.kind, version, command.hand, games[command.hand]))
      BY <3>2, <3>3 DEF Sendable, Message, Messages, HandEvents, Hands
    <3> QED BY <3>1, <3>4
  <2>2. ASSUME NEW version \in Rooms PROVE Sendable(Message("room", version, NoHand, 0))
    BY <1>0 DEF Sendable, Message, Messages, HandEvents
  <2>3. CASE SendRoomEvent
    <3>1. PICK version \in command.since..roomVersion : Broadcast(Message("room", version, NoHand, 0))
      BY <2>3 DEF SendRoomEvent
    <3>2. command.since \in Rooms
      BY <2>3 DEF SendRoomEvent, IInv, TypeOK, Idle
    <3>3. version \in Rooms
      BY <1>0, <3>2 DEF Rooms
    <3> QED BY <2>2, <3>1, <3>3
  <2>4. CASE \E c \in changes : SendChange(c)
    <3>1. PICK c \in changes : SendChange(c)
      BY <2>4
    <3>2. PICK version \in c..roomVersion : Broadcast(Message("room", version, NoHand, 0))
      BY <3>1 DEF SendChange
    <3>3. version \in Rooms
      <4>1. c \in Rooms
        BY DEF IInv, TypeOK
      <4> QED BY <1>0, <4>1 DEF Rooms
    <3> QED BY <2>2, <3>2, <3>3
  <2> QED BY <2>1, <2>3, <2>4
<1>2. /\ UNCHANGED <<roomVersion, hand, games, hands, sub, response, shown, connections, https>>
      /\ \/ command' = Idle \/ command' = command
         \/ command' = [command EXCEPT !.kind = "archived"]
      /\ changes' \subseteq changes
      /\ raced' \in BOOLEAN /\ unheard' \in BOOLEAN
  <2>1. raced' \in BOOLEAN
    BY DEF SendHandEvent, SendRoomEvent, SendChange, IInv, TypeOK
  <2>2. unheard' \in BOOLEAN
    BY <1>1 DEF Broadcast
  <2> QED BY <2>1, <2>2 DEF SendHandEvent, SendRoomEvent, SendChange
<1>3. wire' \in Seq(Messages) /\ FeedOrdered' /\ NothingBefore'
  BY <1>1, <1>2, BroadcastKeeps
<1>4. /\ command' \in {Idle} \cup [kind : {"started", "updated", "settled", "archived"},
                                  hand : 1..MaxHands, since : Rooms]
      /\ command'.kind \in HandEvents => command'.hand = hands /\ hands >= 1
  <2>1. command \in {Idle} \cup [kind : {"started", "updated", "settled", "archived"},
                                 hand : 1..MaxHands, since : Rooms]
    BY DEF IInv, TypeOK
  <2>2. CASE command' = command
    BY <2>1, <2>2 DEF IInv, LatestHand
  <2>3. CASE command' = Idle
    BY <2>3 DEF Idle, HandEvents
  <2>4. CASE command' = [command EXCEPT !.kind = "archived"] /\ command \notin {Idle}
    <3>1. command \in [kind : {"started", "updated", "settled", "archived"},
                       hand : 1..MaxHands, since : Rooms]
      BY <2>1, <2>4
    <3> QED BY <2>4, <3>1 DEF HandEvents
  <2>5. CASE command = Idle
    <3>1. SendChange(CHOOSE c \in changes : SendChange(c))
      BY <2>5 DEF SendHandEvent, SendRoomEvent, Idle
    <3>2. command' = command
      BY <3>1 DEF SendChange
    <3> QED BY <2>2, <3>2
  <2> QED BY <1>2, <2>2, <2>3, <2>4, <2>5
<1>5. TypeOK'
  BY <1>2, <1>3, <1>4 DEF IInv, TypeOK
<1>6. LatestHand' /\ KnownHands'
  BY <1>2, <1>4 DEF IInv, LatestHand, KnownHands
<1> QED BY <1>3, <1>5, <1>6 DEF IInv

\* A change of the room is committed.
LEMMA ChangeKeeps ==
    ASSUME IInv, Change
    PROVE  IInv'
<1>1. /\ roomVersion < MaxRoom /\ roomVersion' = roomVersion + 1
      /\ changes' = changes \cup {roomVersion'} /\ raced' \in BOOLEAN
      /\ UNCHANGED <<hand, games, hands, command, sub, wire, response, shown, connections, https, unheard>>
  BY DEF Change
<1>2. TypeOK'
  <2>1. roomVersion' \in Rooms
    BY <1>1 DEF IInv, TypeOK, Rooms
  <2> QED BY <1>1, <2>1 DEF IInv, TypeOK
<1>3. FeedOrdered' /\ NothingBefore' /\ LatestHand' /\ KnownHands'
  BY <1>1 DEF IInv, FeedOrdered, NothingBefore, LatestHand, KnownHands
<1> QED BY <1>2, <1>3 DEF IInv

-----------------------------------------------------------------------------
(* The subscription.                                                       *)

\* Connecting, reading the room, joining the hub and losing the connection.
LEMMA SubscribeKeeps ==
    ASSUME IInv, Connect \/ ReadRoom \/ JoinHub \/ Disconnect
    PROVE  IInv'
<1>0. /\ roomVersion \in Rooms /\ hands \in Hands /\ hand \in {NoHand, hands} /\ NoHand = 0
      /\ games \in [1..MaxHands -> Versions] /\ 0 \in Versions /\ 0 \in Hands /\ hand <= hands
      /\ hand \in Hands
  BY DEF IInv, TypeOK, NoHand, Hands, Versions
<1>1. UNCHANGED <<roomVersion, hand, games, hands, command, changes, response, https>>
  BY DEF Connect, ReadRoom, JoinHub, Disconnect, server
<1>2. wire' = <<>> \/ (wire' = wire /\ FeedOrdered')
  <2>1. CASE Connect
    <3>1. wire = <<>> /\ wire' = wire
      BY <2>1 DEF Connect, IInv, NothingBefore
    <3> QED BY <3>1
  <2>2. CASE ReadRoom \/ JoinHub
    BY <1>1, <2>2 DEF ReadRoom, JoinHub, IInv, FeedOrdered
  <2>3. CASE Disconnect
    BY <2>3 DEF Disconnect
  <2> QED BY <2>1, <2>2, <2>3
<1>3. FeedOrdered' /\ wire' \in Seq(Messages)
  <2>1. CASE wire' = <<>>
    <3>1. 1..Len(wire') = {} /\ wire' \in Seq(Messages)
      BY <2>1, EmptySeq
    <3> QED BY <3>1 DEF FeedOrdered
  <2> QED BY <1>2, <2>1 DEF IInv, TypeOK
<1>4. /\ sub' \in Subscriptions
      /\ sub'.stage \in {"read", "joined"} => sub'.hand <= hands
      /\ sub'.stage \in {"away", "asked", "read"} => wire' = <<>>
  <2>1. CASE Connect
    <3>1. sub' = [stage |-> "asked"] /\ wire' = wire /\ sub.stage = "away"
      BY <2>1 DEF Connect
    <3> QED BY <3>1 DEF Subscriptions, IInv, NothingBefore
  <2>2. CASE ReadRoom
    <3>1. sub' = [stage |-> "read", room |-> roomVersion, hand |-> hand] /\ wire' = wire /\ sub.stage = "asked"
      BY <2>2 DEF ReadRoom
    <3> QED BY <1>0, <3>1 DEF Subscriptions, IInv, NothingBefore
  <2>3. CASE JoinHub
    <3>1. sub.stage = "read" /\ sub.room \in Rooms /\ sub.hand \in Hands /\ sub.hand <= hands
      BY <2>3 DEF JoinHub, IInv, TypeOK, Subscriptions, KnownHands
    <3>2. sub.hand # NoHand => games[sub.hand] \in Versions
      BY <1>0, <3>1 DEF Hands
    <3>3. sub' = [stage |-> "joined", room |-> sub.room, hand |-> sub.hand,
                  since |-> IF sub.hand = NoHand THEN 0 ELSE games[sub.hand]]
      BY <2>3 DEF JoinHub
    <3> QED BY <1>0, <3>1, <3>2, <3>3 DEF Subscriptions
  <2>4. CASE Disconnect
    <3>1. sub' = [stage |-> "away"] /\ wire' = <<>>
      BY <2>4 DEF Disconnect, Away
    <3> QED BY <3>1 DEF Subscriptions
  <2> QED BY <2>1, <2>2, <2>3, <2>4
<1>5. /\ shown' \in [room : Rooms, hand : Hands, version : Versions,
                     acceptedRoom : Rooms \cup {0}, acceptedHand : Hands,
                     acceptedVersion : Versions, awaiting : BOOLEAN]
      /\ shown'.hand <= hands /\ shown'.acceptedHand <= hands
      /\ shown'.hand = NoHand => shown'.version = 0
  <2>0. PICK r : r = shown
    OBVIOUS
  <2>1. r \in [room : Rooms, hand : Hands, version : Versions,
               acceptedRoom : Rooms \cup {0}, acceptedHand : Hands,
               acceptedVersion : Versions, awaiting : BOOLEAN]
        /\ r.hand <= hands /\ r.acceptedHand <= hands /\ (r.hand = NoHand => r.version = 0)
    BY <2>0 DEF IInv, TypeOK, KnownHands
  <2>2. CASE Connect
    <3>1. (connections > 0) \in BOOLEAN
      OBVIOUS
    <3>a. PICK b : b = (connections > 0)
      OBVIOUS
    <3>b. b \in BOOLEAN
      BY <3>1, <3>a, Zenon
    <3>2. shown' = [r EXCEPT !.acceptedRoom = r.room, !.acceptedHand = r.hand,
                             !.acceptedVersion = r.version, !.awaiting = b]
      BY <2>0, <2>2, <3>a DEF Connect
    <3> QED BY <2>1, <3>b, <3>2
  <2>3. CASE ReadRoom \/ JoinHub \/ Disconnect
    BY <2>0, <2>1, <2>3 DEF ReadRoom, JoinHub, Disconnect
  <2> QED BY <2>2, <2>3
<1>6. connections' \in 0..MaxConnections /\ raced' \in BOOLEAN /\ unheard' \in BOOLEAN
  <2>1. CASE Connect
    BY <2>1 DEF Connect, IInv, TypeOK
  <2>2. CASE ReadRoom \/ JoinHub \/ Disconnect
    BY <2>2 DEF ReadRoom, JoinHub, Disconnect, IInv, TypeOK
  <2> QED BY <2>1, <2>2
<1>7. TypeOK'
  BY <1>1, <1>3, <1>4, <1>5, <1>6 DEF IInv, TypeOK
<1>8. NothingBefore' /\ LatestHand' /\ KnownHands'
  BY <1>1, <1>4, <1>5 DEF IInv, NothingBefore, LatestHand, KnownHands
<1> QED BY <1>3, <1>7, <1>8 DEF IInv

\* The snapshot is written.
LEMMA SendSnapshotKeeps ==
    ASSUME IInv, SendSnapshot
    PROVE  IInv'
<1>1. /\ sub.stage = "joined" /\ sub.room \in Rooms /\ sub.hand \in Hands /\ sub.since \in Versions
      /\ sub.hand <= hands
      /\ sub' = [stage |-> "on"]
      /\ UNCHANGED <<roomVersion, hand, games, hands, command, changes>>
      /\ UNCHANGED <<response, shown, connections, https, raced>>
      /\ unheard' \in BOOLEAN
  BY DEF SendSnapshot, Broadcast, IInv, TypeOK, Subscriptions, KnownHands, server
<1>2. PICK version \in IF sub.hand = NoHand THEN {0} ELSE sub.since..games[sub.hand] :
          Broadcast(Message("snapshot", sub.room, sub.hand, version))
  BY DEF SendSnapshot
<1>3. version \in Versions /\ (sub.hand = NoHand => version = 0)
  <2>1. CASE sub.hand = NoHand
    BY <1>2, <2>1 DEF Versions
  <2>2. CASE sub.hand # NoHand
    <3>1. games[sub.hand] \in Versions
      BY <1>1, <2>2 DEF IInv, TypeOK, Hands, NoHand
    <3>2. version \in sub.since..games[sub.hand]
      BY <1>2, <2>2
    <3> QED BY <1>1, <2>2, <3>1, <3>2 DEF Versions
  <2> QED BY <2>1, <2>2
<1>4. Sendable(Message("snapshot", sub.room, sub.hand, version))
  BY <1>1, <1>3 DEF Sendable, Message, Messages, HandEvents
<1>5. \E m : Sendable(m) /\ Broadcast(m)
  BY <1>2, <1>4
<1>6. wire' \in Seq(Messages) /\ FeedOrdered' /\ NothingBefore'
  BY <1>1, <1>5, BroadcastKeeps
<1>7. TypeOK'
  BY <1>1, <1>6 DEF IInv, TypeOK, Subscriptions
<1>8. LatestHand' /\ KnownHands'
  BY <1>1 DEF IInv, LatestHand, KnownHands
<1> QED BY <1>6, <1>7, <1>8 DEF IInv

-----------------------------------------------------------------------------
(* HTTP.                                                                   *)

\* A request is sent, and its response is shown.
LEMMA HttpKeeps ==
    ASSUME IInv, RequestRoom \/ RequestHand \/ Respond
    PROVE  IInv'
<1>0. /\ roomVersion \in Rooms /\ hands \in Hands /\ hand \in {NoHand, hands} /\ NoHand = 0
      /\ games \in [1..MaxHands -> Versions] /\ 0 \in Versions /\ hand \in Hands /\ hand <= hands
  BY DEF IInv, TypeOK, NoHand, Hands, Versions
<1>1. /\ UNCHANGED <<roomVersion, hand, games, hands, command, changes>>
      /\ UNCHANGED <<sub, wire, connections>>
  BY DEF RequestRoom, RequestHand, Respond, server
<1>2. https' \in 0..MaxHttp
  <2>1. https \in 0..MaxHttp /\ MaxHttp \in Nat
    BY BoundsAssumption DEF IInv, TypeOK
  <2>2. CASE RequestRoom \/ RequestHand
    <3>1. https < MaxHttp /\ https' = https + 1
      BY <2>2 DEF RequestRoom, RequestHand, OverHttp
    <3> QED BY <2>1, <3>1
  <2>3. CASE Respond
    BY <2>1, <2>3 DEF Respond
  <2> QED BY <2>2, <2>3
<1>3. raced' \in BOOLEAN /\ unheard' \in BOOLEAN
  BY DEF RequestRoom, RequestHand, Respond, IInv, TypeOK
<1>4. /\ response' \in {NoResponse} \cup [kind : {"room"}, room : Rooms]
                       \cup [kind : {"hand"}, hand : Hands, since : Versions]
      /\ response'.kind = "hand" => response'.hand <= hands
  <2>1. CASE RequestRoom
    <3>1. response' = [kind |-> "room", room |-> roomVersion]
      BY <2>1 DEF RequestRoom
    <3> QED BY <1>0, <3>1
  <2>2. CASE RequestHand
    <3>1. response' = [kind |-> "hand", hand |-> hand,
                       since |-> IF hand = NoHand THEN 0 ELSE games[hand]]
      BY <2>2 DEF RequestHand
    <3>2. hand # NoHand => games[hand] \in Versions
      BY <1>0 DEF Hands
    <3> QED BY <1>0, <3>1, <3>2
  <2>3. CASE Respond
    <3>1. response' = [kind |-> "none"]
      BY <2>3 DEF Respond, NoResponse
    <3> QED BY <3>1 DEF NoResponse
  <2> QED BY <2>1, <2>2, <2>3
<1>5. /\ shown' \in [room : Rooms, hand : Hands, version : Versions,
                     acceptedRoom : Rooms \cup {0}, acceptedHand : Hands,
                     acceptedVersion : Versions, awaiting : BOOLEAN]
      /\ shown'.hand <= hands /\ shown'.acceptedHand = shown.acceptedHand
      /\ shown'.hand = NoHand => shown'.version = 0
  <2>0. PICK r : r = shown
    OBVIOUS
  <2>1. r \in [room : Rooms, hand : Hands, version : Versions,
               acceptedRoom : Rooms \cup {0}, acceptedHand : Hands,
               acceptedVersion : Versions, awaiting : BOOLEAN]
        /\ r.hand <= hands /\ r.acceptedHand <= hands /\ (r.hand = NoHand => r.version = 0)
    BY <2>0 DEF IInv, TypeOK, KnownHands
  <2>2. CASE RequestRoom \/ RequestHand
    BY <2>0, <2>1, <2>2 DEF RequestRoom, RequestHand
  <2>3. CASE Respond /\ response.kind = "room"
    <3>1. response.room \in Rooms
      BY <2>3 DEF IInv, TypeOK, NoResponse
    <3>2. shown' = [r EXCEPT !.room = response.room]
      BY <2>0, <2>3 DEF Respond
    <3> QED BY <2>0, <2>1, <3>1, <3>2
  <2>4. CASE Respond /\ response.kind = "hand"
    <3>1. response.hand \in Hands /\ response.since \in Versions /\ response.hand <= hands
      BY <2>4 DEF IInv, TypeOK, NoResponse, KnownHands
    <3>2. PICK version \in IF response.hand = NoHand THEN {0} ELSE response.since..games[response.hand] :
              shown' = [r EXCEPT !.hand = response.hand, !.version = version]
      BY <2>0, <2>4 DEF Respond
    <3>3. version \in Versions /\ (response.hand = NoHand => version = 0)
      <4>1. CASE response.hand = NoHand
        BY <1>0, <3>2, <4>1
      <4>2. CASE response.hand # NoHand
        <5>1. games[response.hand] \in Versions
          BY <1>0, <3>1, <4>2 DEF Hands
        <5>2. version \in response.since..games[response.hand]
          BY <3>2, <4>2
        <5> QED BY <3>1, <4>2, <5>1, <5>2 DEF Versions
      <4> QED BY <4>1, <4>2
    <3> QED BY <2>0, <2>1, <3>1, <3>2, <3>3
  <2> QED BY <2>2, <2>3, <2>4 DEF Respond
<1>6. TypeOK'
  BY <1>1, <1>2, <1>3, <1>4, <1>5 DEF IInv, TypeOK
<1>7. FeedOrdered' /\ NothingBefore' /\ LatestHand'
  BY <1>1, <1>5 DEF IInv, FeedOrdered, NothingBefore, LatestHand
<1>8. KnownHands'
  BY <1>1, <1>4, <1>5 DEF IInv, KnownHands
<1> QED BY <1>6, <1>7, <1>8 DEF IInv

-----------------------------------------------------------------------------
(* The invariant of the specification.                                     *)

\* The invariant holds before anything happens.
LEMMA InitInvariant == Init => IInv
<1> SUFFICES ASSUME Init PROVE IInv
  OBVIOUS
<1>1. /\ 1 \in Rooms /\ 0 \in Hands /\ 0 \in Versions
  BY DEF Rooms, Hands, Versions
<1>2. wire \in Seq(Messages) /\ 1..Len(wire) = {}
  BY EmptySeq DEF Init
<1>3. TypeOK
  <2>1. sub \in Subscriptions
    BY DEF Init, Away, Subscriptions
  <2>2. games \in [1..MaxHands -> Versions]
    BY <1>1 DEF Init
  <2>3. shown \in [room : Rooms, hand : Hands, version : Versions,
                   acceptedRoom : Rooms \cup {0}, acceptedHand : Hands,
                   acceptedVersion : Versions, awaiting : BOOLEAN]
    BY <1>1 DEF Init, NoHand
  <2>4. connections \in 0..MaxConnections /\ https \in 0..MaxHttp
        /\ raced \in BOOLEAN /\ unheard \in BOOLEAN
    <3>1. connections = 0 /\ https = 0 /\ raced = FALSE /\ unheard = FALSE
      BY DEF Init
    <3>2. MaxConnections \in Nat /\ MaxHttp \in Nat
      BY BoundsAssumption
    <3>3. connections \in 0..MaxConnections /\ https \in 0..MaxHttp
      <4>1. connections = 0 /\ https = 0
        BY <3>1
      <4> QED BY <3>2, <4>1
    <3>4. raced \in BOOLEAN /\ unheard \in BOOLEAN
      BY <3>1
    <3> QED BY <3>3, <3>4
  <2>5. roomVersion \in Rooms /\ hands \in Hands /\ hand \in {NoHand, hands} /\ changes \subseteq Rooms
    BY <1>1 DEF Init, NoHand
  <2>6. command = Idle /\ response = NoResponse
    BY DEF Init
  <2> QED BY <1>2, <2>1, <2>2, <2>3, <2>4, <2>5, <2>6 DEF TypeOK
<1>4. FeedOrdered /\ NothingBefore
  BY <1>2 DEF FeedOrdered, NothingBefore, Init
<1>5. LatestHand /\ KnownHands
  BY DEF Init, LatestHand, KnownHands, Idle, HandEvents, Away, NoResponse, NoHand
<1> QED BY <1>3, <1>4, <1>5 DEF IInv

\* Every step keeps it.
LEMMA NextInvariant ==
    ASSUME IInv, [Next]_vars
    PROVE  IInv'
<1>1. CASE \E by \in {"socket", "http"} : Start(by) \/ Play(by) \/ Settle(by)
  BY <1>1, CommitKeeps
<1>2. CASE SendHandEvent \/ SendRoomEvent \/ (\E c \in changes : SendChange(c))
  BY <1>2, SendKeeps
<1>3. CASE Change
  BY <1>3, ChangeKeeps
<1>4. CASE Connect \/ ReadRoom \/ JoinHub \/ Disconnect
  BY <1>4, SubscribeKeeps
<1>5. CASE SendSnapshot
  BY <1>5, SendSnapshotKeeps
<1>6. CASE Receive
  BY <1>6, ReceiveKeeps
<1>7. CASE RequestRoom \/ RequestHand \/ Respond
  BY <1>7, HttpKeeps
<1>8. CASE UNCHANGED vars
  BY <1>8 DEF vars, server, IInv, TypeOK, FeedOrdered, NothingBefore, LatestHand, KnownHands
<1> QED BY <1>1, <1>2, <1>3, <1>4, <1>5, <1>6, <1>7, <1>8 DEF Next

-----------------------------------------------------------------------------
(* What a message does to what is shown.                                   *)

\* The larger of two versions is at least each of them.
LEMMA MaxOfTwo ==
    ASSUME NEW a \in Int, NEW b \in Int
    PROVE  Max({a, b}) >= a /\ Max({a, b}) >= b
<1>1. \E x \in {a, b} : \A y \in {a, b} : x >= y
  OBVIOUS
<1> QED BY <1>1 DEF Max

\* The step shown of the same hand is not older than before, and the hand
\* accepted last is not older either.
LEMMA HandStays ==
    ASSUME IInv, Receive, Head(wire).type \in HandEvents
    PROVE  /\ shown'.hand = shown.hand => shown'.version >= shown.version
           /\ shown'.acceptedHand >= shown.acceptedHand
<1>1. PICK m \in Messages : m = Head(wire) /\ shown' = Shown(m)
  <2>1. Head(wire) \in Messages
    BY HeadTailProperties DEF Receive, IInv, TypeOK
  <2> QED BY <2>1 DEF Receive
<1>2. PICK r : r = shown
  OBVIOUS
<1>3. /\ r \in [room : Rooms, hand : Hands, version : Versions,
                acceptedRoom : Rooms \cup {0}, acceptedHand : Hands,
                acceptedVersion : Versions, awaiting : BOOLEAN]
      /\ r.hand = NoHand => r.version = 0
  BY <1>2 DEF IInv, TypeOK, KnownHands
<1>4. m.type \in HandEvents /\ m.hand >= 1 /\ r.acceptedHand <= m.hand /\ m.hand # NoHand
  <2>1. wire \in Seq(Messages) /\ wire # <<>>
    BY DEF Receive, IInv, TypeOK
  <2>2. m = wire[1] /\ 1 \in 1..Len(wire)
    BY <1>1, <2>1, HeadTailProperties, EmptySeq, LenProperties
  <2>3. m.type \in HandEvents /\ m.hand >= 1 /\ shown.acceptedHand <= m.hand
    BY <1>1, <2>2 DEF IInv, FeedOrdered
  <2> QED BY <1>1, <1>2, <2>3 DEF NoHand, Messages, Hands
<1>5. /\ r.version \in Int /\ r.acceptedVersion \in Int /\ r.acceptedHand \in Int
      /\ m.hand \in Int /\ m.version \in Int /\ NoHand = 0
  BY <1>3 DEF Versions, Hands, Messages, NoHand
<1>6. CASE ~AcceptsRoom(m) \/ ~AcceptsHand(m)
  <2>1. Shown(m) = r \/ Shown(m) = [r EXCEPT !.acceptedRoom = m.room]
    BY <1>2, <1>4, <1>6 DEF Shown, HandEvents
  <2> QED BY <1>1, <1>2, <1>3, <1>5, <2>1
<1>7. CASE AcceptsRoom(m) /\ AcceptsHand(m)
  <2>1. Shown(m) = ShowHand(m)
    BY <1>4, <1>7 DEF Shown, HandEvents
  <2>2. Shown(m).acceptedHand = m.hand
    BY <1>2, <1>3, <2>1 DEF ShowHand
  <2>3. CASE m.type = "settled"
    <3>1. Shown(m).hand = NoHand /\ Shown(m).version = 0
      BY <1>2, <1>3, <2>1, <2>3 DEF ShowHand
    <3> QED BY <1>1, <1>2, <1>3, <1>4, <1>5, <2>2, <3>1
  <2>4. CASE m.type # "settled"
    <3>1. Shown(m).hand = m.hand /\ Shown(m).version = m.version
      BY <1>2, <1>3, <2>1, <2>4 DEF ShowHand
    <3>2. ASSUME r.hand = m.hand PROVE m.version >= r.version
      <4>1. CurrentHand = m.hand
        BY <1>2, <1>4, <3>2 DEF CurrentHand
      <4>2. CurrentVersion(m.hand) = Max({r.acceptedVersion, r.version})
        BY <1>2, <3>2 DEF CurrentVersion
      <4>3. Max({r.acceptedVersion, r.version}) \in {r.acceptedVersion, r.version}
        <5>1. \E x \in {r.acceptedVersion, r.version} : \A y \in {r.acceptedVersion, r.version} : x >= y
          BY <1>5
        <5> QED BY <5>1 DEF Max
      <4>4. ~(m.version <= Max({r.acceptedVersion, r.version}))
        BY <1>7, <4>1, <4>2 DEF AcceptsHand
      <4>5. Max({r.acceptedVersion, r.version}) >= r.version
        BY <1>5, MaxOfTwo
      <4> QED BY <1>5, <4>3, <4>4, <4>5
    <3> QED BY <1>1, <1>2, <1>4, <1>5, <2>2, <3>1, <3>2
  <2> QED BY <2>3, <2>4
<1> QED BY <1>6, <1>7

-----------------------------------------------------------------------------
(* The theorems.                                                           *)

\* The invariant holds however the server, the connection and HTTP interleave.
THEOREM Invariance == Spec => []IInv
<1>1. IInv /\ [Next]_vars => IInv'
  BY NextInvariant
<1> QED BY <1>1, InitInvariant, PTL DEF Spec

\* Every message, response and accepted version has its type.
THEOREM TypesHold == Spec => []TypeOK
<1>1. IInv => TypeOK
  BY DEF IInv
<1> QED BY <1>1, Invariance, PTL

\* No event brings back an older step of the hand shown, or an older hand than
\* the one accepted last (applyHandSocketPayload).
THEOREM HandsStay == Spec => HandNeverGoesBack
<1>1. IInv /\ [Next]_vars =>
          [Receive /\ Head(wire).type \in {"started", "updated", "settled"} =>
               /\ shown'.hand = shown.hand => shown'.version >= shown.version
               /\ shown'.acceptedHand >= shown.acceptedHand]_vars
  BY HandStays DEF HandEvents
<1> QED BY <1>1, Invariance, PTL DEF Spec, HandNeverGoesBack

-----------------------------------------------------------------------------
(* What the client will show.                                              *)

Views == [room : Rooms, hand : Hands, version : Versions,
          acceptedRoom : Rooms \cup {0}, acceptedHand : Hands,
          acceptedVersion : Versions, awaiting : BOOLEAN]

\* The client's rules, for any view v it may have when m arrives.
Newer(v, m) == m.room >= v.room /\ m.room >= v.acceptedRoom

\* The hand it shows or, without one, the last it has accepted.
HandOf(v) == IF v.hand # NoHand THEN v.hand ELSE v.acceptedHand

\* It takes an event: of a newer hand, or a newer step of its own.
Takes(v, m) ==
    /\ HandOf(v) \in {NoHand, m.hand} \/ m.type = "started"
    /\ ~ /\ HandOf(v) = m.hand
         /\ m.version <= v.acceptedVersion \/ (v.hand = m.hand /\ m.version <= v.version)

\* What it shows once m has arrived.
After(v, m) ==
    CASE ~Newer(v, m) -> v
      [] Newer(v, m) /\ m.type = "snapshot" ->
             [room |-> m.room, hand |-> m.hand, version |-> m.version,
              acceptedRoom |-> m.room, acceptedHand |-> m.hand,
              acceptedVersion |-> m.version, awaiting |-> FALSE]
      [] Newer(v, m) /\ m.type = "room" -> [v EXCEPT !.room = m.room, !.acceptedRoom = m.room]
      [] OTHER ->
             IF Takes(v, m)
             THEN [v EXCEPT !.acceptedRoom = m.room,
                            !.acceptedHand = m.hand, !.acceptedVersion = m.version,
                            !.hand = IF m.type = "settled" THEN NoHand ELSE m.hand,
                            !.version = IF m.type = "settled" THEN 0 ELSE m.version]
             ELSE [v EXCEPT !.acceptedRoom = m.room]

\* The larger of two numbers.
LEMMA MaxIs ==
    ASSUME NEW a \in Int, NEW b \in Int
    PROVE  \A c \in Int : c >= Max({a, b}) <=> c >= a /\ c >= b
<1>1. \E x \in {a, b} : \A y \in {a, b} : x >= y
  OBVIOUS
<1>2. Max({a, b}) \in {a, b}
  BY <1>1 DEF Max
<1> QED BY <1>2, MaxOfTwo

\* The rules are those of the model.
LEMMA ShownIsAfter ==
    ASSUME TypeOK, NEW m \in Messages
    PROVE  shown \in Views /\ Shown(m) = After(shown, m)
<1>1. PICK v \in Views : v = shown
  BY DEF TypeOK, Views
<1>2. /\ v.room \in Int /\ v.acceptedRoom \in Int /\ v.version \in Int /\ v.acceptedVersion \in Int
      /\ m.room \in Int /\ m.version \in Int
  BY DEF Views, Rooms, Versions, Messages
<1>3. AcceptsRoom(m) <=> Newer(v, m)
  BY <1>1, <1>2, MaxIs DEF AcceptsRoom, CurrentRoom, Newer
<1>4. AcceptsHand(m) <=> Takes(v, m)
  <2>1. CurrentHand = HandOf(v)
    BY <1>1 DEF CurrentHand, HandOf
  <2>2. PICK c : c = CurrentVersion(m.hand)
    OBVIOUS
  <2>3. c = IF v.hand = m.hand THEN Max({v.acceptedVersion, v.version}) ELSE v.acceptedVersion
    BY <1>1, <2>2 DEF CurrentVersion
  <2>4. Max({v.acceptedVersion, v.version}) \in Int
    <3>1. \E x \in {v.acceptedVersion, v.version} : \A y \in {v.acceptedVersion, v.version} : x >= y
      BY <1>2
    <3> QED BY <1>2, <3>1 DEF Max
  <2>5. PICK d \in Int : d = Max({v.acceptedVersion, v.version})
    BY <2>4
  <2>6. d \in {v.acceptedVersion, v.version} /\ d >= v.acceptedVersion /\ d >= v.version
    <3>1. \E x \in {v.acceptedVersion, v.version} : \A y \in {v.acceptedVersion, v.version} : x >= y
      BY <1>2
    <3>2. d \in {v.acceptedVersion, v.version}
      BY <2>5, <3>1 DEF Max
    <3> QED BY <1>2, <2>5, <3>2, MaxOfTwo
  <2>7. m.version <= c <=> m.version <= v.acceptedVersion \/ (v.hand = m.hand /\ m.version <= v.version)
    BY <1>2, <2>3, <2>5, <2>6
  <2> QED BY <2>1, <2>2, <2>7 DEF AcceptsHand, Takes
<1>5. ShowHand(m) = [v EXCEPT !.acceptedRoom = m.room,
                              !.acceptedHand = m.hand, !.acceptedVersion = m.version,
                              !.hand = IF m.type = "settled" THEN NoHand ELSE m.hand,
                              !.version = IF m.type = "settled" THEN 0 ELSE m.version]
  BY <1>1 DEF ShowHand
<1>6. ShowRoom(m) = [v EXCEPT !.room = m.room, !.acceptedRoom = m.room]
  BY <1>1 DEF ShowRoom
<1>7. Shown(m) = CASE ~Newer(v, m) -> v
                   [] Newer(v, m) /\ m.type = "snapshot" -> ShowSnapshot(m)
                   [] Newer(v, m) /\ m.type = "room" -> ShowRoom(m)
                   [] OTHER -> IF Takes(v, m) THEN ShowHand(m)
                               ELSE [v EXCEPT !.acceptedRoom = m.room]
  BY <1>1, <1>3, <1>4 DEF Shown
<1>8. Shown(m) = After(v, m)
  BY <1>5, <1>6, <1>7 DEF ShowSnapshot, After
<1> QED BY <1>1, <1>8

\* What a message does to a view.
LEMMA AfterIs ==
    ASSUME NEW v \in Views, NEW m \in Messages, NEW u, u = After(v, m)
    PROVE  /\ u \in Views
           /\ ~Newer(v, m) => u = v
           /\ Newer(v, m) => u.acceptedRoom = m.room
           /\ Newer(v, m) /\ m.type = "snapshot" =>
                  /\ u.room = m.room /\ u.hand = m.hand /\ u.version = m.version
                  /\ u.acceptedHand = m.hand /\ u.acceptedVersion = m.version /\ ~u.awaiting
           /\ Newer(v, m) /\ m.type = "room" => u.room = m.room
           /\ m.type = "room" =>
                  /\ u.hand = v.hand /\ u.version = v.version /\ u.awaiting = v.awaiting
                  /\ u.acceptedHand = v.acceptedHand /\ u.acceptedVersion = v.acceptedVersion
           /\ m.type \in HandEvents => u.room = v.room /\ u.awaiting = v.awaiting
           /\ m.type \in HandEvents /\ Newer(v, m) /\ Takes(v, m) =>
                  /\ u.acceptedHand = m.hand /\ u.acceptedVersion = m.version
                  /\ u.hand = IF m.type = "settled" THEN NoHand ELSE m.hand
                  /\ u.version = IF m.type = "settled" THEN 0 ELSE m.version
           /\ m.type \in HandEvents /\ ~(Newer(v, m) /\ Takes(v, m)) =>
                  /\ u.hand = v.hand /\ u.version = v.version
                  /\ u.acceptedHand = v.acceptedHand /\ u.acceptedVersion = v.acceptedVersion
<1>1. /\ m.room \in Rooms /\ m.hand \in Hands /\ m.version \in Versions
      /\ 0 \in Versions /\ NoHand \in Hands
      /\ m.type \in {"snapshot", "room"} \cup HandEvents
  BY DEF Messages, Hands, Versions, NoHand, HandEvents
<1>2. CASE ~Newer(v, m)
  <2>1. u = v
    BY <1>2 DEF After
  <2> QED BY <1>2, <2>1
<1>3. CASE Newer(v, m) /\ m.type = "snapshot"
  <2>1. u = [room |-> m.room, hand |-> m.hand, version |-> m.version,
             acceptedRoom |-> m.room, acceptedHand |-> m.hand,
             acceptedVersion |-> m.version, awaiting |-> FALSE]
    BY <1>3 DEF After
  <2> QED BY <1>1, <1>3, <2>1 DEF Views, HandEvents
<1>4. CASE Newer(v, m) /\ m.type = "room"
  <2>1. u = [v EXCEPT !.room = m.room, !.acceptedRoom = m.room]
    BY <1>4 DEF After
  <2> QED BY <1>1, <1>4, <2>1 DEF Views, HandEvents
<1>5. CASE Newer(v, m) /\ m.type \in HandEvents /\ Takes(v, m)
  <2>1. PICK h \in Hands, n \in Versions : /\ h = IF m.type = "settled" THEN NoHand ELSE m.hand
                                           /\ n = IF m.type = "settled" THEN 0 ELSE m.version
    BY <1>1
  <2>2. u = [v EXCEPT !.acceptedRoom = m.room,
                      !.acceptedHand = m.hand, !.acceptedVersion = m.version,
                      !.hand = h, !.version = n]
    BY <1>5, <2>1 DEF After, HandEvents
  <2>3. u \in Views /\ u.acceptedRoom = m.room /\ u.acceptedHand = m.hand /\ u.acceptedVersion = m.version
        /\ u.hand = h /\ u.version = n /\ u.room = v.room /\ u.awaiting = v.awaiting
    BY <1>1, <2>2 DEF Views
  <2> QED BY <1>5, <2>1, <2>3 DEF HandEvents
<1>6. CASE Newer(v, m) /\ m.type \in HandEvents /\ ~Takes(v, m)
  <2>1. u = [v EXCEPT !.acceptedRoom = m.room]
    BY <1>6 DEF After, HandEvents
  <2> QED BY <1>1, <1>6, <2>1 DEF Views, HandEvents
<1> QED BY <1>1, <1>2, <1>3, <1>4, <1>5, <1>6

-----------------------------------------------------------------------------
(* The view that the messages under way lead to.                           *)

Leads(w) ==
    \E f \in [0..Len(wire) -> Views] :
        /\ f[0] = shown /\ f[Len(wire)] = w
        /\ \A i \in 1..Len(wire) : f[i] = After(f[i - 1], wire[i])

\* Without any it is the present one.
LEMMA NothingLeads ==
    ASSUME TypeOK, wire = <<>>
    PROVE  Leads(shown) /\ \A w : Leads(w) => w = shown
<1>1. Len(wire) = 0 /\ shown \in Views
  BY EmptySeq DEF TypeOK, Views
<1>2. PICK f : f = [i \in 0..0 |-> shown]
  OBVIOUS
<1>3. f \in [0..Len(wire) -> Views] /\ f[0] = shown /\ f[Len(wire)] = shown /\ 1..Len(wire) = {}
  BY <1>1, <1>2
<1>4. Leads(shown)
  BY <1>3 DEF Leads
<1>5. \A w : Leads(w) => w = shown
  BY <1>1 DEF Leads
<1> QED BY <1>4, <1>5

\* Another message leads on.
LEMMA AppendLeads ==
    ASSUME TypeOK, NEW w, Leads(w), NEW m \in Messages, wire' = Append(wire, m), shown' = shown
    PROVE  w \in Views /\ Leads(After(w, m))'
<1>1. wire \in Seq(Messages) /\ Len(wire) \in Nat
  BY LenProperties DEF TypeOK
<1>2. PICK n \in Nat : n = Len(wire)
  BY <1>1
<1>3. /\ Len(wire') = n + 1 /\ \A i \in 1..n : wire'[i] = wire[i]
      /\ wire'[n + 1] = m
  BY <1>1, <1>2, AppendProperties
<1>4. PICK f \in [0..n -> Views] :
          /\ f[0] = shown /\ f[n] = w
          /\ \A i \in 1..n : f[i] = After(f[i - 1], wire[i])
  BY <1>2 DEF Leads
<1>5. w \in Views
  BY <1>4
<1>6. PICK u : u = After(w, m)
  OBVIOUS
<1>7. u \in Views
  BY <1>5, <1>6, AfterIs
<1>8. PICK g : g = [i \in 0..n + 1 |-> IF i <= n THEN f[i] ELSE u]
  OBVIOUS
<1>9. g \in [0..n + 1 -> Views] /\ g[0] = shown /\ g[n + 1] = u /\ g[n] = w
  BY <1>4, <1>7, <1>8
<1>10. \A i \in 1..n : g[i] = f[i] /\ g[i - 1] = f[i - 1]
  BY <1>8
<1>11. ASSUME NEW i \in 1..n + 1 PROVE g[i] = After(g[i - 1], wire'[i])
  <2>1. CASE i \in 1..n
    BY <1>3, <1>4, <1>10, <2>1
  <2>2. CASE i = n + 1
    <3>1. i - 1 = n
      BY <2>2
    <3> QED BY <1>3, <1>6, <1>9, <2>2, <3>1
  <2>3. i \in 1..n \/ i = n + 1
    OBVIOUS
  <2> QED BY <2>1, <2>2, <2>3
<1>12. Leads(u)'
  BY <1>3, <1>9, <1>11 DEF Leads
<1> QED BY <1>5, <1>6, <1>12

\* A message that arrives leads where it led before.
LEMMA ReceiveLeads ==
    ASSUME TypeOK, NEW w, Leads(w), Receive
    PROVE  Leads(w)'
<1>1. wire \in Seq(Messages) /\ wire # <<>> /\ Len(wire) \in Nat /\ Len(wire) >= 1
  BY LenProperties, EmptySeq DEF TypeOK, Receive
<1>2. PICK n \in Nat : n + 1 = Len(wire)
  <2>1. Len(wire) - 1 \in Nat
    BY <1>1
  <2> QED BY <1>1, <2>1
<1>3. /\ Len(wire') = n /\ \A i \in 1..n : wire'[i] = wire[i + 1]
      /\ Head(wire) = wire[1] /\ Head(wire) \in Messages
  BY <1>1, <1>2, HeadTailProperties DEF Receive
<1>4. PICK f \in [0..n + 1 -> Views] :
          /\ f[0] = shown /\ f[n + 1] = w
          /\ \A i \in 1..n + 1 : f[i] = After(f[i - 1], wire[i])
  BY <1>2 DEF Leads
<1>5. shown' = f[1]
  <2>1. shown' = After(shown, wire[1])
    BY <1>3, ShownIsAfter DEF Receive
  <2>2. f[1] = After(f[1 - 1], wire[1])
    BY <1>4
  <2> QED BY <1>4, <2>1, <2>2
<1>6. PICK g : g = [i \in 0..n |-> f[i + 1]]
  OBVIOUS
<1>7. g \in [0..n -> Views] /\ g[0] = shown' /\ g[n] = w
  BY <1>4, <1>5, <1>6
<1>8. ASSUME NEW i \in 1..n PROVE g[i] = After(g[i - 1], wire'[i])
  <2>1. g[i] = f[i + 1] /\ g[i - 1] = f[i] /\ wire'[i] = wire[i + 1]
    BY <1>3, <1>6
  <2>2. f[i + 1] = After(f[(i + 1) - 1], wire[i + 1])
    BY <1>4
  <2> QED BY <2>1, <2>2
<1> QED BY <1>3, <1>7, <1>8 DEF Leads

-----------------------------------------------------------------------------
(* Versions come from the past, and a command is about the room's hand.    *)

Past ==
    /\ changed \in 1..roomVersion
    /\ shown.room <= roomVersion /\ shown.acceptedRoom <= roomVersion
    /\ \A i \in 1..Len(wire) : wire[i].room <= roomVersion
    /\ response.kind = "room" => response.room <= roomVersion
    /\ command.kind # "none" => command.since <= roomVersion
    /\ sub.stage \in {"read", "joined"} => sub.room <= roomVersion

CommandsHand ==
    /\ command.kind \in {"settled", "archived"} => roomVersion = changed /\ hand = NoHand
    /\ command.kind \in {"started", "updated"} => hand = command.hand /\ hand # NoHand

\* The numbers that are compared.
LEMMA Numbers ==
    ASSUME TypeOK
    PROVE  /\ roomVersion \in Nat /\ shown \in Views /\ NoHand = 0
           /\ shown.room \in Nat /\ shown.acceptedRoom \in Nat
           /\ \A i \in 1..Len(wire) : wire[i] \in Messages /\ wire[i].room \in Nat
           /\ Len(wire) \in Nat
           /\ response.kind = "room" => response.room \in Nat
           /\ command.kind # "none" => command.since \in Nat /\ command.hand \in 1..MaxHands
           /\ sub.stage \in {"read", "joined"} => sub.room \in Nat /\ sub.hand \in Hands
           /\ sub.stage \in {"away", "asked", "read", "joined", "on"}
<1>1. roomVersion \in Nat /\ shown \in Views /\ NoHand = 0
      /\ shown.room \in Nat /\ shown.acceptedRoom \in Nat
  BY DEF TypeOK, Rooms, Views, NoHand
<1>2. Len(wire) \in Nat /\ \A i \in 1..Len(wire) : wire[i] \in Messages
  BY LenProperties, ElementOfSeq DEF TypeOK
<1>3. \A m \in Messages : m.room \in Nat
  BY DEF Messages, Rooms
<1>4. response.kind = "room" => response.room \in Nat
  BY DEF TypeOK, Rooms, NoResponse
<1>5. command.kind # "none" => command.since \in Nat /\ command.hand \in 1..MaxHands
  BY DEF TypeOK, Rooms, Idle
<1>6. /\ sub.stage \in {"read", "joined"} => sub.room \in Nat /\ sub.hand \in Hands
      /\ sub.stage \in {"away", "asked", "read", "joined", "on"}
  BY DEF TypeOK, Rooms, Subscriptions
<1> QED BY <1>1, <1>2, <1>3, <1>4, <1>5, <1>6

\* A later room version does not make a past one come.
LEMMA CommitPast ==
    ASSUME IInv, Past, CommandsHand, roomVersion' \in Nat, roomVersion' >= roomVersion,
           UNCHANGED <<sub, wire, response, shown>>,
           changed' = changed \/ changed' = roomVersion',
           \/ command' = command
           \/ command'.kind # "none" => command'.since = roomVersion'
    PROVE  Past'
<1>1. \A i \in 1..Len(wire) : wire[i].room <= roomVersion'
  BY Numbers DEF IInv, Past
<1>2. changed' \in 1..roomVersion'
  BY Numbers DEF IInv, Past
<1> QED BY <1>1, <1>2, Numbers DEF IInv, Past

\* Starts, plays, settlements and changes.
LEMMA CommitsPast ==
    ASSUME IInv, Past, CommandsHand,
           Change \/ \E by \in {"socket", "http"} : Start(by) \/ Play(by) \/ Settle(by)
    PROVE  Past' /\ CommandsHand'
<1>0. roomVersion \in Nat /\ NoHand = 0
  BY Numbers DEF IInv
<1>1. CASE Change
  <2>1. /\ roomVersion' = roomVersion + 1 /\ changed' = roomVersion'
        /\ UNCHANGED <<hand, command, sub, wire, response, shown>>
    BY <1>1 DEF Change
  <2>2. Past'
    BY <1>0, <2>1, CommitPast
  <2>3. CommandsHand'
    BY <2>1 DEF CommandsHand
  <2> QED BY <2>2, <2>3
<1>2. ASSUME NEW by \in {"socket", "http"}, NEW kind \in HandEvents, NEW h, Commit(kind, h, by),
             roomVersion' \in Nat, roomVersion' >= roomVersion,
             changed' = changed \/ changed' = roomVersion',
             kind = "settled" => changed' = roomVersion' /\ hand' = NoHand,
             kind \in {"started", "updated"} => hand' = h /\ h # NoHand
      PROVE  Past' /\ CommandsHand'
  <2>1. /\ command' = Idle \/ command' = [kind |-> kind, hand |-> h, since |-> roomVersion']
        /\ UNCHANGED <<sub, wire, response, shown>>
    BY <1>2 DEF Commit
  <2>2. command'.kind # "none" => command'.since = roomVersion' /\ command'.kind = kind /\ command'.hand = h
    BY <2>1 DEF Idle
  <2>3. Past'
    BY <1>2, <2>1, <2>2, CommitPast
  <2>4. CommandsHand'
    BY <1>2, <2>2 DEF CommandsHand, HandEvents
  <2> QED BY <2>3, <2>4
<1>3. ASSUME NEW by \in {"socket", "http"}, Start(by) PROVE Past' /\ CommandsHand'
  <2>1. /\ roomVersion' = roomVersion + 1 /\ changed' = changed
        /\ hand' = hands + 1 /\ hands \in Nat /\ Commit("started", hand', by)
    BY <1>3 DEF Start, IInv, TypeOK, Hands
  <2> QED BY <1>0, <1>2, <2>1 DEF HandEvents
<1>4. ASSUME NEW by \in {"socket", "http"}, Play(by) PROVE Past' /\ CommandsHand'
  <2>1. /\ roomVersion' = roomVersion /\ changed' = changed
        /\ hand' = hand /\ hand # NoHand /\ Commit("updated", hand, by)
    BY <1>4 DEF Play
  <2> QED BY <1>0, <1>2, <2>1 DEF HandEvents
<1>5. ASSUME NEW by \in {"socket", "http"}, Settle(by) PROVE Past' /\ CommandsHand'
  <2>1. /\ roomVersion' = roomVersion + 1 /\ changed' = roomVersion'
        /\ hand' = NoHand /\ Commit("settled", hand, by)
    BY <1>5 DEF Settle
  <2> QED BY <1>0, <1>2, <2>1 DEF HandEvents
<1> QED BY <1>1, <1>3, <1>4, <1>5

\* A message carries a version of the room that has been committed.
LEMMA SendPast ==
    ASSUME IInv, Past, NEW m \in Messages, m.room <= roomVersion, Broadcast(m),
           UNCHANGED <<roomVersion, changed, response, shown>>,
           sub' = sub \/ sub'.stage = "on",
           command' = command \/ command'.kind = "none" \/ command'.since = command.since,
           command.kind = "none" => command'.kind = "none"
    PROVE  Past'
<1>1. \A i \in 1..Len(wire') : wire'[i].room <= roomVersion
  <2>1. CASE wire' = Append(wire, m)
    <3>1. wire \in Seq(Messages)
      BY DEF IInv, TypeOK
    <3>2. /\ Len(wire') = Len(wire) + 1 /\ wire'[Len(wire) + 1] = m
          /\ \A i \in 1..Len(wire) : wire'[i] = wire[i]
      BY <2>1, <3>1, AppendProperties
    <3>3. \A i \in 1..Len(wire') : i \in 1..Len(wire) \/ i = Len(wire) + 1
      BY <3>2, Numbers DEF IInv
    <3> QED BY <3>2, <3>3 DEF Past
  <2>2. CASE wire' = wire
    BY <2>2 DEF Past
  <2> QED BY <2>1, <2>2 DEF Broadcast
<1>2. command'.kind # "none" => command'.since <= roomVersion
  BY DEF Past
<1> QED BY <1>1, <1>2 DEF Past

\* The messages that are sent.
LEMMA SentMessage ==
    ASSUME IInv, Past,
           SendHandEvent \/ SendRoomEvent \/ (\E c \in changes : SendChange(c)) \/ SendSnapshot
    PROVE  \E m \in Messages : m.room <= roomVersion /\ Broadcast(m)
<1>0. /\ roomVersion \in Rooms /\ games \in [1..MaxHands -> Versions] /\ changes \subseteq Rooms
      /\ NoHand = 0 /\ NoHand \in Hands /\ 0 \in Versions
  BY DEF IInv, TypeOK, NoHand, Hands, Versions
<1>1. CASE SendHandEvent
  <2>1. PICK version \in command.since..roomVersion :
            Broadcast(Message(command.kind, version, command.hand, games[command.hand]))
    BY <1>1 DEF SendHandEvent
  <2>2. /\ command.kind \in HandEvents
        /\ command.hand \in 1..MaxHands /\ command.since \in Rooms
    BY <1>1 DEF SendHandEvent, HandEvents, IInv, TypeOK, Idle
  <2>3. version \in Rooms /\ version <= roomVersion
    BY <1>0, <2>2 DEF Rooms
  <2>4. games[command.hand] \in Versions /\ command.hand \in Hands
    BY <1>0, <2>2 DEF Hands
  <2>5. Message(command.kind, version, command.hand, games[command.hand]) \in Messages
    BY <2>2, <2>3, <2>4 DEF Message, Messages, HandEvents
  <2> QED BY <2>1, <2>3, <2>5 DEF Message
<1>2. ASSUME NEW version \in Rooms
      PROVE  Message("room", version, NoHand, 0) \in Messages
  BY <1>0 DEF Message, Messages
<1>3. CASE SendRoomEvent
  <2>1. PICK version \in command.since..roomVersion : Broadcast(Message("room", version, NoHand, 0))
    BY <1>3 DEF SendRoomEvent
  <2>2. command.since \in Rooms
    BY <1>3 DEF SendRoomEvent, IInv, TypeOK, Idle
  <2>3. version \in Rooms /\ version <= roomVersion
    BY <1>0, <2>2 DEF Rooms
  <2> QED BY <1>2, <2>1, <2>3 DEF Message
<1>4. ASSUME NEW c \in changes, SendChange(c)
      PROVE  \E m \in Messages : m.room <= roomVersion /\ Broadcast(m)
  <2>1. PICK version \in c..roomVersion : Broadcast(Message("room", version, NoHand, 0))
    BY <1>4 DEF SendChange
  <2>2. version \in Rooms /\ version <= roomVersion
    BY <1>0 DEF Rooms
  <2> QED BY <1>2, <2>1, <2>2 DEF Message
<1>5. CASE SendSnapshot
  <2>1. /\ sub.stage = "joined" /\ sub.room \in Rooms /\ sub.hand \in Hands /\ sub.since \in Versions
        /\ sub.room <= roomVersion
    BY <1>5 DEF SendSnapshot, IInv, TypeOK, Subscriptions, Past
  <2>2. PICK version \in IF sub.hand = NoHand THEN {0} ELSE sub.since..games[sub.hand] :
            Broadcast(Message("snapshot", sub.room, sub.hand, version))
    BY <1>5 DEF SendSnapshot
  <2>3. version \in Versions
    <3>1. CASE sub.hand = NoHand
      BY <1>0, <2>2, <3>1
    <3>2. CASE sub.hand # NoHand
      <4>1. games[sub.hand] \in Versions
        BY <1>0, <2>1, <3>2 DEF Hands
      <4>2. version \in sub.since..games[sub.hand]
        BY <2>2, <3>2
      <4> QED BY <2>1, <4>1, <4>2 DEF Versions
    <3> QED BY <3>1, <3>2
  <2>4. Message("snapshot", sub.room, sub.hand, version) \in Messages
    BY <2>1, <2>3 DEF Message, Messages
  <2> QED BY <2>1, <2>2, <2>4 DEF Message
<1> QED BY <1>1, <1>3, <1>4, <1>5

\* Messages, before and after they arrive.
LEMMA FeedPast ==
    ASSUME IInv, Past, CommandsHand,
           SendHandEvent \/ SendRoomEvent \/ (\E c \in changes : SendChange(c)) \/ SendSnapshot
    PROVE  Past' /\ CommandsHand'
<1>1. PICK m \in Messages : m.room <= roomVersion /\ Broadcast(m)
  BY SentMessage
<1>2. /\ UNCHANGED <<roomVersion, hand, changed, response, shown>>
      /\ sub' = sub \/ sub'.stage = "on"
  BY DEF SendHandEvent, SendRoomEvent, SendChange, SendSnapshot, server
<1>3. \/ command' = command
      \/ command' = Idle
      \/ command.kind = "settled" /\ command' = [command EXCEPT !.kind = "archived"]
  BY DEF SendHandEvent, SendRoomEvent, SendChange, SendSnapshot, server
<1>4. \/ command' = command
      \/ command'.kind = "none"
      \/ /\ command.kind = "settled" /\ command'.kind = "archived"
         /\ command'.since = command.since
  <2>1. command \in {Idle} \cup [kind : {"started", "updated", "settled", "archived"},
                                 hand : 1..MaxHands, since : Rooms]
    BY DEF IInv, TypeOK
  <2> QED BY <1>3, <2>1 DEF Idle
<1>5. Past'
  BY <1>1, <1>2, <1>4, SendPast
<1>6. CommandsHand'
  BY <1>2, <1>4 DEF CommandsHand
<1> QED BY <1>5, <1>6

\* The subscription, what arrives and HTTP.
LEMMA ClientPast ==
    ASSUME IInv, Past, CommandsHand,
           \/ Connect \/ ReadRoom \/ JoinHub \/ Disconnect
           \/ Receive
           \/ RequestRoom \/ RequestHand \/ Respond
    PROVE  Past' /\ CommandsHand'
<1>0. /\ UNCHANGED <<roomVersion, hand, command, changed>>
  BY DEF Connect, ReadRoom, JoinHub, Disconnect, Receive, RequestRoom, RequestHand, Respond, server
<1>1. CommandsHand'
  BY <1>0 DEF CommandsHand
<1>2. sub'.stage \in {"read", "joined"} => sub'.room <= roomVersion
  <2>1. CASE ReadRoom
    BY <2>1, Numbers DEF ReadRoom, IInv
  <2>2. CASE JoinHub
    BY <2>2 DEF JoinHub, Past
  <2>3. CASE Connect \/ Disconnect
    BY <2>3 DEF Connect, Disconnect, Away
  <2>4. CASE Receive \/ RequestRoom \/ RequestHand \/ Respond
    BY <2>4 DEF Receive, RequestRoom, RequestHand, Respond, Past
  <2> QED BY <2>1, <2>2, <2>3, <2>4
<1>3. response'.kind = "room" => response'.room <= roomVersion
  <2>1. CASE RequestRoom
    BY <2>1, Numbers DEF RequestRoom, IInv
  <2>2. CASE RequestHand \/ Respond
    <3>1. CASE RequestHand
      <4>1. PICK n : n = IF hand = NoHand THEN 0 ELSE games[hand]
        OBVIOUS
      <4>2. response' = [kind |-> "hand", hand |-> hand, since |-> n]
        BY <3>1, <4>1 DEF RequestHand
      <4> QED BY <4>2
    <3>2. CASE Respond
      BY <3>2 DEF Respond, NoResponse
    <3> QED BY <2>2, <3>1, <3>2
  <2>3. CASE Connect \/ ReadRoom \/ JoinHub \/ Disconnect \/ Receive
    BY <2>3 DEF Connect, ReadRoom, JoinHub, Disconnect, Receive, Past
  <2> QED BY <2>1, <2>2, <2>3
<1>4. \A i \in 1..Len(wire') : wire'[i].room <= roomVersion
  <2>1. CASE wire' = wire
    BY <2>1 DEF Past
  <2>2. CASE wire' = <<>>
    BY <2>2, EmptySeq
  <2>3. CASE Receive
    <3>1. wire \in Seq(Messages) /\ wire # <<>> /\ wire' = Tail(wire)
      BY <2>3 DEF Receive, IInv, TypeOK
    <3>2. Len(wire) \in Nat /\ Len(wire) >= 1
      BY <3>1, LenProperties, EmptySeq
    <3>3. Len(wire') = Len(wire) - 1 /\ \A i \in 1..Len(wire') : wire'[i] = wire[i + 1]
      BY <3>1, HeadTailProperties
    <3>4. \A i \in 1..Len(wire') : i + 1 \in 1..Len(wire)
      BY <3>2, <3>3
    <3> QED BY <3>3, <3>4 DEF Past
  <2> QED BY <2>1, <2>2, <2>3
          DEF Connect, ReadRoom, JoinHub, Disconnect, RequestRoom, RequestHand, Respond
<1>5. shown'.room <= roomVersion /\ shown'.acceptedRoom <= roomVersion
  <2>0. PICK v \in Views : v = shown /\ v.room <= roomVersion /\ v.acceptedRoom <= roomVersion
    BY Numbers DEF IInv, Past
  <2>1. CASE Connect
    <3>1. PICK b : b = (connections > 0)
      OBVIOUS
    <3>2. shown' = [v EXCEPT !.acceptedRoom = v.room, !.acceptedHand = v.hand,
                             !.acceptedVersion = v.version, !.awaiting = b]
      BY <2>0, <2>1, <3>1 DEF Connect
    <3> QED BY <2>0, <3>2 DEF Views
  <2>2. CASE Receive
    <3>1. wire \in Seq(Messages) /\ wire # <<>>
      BY <2>2 DEF Receive, IInv, TypeOK
    <3>2. PICK m \in Messages : m = Head(wire) /\ m = wire[1]
      BY <3>1, HeadTailProperties
    <3>3. m.room <= roomVersion
      BY <3>1, <3>2, LenProperties, EmptySeq DEF Past
    <3>4. shown' = After(v, m)
      BY <2>0, <2>2, <3>2, ShownIsAfter DEF Receive, IInv
    <3>5. PICK u : u = After(v, m)
      OBVIOUS
    <3>6. u.room \in {v.room, m.room} /\ u.acceptedRoom \in {v.acceptedRoom, m.room}
      BY <3>5, AfterIs DEF Messages, HandEvents
    <3> QED BY <2>0, <3>3, <3>4, <3>5, <3>6
  <2>3. CASE Respond
    <3>1. CASE response.kind = "room" /\ shown' = [shown EXCEPT !.room = response.room]
      <4>1. shown' = [v EXCEPT !.room = response.room] /\ response.room <= roomVersion
        BY <2>0, <3>1 DEF Past
      <4> QED BY <2>0, <4>1 DEF Views
    <3>2. ASSUME NEW version, shown' = [shown EXCEPT !.hand = response.hand, !.version = version]
          PROVE  shown'.room <= roomVersion /\ shown'.acceptedRoom <= roomVersion
      <4>1. shown' = [v EXCEPT !.hand = response.hand, !.version = version]
        BY <2>0, <3>2
      <4> QED BY <2>0, <4>1 DEF Views
    <3> QED BY <2>3, <3>1, <3>2 DEF Respond
  <2>4. CASE shown' = shown
    BY <2>0, <2>4
  <2> QED BY <2>1, <2>2, <2>3, <2>4 DEF ReadRoom, JoinHub, Disconnect, RequestRoom, RequestHand
<1> QED BY <1>0, <1>1, <1>2, <1>3, <1>4, <1>5 DEF Past

-----------------------------------------------------------------------------
(* What the view that the messages lead to still misses.                   *)

(* No message takes the client further than the versions it has and those  *)
(* under way.                                                              *)
Bounded(w) ==
    \A b \in Nat :
        /\ shown.room <= b /\ shown.acceptedRoom <= b
        /\ \A i \in 1..Len(wire) : wire[i].room <= b
        => w.room <= b /\ w.acceptedRoom <= b

ShowsHand(w) ==
    w.hand = hand /\ w.version = IF hand = NoHand THEN 0 ELSE games[hand]

(* The hand is the server's, or the command that changed it has yet to     *)
(* broadcast it, and the client will take it.                              *)
HandPromised(w) ==
    /\ w.hand # NoHand => w.acceptedHand = w.hand /\ w.acceptedVersion <= w.version
    /\ w.acceptedHand <= hands
    /\ \/ ShowsHand(w)
       \/ command.kind = "started" /\ w.hand = NoHand /\ w.acceptedHand # hand
       \/ /\ command.kind \in {"updated", "settled"}
          /\ w.hand = command.hand /\ w.version < games[command.hand]

\* The room changes that have yet to be broadcast.
Unsent == changes \cup (IF command.kind \in {"settled", "archived"} THEN {command.since} ELSE {})

(* The last change of the room is shown or has yet to be broadcast, and    *)
(* then nothing that has been sent is as new.                              *)
RoomPromised(w) ==
    w.room < changed =>
        /\ changed \in Unsent /\ shown.room < changed
        /\ \A i \in 1..Len(wire) : wire[i].type \in {"room", "snapshot"} => wire[i].room < changed

(* Until the snapshot is sent nothing may change but the hand's version.   *)
Promised(w) ==
    /\ sub.stage \in {"read", "joined"} => sub.room = roomVersion /\ sub.hand = hand
    /\ sub.stage = "joined" /\ hand # NoHand => sub.since = games[hand]
    /\ sub.stage = "on" => HandPromised(w) /\ RoomPromised(w) /\ ~w.awaiting

Promise ==
    ~raced /\ sub.stage \in {"read", "joined", "on"} =>
        \E w \in Views : Leads(w) /\ Bounded(w) /\ Promised(w)

FeedInv == IInv /\ Past /\ CommandsHand /\ Promise

\* A step that changes nothing of it.
LEMMA SamePromise ==
    ASSUME Promise, raced => raced',
           UNCHANGED <<roomVersion, hand, games, hands, command, changes, sub, wire, shown, changed>>
    PROVE  Promise'
<1> SUFFICES ASSUME ~raced', sub.stage \in {"read", "joined", "on"}
             PROVE  \E w \in Views : (Leads(w) /\ Bounded(w) /\ Promised(w))'
  BY DEF Promise
<1>1. PICK w \in Views : Leads(w) /\ Bounded(w) /\ Promised(w)
  BY DEF Promise
<1>2. Leads(w)' /\ Bounded(w)'
  BY <1>1 DEF Leads, Bounded
<1>3. Promised(w)'
  BY <1>1 DEF Promised, HandPromised, ShowsHand, RoomPromised, Unsent
<1> QED BY <1>2, <1>3

\* A message that is sent leads on from the view, no further than its version.
LEMMA SendLeads ==
    ASSUME IInv, NEW w \in Views, Leads(w), Bounded(w), NEW m \in Messages, Broadcast(m),
           sub.stage \in {"joined", "on"}, shown' = shown, NEW u, u = After(w, m)
    PROVE  u \in Views /\ Leads(u)' /\ Bounded(u)'
<1>1. wire' = Append(wire, m) /\ wire \in Seq(Messages)
  BY DEF Broadcast, IInv, TypeOK
<1>2. u \in Views /\ Leads(u)'
  BY <1>1, AppendLeads, AfterIs DEF IInv
<1>3. /\ Len(wire') = Len(wire) + 1 /\ wire'[Len(wire) + 1] = m
      /\ \A i \in 1..Len(wire) : wire'[i] = wire[i]
      /\ Len(wire) \in Nat
  BY <1>1, AppendProperties, LenProperties
<1>4. u.room \in {w.room, m.room} /\ u.acceptedRoom \in {w.acceptedRoom, m.room}
  BY AfterIs DEF Messages, HandEvents
<1>5. ASSUME NEW b \in Nat, shown.room <= b, shown.acceptedRoom <= b,
             \A i \in 1..Len(wire') : wire'[i].room <= b
      PROVE  u.room <= b /\ u.acceptedRoom <= b
  <2>1. \A i \in 1..Len(wire) : i \in 1..Len(wire')
    BY <1>3
  <2>2. \A i \in 1..Len(wire) : wire[i].room <= b
    BY <1>3, <1>5, <2>1
  <2>3. Len(wire) + 1 \in 1..Len(wire')
    BY <1>3
  <2>4. m.room <= b
    BY <1>3, <1>5, <2>3
  <2>5. w.room <= b /\ w.acceptedRoom <= b
    BY <1>5, <2>2 DEF Bounded
  <2> QED BY <1>4, <2>4, <2>5
<1>6. Bounded(u)'
  BY <1>5 DEF Bounded
<1> QED BY <1>2, <1>6

\* What is not overtaken is new to the view.
LEMMA NotOvertaken ==
    ASSUME IInv, NEW w \in Views, Bounded(w), NEW m \in Messages, ~Overtaken(m.room)
    PROVE  Newer(w, m)
<1>1. PICK b \in Nat : b = m.room
  BY DEF Messages, Rooms
<1>2. /\ shown.room \in Nat /\ shown.acceptedRoom \in Nat
      /\ \A i \in 1..Len(wire) : wire[i].room \in Nat
      /\ DOMAIN wire = 1..Len(wire)
  BY Numbers, LenProperties DEF IInv, TypeOK
<1>3. shown.room <= b /\ shown.acceptedRoom <= b /\ \A i \in 1..Len(wire) : wire[i].room <= b
  BY <1>1, <1>2 DEF Overtaken
<1>4. w.room <= b /\ w.acceptedRoom <= b
  BY <1>3 DEF Bounded
<1>5. w.room \in Int /\ w.acceptedRoom \in Int
  BY DEF Views, Rooms
<1> QED BY <1>1, <1>4, <1>5 DEF Newer

\* A message with the latest version of the room is new to every view.
LEMMA LatestIsNewer ==
    ASSUME IInv, Past, NEW w \in Views, Bounded(w), NEW m \in Messages, m.room = roomVersion
    PROVE  Newer(w, m)
<1>1. roomVersion \in Nat /\ w.room \in Int /\ w.acceptedRoom \in Int
  BY Numbers DEF IInv, Views, Rooms
<1>2. w.room <= roomVersion /\ w.acceptedRoom <= roomVersion
  BY <1>1 DEF Past, Bounded
<1> QED BY <1>1, <1>2 DEF Newer

\* The room is read, and the hub joined.
LEMMA JoinPromise ==
    ASSUME FeedInv, ReadRoom \/ JoinHub
    PROVE  Promise'
<1>0. UNCHANGED <<roomVersion, hand, games, wire, shown>>
  BY DEF ReadRoom, JoinHub, server
<1>1. CASE ReadRoom
  <2>1. wire = <<>> /\ sub' = [stage |-> "read", room |-> roomVersion, hand |-> hand]
    BY <1>1 DEF ReadRoom, FeedInv, IInv, NothingBefore
  <2>2. Leads(shown) /\ shown \in Views
    BY <2>1, NothingLeads, Numbers DEF FeedInv, IInv
  <2>3. PICK w \in Views : w = shown
    BY <2>2
  <2>4. Leads(w)'
    BY <1>0, <2>2, <2>3 DEF Leads
  <2>5. Bounded(w)'
    BY <1>0, <2>3 DEF Bounded
  <2>6. Promised(w)'
    BY <1>0, <2>1 DEF Promised
  <2> QED BY <2>4, <2>5, <2>6 DEF Promise
<1>2. CASE JoinHub
  <2> SUFFICES ASSUME ~raced' PROVE \E w \in Views : (Leads(w) /\ Bounded(w) /\ Promised(w))'
    BY DEF Promise
  <2>1. sub.stage = "read" /\ ~raced
    BY <1>2 DEF JoinHub
  <2>2. PICK w \in Views : Leads(w) /\ Bounded(w) /\ Promised(w)
    BY <2>1 DEF FeedInv, Promise
  <2>3. sub.room = roomVersion /\ sub.hand = hand
    BY <2>1, <2>2 DEF Promised
  <2>4. sub' = [stage |-> "joined", room |-> sub.room, hand |-> sub.hand,
                since |-> IF sub.hand = NoHand THEN 0 ELSE games[sub.hand]]
    BY <1>2 DEF JoinHub
  <2>5. /\ sub'.stage = "joined" /\ sub'.room = roomVersion /\ sub'.hand = hand
        /\ hand # NoHand => sub'.since = games[hand]
    BY <2>3, <2>4
  <2>6. Leads(w)' /\ Bounded(w)'
    BY <1>0, <2>2 DEF Leads, Bounded
  <2>7. Promised(w)'
    BY <1>0, <2>5 DEF Promised
  <2> QED BY <2>6, <2>7
<1> QED BY <1>1, <1>2

\* The snapshot shows the server's room and hand.
LEMMA SnapshotPromise ==
    ASSUME FeedInv, SendSnapshot
    PROVE  Promise'
<1> SUFFICES ASSUME ~raced' PROVE \E w \in Views : (Leads(w) /\ Bounded(w) /\ Promised(w))'
  BY DEF Promise
<1>1. /\ sub.stage = "joined" /\ ~raced /\ sub' = [stage |-> "on"]
      /\ UNCHANGED <<roomVersion, hand, games, hands, command, changes, shown, changed>>
  BY DEF SendSnapshot, server
<1>2. PICK w \in Views : Leads(w) /\ Bounded(w) /\ Promised(w)
  BY <1>1 DEF FeedInv, Promise
<1>3. /\ sub.room = roomVersion /\ sub.hand = hand
      /\ hand # NoHand => sub.since = games[hand]
  BY <1>1, <1>2 DEF Promised
<1>4. /\ roomVersion \in Rooms /\ hand \in Hands /\ hands \in Nat /\ hand <= hands
      /\ hand # NoHand => games[hand] \in Versions
      /\ NoHand = 0 /\ 0 \in Versions
  BY DEF FeedInv, IInv, TypeOK, Hands, Versions, NoHand
<1>5. PICK version \in Versions :
          /\ version = IF hand = NoHand THEN 0 ELSE games[hand]
          /\ Broadcast(Message("snapshot", roomVersion, hand, version))
  <2>1. PICK version \in IF hand = NoHand THEN {0} ELSE sub.since..games[hand] :
            Broadcast(Message("snapshot", roomVersion, hand, version))
    BY <1>3 DEF SendSnapshot
  <2>2. version = IF hand = NoHand THEN 0 ELSE games[hand]
    <3>1. CASE hand = NoHand
      BY <2>1, <3>1
    <3>2. CASE hand # NoHand
      <4>1. version \in sub.since..games[hand]
        BY <2>1, <3>2
      <4> QED BY <1>3, <1>4, <3>2, <4>1 DEF Versions
    <3> QED BY <3>1, <3>2
  <2>3. version \in Versions
    BY <1>4, <2>2
  <2> QED BY <2>1, <2>2, <2>3
<1>6. PICK m \in Messages : m = Message("snapshot", roomVersion, hand, version)
  BY <1>4 DEF Message, Messages
<1>7. m.type = "snapshot" /\ m.room = roomVersion /\ m.hand = hand /\ m.version = version
  BY <1>6 DEF Message
<1>8. PICK u : u = After(w, m)
  OBVIOUS
<1>9. u \in Views /\ Leads(u)' /\ Bounded(u)'
  BY <1>1, <1>2, <1>5, <1>6, <1>8, SendLeads DEF FeedInv
<1>10. Newer(w, m)
  BY <1>2, <1>7, LatestIsNewer DEF FeedInv
<1>11. /\ u.room = roomVersion /\ u.hand = hand /\ u.version = version
       /\ u.acceptedHand = hand /\ u.acceptedVersion = version /\ ~u.awaiting
  BY <1>7, <1>8, <1>10, AfterIs
<1>12. HandPromised(u)'
  BY <1>1, <1>4, <1>5, <1>11 DEF HandPromised, ShowsHand, Versions
<1>13. RoomPromised(u)'
  BY <1>1, <1>4, <1>11 DEF RoomPromised, FeedInv, Past, Rooms
<1>14. Promised(u)'
  BY <1>1, <1>11, <1>12, <1>13 DEF Promised
<1> QED BY <1>9, <1>14

\* A message that arrives.
LEMMA ReceivePromise ==
    ASSUME FeedInv, Receive
    PROVE  Promise'
<1> SUFFICES ASSUME ~raced', sub'.stage \in {"read", "joined", "on"}
             PROVE  \E w \in Views : (Leads(w) /\ Bounded(w) /\ Promised(w))'
  BY DEF Promise
<1>1. /\ ~raced /\ sub' = sub
      /\ UNCHANGED <<roomVersion, hand, games, hands, command, changes, changed>>
  BY DEF Receive, server
<1>2. PICK w \in Views : Leads(w) /\ Bounded(w) /\ Promised(w)
  BY <1>1 DEF FeedInv, Promise
<1>3. Leads(w)'
  BY <1>2, ReceiveLeads DEF FeedInv, IInv
<1>4. wire \in Seq(Messages) /\ wire # <<>> /\ wire' = Tail(wire)
  BY DEF Receive, FeedInv, IInv, TypeOK
<1>5. Len(wire) \in Nat /\ Len(wire) >= 1
  BY <1>4, LenProperties, EmptySeq
<1>6. /\ Len(wire') = Len(wire) - 1 /\ \A i \in 1..Len(wire') : wire'[i] = wire[i + 1]
      /\ Head(wire) = wire[1] /\ Head(wire) \in Messages
  BY <1>4, HeadTailProperties
<1>7. PICK m \in Messages : m = wire[1] /\ shown' = After(shown, m)
  BY <1>6, ShownIsAfter DEF Receive, FeedInv, IInv
<1>8. PICK v \in Views : v = shown
  BY Numbers DEF FeedInv, IInv
<1>9. PICK u \in Views : u = After(v, m) /\ shown' = u
  BY <1>7, <1>8, AfterIs
<1>10. /\ v.room \in Nat /\ v.acceptedRoom \in Nat /\ m.room \in Nat
       /\ u.room \in Nat /\ u.acceptedRoom \in Nat
  BY DEF Views, Rooms, Messages
<1>11. /\ v.room <= u.room /\ v.acceptedRoom <= u.acceptedRoom
       /\ m.room <= u.room \/ m.room <= u.acceptedRoom
       /\ u.room = v.room \/ (u.room = m.room /\ m.type \in {"room", "snapshot"})
  BY <1>9, <1>10, AfterIs DEF Newer, Messages, HandEvents
<1>12. Bounded(w)'
  <2>1. ASSUME NEW b \in Nat, u.room <= b, u.acceptedRoom <= b,
               \A i \in 1..Len(wire') : wire'[i].room <= b
        PROVE  w.room <= b /\ w.acceptedRoom <= b
    <3>1. v.room <= b /\ v.acceptedRoom <= b /\ m.room <= b
      BY <1>10, <1>11, <2>1
    <3>2. ASSUME NEW i \in 1..Len(wire) PROVE wire[i].room <= b
      <4>1. CASE i = 1
        BY <1>7, <3>1, <4>1
      <4>2. CASE i # 1
        <5>1. i - 1 \in 1..Len(wire') /\ (i - 1) + 1 = i
          BY <1>5, <1>6, <4>2
        <5>2. wire'[i - 1] = wire[i]
          BY <1>6, <5>1
        <5> QED BY <2>1, <5>1, <5>2
      <4> QED BY <4>1, <4>2
    <3> QED BY <1>2, <1>8, <3>1, <3>2 DEF Bounded
  <2> QED BY <1>9, <2>1 DEF Bounded
<1>13. sub.stage = "on" => RoomPromised(w)'
  <2> SUFFICES ASSUME sub.stage = "on", w.room < changed
               PROVE  /\ changed \in Unsent' /\ u.room < changed
                      /\ \A i \in 1..Len(wire') :
                             wire'[i].type \in {"room", "snapshot"} => wire'[i].room < changed
    BY <1>1, <1>9 DEF RoomPromised
  <2>1. /\ changed \in Unsent /\ v.room < changed
        /\ \A i \in 1..Len(wire) : wire[i].type \in {"room", "snapshot"} => wire[i].room < changed
    BY <1>2, <1>8 DEF Promised, RoomPromised
  <2>2. u.room < changed
    BY <1>5, <1>7, <1>11, <2>1
  <2>3. \A i \in 1..Len(wire') : i + 1 \in 1..Len(wire)
    BY <1>5, <1>6
  <2>4. \A i \in 1..Len(wire') :
            wire'[i].type \in {"room", "snapshot"} => wire'[i].room < changed
    BY <1>6, <2>1, <2>3
  <2> QED BY <1>1, <2>1, <2>2, <2>4 DEF Unsent
<1>14. Promised(w)'
  BY <1>1, <1>2, <1>13 DEF Promised, HandPromised, ShowsHand
<1> QED BY <1>3, <1>12, <1>14

\* A commit that is no race: the client is away or subscribed, or the hand it
\* plays is not read yet.
LEMMA CommitPromise ==
    ASSUME FeedInv, NEW by \in {"socket", "http"}, Start(by) \/ Play(by) \/ Settle(by)
    PROVE  Promise'
<1> SUFFICES ASSUME ~raced', sub'.stage \in {"read", "joined", "on"}
             PROVE  \E w \in Views : (Leads(w) /\ Bounded(w) /\ Promised(w))'
  BY DEF Promise
<1>0. /\ roomVersion \in Nat /\ NoHand = 0 /\ hands \in Nat /\ hand \in {NoHand, hands} /\ hand \in Hands
      /\ games \in [1..MaxHands -> Versions] /\ changed \in Nat
  BY Numbers DEF FeedInv, IInv, TypeOK, Hands, NoHand, Past
<1>1. /\ UNCHANGED <<changes, sub, wire, shown>>
      /\ ~raced /\ ~Overlaps
  BY DEF Start, Play, Settle, Commit
<1>2. PICK w \in Views : Leads(w) /\ Bounded(w) /\ Promised(w)
  BY <1>1 DEF FeedInv, Promise
<1>3. Leads(w)' /\ Bounded(w)'
  BY <1>1, <1>2 DEF Leads, Bounded
<1>4. /\ sub.stage # "joined"
      /\ sub.stage = "read" => roomVersion' = roomVersion
  BY <1>1 DEF Overlaps
<1>5. sub.stage = "read" => roomVersion' = roomVersion /\ hand' = hand
  BY <1>0, <1>4 DEF Start, Play, Settle
<1>6. ASSUME sub.stage = "on" PROVE HandPromised(w)' /\ RoomPromised(w)' /\ ~w.awaiting
  <2>1. /\ HandPromised(w) /\ RoomPromised(w) /\ ~w.awaiting
        /\ command = Idle
    BY <1>2, <1>6 DEF Promised, Start, Play, Settle
  <2>2. /\ ShowsHand(w)
        /\ w.hand # NoHand => w.acceptedHand = w.hand /\ w.acceptedVersion <= w.version
        /\ w.acceptedHand <= hands /\ w.acceptedHand \in Nat
    BY <2>1 DEF HandPromised, Idle, Views, Hands
  <2>3. \A kind, h : Commit(kind, h, by) =>
            command' = [kind |-> kind, hand |-> h, since |-> roomVersion']
    BY <1>1 DEF Commit
  <2>4. CASE Start(by)
    <3>1. /\ hand = NoHand /\ hands' = hands + 1 /\ hand' = hands + 1
          /\ roomVersion' = roomVersion + 1 /\ changed' = changed
          /\ Commit("started", hand', by)
      BY <2>4 DEF Start
    <3>2. command' = [kind |-> "started", hand |-> hand', since |-> roomVersion']
      BY <2>3, <3>1
    <3>3. HandPromised(w)'
      BY <1>0, <2>2, <3>1, <3>2 DEF HandPromised, ShowsHand
    <3>4. RoomPromised(w)'
      BY <1>1, <2>1, <3>1, <3>2 DEF RoomPromised, Unsent, Idle
    <3> QED BY <2>1, <3>3, <3>4
  <2>5. CASE Play(by)
    <3>1. /\ hand # NoHand /\ hands' = hands /\ hand' = hand
          /\ games' = [games EXCEPT ![hand] = @ + 1]
          /\ roomVersion' = roomVersion /\ changed' = changed
          /\ Commit("updated", hand, by)
      BY <2>5 DEF Play
    <3>2. command' = [kind |-> "updated", hand |-> hand, since |-> roomVersion']
      BY <2>3, <3>1
    <3>3. games'[hand] = games[hand] + 1 /\ games[hand] \in Nat
      BY <1>0, <3>1 DEF Hands, Versions
    <3>4. HandPromised(w)'
      BY <1>0, <2>2, <3>1, <3>2, <3>3 DEF HandPromised, ShowsHand
    <3>5. RoomPromised(w)'
      BY <1>1, <2>1, <3>1, <3>2 DEF RoomPromised, Unsent, Idle
    <3> QED BY <2>1, <3>4, <3>5
  <2>6. CASE Settle(by)
    <3>1. /\ hand # NoHand /\ hands' = hands /\ hand' = NoHand
          /\ games' = [games EXCEPT ![hand] = @ + 1]
          /\ roomVersion' = roomVersion + 1 /\ changed' = roomVersion'
          /\ Commit("settled", hand, by)
      BY <2>6 DEF Settle
    <3>2. command' = [kind |-> "settled", hand |-> hand, since |-> roomVersion']
      BY <2>3, <3>1
    <3>3. games'[hand] = games[hand] + 1 /\ games[hand] \in Nat
      BY <1>0, <3>1 DEF Hands, Versions
    <3>4. HandPromised(w)'
      BY <1>0, <2>2, <3>1, <3>2, <3>3 DEF HandPromised, ShowsHand
    <3>5. changed' \in Unsent'
      BY <3>1, <3>2 DEF Unsent
    <3>6. shown.room < changed' /\ \A i \in 1..Len(wire) : wire[i].room < changed'
      BY <1>0, <3>1, Numbers DEF FeedInv, IInv, Past
    <3>7. RoomPromised(w)'
      BY <1>1, <3>5, <3>6 DEF RoomPromised
    <3> QED BY <2>1, <3>4, <3>7
  <2> QED BY <2>4, <2>5, <2>6
<1>7. Promised(w)'
  BY <1>1, <1>2, <1>4, <1>5, <1>6 DEF Promised
<1> QED BY <1>3, <1>7

\* A change of the room has yet to be broadcast.
LEMMA ChangePromise ==
    ASSUME FeedInv, Change
    PROVE  Promise'
<1> SUFFICES ASSUME ~raced', sub'.stage \in {"read", "joined", "on"}
             PROVE  \E w \in Views : (Leads(w) /\ Bounded(w) /\ Promised(w))'
  BY DEF Promise
<1>1. /\ UNCHANGED <<hand, games, hands, command, sub, wire, shown>>
      /\ ~raced /\ ~Overlaps
      /\ roomVersion' = roomVersion + 1 /\ changed' = roomVersion' /\ changes' = changes \cup {roomVersion'}
  BY DEF Change
<1>2. PICK w \in Views : Leads(w) /\ Bounded(w) /\ Promised(w)
  BY <1>1 DEF FeedInv, Promise
<1>3. Leads(w)' /\ Bounded(w)'
  BY <1>1, <1>2 DEF Leads, Bounded
<1>4. roomVersion \in Nat
  BY Numbers DEF FeedInv, IInv
<1>5. sub.stage \notin {"read", "joined"}
  BY <1>1, <1>4 DEF Overlaps
<1>6. HandPromised(w) => HandPromised(w)'
  BY <1>1 DEF HandPromised, ShowsHand
<1>7. RoomPromised(w)'
  <2>1. shown.room < changed' /\ \A i \in 1..Len(wire) : wire[i].room < changed'
    BY <1>1, <1>4, Numbers DEF FeedInv, IInv, Past
  <2>2. changed' \in Unsent'
    BY <1>1 DEF Unsent
  <2> QED BY <1>1, <2>1, <2>2 DEF RoomPromised
<1>8. Promised(w)'
  BY <1>1, <1>2, <1>5, <1>6, <1>7 DEF Promised
<1> QED BY <1>3, <1>8

\* A view that a message leaves behind its room version still misses nothing
\* that has been sent.
LEMMA RoomSent ==
    ASSUME IInv, Past, NEW w \in Views, Bounded(w), RoomPromised(w), NEW m \in Messages, NEW u,
           u = After(w, m), m.type # "snapshot", wire' = Append(wire, m),
           UNCHANGED <<shown, changed>>,
           w.room < changed => changed \in Unsent' \/ (m.room >= changed /\ m.type = "room"),
           m.type = "room" /\ m.room >= changed => u.room >= changed
    PROVE  RoomPromised(u)'
<1>1. /\ wire \in Seq(Messages) /\ Len(wire) \in Nat
      /\ Len(wire') = Len(wire) + 1 /\ wire'[Len(wire) + 1] = m
      /\ \A i \in 1..Len(wire) : wire'[i] = wire[i]
  BY AppendProperties, LenProperties DEF IInv, TypeOK
<1>2. w.room \in Nat /\ m.room \in Nat /\ u.room \in Nat /\ changed \in Nat
  BY AfterIs DEF Views, Rooms, Messages, Past
<1>3. u.room >= w.room
  BY <1>2, AfterIs DEF Newer, Messages, HandEvents
<1> SUFFICES ASSUME u.room < changed
             PROVE  /\ changed \in Unsent' /\ shown.room < changed
                    /\ \A i \in 1..Len(wire') :
                           wire'[i].type \in {"room", "snapshot"} => wire'[i].room < changed
  BY DEF RoomPromised
<1>4. w.room < changed
  BY <1>2, <1>3
<1>5. m.type = "room" => m.room < changed
  BY <1>2
<1>6. /\ shown.room < changed
      /\ \A i \in 1..Len(wire) : wire[i].type \in {"room", "snapshot"} => wire[i].room < changed
  BY <1>4 DEF RoomPromised
<1>7. changed \in Unsent'
  BY <1>2, <1>4, <1>5
<1>8. ASSUME NEW i \in 1..Len(wire'), wire'[i].type \in {"room", "snapshot"}
      PROVE  wire'[i].room < changed
  <2>1. CASE i \in 1..Len(wire)
    BY <1>1, <1>6, <1>8, <2>1
  <2>2. CASE i = Len(wire) + 1
    BY <1>1, <1>5, <1>8, <2>2
  <2> QED BY <1>1, <2>1, <2>2
<1> QED BY <1>6, <1>7, <1>8

\* An event of a hand brings the view to the server's hand.
LEMMA HandEventPromise ==
    ASSUME FeedInv, SendHandEvent
    PROVE  Promise'
<1> SUFFICES ASSUME ~raced', sub.stage \in {"read", "joined", "on"}
             PROVE  \E u \in Views : (Leads(u) /\ Bounded(u) /\ Promised(u))'
  BY DEF Promise, SendHandEvent
<1>1. /\ UNCHANGED <<roomVersion, hand, games, hands, changes, sub, shown, changed>>
      /\ ~raced
      /\ command.kind \in HandEvents
      /\ command' = IF command.kind = "settled" THEN [command EXCEPT !.kind = "archived"] ELSE Idle
  BY DEF SendHandEvent, HandEvents
<1>2. PICK w \in Views : Leads(w) /\ Bounded(w) /\ Promised(w)
  BY <1>1 DEF FeedInv, Promise
<1>3. /\ command.hand \in 1..MaxHands /\ command.hand \in Hands /\ command.hand = hands
      /\ command.since \in Rooms /\ roomVersion \in Rooms
      /\ games[command.hand] \in Versions /\ NoHand = 0 /\ command.hand # NoHand
  BY <1>1 DEF FeedInv, IInv, TypeOK, Hands, NoHand, Idle, HandEvents, LatestHand
<1>4. PICK version \in Rooms :
          /\ Broadcast(Message(command.kind, version, command.hand, games[command.hand]))
          /\ sub.stage \in {"joined", "on"} => ~Overtaken(version)
  <2>1. PICK version \in command.since..roomVersion :
            /\ Broadcast(Message(command.kind, version, command.hand, games[command.hand]))
            /\ raced' = (raced \/ (sub.stage \in {"joined", "on"} /\ Overtaken(version)))
    BY DEF SendHandEvent
  <2>2. version \in Rooms
    BY <1>3 DEF Rooms
  <2> QED BY <2>1, <2>2
<1>5. PICK m \in Messages : m = Message(command.kind, version, command.hand, games[command.hand])
  BY <1>1, <1>3 DEF Message, Messages, HandEvents
<1>6. m.type = command.kind /\ m.room = version /\ m.hand = command.hand /\ m.version = games[command.hand]
  BY <1>5 DEF Message
<1>7. CASE sub.stage = "read"
  <2>1. wire' = wire
    BY <1>4, <1>7 DEF Broadcast
  <2>2. Leads(w)' /\ Bounded(w)'
    BY <1>1, <1>2, <2>1 DEF Leads, Bounded
  <2>3. Promised(w)'
    BY <1>1, <1>2, <1>7 DEF Promised
  <2> QED BY <2>2, <2>3
<1>8. CASE sub.stage \in {"joined", "on"}
  <2>1. PICK u : u = After(w, m)
    OBVIOUS
  <2>2. u \in Views /\ Leads(u)' /\ Bounded(u)'
    BY <1>1, <1>2, <1>4, <1>5, <1>8, <2>1, SendLeads DEF FeedInv
  <2>3. Newer(w, m)
    BY <1>2, <1>4, <1>6, <1>8, NotOvertaken DEF FeedInv
  <2>4. ASSUME sub.stage = "on" PROVE HandPromised(u)' /\ RoomPromised(u)' /\ ~u.awaiting
    <3>1. HandPromised(w) /\ RoomPromised(w) /\ ~w.awaiting
      BY <1>2, <2>4 DEF Promised
    <3>2. ~u.awaiting /\ u.room = w.room
      BY <1>1, <1>6, <2>1, <3>1, AfterIs
    <3>3. /\ w.hand \in Nat /\ w.version \in Nat /\ w.acceptedHand \in Nat /\ w.acceptedVersion \in Nat
          /\ m.version \in Nat
      BY DEF Views, Hands, Versions, Messages
    <3>4. CommandsHand
      BY DEF FeedInv
    <3>5. ShowsHand(u) /\ (u.hand # NoHand => u.acceptedHand = u.hand /\ u.acceptedVersion <= u.version)
          /\ u.acceptedHand <= hands
      <4>1. CASE Takes(w, m) /\ m.type # "settled"
        <5>1. u.acceptedHand = m.hand /\ u.acceptedVersion = m.version /\ u.hand = m.hand /\ u.version = m.version
          BY <1>1, <1>6, <2>1, <2>3, <4>1, AfterIs
        <5>2. hand = command.hand
          BY <1>1, <1>6, <3>4, <4>1 DEF CommandsHand, HandEvents
        <5> QED BY <1>3, <1>6, <3>3, <5>1, <5>2 DEF ShowsHand
      <4>2. CASE Takes(w, m) /\ m.type = "settled"
        <5>1. u.acceptedHand = m.hand /\ u.hand = NoHand /\ u.version = 0
          BY <1>1, <1>6, <2>1, <2>3, <4>2, AfterIs
        <5>2. hand = NoHand
          BY <1>6, <3>4, <4>2 DEF CommandsHand
        <5> QED BY <1>3, <1>6, <5>1, <5>2 DEF ShowsHand
      <4>3. CASE ~Takes(w, m)
        <5>1. /\ u.hand = w.hand /\ u.version = w.version
              /\ u.acceptedHand = w.acceptedHand /\ u.acceptedVersion = w.acceptedVersion
          BY <1>1, <1>6, <2>1, <4>3, AfterIs
        <5>2. ShowsHand(w)
          <6>1. ASSUME command.kind = "started", w.hand = NoHand, w.acceptedHand # hand PROVE FALSE
            <7>1. hand = command.hand
              BY <3>4, <6>1 DEF CommandsHand
            <7>2. HandOf(w) # m.hand
              BY <1>6, <6>1, <7>1 DEF HandOf
            <7> QED BY <1>6, <4>3, <6>1, <7>2 DEF Takes
          <6>2. ASSUME command.kind \in {"updated", "settled"},
                       w.hand = command.hand, w.version < games[command.hand]
                PROVE  FALSE
            <7>1. HandOf(w) = m.hand
              BY <1>3, <1>6, <6>2 DEF HandOf
            <7>2. w.acceptedVersion <= w.version
              BY <1>3, <3>1, <6>2 DEF HandPromised
            <7>3. ~(m.version <= w.acceptedVersion) /\ ~(m.version <= w.version)
              BY <1>6, <3>3, <6>2, <7>2
            <7> QED BY <4>3, <7>1, <7>3 DEF Takes
          <6> QED BY <3>1, <6>1, <6>2 DEF HandPromised
        <5> QED BY <3>1, <5>1, <5>2 DEF HandPromised, ShowsHand
      <4> QED BY <4>1, <4>2, <4>3
    <3>6. HandPromised(u)'
      BY <1>1, <3>5 DEF HandPromised, ShowsHand
    <3>7. Unsent' = Unsent
      <4>1. CASE command.kind = "settled"
        <5>1. command \in [kind : {"started", "updated", "settled", "archived"},
                           hand : 1..MaxHands, since : Rooms]
          BY <4>1 DEF FeedInv, IInv, TypeOK, Idle
        <5>2. command'.kind = "archived" /\ command'.since = command.since
          BY <1>1, <4>1, <5>1
        <5> QED BY <1>1, <4>1, <5>2 DEF Unsent
      <4>2. CASE command.kind # "settled"
        BY <1>1, <4>2 DEF Unsent, Idle, HandEvents
      <4> QED BY <4>1, <4>2
    <3>8. wire' = Append(wire, m)
      BY <1>4, <1>5, <1>8 DEF Broadcast
    <3>9. m.type \notin {"snapshot", "room"}
      BY <1>1, <1>6 DEF HandEvents
    <3>10. w.room < changed => changed \in Unsent'
      BY <3>1, <3>7 DEF RoomPromised
    <3>11. RoomPromised(u)'
      BY <1>1, <1>2, <2>1, <3>1, <3>8, <3>9, <3>10, RoomSent DEF FeedInv
    <3> QED BY <3>2, <3>6, <3>11
  <2>5. Promised(u)'
    BY <1>1, <1>2, <2>4 DEF Promised
  <2> QED BY <2>2, <2>5
<1> QED BY <1>7, <1>8

\* A broadcast of the room.
LEMMA RoomEventPromise ==
    ASSUME FeedInv, SendRoomEvent \/ \E c \in changes : SendChange(c)
    PROVE  Promise'
<1> SUFFICES ASSUME ~raced', sub.stage \in {"read", "joined", "on"}
             PROVE  \E u \in Views : (Leads(u) /\ Bounded(u) /\ Promised(u))'
  BY DEF Promise, SendRoomEvent, SendChange
<1>0. roomVersion \in Rooms /\ changes \subseteq Rooms /\ roomVersion \in Nat
  BY Numbers DEF FeedInv, IInv, TypeOK
<1>1. /\ UNCHANGED <<roomVersion, hand, games, hands, sub, shown, changed>>
      /\ ~raced
  <2>1. UNCHANGED <<roomVersion, hand, games, hands, sub, shown, changed>>
    BY DEF SendRoomEvent, SendChange
  <2>2. ASSUME SendRoomEvent PROVE ~raced
    BY <2>2 DEF SendRoomEvent
  <2>3. ASSUME NEW c \in changes, SendChange(c) PROVE ~raced
    BY <2>3, Zenon DEF SendChange
  <2> QED BY <2>1, <2>2, <2>3
<1>2. PICK w \in Views : Leads(w) /\ Bounded(w) /\ Promised(w)
  BY <1>1 DEF FeedInv, Promise
<1>3. PICK c \in Rooms, version \in Rooms :
          /\ Broadcast(Message("room", version, NoHand, 0))
          /\ c <= version /\ version <= roomVersion
          /\ Unsent \ {c} \subseteq Unsent'
          /\ \/ command.kind = "archived" /\ command' = Idle
             \/ /\ command' = command
                /\ sub.stage \in {"joined", "on"} => ~Overtaken(version) \/ Contained(version)
  <2>1. CASE SendRoomEvent
    <3>1. command.kind = "archived" /\ command' = Idle /\ changes' = changes /\ command.since \in Rooms
      BY <2>1 DEF SendRoomEvent, FeedInv, IInv, TypeOK, Idle
    <3>2. PICK version \in command.since..roomVersion : Broadcast(Message("room", version, NoHand, 0))
      BY <2>1 DEF SendRoomEvent
    <3>3. version \in Rooms /\ command.since <= version /\ version <= roomVersion
      BY <1>0, <3>1 DEF Rooms
    <3>4. Unsent \ {command.since} \subseteq Unsent'
      BY <3>1 DEF Unsent, Idle
    <3> QED BY <3>1, <3>2, <3>3, <3>4
  <2>2. ASSUME NEW c \in changes, SendChange(c)
        PROVE  \E version \in Rooms :
                   /\ Broadcast(Message("room", version, NoHand, 0))
                   /\ c <= version /\ version <= roomVersion
                   /\ Unsent \ {c} \subseteq Unsent'
                   /\ command' = command
                   /\ sub.stage \in {"joined", "on"} => ~Overtaken(version) \/ Contained(version)
    <3>1. PICK version \in c..roomVersion :
              /\ Broadcast(Message("room", version, NoHand, 0))
              /\ raced' = (raced \/ (/\ sub.stage \in {"joined", "on"}
                                    /\ Overtaken(version) /\ ~Contained(version)))
      BY <2>2 DEF SendChange
    <3>2. version \in Rooms /\ c <= version /\ version <= roomVersion
      BY <1>0 DEF Rooms
    <3>3. command' = command /\ changes' = changes \ {c}
      BY <2>2 DEF SendChange
    <3>4. Unsent \ {c} \subseteq Unsent'
      BY <3>3 DEF Unsent
    <3> QED BY <3>1, <3>2, <3>3, <3>4
  <2> QED BY <1>0, <2>1, <2>2
<1>4. PICK m \in Messages : m = Message("room", version, NoHand, 0)
  <2>1. NoHand \in Hands /\ 0 \in Versions
    BY BoundsAssumption DEF NoHand, Hands, Versions, BoundsAssumption
  <2>2. Message("room", version, NoHand, 0) \in Messages
    BY <2>1 DEF Message, Messages
  <2> QED BY <2>2
<1>5. m.type = "room" /\ m.room = version
  BY <1>4 DEF Message
<1>6. CASE sub.stage = "read"
  <2>1. wire' = wire
    BY <1>3, <1>6 DEF Broadcast
  <2>2. Leads(w)' /\ Bounded(w)'
    BY <1>1, <1>2, <2>1 DEF Leads, Bounded
  <2>3. Promised(w)'
    BY <1>1, <1>2, <1>6 DEF Promised
  <2> QED BY <2>2, <2>3
<1>7. CASE sub.stage \in {"joined", "on"}
  <2>1. PICK u : u = After(w, m)
    OBVIOUS
  <2>2. u \in Views /\ Leads(u)' /\ Bounded(u)'
    BY <1>1, <1>2, <1>3, <1>4, <1>7, <2>1, SendLeads DEF FeedInv
  <2>3. /\ u.hand = w.hand /\ u.version = w.version /\ u.awaiting = w.awaiting
        /\ u.acceptedHand = w.acceptedHand /\ u.acceptedVersion = w.acceptedVersion
        /\ Newer(w, m) => u.room = version
    BY <1>5, <2>1, AfterIs
  <2>4. ASSUME sub.stage = "on" PROVE HandPromised(u)' /\ RoomPromised(u)' /\ ~u.awaiting
    <3>1. HandPromised(w) /\ RoomPromised(w) /\ ~w.awaiting
      BY <1>2, <2>4 DEF Promised
    <3>2. HandPromised(u)'
      <4>1. CASE command' = command
        BY <1>1, <2>3, <3>1, <4>1 DEF HandPromised, ShowsHand
      <4>2. CASE command.kind = "archived"
        BY <1>1, <2>3, <3>1, <4>2 DEF HandPromised, ShowsHand
      <4> QED BY <1>3, <4>1, <4>2
    <3>3. /\ w.room \in Nat /\ changed \in Nat /\ version \in Nat /\ c \in Nat /\ changed <= roomVersion
      BY DEF Views, Rooms, FeedInv, Past
    <3>4. ASSUME version >= changed PROVE u.room >= changed
      <4>1. CASE Newer(w, m)
        BY <2>3, <3>3, <3>4, <4>1
      <4>2. CASE w.room >= changed
        <5>1. u.room >= w.room
          BY <1>5, <2>1, <2>2, AfterIs DEF Newer, Views, Rooms, Messages, HandEvents
        <5>2. u.room \in Nat
          BY <2>2 DEF Views, Rooms
        <5> QED BY <3>3, <4>2, <5>1, <5>2
      <4>3. CASE command.kind = "archived"
        <5>1. m.room = roomVersion
          BY <1>0, <1>5, <1>3, <3>3, <3>4, <4>3 DEF FeedInv, CommandsHand
        <5> QED BY <1>2, <4>1, <5>1, LatestIsNewer DEF FeedInv
      <4>4. CASE ~Overtaken(version)
        BY <1>2, <1>5, <4>1, <4>4, NotOvertaken DEF FeedInv
      <4>5. ASSUME Contained(version), w.room < changed PROVE FALSE
        <5>1. /\ shown.room < changed
              /\ \A i \in 1..Len(wire) : wire[i].type \in {"room", "snapshot"} => wire[i].room < changed
          BY <3>1, <4>5 DEF RoomPromised
        <5>2. /\ shown.room \in Nat
              /\ \A i \in 1..Len(wire) : wire[i].room \in Nat
              /\ DOMAIN wire = 1..Len(wire)
          BY Numbers, LenProperties DEF FeedInv, IInv, TypeOK
        <5>3. ASSUME NEW i \in 1..Len(wire), wire[i].type \in {"room", "snapshot"}, version <= wire[i].room
              PROVE  FALSE
          BY <3>3, <3>4, <5>1, <5>2, <5>3
        <5>4. CASE version <= shown.room
          BY <3>3, <3>4, <5>1, <5>2, <5>4
        <5> QED BY <4>5, <5>2, <5>3, <5>4 DEF Contained
      <4> QED BY <1>3, <1>7, <3>3, <4>2, <4>3, <4>4, <4>5
    <3>5. wire' = Append(wire, m) /\ m.type # "snapshot"
      BY <1>3, <1>4, <1>5, <1>7 DEF Broadcast
    <3>6. w.room < changed => changed \in Unsent' \/ (m.room >= changed /\ m.type = "room")
      BY <1>3, <1>5, <3>1, <3>3 DEF RoomPromised
    <3>7. m.type = "room" /\ m.room >= changed => u.room >= changed
      BY <1>5, <3>4
    <3>8. RoomPromised(u)'
      BY <1>1, <1>2, <2>1, <3>1, <3>5, <3>6, <3>7, RoomSent DEF FeedInv
    <3> QED BY <2>3, <3>1, <3>2, <3>8
  <2>5. Promised(u)'
    BY <1>1, <1>2, <2>4 DEF Promised
  <2> QED BY <2>2, <2>5
<1> QED BY <1>6, <1>7

\* HTTP changes nothing, or it is a race.
LEMMA HttpPromise ==
    ASSUME FeedInv, RequestRoom \/ RequestHand \/ Respond
    PROVE  Promise'
<1>1. /\ UNCHANGED <<roomVersion, hand, games, hands, command, changes, sub, wire, changed>>
      /\ raced => raced'
      /\ shown' = shown \/ raced'
  <2>1. CASE RequestRoom \/ RequestHand
    <3>1. UNCHANGED <<server, sub, wire, shown, raced, changed>>
      BY <2>1 DEF RequestRoom, RequestHand
    <3> QED BY <3>1 DEF server
  <2>2. CASE Respond
    <3>1. UNCHANGED <<server, sub, wire, changed>>
      BY <2>2 DEF Respond
    <3>2. raced => raced'
      BY <2>2, Zenon DEF Respond
    <3>3. shown' # shown => raced'
      BY <2>2, Zenon DEF Respond
    <3> QED BY <3>1, <3>2, <3>3 DEF server
  <2> QED BY <2>1, <2>2
<1>2. CASE shown' = shown
  BY <1>1, <1>2, SamePromise DEF FeedInv
<1>3. CASE raced'
  BY <1>3 DEF Promise
<1> QED BY <1>1, <1>2, <1>3

\* The beginning.
LEMMA FeedInit == Init => FeedInv
<1> SUFFICES ASSUME Init PROVE FeedInv
  OBVIOUS
<1>1. IInv
  BY InitInvariant
<1>2. roomVersion = 1 /\ changed = 1 /\ shown.room = 1 /\ shown.acceptedRoom = 0 /\ hand = NoHand
      /\ Len(wire) = 0 /\ response.kind = "none" /\ command.kind = "none" /\ sub.stage = "away"
  BY EmptySeq DEF Init, NoResponse, Idle, Away
<1>3. Past /\ CommandsHand
  BY <1>2 DEF Past, CommandsHand
<1>4. Promise
  BY <1>2 DEF Promise
<1> QED BY <1>1, <1>3, <1>4 DEF FeedInv

\* Every step.
LEMMA FeedNext == FeedInv /\ [Next]_vars => FeedInv'
<1> SUFFICES ASSUME FeedInv, [Next]_vars PROVE FeedInv'
  OBVIOUS
<1>1. IInv'
  BY NextInvariant DEF FeedInv
<1>2. ASSUME NEW by \in {"socket", "http"}, Start(by) \/ Play(by) \/ Settle(by) PROVE FeedInv'
  BY <1>1, <1>2, CommitsPast, CommitPromise DEF FeedInv
<1>3. CASE Change
  BY <1>1, <1>3, CommitsPast, ChangePromise DEF FeedInv
<1>4. CASE SendHandEvent
  BY <1>1, <1>4, FeedPast, HandEventPromise DEF FeedInv
<1>5. CASE SendRoomEvent \/ \E c \in changes : SendChange(c)
  BY <1>1, <1>5, FeedPast, RoomEventPromise DEF FeedInv
<1>6. CASE SendSnapshot
  BY <1>1, <1>6, FeedPast, SnapshotPromise DEF FeedInv
<1>7. CASE ReadRoom \/ JoinHub
  BY <1>1, <1>7, ClientPast, JoinPromise DEF FeedInv
<1>8. CASE Connect \/ Disconnect
  <2>1. sub'.stage \notin {"read", "joined", "on"}
    BY <1>8 DEF Connect, Disconnect, Away
  <2>2. Promise'
    BY <2>1 DEF Promise
  <2> QED BY <1>1, <1>8, <2>2, ClientPast DEF FeedInv
<1>9. CASE Receive
  BY <1>1, <1>9, ClientPast, ReceivePromise DEF FeedInv
<1>10. CASE RequestRoom \/ RequestHand \/ Respond
  BY <1>1, <1>10, ClientPast, HttpPromise DEF FeedInv
<1>11. CASE UNCHANGED vars
  <2>1. UNCHANGED <<roomVersion, hand, games, hands, command, changes, sub, wire, response, shown, raced, changed>>
    BY <1>11 DEF vars, server
  <2>2. Past' /\ CommandsHand'
    BY <2>1 DEF FeedInv, Past, CommandsHand
  <2>3. Promise'
    BY <2>1, SamePromise DEF FeedInv
  <2> QED BY <1>1, <2>2, <2>3 DEF FeedInv
<1> QED BY <1>2, <1>3, <1>4, <1>5, <1>6, <1>7, <1>8, <1>9, <1>10, <1>11 DEF Next

\* A client that has received everything shows the server's hand, and the room as
\* of its last change or later, after any reconnects, unless one of the named races came in between, for any number
\* of hands, plays, room changes and connections (handleSubscribe, the
\* broadcasts and the client's version rules together).
THEOREM ClientCatchesUp == Spec => []CaughtUp
<1>1. FeedInv => CaughtUp
  <2> SUFFICES ASSUME FeedInv, Quiet, ~raced PROVE ShowsTheServer
    BY DEF CaughtUp
  <2>1. sub.stage = "on" /\ wire = <<>> /\ command = Idle /\ changes = {}
    BY DEF Quiet
  <2>2. PICK w \in Views : Leads(w) /\ Promised(w)
    BY <2>1 DEF FeedInv, Promise
  <2>3. w = shown
    BY <2>1, <2>2, NothingLeads DEF FeedInv, IInv
  <2>4. HandPromised(w) /\ RoomPromised(w) /\ ~w.awaiting
    BY <2>1, <2>2 DEF Promised
  <2>5. ShowsHand(w)
    BY <2>1, <2>4 DEF HandPromised, Idle
  <2>6. Unsent = {}
    BY <2>1 DEF Unsent, Idle
  <2>7. ~(w.room < changed) /\ w.room \in Int /\ changed \in Int
    BY <2>4, <2>6 DEF RoomPromised, Views, Rooms, FeedInv, Past
  <2> QED BY <2>3, <2>4, <2>5, <2>7 DEF ShowsTheServer, ShowsHand
<1> QED BY <1>1, FeedInit, FeedNext, PTL DEF Spec
-----------------------------------------------------------------------------
(* The last version of the room.                                           *)

(* It is with the client, under way, about to be sent, or what the         *)
(* snapshot under way has read.                                            *)
Reaches ==
    \/ shown.acceptedRoom = roomVersion
    \/ \E i \in 1..Len(wire) : wire[i].room = roomVersion
    \/ command.kind \in HandEvents /\ command.since = roomVersion
    \/ roomVersion \in changes
    \/ sub.stage \in {"read", "joined"} /\ sub.room = roomVersion

Heard == ~unheard /\ sub.stage \in {"read", "joined", "on"} => Reaches

HeardInv == FeedInv /\ Heard

\* Of what a broadcast takes out of the server's hands it carries the last version.
LEMMA BroadcastReaches ==
    ASSUME IInv, Past, Reaches, NEW m \in Messages, Broadcast(m), ~unheard',
           sub.stage \in {"read", "joined", "on"}, UNCHANGED <<roomVersion, shown>>,
           sub' = sub \/ (sub.stage = "joined" /\ m.room = sub.room),
           roomVersion \in changes => roomVersion \in changes' \/ m.room = roomVersion,
           command.kind \in HandEvents /\ command.since = roomVersion =>
               command' = command \/ m.room = roomVersion
    PROVE  Reaches'
<1>0. /\ roomVersion \in Nat /\ m.room \in Nat /\ wire \in Seq(Messages) /\ Len(wire) \in Nat
      /\ sub.stage \in {"read", "joined"} => sub.room \in Nat
  BY Numbers DEF IInv, TypeOK, Messages, Rooms
<1>1. \A i \in 1..Len(wire) : i \in 1..Len(wire') /\ wire'[i] = wire[i]
  <2>1. wire' = wire \/ wire' = Append(wire, m)
    BY DEF Broadcast
  <2>2. CASE wire' = wire
    BY <2>2
  <2>3. CASE wire' = Append(wire, m)
    <3>1. Len(wire') = Len(wire) + 1 /\ \A i \in 1..Len(wire) : wire'[i] = wire[i]
      BY <1>0, <2>3, AppendProperties
    <3> QED BY <1>0, <3>1
  <2> QED BY <2>1, <2>2, <2>3
<1>2. CASE sub.stage \in {"joined", "on"} /\ m.room = roomVersion
  <2>1. wire' = Append(wire, m)
    BY <1>2 DEF Broadcast
  <2>2. Len(wire') = Len(wire) + 1 /\ wire'[Len(wire) + 1] = m
    BY <1>0, <2>1, AppendProperties
  <2>3. Len(wire) + 1 \in 1..Len(wire')
    BY <1>0, <2>2
  <2> QED BY <1>2, <2>2, <2>3 DEF Reaches
<1>3. CASE sub.stage = "read" /\ m.room = roomVersion
  <2>1. ~(m.room > sub.room)
    BY <1>3 DEF Broadcast
  <2>2. sub.room <= roomVersion
    BY <1>3 DEF Past
  <2>3. sub.room = roomVersion /\ sub' = sub
    BY <1>0, <1>3, <2>1, <2>2
  <2> QED BY <1>3, <2>3 DEF Reaches
<1>4. CASE m.room # roomVersion
  <2>1. CASE shown.acceptedRoom = roomVersion
    BY <2>1 DEF Reaches
  <2>2. CASE \E i \in 1..Len(wire) : wire[i].room = roomVersion
    BY <1>1, <2>2 DEF Reaches
  <2>3. CASE command.kind \in HandEvents /\ command.since = roomVersion
    BY <1>4, <2>3 DEF Reaches
  <2>4. CASE roomVersion \in changes
    BY <1>4, <2>4 DEF Reaches
  <2>5. CASE sub.stage \in {"read", "joined"} /\ sub.room = roomVersion
    BY <1>4, <2>5 DEF Reaches
  <2> QED BY <2>1, <2>2, <2>3, <2>4, <2>5 DEF Reaches
<1> QED BY <1>2, <1>3, <1>4

\* What the server sends.
LEMMA SendHeard ==
    ASSUME HeardInv,
           SendHandEvent \/ SendRoomEvent \/ (\E c \in changes : SendChange(c)) \/ SendSnapshot
    PROVE  Heard'
<1> SUFFICES ASSUME ~unheard', sub'.stage \in {"read", "joined", "on"} PROVE Reaches'
  BY DEF Heard
<1>0. /\ roomVersion \in Nat /\ IInv /\ Past
      /\ command.kind # "none" => command.since \in Nat /\ command.since <= roomVersion
      /\ changes \subseteq Nat
  BY Numbers DEF HeardInv, FeedInv, IInv, Past, TypeOK, Rooms
<1>1. ASSUME NEW m, Broadcast(m), sub.stage \in {"read", "joined", "on"} PROVE Reaches
  <2>1. ~unheard
    BY <1>1 DEF Broadcast
  <2> QED BY <1>1, <2>1 DEF HeardInv, Heard
<1>2. CASE SendHandEvent
  <2>1. PICK version \in command.since..roomVersion :
            Broadcast(Message(command.kind, version, command.hand, games[command.hand]))
    BY <1>2 DEF SendHandEvent
  <2>2. PICK m : m = Message(command.kind, version, command.hand, games[command.hand])
    OBVIOUS
  <2>3. command.kind \in HandEvents /\ UNCHANGED <<roomVersion, changes, sub, shown>>
    BY <1>2 DEF SendHandEvent, HandEvents
  <2>4. m \in Messages
    <3>1. command.hand \in 1..MaxHands /\ command.since \in Rooms
      BY <2>3 DEF HandEvents, HeardInv, FeedInv, IInv, TypeOK, Idle
    <3>2. version \in Rooms /\ games[command.hand] \in Versions /\ command.hand \in Hands
      BY <1>0, <3>1 DEF Rooms, Hands, HeardInv, FeedInv, IInv, TypeOK
    <3> QED BY <2>2, <2>3, <3>2 DEF Message, Messages, HandEvents
  <2>5. m.room = version /\ (command.since = roomVersion => m.room = roomVersion)
    BY <1>0, <2>2 DEF Message
  <2>6. Reaches
    BY <1>1, <2>1, <2>3
  <2>7. Broadcast(m)
    BY <2>1, <2>2
  <2> QED BY <1>0, <2>3, <2>4, <2>5, <2>6, <2>7, BroadcastReaches
<1>3. ASSUME NEW version \in Nat, version >= 1, version <= roomVersion,
             Broadcast(Message("room", version, NoHand, 0)), UNCHANGED <<roomVersion, sub, shown>>,
             roomVersion \in changes => roomVersion \in changes' \/ version = roomVersion,
             command' = command \/ command.kind = "archived"
      PROVE  Reaches'
  <2>1. PICK m : m = Message("room", version, NoHand, 0)
    OBVIOUS
  <2>2. version \in Rooms
    BY <1>3 DEF Rooms, HeardInv, FeedInv, IInv, TypeOK
  <2>3. m \in Messages /\ m.room = version
    BY <2>1, <2>2 DEF Message, Messages, Hands, Versions, NoHand
  <2>4. Broadcast(m) /\ Reaches
    BY <1>1, <1>3, <2>1
  <2>5. command.kind = "archived" => command.kind \notin HandEvents
    BY DEF HandEvents
  <2> QED BY <1>0, <1>3, <2>3, <2>4, <2>5, BroadcastReaches
<1>4. CASE SendRoomEvent
  <2>1. PICK version \in command.since..roomVersion : Broadcast(Message("room", version, NoHand, 0))
    BY <1>4 DEF SendRoomEvent
  <2>2. command.kind = "archived" /\ UNCHANGED <<roomVersion, changes, sub, shown>>
    BY <1>4 DEF SendRoomEvent
  <2>3. command.since >= 1
    BY <2>2 DEF HeardInv, FeedInv, IInv, TypeOK, Idle, Rooms
  <2>4. version \in Nat /\ version >= 1 /\ version <= roomVersion
    BY <1>0, <2>1, <2>2, <2>3
  <2> QED BY <1>3, <2>1, <2>2, <2>4
<1>5. ASSUME NEW c \in changes, SendChange(c) PROVE Reaches'
  <2>1. PICK version \in c..roomVersion : Broadcast(Message("room", version, NoHand, 0))
    BY <1>5 DEF SendChange
  <2>2. UNCHANGED <<roomVersion, command, sub, shown>> /\ changes' = changes \ {c}
    BY <1>5 DEF SendChange
  <2>3. c \in Rooms
    BY DEF HeardInv, FeedInv, IInv, TypeOK
  <2>4. version \in Nat /\ version >= 1 /\ version <= roomVersion /\ (c = roomVersion => version = roomVersion)
    BY <1>0, <2>1, <2>3 DEF Rooms
  <2>5. roomVersion \in changes => roomVersion \in changes' \/ version = roomVersion
    BY <2>2, <2>4
  <2> QED BY <1>3, <2>1, <2>2, <2>4, <2>5
<1>6. CASE SendSnapshot
  <2>1. PICK version \in IF sub.hand = NoHand THEN {0} ELSE sub.since..games[sub.hand] :
            Broadcast(Message("snapshot", sub.room, sub.hand, version))
    BY <1>6 DEF SendSnapshot
  <2>2. PICK m : m = Message("snapshot", sub.room, sub.hand, version)
    OBVIOUS
  <2>3. /\ sub.stage = "joined" /\ m.room = sub.room
        /\ UNCHANGED <<roomVersion, changes, command, shown>>
    BY <1>6, <2>2 DEF SendSnapshot, server, Message
  <2>4. Broadcast(m) /\ Reaches
    BY <1>1, <2>1, <2>2, <2>3
  <2>5. m \in Messages
    <3>1. sub.room \in Rooms /\ sub.hand \in Hands /\ sub.since \in Versions
      BY <2>3 DEF HeardInv, FeedInv, IInv, TypeOK, Subscriptions
    <3>2. version \in Versions
      <4>1. CASE sub.hand = NoHand
        BY <2>1, <4>1 DEF Versions
      <4>2. CASE sub.hand # NoHand
        <5>1. games[sub.hand] \in Versions
          BY <3>1, <4>2 DEF HeardInv, FeedInv, IInv, TypeOK, Hands, NoHand
        <5>2. version \in sub.since..games[sub.hand]
          BY <2>1, <4>2
        <5> QED BY <3>1, <5>1, <5>2 DEF Versions
      <4> QED BY <4>1, <4>2
    <3> QED BY <2>2, <3>1, <3>2 DEF Message, Messages
  <2> QED BY <1>0, <2>3, <2>4, <2>5, BroadcastReaches
<1> QED BY <1>2, <1>4, <1>5, <1>6

\* What is committed.
LEMMA CommitHeard ==
    ASSUME HeardInv,
           Change \/ \E by \in {"socket", "http"} : Start(by) \/ Play(by) \/ Settle(by)
    PROVE  Heard'
<1> SUFFICES ASSUME ~unheard', sub'.stage \in {"read", "joined", "on"} PROVE Reaches'
  BY DEF Heard
<1>1. CASE Change
  <2>1. roomVersion' \in changes'
    BY <1>1 DEF Change
  <2> QED BY <2>1 DEF Reaches
<1>2. ASSUME NEW by \in {"socket", "http"}, NEW kind \in HandEvents, NEW h, Commit(kind, h, by),
             command = Idle, roomVersion' = roomVersion \/ roomVersion' = roomVersion + 1
      PROVE  Reaches'
  <2>1. /\ ~unheard /\ ~(by = "http" /\ roomVersion' # roomVersion)
        /\ UNCHANGED <<changes, sub, wire, shown>>
    BY <1>2 DEF Commit
  <2>2. CASE by = "socket"
    <3>1. command' = [kind |-> kind, hand |-> h, since |-> roomVersion']
      BY <1>2, <2>2 DEF Commit
    <3> QED BY <3>1 DEF Reaches
  <2>3. CASE roomVersion' = roomVersion
    <3>1. Reaches /\ command.kind \notin HandEvents
      BY <1>2, <2>1 DEF HeardInv, Heard, Idle, HandEvents
    <3> QED BY <2>1, <2>3, <3>1 DEF Reaches
  <2> QED BY <2>1, <2>2, <2>3
<1>3. ASSUME NEW by \in {"socket", "http"}, Start(by) \/ Play(by) \/ Settle(by) PROVE Reaches'
  <2>1. \E kind \in HandEvents, h \in {hand, hand'} : Commit(kind, h, by)
    BY <1>3 DEF Start, Play, Settle, HandEvents
  <2>2. command = Idle /\ (roomVersion' = roomVersion \/ roomVersion' = roomVersion + 1)
    BY <1>3 DEF Start, Play, Settle
  <2> QED BY <1>2, <2>1, <2>2
<1> QED BY <1>1, <1>3

\* What the client takes from the connection: the last version is never too old.
LEMMA ReceiveHeard ==
    ASSUME HeardInv, Receive
    PROVE  Heard'
<1> SUFFICES ASSUME ~unheard', sub'.stage \in {"read", "joined", "on"} PROVE Reaches'
  BY DEF Heard
<1>1. /\ UNCHANGED <<roomVersion, command, changes, sub>> /\ ~unheard
      /\ wire # <<>> /\ wire' = Tail(wire) /\ shown' = Shown(Head(wire))
  BY DEF Receive, server
<1>2. Reaches
  BY <1>1 DEF HeardInv, Heard
<1>3. /\ wire \in Seq(Messages) /\ Len(wire) \in Nat /\ Len(wire) >= 1
      /\ roomVersion \in Nat
  BY <1>1, Numbers, LenProperties, EmptySeq DEF HeardInv, FeedInv, IInv, TypeOK
<1>4. PICK m \in Messages : m = Head(wire) /\ m = wire[1]
  BY <1>1, <1>3, HeadTailProperties
<1>5. PICK v \in Views : v = shown /\ v.room <= roomVersion /\ v.acceptedRoom <= roomVersion
  BY Numbers DEF HeardInv, FeedInv, IInv, Past
<1>6. PICK u : u = After(v, m)
  OBVIOUS
<1>7. shown' = u /\ (Newer(v, m) => u.acceptedRoom = m.room) /\ (~Newer(v, m) => u = v)
  BY <1>1, <1>4, <1>5, <1>6, ShownIsAfter, AfterIs DEF HeardInv, FeedInv, IInv
<1>8. m.room <= roomVersion /\ m.room \in Nat /\ v.acceptedRoom \in Int /\ v.room \in Int
  BY <1>3, <1>4, <1>5 DEF HeardInv, FeedInv, Past, Messages, Rooms, Views
<1>9. CASE shown.acceptedRoom = roomVersion
  <2>1. u.acceptedRoom = roomVersion
    BY <1>3, <1>5, <1>7, <1>8, <1>9 DEF Newer
  <2> QED BY <1>1, <1>7, <2>1 DEF Reaches
<1>10. ASSUME NEW i \in 1..Len(wire), wire[i].room = roomVersion PROVE Reaches'
  <2>1. CASE i = 1
    <3>1. m.room = roomVersion
      BY <1>4, <1>10, <2>1
    <3>2. u.acceptedRoom = roomVersion
      BY <1>3, <1>5, <1>7, <1>8, <3>1 DEF Newer
    <3> QED BY <1>1, <1>7, <3>2 DEF Reaches
  <2>2. CASE i # 1
    <3>1. Len(wire') = Len(wire) - 1 /\ \A j \in 1..Len(wire') : wire'[j] = wire[j + 1]
      BY <1>1, <1>3, HeadTailProperties
    <3>2. i - 1 \in 1..Len(wire')
      BY <1>3, <2>2, <3>1
    <3>3. wire'[i - 1].room = roomVersion
      BY <1>10, <3>1, <3>2
    <3> QED BY <1>1, <3>2, <3>3 DEF Reaches
  <2> QED BY <2>1, <2>2
<1>11. CASE \/ command.kind \in HandEvents /\ command.since = roomVersion
            \/ roomVersion \in changes
            \/ sub.stage \in {"read", "joined"} /\ sub.room = roomVersion
  BY <1>1, <1>11 DEF Reaches
<1> QED BY <1>2, <1>9, <1>10, <1>11 DEF Reaches

\* The subscription before the snapshot, and HTTP.
LEMMA ClientHeard ==
    ASSUME HeardInv,
           \/ Connect \/ ReadRoom \/ JoinHub \/ Disconnect
           \/ RequestRoom \/ RequestHand \/ Respond
    PROVE  Heard'
<1> SUFFICES ASSUME ~unheard', sub'.stage \in {"read", "joined", "on"} PROVE Reaches'
  BY DEF Heard
<1>1. CASE Connect \/ Disconnect
  BY <1>1 DEF Connect, Disconnect, Away
<1>2. CASE ReadRoom
  BY <1>2 DEF ReadRoom, server, Reaches
<1>3. CASE JoinHub
  <2>1. /\ sub.stage = "read" /\ sub'.stage = "joined" /\ sub'.room = sub.room
        /\ ~unheard /\ UNCHANGED <<roomVersion, command, changes, wire, shown>>
    BY <1>3 DEF JoinHub, server
  <2> QED BY <2>1 DEF HeardInv, Heard, Reaches
<1>4. CASE RequestRoom \/ RequestHand \/ Respond
  <2>1. UNCHANGED <<server, wire, sub, unheard>>
    BY <1>4 DEF RequestRoom, RequestHand, Respond
  <2>2. shown'.acceptedRoom = shown.acceptedRoom
    <3>1. CASE RequestRoom \/ RequestHand
      BY <3>1 DEF RequestRoom, RequestHand
    <3>2. PICK v \in Views : v = shown
      BY Numbers DEF HeardInv, FeedInv, IInv
    <3>3. CASE Respond
      <4>1. \E r, h, n : \/ shown' = [v EXCEPT !.room = r]
                         \/ shown' = [v EXCEPT !.hand = h, !.version = n]
        BY <3>2, <3>3 DEF Respond
      <4> QED BY <3>2, <4>1 DEF Views
    <3> QED BY <1>4, <3>1, <3>3
  <2>3. Reaches
    BY <2>1 DEF HeardInv, Heard
  <2> QED BY <2>1, <2>2, <2>3 DEF Reaches, server
<1> QED BY <1>1, <1>2, <1>3, <1>4

\* Every step.
LEMMA HeardNext == HeardInv /\ [Next]_vars => HeardInv'
<1> SUFFICES ASSUME HeardInv, [Next]_vars PROVE Heard'
  BY FeedNext DEF HeardInv
<1>1. CASE Change \/ \E by \in {"socket", "http"} : Start(by) \/ Play(by) \/ Settle(by)
  BY <1>1, CommitHeard
<1>2. CASE SendHandEvent \/ SendRoomEvent \/ (\E c \in changes : SendChange(c)) \/ SendSnapshot
  BY <1>2, SendHeard
<1>3. CASE Receive
  BY <1>3, ReceiveHeard
<1>4. CASE Connect \/ ReadRoom \/ JoinHub \/ Disconnect \/ RequestRoom \/ RequestHand \/ Respond
  BY <1>4, ClientHeard
<1>5. CASE UNCHANGED vars
  BY <1>5 DEF vars, server, HeardInv, Heard, Reaches
<1> QED BY <1>1, <1>2, <1>3, <1>4, <1>5 DEF Next

\* A client that has received everything has accepted a message of the server's
\* room version, whatever events and responses of HTTP overtook each other, but
\* for the versions it is not told, for any bounds (acceptRoomVersion against
\* broadcasts that read the version after their commit).
THEOREM EveryVersionIsHeard == Spec => []HearsOfEveryVersion
<1>1. Init => HeardInv
  <2>1. Init => Heard
    BY DEF Init, Heard, Away
  <2> QED BY <2>1, FeedInit DEF HeardInv
<1>2. HeardInv => HearsOfEveryVersion
  <2> SUFFICES ASSUME HeardInv, Quiet, ~unheard PROVE shown.acceptedRoom = roomVersion
    BY DEF HearsOfEveryVersion
  <2>1. sub.stage = "on" /\ wire = <<>> /\ command.kind = "none" /\ changes = {}
    BY DEF Quiet, Idle
  <2>2. 1..Len(wire) = {} /\ Reaches
    BY <2>1, EmptySeq DEF HeardInv, Heard
  <2> QED BY <2>1, <2>2 DEF Reaches, HandEvents
<1> QED BY <1>1, <1>2, HeardNext, PTL DEF Spec
=============================================================================
