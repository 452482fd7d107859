------------------------------ MODULE Presence ------------------------------
(***************************************************************************)
(* Who is online in a room: the subscriptions and the presence counters of *)
(* socketHub in backend/internal/api/socket.go.                            *)
(*                                                                         *)
(* Every method of the hub is one step under its lock.  A connection reads *)
(* its commands one after the other, so a subscription is several steps of *)
(* one connection, between which the steps of other connections and of     *)
(* HTTP requests come.  A connection is a slot that is used again.         *)
(***************************************************************************)
EXTENDS Integers, FiniteSets

CONSTANTS Users, Rooms,
          Connections, \* slots for connections
          UserOf,      \* the user of each slot
          MaxCount     \* bound on a presence counter

ASSUME SlotsAssumption == UserOf \in [Connections -> Users] /\ IsFiniteSet(Connections)
ASSUME MaxCountAssumption == MaxCount \in Nat \ {0}

VARIABLES members,  \* room_members, by room
          leaving,  \* those whose leave is stored, but not yet known to the hub
          open,     \* clients
          subs,     \* rooms, and the rooms of every client
          doing,    \* what each connection's readLoop is doing
          presence, \* by room and user
          due       \* the changes that closed connections have to broadcast

\* History: the last status broadcast to each room, the statuses whose broadcasts
\* are in a race, and the presences that count a connection that does not hear
\* the room: it has unsubscribed, or was thrown out before it was counted.
VARIABLES told, raced, miscounted

vars == <<members, leaving, open, subs, doing, presence, due, told, raced, miscounted>>

Nothing == [step |-> "read"]
Absent == [status |-> "absent", count |-> 0]

Init == /\ members = [r \in Rooms |-> Users]
        /\ leaving = {}
        /\ open = {}
        /\ subs = {}
        /\ doing = [c \in Connections |-> Nothing]
        /\ presence = [r \in Rooms |-> [u \in Users |-> Absent]]
        /\ due = {}
        /\ told = [r \in Rooms |-> [u \in Users |-> "absent"]]
        /\ raced = {}
        /\ miscounted = {}

-----------------------------------------------------------------------------
\* The changes under way to be broadcast.

Announcements == due \cup {doing[c].change : c \in {d \in Connections : doing[d].step = "announce"}}

Pending(u) == \E change \in Announcements : change.user = u

\* The status of u in r has changed.
Race(r, u) == raced' = IF Pending(u) THEN raced \cup {<<r, u>>} ELSE raced \ {<<r, u>>}

\* broadcastRoomPresence sends a change to a room it finds the user in.
RoomsOf(u) == {r \in Rooms : presence[r][u] # Absent}

Announce(change) ==
    IF RoomsOf(change.user) = {} THEN UNCHANGED <<told, raced, miscounted>>
    ELSE \E r \in RoomsOf(change.user) :
             /\ told' = [told EXCEPT ![r][change.user] = change.status]
             /\ raced' = IF r = change.room THEN raced
                         ELSE raced \cup {<<r, change.user>>, <<change.room, change.user>>}

-----------------------------------------------------------------------------
\* Members

Join(u, r) ==
    /\ u \notin members[r]
    /\ members' = [members EXCEPT ![r] = @ \cup {u}]
    /\ UNCHANGED <<leaving, open, subs, doing, presence, due, told, raced, miscounted>>

\* LeaveRoom, then unsubscribeUser, under the room's mutex.
Leave(u, r) ==
    /\ u \in members[r]
    /\ \A v \in Users : <<r, v>> \notin leaving
    /\ members' = [members EXCEPT ![r] = @ \ {u}]
    /\ leaving' = leaving \cup {<<r, u>>}
    /\ UNCHANGED <<open, subs, doing, presence, due, told, raced, miscounted>>

UnsubscribeUser(r, u) ==
    /\ <<r, u>> \in leaving
    /\ leaving' = leaving \ {<<r, u>>}
    /\ subs' = {s \in subs : ~(s[2] = r /\ UserOf[s[1]] = u)}
    /\ presence' = [presence EXCEPT ![r][u] = Absent]
    /\ told' = [told EXCEPT ![r][u] = "absent"]
    /\ miscounted' = miscounted \ {<<r, u>>}
    /\ UNCHANGED <<members, open, doing, due, raced>>

-----------------------------------------------------------------------------
\* Connections

Connect(c) ==
    /\ c \notin open
    /\ \A change \in due : change.by # c
    /\ open' = open \cup {c}
    /\ UNCHANGED <<members, leaving, subs, doing, presence, due, told, raced, miscounted>>

\* handleSubscribe: the room is read and the membership checked ...
Check(c, r) ==
    /\ c \in open /\ doing[c] = Nothing
    /\ UserOf[c] \in members[r]
    /\ doing' = [doing EXCEPT ![c] = [step |-> "subscribe", room |-> r]]
    /\ UNCHANGED <<members, leaving, open, subs, presence, due, told, raced, miscounted>>

\* Mutant of AlreadySubscribed: a repeated subscription is counted again.
NeverSubscribed(c, r) == FALSE

AlreadySubscribed(c, r) == <<c, r>> \in subs

\* ... the hub subscribes the connection, unless it already has ...
Subscribe(c) ==
    /\ doing[c].step = "subscribe"
    /\ LET r == doing[c].room
       IN  IF AlreadySubscribed(c, r)
           THEN doing' = [doing EXCEPT ![c] = Nothing] /\ UNCHANGED subs
           ELSE /\ doing' = [doing EXCEPT ![c] = [step |-> "mark", room |-> r]]
                /\ subs' = subs \cup {<<c, r>>}
    /\ UNCHANGED <<members, leaving, open, presence, due, told, raced, miscounted>>

\* Mutant of Appears: only the first presence counts as a change.
AppearsFirst(old) == old = Absent

Appears(old) == old = Absent \/ (old.count = 0 /\ old.status = "offline")

\* ... markOnline counts it ...
MarkOnline(c) ==
    /\ doing[c].step = "mark"
    /\ LET r == doing[c].room
           u == UserOf[c]
           old == presence[r][u]
       IN  /\ old.count < MaxCount
           /\ presence' = [presence EXCEPT ![r][u] = [status |-> "online", count |-> old.count + 1]]
           /\ IF Appears(old)
              THEN /\ doing' = [doing EXCEPT ![c] =
                          [step |-> "announce",
                           change |-> [user |-> u, room |-> r, status |-> "online", by |-> c]]]
                   /\ Race(r, u)
              ELSE /\ doing' = [doing EXCEPT ![c] = Nothing]
                   /\ UNCHANGED raced
           /\ miscounted' = IF <<c, r>> \in subs THEN miscounted ELSE miscounted \cup {<<r, u>>}
    /\ UNCHANGED <<members, leaving, open, subs, due, told>>

\* ... and a change is broadcast after the acknowledgement and the snapshot.
AnnounceOnline(c) ==
    /\ doing[c].step = "announce"
    /\ Announce(doing[c].change)
    /\ doing' = [doing EXCEPT ![c] = Nothing]
    /\ UNCHANGED <<members, leaving, open, subs, presence, due, miscounted>>

\* room.unsubscribe, which the client sends before it closes a connection.
Unsubscribe(c, r) ==
    /\ c \in open /\ doing[c] = Nothing
    /\ <<c, r>> \in subs
    /\ subs' = subs \ {<<c, r>>}
    /\ miscounted' = miscounted \cup {<<r, UserOf[c]>>}
    /\ UNCHANGED <<members, leaving, open, doing, presence, due, told, raced>>

RoomsHeard(c) == {r \in Rooms : <<c, r>> \in subs /\ presence[r][UserOf[c]] # Absent}

\* Mutant of CountedDown: the last connection is not told from the others.
OfflineAtOnce(old) == [status |-> "offline", count |-> IF old.count > 0 THEN old.count - 1 ELSE 0]

CountedDown(old) ==
    IF old.count <= 1 THEN [status |-> "offline", count |-> 0]
    ELSE [old EXCEPT !.count = @ - 1]

\* remove, when the connection has ended.
Remove(c) ==
    /\ c \in open /\ doing[c] = Nothing
    /\ LET u == UserOf[c]
           gone == {r \in RoomsHeard(c) : CountedDown(presence[r][u]).status = "offline"}
       IN  /\ presence' = [r \in Rooms |->
                  IF r \in RoomsHeard(c)
                  THEN [presence[r] EXCEPT ![u] = CountedDown(@)] ELSE presence[r]]
           /\ due' = due \cup {[user |-> u, room |-> r, status |-> "offline", by |-> c] : r \in gone}
           /\ raced' = IF Pending(u) \/ Cardinality(gone) > 1
                       THEN raced \cup {<<r, u>> : r \in gone}
                       ELSE raced \ {<<r, u>> : r \in gone}
    /\ open' = open \ {c}
    /\ subs' = {s \in subs : s[1] # c}
    /\ UNCHANGED <<members, leaving, doing, told, miscounted>>

AnnounceOffline(change) ==
    /\ change \in due
    /\ Announce(change)
    /\ due' = due \ {change}
    /\ UNCHANGED <<members, leaving, open, subs, doing, presence, miscounted>>

Next == \/ \E u \in Users, r \in Rooms : Join(u, r) \/ Leave(u, r) \/ UnsubscribeUser(r, u)
        \/ \E c \in Connections : \/ Connect(c) \/ Remove(c)
                                  \/ Subscribe(c) \/ MarkOnline(c) \/ AnnounceOnline(c)
                                  \/ \E r \in Rooms : Check(c, r) \/ Unsubscribe(c, r)
        \/ \E change \in due : AnnounceOffline(change)

Spec == Init /\ [][Next]_vars

-----------------------------------------------------------------------------
\* Properties

Changes == [user : Users, room : Rooms, status : {"online", "offline"}, by : Connections]

Doings == {Nothing} \cup [step : {"subscribe", "mark"}, room : Rooms]
          \cup [step : {"announce"}, change : Changes]

\* A record counts connections exactly while it says online.
Presences == {Absent, [status |-> "offline", count |-> 0]}
             \cup [status : {"online"}, count : 1..MaxCount]

TypeOK ==
    /\ members \in [Rooms -> SUBSET Users]
    /\ leaving \subseteq Rooms \X Users
    /\ open \subseteq Connections
    /\ subs \subseteq open \X Rooms
    /\ doing \in [Connections -> Doings]
    /\ \A c \in Connections : doing[c] # Nothing => c \in open
    /\ presence \in [Rooms -> [Users -> Presences]]
    /\ due \subseteq Changes
    /\ told \in [Rooms -> [Users -> {"absent", "online", "offline"}]]
    /\ raced \subseteq Rooms \X Users /\ miscounted \subseteq Rooms \X Users

\* The connections of u that hear room r and have been counted.
Counted(r, u) ==
    {c \in open : /\ UserOf[c] = u /\ <<c, r>> \in subs
                  /\ doing[c] # [step |-> "mark", room |-> r]}

\* A user is not shown offline while one of his connections hears the room: no
\* other connection's end, no leave and no second subscription can count away
\* the one that is left (subscribe, markOnline, remove, unsubscribeUser).
OnlineWhileConnected ==
    \A r \in Rooms, u \in Users : Counted(r, u) # {} => presence[r][u].status = "online"

\* A presence counts the connections that hear the room, each once, so the last
\* of them makes the user offline: however subscriptions are repeated and come
\* between the ends of other connections and leaves, unless one of the two cases
\* of miscounted has left a count behind (markOnline, remove).
CountsExact ==
    \A r \in Rooms, u \in Users :
        <<r, u>> \notin miscounted => presence[r][u].count = Cardinality(Counted(r, u))

\* When no broadcast is under way, what a room was last told of a user it keeps
\* a presence of is his status, unless two changes were under way at once or one
\* went to the user's other room (markOnline, remove, broadcastRoomPresence).
Announced ==
    \A r \in Rooms, u \in Users :
        presence[r][u] # Absent /\ ~Pending(u) /\ <<r, u>> \notin raced
            => told[r][u] = presence[r][u].status
=============================================================================
