--------------------------- MODULE PresenceProofs ---------------------------
(***************************************************************************)
(* Proofs about Presence: no user is shown offline while one of his        *)
(* connections hears the room, a presence that lost no subscription counts *)
(* exactly the connections, and a room knows the status of its users once  *)
(* every broadcast is out, for any number of users, rooms and connections. *)
(***************************************************************************)
EXTENDS Presence, FiniteSetTheorems, TLAPS

USE SlotsAssumption, MaxCountAssumption

(* What a presence counts: never less than the connections that hear the   *)
(* room.  Without the inequality for the presences that are miscounted, a  *)
(* user whose connection unsubscribed could be shown offline next to       *)
(* another one that did not.                                               *)

CountedRight(r, u) ==
    /\ presence[r][u].count \in Nat
    /\ Cardinality(Counted(r, u)) <= presence[r][u].count
    /\ <<r, u>> \notin miscounted => presence[r][u].count = Cardinality(Counted(r, u))

IInv == TypeOK /\ \A r \in Rooms, u \in Users : CountedRight(r, u)

\* There are finitely many connections to count.
LEMMA CountedFinite ==
    ASSUME TypeOK, NEW r, NEW u
    PROVE  IsFiniteSet(Counted(r, u)) /\ Cardinality(Counted(r, u)) \in Nat
<1>1. Counted(r, u) \subseteq Connections
  BY DEF Counted, TypeOK
<1> QED BY <1>1, FS_Subset, FS_CardinalityType

\* A presence that a step leaves alone is counted as before.
LEMMA SameCount ==
    ASSUME NEW r \in Rooms, NEW u \in Users, CountedRight(r, u),
           presence'[r][u] = presence[r][u],
           Counted(r, u)' = Counted(r, u),
           <<r, u>> \in miscounted => <<r, u>> \in miscounted'
    PROVE  CountedRight(r, u)'
BY DEF CountedRight

-----------------------------------------------------------------------------
(* Types                                                                   *)

\* The values a presence takes.
LEMMA PresenceValues ==
    /\ Absent \in Presences
    /\ [status |-> "offline", count |-> 0] \in Presences
    /\ \A n \in 1..MaxCount : [status |-> "online", count |-> n] \in Presences
    /\ \A p \in Presences : /\ p.count \in 0..MaxCount
                            /\ p.count > 0 <=> p.status = "online"
BY DEF Presences, Absent

\* The end of a connection leaves a presence that is a presence.
LEMMA CountedDownTyped ==
    ASSUME NEW p \in Presences
    PROVE  /\ CountedDown(p) \in Presences
           /\ CountedDown(p).count = IF p.count <= 1 THEN 0 ELSE p.count - 1
<1>1. CASE p.count <= 1
  BY <1>1, PresenceValues DEF CountedDown
<1>2. CASE ~(p.count <= 1)
  <2>1. p \in [status : {"online"}, count : 1..MaxCount]
    BY <1>2 DEF Presences, Absent
  <2>2. CountedDown(p) = [status |-> "online", count |-> p.count - 1]
    BY <1>2, <2>1 DEF CountedDown
  <2>3. p.count - 1 \in 1..MaxCount
    BY <1>2, <2>1
  <2> QED BY <1>2, <2>2, <2>3, PresenceValues
<1> QED BY <1>1, <1>2, PresenceValues

\* What a connection is doing.
LEMMA DoingValues ==
    /\ Nothing \in Doings
    /\ \A r \in Rooms : /\ [step |-> "subscribe", room |-> r] \in Doings
                        /\ [step |-> "mark", room |-> r] \in Doings
    /\ \A change \in Changes : [step |-> "announce", change |-> change] \in Doings
    /\ \A d \in Doings : /\ d.step \in {"subscribe", "mark"} => d # Nothing /\ d.room \in Rooms
                         /\ d.step = "mark" => d = [step |-> "mark", room |-> d.room]
                         /\ d.step = "announce" => d # Nothing /\ d.change \in Changes
BY DEF Doings, Nothing

\* A change of a status is in a race or it is not.
LEMMA RaceTyped ==
    ASSUME TypeOK, NEW r \in Rooms, NEW u \in Users, Race(r, u)
    PROVE  raced' \subseteq Rooms \X Users
BY DEF TypeOK, Race

\* A broadcast is told to one room.
LEMMA AnnounceTyped ==
    ASSUME TypeOK, NEW change \in Changes, Announce(change)
    PROVE  /\ told' \in [Rooms -> [Users -> {"absent", "online", "offline"}]]
           /\ raced' \subseteq Rooms \X Users
<1>1. change.user \in Users /\ change.room \in Rooms /\ change.status \in {"online", "offline"}
  BY DEF Changes
<1>2. CASE UNCHANGED <<told, raced>>
  BY <1>2 DEF TypeOK
<1>3. ASSUME NEW r \in RoomsOf(change.user),
             told' = [told EXCEPT ![r][change.user] = change.status],
             raced' = IF r = change.room THEN raced
                      ELSE raced \cup {<<r, change.user>>, <<change.room, change.user>>}
      PROVE  /\ told' \in [Rooms -> [Users -> {"absent", "online", "offline"}]]
             /\ raced' \subseteq Rooms \X Users
  BY <1>1, <1>3 DEF TypeOK, RoomsOf
<1> QED BY <1>2, <1>3 DEF Announce

\* TypeOK of the next state, in parts.
LEMMA TypesNext ==
    ASSUME members' \in [Rooms -> SUBSET Users], leaving' \subseteq Rooms \X Users,
           open' \subseteq Connections, subs' \subseteq open' \X Rooms,
           doing' \in [Connections -> Doings],
           \A c \in Connections : doing'[c] # Nothing => c \in open',
           presence' \in [Rooms -> [Users -> Presences]], due' \subseteq Changes,
           told' \in [Rooms -> [Users -> {"absent", "online", "offline"}]],
           raced' \subseteq Rooms \X Users, miscounted' \subseteq Rooms \X Users
    PROVE  TypeOK'
BY DEF TypeOK

-----------------------------------------------------------------------------
(* Steps that leave the presences and what they count alone.               *)

\* Whatever changes neither a presence nor who hears a room keeps the counts.
LEMMA CountsKept ==
    ASSUME IInv, UNCHANGED <<presence, miscounted>>,
           \A r \in Rooms, u \in Users : Counted(r, u)' = Counted(r, u)
    PROVE  \A r \in Rooms, u \in Users : CountedRight(r, u)'
<1> SUFFICES ASSUME NEW r \in Rooms, NEW u \in Users PROVE CountedRight(r, u)'
  OBVIOUS
<1> QED BY SameCount DEF IInv

\* Members come and go.
LEMMA MembersKeep ==
    ASSUME IInv, NEW v \in Users, NEW q \in Rooms, Join(v, q) \/ Leave(v, q)
    PROVE  IInv'
<1>1. UNCHANGED <<open, subs, doing, presence, due, told, raced, miscounted>>
  BY DEF Join, Leave
<1>2. members' \in [Rooms -> SUBSET Users] /\ leaving' \subseteq Rooms \X Users
  BY DEF Join, Leave, IInv, TypeOK
<1>3. TypeOK'
  BY <1>1, <1>2, TypesNext DEF IInv, TypeOK
<1>4. \A r \in Rooms, u \in Users : Counted(r, u)' = Counted(r, u)
  BY <1>1 DEF Counted
<1> QED BY <1>1, <1>3, <1>4, CountsKept DEF IInv

\* A connection opens: it hears no room yet.
LEMMA ConnectKeeps ==
    ASSUME IInv, NEW c \in Connections, Connect(c)
    PROVE  IInv'
<1>1. /\ c \notin open /\ open' = open \cup {c}
      /\ UNCHANGED <<members, leaving, subs, doing, presence, due, told, raced, miscounted>>
  BY DEF Connect
<1>2. TypeOK'
  BY <1>1, TypesNext DEF IInv, TypeOK
<1>3. \A r \in Rooms, u \in Users : Counted(r, u)' = Counted(r, u)
  BY <1>1 DEF Counted, IInv, TypeOK
<1> QED BY <1>1, <1>2, <1>3, CountsKept DEF IInv

\* A subscription is checked.
LEMMA CheckKeeps ==
    ASSUME IInv, NEW c \in Connections, NEW q \in Rooms, Check(c, q)
    PROVE  IInv'
<1>1. /\ c \in open /\ doing[c] = Nothing
      /\ doing' = [doing EXCEPT ![c] = [step |-> "subscribe", room |-> q]]
      /\ UNCHANGED <<members, leaving, open, subs, presence, due, told, raced, miscounted>>
  BY DEF Check
<1>2. doing' \in [Connections -> Doings]
  BY <1>1, DoingValues DEF IInv, TypeOK
<1>3. TypeOK'
  BY <1>1, <1>2, TypesNext DEF IInv, TypeOK
<1>4. \A r \in Rooms : doing[c] # [step |-> "mark", room |-> r]
                       /\ doing'[c] # [step |-> "mark", room |-> r]
  BY <1>1 DEF Nothing, IInv, TypeOK
<1>5. \A r \in Rooms, u \in Users : Counted(r, u)' = Counted(r, u)
  BY <1>1, <1>4 DEF Counted, IInv, TypeOK
<1> QED BY <1>1, <1>3, <1>5, CountsKept DEF IInv

\* A room is told of a user who came online.
LEMMA AnnounceOnlineKeeps ==
    ASSUME IInv, NEW c \in Connections, AnnounceOnline(c)
    PROVE  IInv'
<1>1. /\ doing[c].step = "announce" /\ Announce(doing[c].change)
      /\ doing' = [doing EXCEPT ![c] = Nothing]
      /\ UNCHANGED <<members, leaving, open, subs, presence, due, miscounted>>
  BY DEF AnnounceOnline
<1>2. doing[c] \in Doings /\ doing[c].change \in Changes
  BY <1>1, DoingValues DEF IInv, TypeOK
<1>3. doing' \in [Connections -> Doings]
  BY <1>1, DoingValues DEF IInv, TypeOK
<1>4. TypeOK'
  BY <1>1, <1>2, <1>3, AnnounceTyped, TypesNext DEF IInv, TypeOK
<1>5. \A r \in Rooms : doing[c] # [step |-> "mark", room |-> r]
                       /\ doing'[c] # [step |-> "mark", room |-> r]
  BY <1>1 DEF Nothing, IInv, TypeOK
<1>6. \A r \in Rooms, u \in Users : Counted(r, u)' = Counted(r, u)
  BY <1>1, <1>5 DEF Counted, IInv, TypeOK
<1> QED BY <1>1, <1>4, <1>6, CountsKept DEF IInv

\* A room is told of a user who went offline.
LEMMA AnnounceOfflineKeeps ==
    ASSUME IInv, NEW change \in due, AnnounceOffline(change)
    PROVE  IInv'
<1>1. /\ Announce(change) /\ due' = due \ {change}
      /\ UNCHANGED <<members, leaving, open, subs, doing, presence, miscounted>>
  BY DEF AnnounceOffline
<1>2. change \in Changes
  BY DEF IInv, TypeOK
<1>3. TypeOK'
  BY <1>1, <1>2, AnnounceTyped, TypesNext DEF IInv, TypeOK
<1>4. \A r \in Rooms, u \in Users : Counted(r, u)' = Counted(r, u)
  BY <1>1 DEF Counted
<1> QED BY <1>1, <1>3, <1>4, CountsKept DEF IInv

\* The hub subscribes a connection, which is not counted before it is marked.
LEMMA SubscribeKeeps ==
    ASSUME IInv, NEW c \in Connections, Subscribe(c)
    PROVE  IInv'
<1> DEFINE q == doing[c].room
<1>1. /\ doing[c].step = "subscribe"
      /\ UNCHANGED <<members, leaving, open, presence, due, told, raced, miscounted>>
  BY DEF Subscribe
<1>2. doing[c] \in Doings /\ q \in Rooms /\ c \in open
  BY <1>1, DoingValues DEF IInv, TypeOK
<1>3. \A r \in Rooms : doing[c] # [step |-> "mark", room |-> r]
  BY <1>1
<1>4. CASE AlreadySubscribed(c, q)
  <2>1. doing' = [doing EXCEPT ![c] = Nothing] /\ subs' = subs
    BY <1>4 DEF Subscribe
  <2>2. doing' \in [Connections -> Doings]
    BY <2>1, DoingValues DEF IInv, TypeOK
  <2>3. TypeOK'
    BY <1>1, <2>1, <2>2, TypesNext DEF IInv, TypeOK
  <2>4. \A r \in Rooms : doing'[c] # [step |-> "mark", room |-> r]
    BY <2>1 DEF Nothing, IInv, TypeOK
  <2>5. \A r \in Rooms, u \in Users : Counted(r, u)' = Counted(r, u)
    BY <1>1, <1>3, <2>1, <2>4 DEF Counted, IInv, TypeOK
  <2> QED BY <1>1, <2>3, <2>5, CountsKept DEF IInv
<1>5. CASE ~AlreadySubscribed(c, q)
  <2>1. doing' = [doing EXCEPT ![c] = [step |-> "mark", room |-> q]] /\ subs' = subs \cup {<<c, q>>}
    BY <1>5 DEF Subscribe
  <2>2. doing' \in [Connections -> Doings]
    BY <1>2, <2>1, DoingValues DEF IInv, TypeOK
  <2>3. TypeOK'
    BY <1>1, <1>2, <2>1, <2>2, TypesNext DEF IInv, TypeOK
  <2>4. <<c, q>> \notin subs
    BY <1>5 DEF AlreadySubscribed
  <2>5. doing'[c] = [step |-> "mark", room |-> q]
    BY <2>1 DEF IInv, TypeOK
  <2>6. \A r \in Rooms : r # q => doing'[c] # [step |-> "mark", room |-> r]
    BY <2>5
  <2>7. \A r \in Rooms, u \in Users : Counted(r, u)' = Counted(r, u)
    BY <1>1, <1>3, <2>1, <2>4, <2>5, <2>6 DEF Counted, IInv, TypeOK
  <2> QED BY <1>1, <2>3, <2>7, CountsKept DEF IInv
<1> QED BY <1>4, <1>5

-----------------------------------------------------------------------------
(* Steps that change what a presence counts.                               *)

\* markOnline counts the connection it is for, and only that one.
LEMMA MarkOnlineKeeps ==
    ASSUME IInv, NEW c \in Connections, MarkOnline(c)
    PROVE  IInv'
<1>0. doing[c].step = "mark" /\ doing[c] \in Doings
  BY DEF MarkOnline, IInv, TypeOK
<1>a. PICK q \in Rooms : q = doing[c].room
  BY <1>0, DoingValues
<1>b. PICK v \in Users : v = UserOf[c]
  OBVIOUS
<1>c. PICK n \in 0..MaxCount : n = presence[q][v].count
  BY PresenceValues DEF IInv, TypeOK
<1>1. /\ doing[c].step = "mark" /\ n < MaxCount
      /\ presence' = [presence EXCEPT ![q][v] = [status |-> "online", count |-> n + 1]]
      /\ miscounted' = IF <<c, q>> \in subs THEN miscounted ELSE miscounted \cup {<<q, v>>}
      /\ UNCHANGED <<members, leaving, open, subs, due, told>>
  BY <1>a, <1>b, <1>c DEF MarkOnline
<1>2. /\ c \in open
      /\ doing[c] = [step |-> "mark", room |-> q]
  BY <1>0, <1>a, DoingValues DEF IInv, TypeOK
<1>4. /\ presence' \in [Rooms -> [Users -> Presences]]
      /\ presence'[q][v].count = n + 1
      /\ \A r \in Rooms, u \in Users : r # q \/ u # v => presence'[r][u] = presence[r][u]
  <2>1. n + 1 \in 1..MaxCount
    BY <1>1
  <2>2. [status |-> "online", count |-> n + 1] \in Presences
    BY <2>1, PresenceValues
  <2> QED BY <1>1, <2>2 DEF IInv, TypeOK
<1>5. /\ doing' \in [Connections -> Doings] /\ raced' \subseteq Rooms \X Users
      /\ \A r \in Rooms : doing'[c] # [step |-> "mark", room |-> r]
      /\ \A d \in Connections : d # c => doing'[d] = doing[d]
  <2> DEFINE change == [user |-> v, room |-> q, status |-> "online", by |-> c]
  <2>1. change \in Changes
    BY DEF Changes
  <2>2. CASE doing' = [doing EXCEPT ![c] = [step |-> "announce", change |-> change]] /\ Race(q, v)
    <3>1. raced' \subseteq Rooms \X Users
      BY <2>2, RaceTyped DEF IInv
    <3> HIDE DEF change
    <3> QED BY <2>1, <2>2, <3>1, DoingValues DEF IInv, TypeOK
  <2>3. CASE doing' = [doing EXCEPT ![c] = Nothing] /\ UNCHANGED raced
    BY <2>3, DoingValues DEF IInv, TypeOK, Nothing
  <2> QED BY <1>a, <1>b, <2>2, <2>3 DEF MarkOnline
<1>6. miscounted' \subseteq Rooms \X Users
  BY <1>1, <1>2 DEF IInv, TypeOK
<1>7. \A d \in Connections : doing'[d] # Nothing => d \in open'
  BY <1>1, <1>2, <1>5 DEF IInv, TypeOK
<1>8. TypeOK'
  BY <1>1, <1>4, <1>5, <1>6, <1>7, TypesNext DEF IInv, TypeOK
<1>9. c \notin Counted(q, v)
  BY <1>2 DEF Counted
<1>10. Counted(q, v)' =
           IF <<c, q>> \in subs THEN Counted(q, v) \cup {c} ELSE Counted(q, v)
  BY <1>1, <1>2, <1>5, <1>b DEF Counted, IInv, TypeOK
<1>11. \A r \in Rooms, u \in Users :
          r # q \/ u # v => Counted(r, u)' = Counted(r, u)
  BY <1>1, <1>2, <1>5, <1>b DEF Counted, IInv, TypeOK
<1>12. IsFiniteSet(Counted(q, v)) /\ Cardinality(Counted(q, v)) \in Nat
  BY CountedFinite DEF IInv
<1>13. Cardinality(Counted(q, v) \cup {c}) = Cardinality(Counted(q, v)) + 1
  BY <1>9, <1>12, FS_AddElement
<1>14. CountedRight(q, v)
  BY DEF IInv
<1>15. CountedRight(q, v)'
  <2>1. CASE <<c, q>> \in subs
    <3>1. miscounted' = miscounted /\ Cardinality(Counted(q, v)') = Cardinality(Counted(q, v)) + 1
      BY <1>1, <1>10, <1>13, <2>1
    <3> QED BY <1>4, <1>12, <1>14, <1>c, <3>1 DEF CountedRight
  <2>2. CASE <<c, q>> \notin subs
    <3>1. <<q, v>> \in miscounted' /\ Counted(q, v)' = Counted(q, v)
      BY <1>1, <1>10, <2>2
    <3> QED BY <1>4, <1>12, <1>14, <1>c, <3>1 DEF CountedRight
  <2> QED BY <2>1, <2>2
<1>16. ASSUME NEW r \in Rooms, NEW u \in Users, r # q \/ u # v PROVE CountedRight(r, u)'
  <2>1. <<r, u>> \in miscounted => <<r, u>> \in miscounted'
    BY <1>1
  <2> QED BY <1>4, <1>11, <1>16, <2>1, SameCount DEF IInv
<1> QED BY <1>8, <1>15, <1>16 DEF IInv

\* A connection that unsubscribes is no longer counted by anybody but its presence.
LEMMA UnsubscribeKeeps ==
    ASSUME IInv, NEW c \in Connections, NEW q \in Rooms, Unsubscribe(c, q)
    PROVE  IInv'
<1>0. PICK v \in Users : v = UserOf[c]
  OBVIOUS
<1>1. /\ subs' = subs \ {<<c, q>>} /\ miscounted' = miscounted \cup {<<q, v>>}
      /\ UNCHANGED <<members, leaving, open, doing, presence, due, told, raced>>
  BY <1>0 DEF Unsubscribe
<1>3. TypeOK'
  BY <1>1, TypesNext DEF IInv, TypeOK
<1>4. \A r \in Rooms, u \in Users : r # q \/ u # v => Counted(r, u)' = Counted(r, u)
  BY <1>0, <1>1 DEF Counted
<1>5. Counted(q, v)' \subseteq Counted(q, v) /\ <<q, v>> \in miscounted'
  BY <1>1 DEF Counted
<1>6. CountedRight(q, v)'
  <2>1. IsFiniteSet(Counted(q, v)) /\ Cardinality(Counted(q, v)) \in Nat
    BY CountedFinite DEF IInv
  <2>2. IsFiniteSet(Counted(q, v)') /\ Cardinality(Counted(q, v)') <= Cardinality(Counted(q, v))
    BY <1>5, <2>1, FS_Subset
  <2>3. Cardinality(Counted(q, v)') \in Nat
    BY <2>2, FS_CardinalityType
  <2>4. CountedRight(q, v) /\ presence'[q][v] = presence[q][v]
    BY <1>1 DEF IInv
  <2>5. Cardinality(Counted(q, v)') <= presence'[q][v].count /\ presence'[q][v].count \in Nat
    BY <2>1, <2>2, <2>3, <2>4 DEF CountedRight
  <2> QED BY <1>5, <2>5 DEF CountedRight
<1>7. ASSUME NEW r \in Rooms, NEW u \in Users, r # q \/ u # v PROVE CountedRight(r, u)'
  BY <1>1, <1>4, <1>7, SameCount DEF IInv
<1> QED BY <1>3, <1>6, <1>7 DEF IInv

\* A user who leaves takes his connections and their counts along.
LEMMA UnsubscribeUserKeeps ==
    ASSUME IInv, NEW v \in Users, NEW q \in Rooms, UnsubscribeUser(q, v)
    PROVE  IInv'
<1>1. /\ leaving' = leaving \ {<<q, v>>}
      /\ subs' = {s \in subs : ~(s[2] = q /\ UserOf[s[1]] = v)}
      /\ presence' = [presence EXCEPT ![q][v] = Absent]
      /\ told' = [told EXCEPT ![q][v] = "absent"]
      /\ miscounted' = miscounted \ {<<q, v>>}
      /\ UNCHANGED <<members, open, doing, due, raced>>
  BY DEF UnsubscribeUser
<1>2. presence' \in [Rooms -> [Users -> Presences]]
  BY <1>1, PresenceValues DEF IInv, TypeOK
<1>3. told' \in [Rooms -> [Users -> {"absent", "online", "offline"}]]
  BY <1>1 DEF IInv, TypeOK
<1>4. TypeOK'
  BY <1>1, <1>2, <1>3, TypesNext DEF IInv, TypeOK
<1>5. Counted(q, v)' = {}
  BY <1>1 DEF Counted
<1>6. CountedRight(q, v)'
  <2>1. presence'[q][v].count = 0
    BY <1>1 DEF IInv, TypeOK, Absent
  <2> QED BY <1>5, <2>1, FS_EmptySet DEF CountedRight
<1>7. ASSUME NEW r \in Rooms, NEW u \in Users, r # q \/ u # v PROVE CountedRight(r, u)'
  <2>1. presence'[r][u] = presence[r][u]
    BY <1>1, <1>7 DEF IInv, TypeOK
  <2>2. Counted(r, u)' = Counted(r, u)
    BY <1>1, <1>7 DEF Counted
  <2>3. <<r, u>> \in miscounted => <<r, u>> \in miscounted'
    BY <1>1, <1>7
  <2> QED BY <2>1, <2>2, <2>3, SameCount DEF IInv
<1> QED BY <1>4, <1>6, <1>7 DEF IInv

\* A connection that ends is counted down where it was counted.
LEMMA RemoveKeeps ==
    ASSUME IInv, NEW c \in Connections, Remove(c)
    PROVE  IInv'
<1>0. PICK v \in Users : v = UserOf[c]
  OBVIOUS
<1> DEFINE gone == {r \in RoomsHeard(c) : CountedDown(presence[r][v]).status = "offline"}
<1>1. /\ c \in open /\ doing[c] = Nothing
      /\ presence' = [r \in Rooms |->
                         IF r \in RoomsHeard(c)
                         THEN [presence[r] EXCEPT ![v] = CountedDown(@)] ELSE presence[r]]
      /\ due' = due \cup {[user |-> v, room |-> r, status |-> "offline", by |-> c] : r \in gone}
      /\ open' = open \ {c}
      /\ subs' = {s \in subs : s[1] # c}
      /\ raced' = raced \cup {<<r, v>> : r \in gone} \/ raced' = raced \ {<<r, v>> : r \in gone}
      /\ UNCHANGED <<members, leaving, doing, told, miscounted>>
  BY <1>0 DEF Remove
<1>2. gone \subseteq Rooms
  BY DEF RoomsHeard
<1>3. presence' \in [Rooms -> [Users -> Presences]]
  BY <1>1, CountedDownTyped DEF IInv, TypeOK
<1>4. due' \subseteq Changes /\ raced' \subseteq Rooms \X Users
  <2>1. \A r \in gone : [user |-> v, room |-> r, status |-> "offline", by |-> c] \in Changes
    BY <1>2 DEF Changes
  <2>2. \A r \in gone : <<r, v>> \in Rooms \X Users
    BY <1>2
  <2> HIDE DEF gone
  <2> QED BY <1>1, <2>1, <2>2 DEF IInv, TypeOK
<1>5. TypeOK'
  <2>1. subs' \subseteq open' \X Rooms
    BY <1>1 DEF IInv, TypeOK
  <2>2. \A d \in Connections : doing'[d] # Nothing => d \in open'
    BY <1>1 DEF IInv, TypeOK
  <2> QED BY <1>1, <1>3, <1>4, <2>1, <2>2, TypesNext DEF IInv, TypeOK
<1>6. ASSUME NEW r \in Rooms, NEW u \in Users PROVE CountedRight(r, u)'
  <2>1. CountedRight(r, u) /\ presence[r][u] \in Presences
    BY DEF IInv, TypeOK
  <2>2. IsFiniteSet(Counted(r, u)) /\ Cardinality(Counted(r, u)) \in Nat
    BY CountedFinite DEF IInv
  <2>3. Counted(r, u)' = Counted(r, u) \ {c}
    BY <1>1 DEF Counted
  <2>4. CASE u = v /\ r \in RoomsHeard(c)
    <3>1. c \in Counted(r, u)
      BY <1>0, <1>1, <2>4 DEF Counted, RoomsHeard, Nothing
    <3>2. Cardinality(Counted(r, u)') = Cardinality(Counted(r, u)) - 1
          /\ Cardinality(Counted(r, u)) > 0
      <4>1. Cardinality(Counted(r, u)) # 0
        BY <2>2, <3>1, FS_EmptySet
      <4>2. Cardinality(Counted(r, u) \ {c}) = Cardinality(Counted(r, u)) - 1
        BY <2>2, <3>1, FS_RemoveElement
      <4> QED BY <2>2, <2>3, <4>1, <4>2
    <3>3. presence'[r][u] = CountedDown(presence[r][u])
      BY <1>1, <2>4 DEF IInv, TypeOK
    <3>4. presence'[r][u].count = presence[r][u].count - 1
      BY <2>1, <2>2, <3>2, <3>3, CountedDownTyped DEF CountedRight
    <3> QED BY <1>1, <2>1, <2>2, <3>2, <3>4 DEF CountedRight
  <2>5. CASE ~(u = v /\ r \in RoomsHeard(c))
    <3>1. presence'[r][u] = presence[r][u]
      BY <1>1, <2>5 DEF IInv, TypeOK
    <3>2. c \notin Counted(r, u)
      <4>1. CASE u # v
        BY <1>0, <4>1 DEF Counted
      <4>2. CASE u = v /\ <<c, r>> \in subs
        <5>1. presence[r][u] = Absent
          BY <1>0, <2>5, <4>2 DEF RoomsHeard
        <5>2. Cardinality(Counted(r, u)) = 0
          BY <2>1, <2>2, <5>1 DEF CountedRight, Absent
        <5> QED BY <2>2, <5>2, FS_EmptySet
      <4>3. CASE <<c, r>> \notin subs
        BY <4>3 DEF Counted
      <4> QED BY <4>1, <4>2, <4>3
    <3>3. Counted(r, u)' = Counted(r, u)
      BY <2>3, <3>2
    <3> QED BY <1>1, <2>1, <3>1, <3>3, SameCount
  <2> QED BY <2>4, <2>5
<1> QED BY <1>5, <1>6 DEF IInv

-----------------------------------------------------------------------------
(* Every step.                                                             *)

\* Nobody is present and nobody connected.
LEMMA InitInvariant == Init => IInv
<1> SUFFICES ASSUME Init PROVE IInv
  OBVIOUS
<1>1. TypeOK
  BY DoingValues, PresenceValues DEF Init, TypeOK
<1>2. ASSUME NEW r \in Rooms, NEW u \in Users PROVE CountedRight(r, u)
  <2>1. Counted(r, u) = {} /\ presence[r][u].count = 0
    BY DEF Init, Counted, Absent
  <2> QED BY <2>1, FS_EmptySet DEF CountedRight
<1> QED BY <1>1, <1>2 DEF IInv

\* Every step: of a member, of a connection, of a broadcast.
LEMMA NextInvariant == IInv /\ [Next]_vars => IInv'
<1> SUFFICES ASSUME IInv, [Next]_vars PROVE IInv'
  OBVIOUS
<1>1. ASSUME NEW u \in Users, NEW r \in Rooms, Join(u, r) \/ Leave(u, r) \/ UnsubscribeUser(r, u)
      PROVE  IInv'
  BY <1>1, MembersKeep, UnsubscribeUserKeeps
<1>2. ASSUME NEW c \in Connections,
             Connect(c) \/ Remove(c) \/ Subscribe(c) \/ MarkOnline(c) \/ AnnounceOnline(c)
      PROVE  IInv'
  BY <1>2, ConnectKeeps, RemoveKeeps, SubscribeKeeps, MarkOnlineKeeps, AnnounceOnlineKeeps
<1>3. ASSUME NEW c \in Connections, NEW r \in Rooms, Check(c, r) \/ Unsubscribe(c, r)
      PROVE  IInv'
  BY <1>3, CheckKeeps, UnsubscribeKeeps
<1>4. ASSUME NEW change \in due, AnnounceOffline(change) PROVE IInv'
  BY <1>4, AnnounceOfflineKeeps
<1>5. CASE UNCHANGED vars
  <2>1. UNCHANGED <<members, leaving, open, subs, doing, presence, due, told, raced, miscounted>>
    BY <1>5 DEF vars
  <2>2. TypeOK'
    BY <2>1, TypesNext DEF IInv, TypeOK
  <2>3. \A r \in Rooms, u \in Users : Counted(r, u)' = Counted(r, u)
    BY <2>1 DEF Counted
  <2> QED BY <2>1, <2>2, <2>3, CountsKept DEF IInv
<1> QED BY <1>1, <1>2, <1>3, <1>4, <1>5 DEF Next

\* Every reachable state satisfies the inductive invariant.
THEOREM Invariance == Spec => []IInv
BY InitInvariant, NextInvariant, PTL DEF Spec

\* Every variable has its type, for any number of users, rooms and connections.
THEOREM TypesHold == Spec => []TypeOK
<1>1. IInv => TypeOK
  BY DEF IInv
<1> QED BY <1>1, Invariance, PTL

\* Nobody is shown offline while one of his connections hears the room, for any
\* number of users, rooms and connections (remove, unsubscribeUser).
THEOREM OnlineIsShown == Spec => []OnlineWhileConnected
<1>1. ASSUME IInv PROVE OnlineWhileConnected
  <2> SUFFICES ASSUME NEW r \in Rooms, NEW u \in Users, Counted(r, u) # {}
               PROVE  presence[r][u].status = "online"
    BY DEF OnlineWhileConnected
  <2>1. CountedRight(r, u) /\ presence[r][u] \in Presences
    BY <1>1 DEF IInv, TypeOK
  <2>2. Cardinality(Counted(r, u)) \in Nat /\ Cardinality(Counted(r, u)) # 0
    BY <1>1, CountedFinite, FS_EmptySet DEF IInv
  <2> QED BY <2>1, <2>2, PresenceValues DEF CountedRight
<1> QED BY <1>1, Invariance, PTL

\* A presence that has lost no subscription counts exactly the connections that
\* hear the room, for any number of them (markOnline, remove).
THEOREM CountsAreExact == Spec => []CountsExact
<1>1. IInv => CountsExact
  BY DEF IInv, CountsExact, CountedRight
<1> QED BY <1>1, Invariance, PTL

-----------------------------------------------------------------------------
(* What the rooms are told.                                                *)

\* The broadcasts to come of changes of u in r.
Waiting(r, u) == {change \in Announcements : change.user = u /\ change.room = r}

(* Unless it is in a race, a broadcast to come carries the present status, *)
(* and without one the room has been told it.                              *)

ToldRight(r, u) ==
    presence[r][u] # Absent /\ <<r, u>> \notin raced =>
        /\ \A change \in Waiting(r, u) : change.status = presence[r][u].status
        /\ Waiting(r, u) = {} => told[r][u] = presence[r][u].status

Telling == \A r \in Rooms, u \in Users : ToldRight(r, u)

\* A status that a step leaves alone is told as before.
LEMMA SameStory ==
    ASSUME NEW r \in Rooms, NEW u \in Users, ToldRight(r, u),
           presence[r][u] # Absent, presence'[r][u].status = presence[r][u].status,
           told'[r][u] = told[r][u], Waiting(r, u)' = Waiting(r, u),
           <<r, u>> \in raced => <<r, u>> \in raced'
    PROVE  ToldRight(r, u)'
BY DEF ToldRight

\* A step that changes no status, broadcasts nothing and has nothing to broadcast.
LEMMA QuietStep ==
    ASSUME Telling, UNCHANGED <<presence, told, raced>>, Announcements' = Announcements
    PROVE  Telling'
<1> SUFFICES ASSUME NEW r \in Rooms, NEW u \in Users PROVE ToldRight(r, u)'
  BY DEF Telling
<1>1. Waiting(r, u)' = Waiting(r, u)
  BY DEF Waiting
<1> QED BY <1>1 DEF Telling, ToldRight

\* A connection that does something else than to broadcast.
LEMMA OtherDoing ==
    ASSUME TypeOK, NEW c \in Connections, due' = due,
           \A d \in Connections \ {c} : doing'[d] = doing[d],
           doing[c].step # "announce", doing'[c].step # "announce"
    PROVE  Announcements' = Announcements
BY DEF Announcements

\* A subscription is checked, and then made.
LEMMA SubscribeTells ==
    ASSUME IInv, Telling, NEW c \in Connections,
           Subscribe(c) \/ \E r \in Rooms : Check(c, r)
    PROVE  Telling'
<1>1. UNCHANGED <<presence, told, raced, due>>
  BY DEF Check, Subscribe
<1>2. \A d \in Connections \ {c} : doing'[d] = doing[d]
  BY DEF Check, Subscribe, IInv, TypeOK
<1>3. doing[c].step # "announce"
  BY DEF Check, Subscribe, Nothing
<1>4. doing'[c].step # "announce"
  <2>1. CASE \E r \in Rooms : Check(c, r)
    BY <2>1 DEF Check, IInv, TypeOK
  <2>2. CASE Subscribe(c)
    BY <2>2 DEF Subscribe, IInv, TypeOK, Nothing
  <2> QED BY <2>1, <2>2
<1>5. Announcements' = Announcements
  BY <1>1, <1>2, <1>3, <1>4, OtherDoing DEF IInv
<1> QED BY <1>1, <1>5, QuietStep

\* A user who has left is not spoken of.
LEMMA UnsubscribeUserTells ==
    ASSUME IInv, Telling, NEW v \in Users, NEW q \in Rooms, UnsubscribeUser(q, v)
    PROVE  Telling'
<1> SUFFICES ASSUME NEW r \in Rooms, NEW u \in Users PROVE ToldRight(r, u)'
  BY DEF Telling
<1>1. /\ presence' = [presence EXCEPT ![q][v] = Absent]
      /\ told' = [told EXCEPT ![q][v] = "absent"]
      /\ UNCHANGED <<doing, due, raced>>
  BY DEF UnsubscribeUser
<1>2. Waiting(r, u)' = Waiting(r, u)
  BY <1>1 DEF Waiting, Announcements
<1>3. CASE r = q /\ u = v
  BY <1>1, <1>3 DEF ToldRight, IInv, TypeOK
<1>4. CASE r # q \/ u # v
  <2>1. presence'[r][u] = presence[r][u] /\ told'[r][u] = told[r][u]
    BY <1>1, <1>4 DEF IInv, TypeOK
  <2> QED BY <1>1, <1>2, <2>1 DEF Telling, ToldRight
<1> QED BY <1>3, <1>4

\* A broadcast, to the room it is about or to another one.
LEMMA AnnounceTells ==
    ASSUME IInv, Telling, NEW change \in Announcements, change \in Changes, Announce(change),
           presence' = presence,
           Announcements \ {change} \subseteq Announcements', Announcements' \subseteq Announcements
    PROVE  Telling'
<1> SUFFICES ASSUME NEW r \in Rooms, NEW u \in Users,
                    presence[r][u] # Absent, <<r, u>> \notin raced'
             PROVE  /\ \A other \in Waiting(r, u)' : other.status = presence[r][u].status
                    /\ Waiting(r, u)' = {} => told'[r][u] = presence[r][u].status
  BY DEF Telling, ToldRight
<1>1. PICK v, p, status : /\ v = change.user /\ p = change.room /\ status = change.status
                          /\ v \in Users /\ p \in Rooms
  BY DEF Changes
<1>2. Waiting(r, u)' \subseteq Waiting(r, u)
  BY DEF Waiting
<1>3. CASE u # v
  <2>1. Waiting(r, u)' = Waiting(r, u)
    BY <1>1, <1>3 DEF Waiting
  <2>2. told'[r][u] = told[r][u] /\ <<r, u>> \notin raced
    <3>1. CASE UNCHANGED <<told, raced>>
      BY <3>1
    <3>2. CASE \E q \in RoomsOf(v) :
                  /\ told' = [told EXCEPT ![q][v] = status]
                  /\ raced' = IF q = p THEN raced ELSE raced \cup {<<q, v>>, <<p, v>>}
      BY <1>1, <1>3, <3>2 DEF IInv, TypeOK, RoomsOf
    <3> QED BY <1>1, <3>1, <3>2 DEF Announce
  <2> QED BY <2>1, <2>2 DEF Telling, ToldRight
<1>4. CASE u = v
  <2>1. PICK q \in RoomsOf(v) :
            /\ told' = [told EXCEPT ![q][v] = status]
            /\ raced' = IF q = p THEN raced ELSE raced \cup {<<q, v>>, <<p, v>>}
    BY <1>1, <1>4 DEF Announce, RoomsOf
  <2>2. <<r, u>> \notin raced /\ ToldRight(r, u) /\ q \in Rooms
    BY <2>1 DEF Telling, RoomsOf
  <2>3. CASE r = p
    <3>1. q = p
      BY <1>4, <2>1, <2>3
    <3>2. change \in Waiting(r, u)
      BY <1>1, <1>4, <2>3 DEF Waiting
    <3>3. told'[r][u] = status
      BY <1>4, <2>1, <2>2, <2>3, <3>1 DEF IInv, TypeOK
    <3> QED BY <1>1, <1>2, <2>2, <3>2, <3>3 DEF ToldRight
  <2>4. CASE r # p
    <3>1. q # r
      BY <1>4, <2>1, <2>4
    <3>2. told'[r][u] = told[r][u]
      BY <2>1, <2>2, <3>1 DEF IInv, TypeOK
    <3>3. Waiting(r, u)' = Waiting(r, u)
      BY <1>1, <2>4 DEF Waiting
    <3> QED BY <2>2, <3>2, <3>3 DEF ToldRight
  <2> QED BY <2>3, <2>4
<1> QED BY <1>3, <1>4

\* A connection broadcasts that its user is online.
LEMMA AnnounceOnlineTells ==
    ASSUME IInv, Telling, NEW c \in Connections, AnnounceOnline(c)
    PROVE  Telling'
<1>1. PICK change : change = doing[c].change
  OBVIOUS
<1>2. /\ doing[c].step = "announce" /\ Announce(change)
      /\ doing' = [doing EXCEPT ![c] = Nothing]
      /\ due' = due /\ presence' = presence
  BY <1>1 DEF AnnounceOnline
<1>3. change \in Announcements
  BY <1>1, <1>2 DEF Announcements
<1>4. change \in Changes
  BY <1>1, <1>2, DoingValues DEF IInv, TypeOK
<1>5. \A d \in Connections \ {c} : doing'[d] = doing[d]
  BY <1>2 DEF IInv, TypeOK
<1>6. doing'[c].step # "announce"
  BY <1>2 DEF IInv, TypeOK, Nothing
<1>7. Announcements \ {change} \subseteq Announcements' /\ Announcements' \subseteq Announcements
  BY <1>1, <1>2, <1>5, <1>6 DEF Announcements
<1> QED BY <1>2, <1>3, <1>4, <1>7, AnnounceTells

\* The end of a connection is broadcast.
LEMMA AnnounceOfflineTells ==
    ASSUME IInv, Telling, NEW change \in due, AnnounceOffline(change)
    PROVE  Telling'
<1>1. /\ Announce(change) /\ due' = due \ {change}
      /\ doing' = doing /\ presence' = presence
  BY DEF AnnounceOffline
<1>2. change \in Announcements /\ change \in Changes
  BY DEF Announcements, IInv, TypeOK
<1>3. Announcements \ {change} \subseteq Announcements' /\ Announcements' \subseteq Announcements
  BY <1>1 DEF Announcements
<1> QED BY <1>1, <1>2, <1>3, AnnounceTells

\* A presence that appears is broadcast, in a race with what is under way.
LEMMA MarkOnlineTells ==
    ASSUME IInv, Telling, NEW c \in Connections, MarkOnline(c)
    PROVE  Telling'
<1>0. doing[c].step = "mark" /\ doing[c] \in Doings
  BY DEF MarkOnline, IInv, TypeOK
<1>a. PICK q \in Rooms, v \in Users : q = doing[c].room /\ v = UserOf[c]
  BY <1>0, DoingValues
<1>1. PICK old : q = doing[c].room /\ v = UserOf[c] /\ old = presence[q][v]
  BY <1>a
<1>2. PICK change : change = [user |-> v, room |-> q, status |-> "online", by |-> c]
  OBVIOUS
<1>3. /\ presence' = [presence EXCEPT ![q][v] = [status |-> "online", count |-> old.count + 1]]
      /\ IF Appears(old)
         THEN doing' = [doing EXCEPT ![c] = [step |-> "announce", change |-> change]] /\ Race(q, v)
         ELSE doing' = [doing EXCEPT ![c] = Nothing] /\ raced' = raced
      /\ due' = due /\ told' = told
  BY <1>1, <1>2 DEF MarkOnline
<1>4. \A d \in Connections \ {c} : doing'[d] = doing[d]
  BY <1>3 DEF IInv, TypeOK
<1>5. presence'[q][v].status = "online" /\ presence'[q][v] # Absent
  BY <1>3 DEF IInv, TypeOK, Absent
<1>6. \A r \in Rooms, u \in Users : r # q \/ u # v => presence'[r][u] = presence[r][u]
  BY <1>3 DEF IInv, TypeOK
<1>7. CASE ~Appears(old)
  <2>1. doing'[c].step # "announce"
    BY <1>3, <1>7 DEF IInv, TypeOK, Nothing
  <2>2. Announcements' = Announcements
    BY <1>0, <1>3, <1>4, <2>1, OtherDoing DEF IInv
  <2>3. old # Absent /\ old.status = "online"
    BY <1>1, <1>7 DEF Appears, IInv, TypeOK, Presences
  <2> SUFFICES ASSUME NEW r \in Rooms, NEW u \in Users PROVE ToldRight(r, u)'
    BY DEF Telling
  <2>4. Waiting(r, u)' = Waiting(r, u)
    BY <2>2 DEF Waiting
  <2>5. CASE r = q /\ u = v
    BY <1>1, <1>3, <1>5, <1>7, <2>3, <2>4, <2>5, SameStory DEF Telling
  <2>6. CASE r # q \/ u # v
    BY <1>3, <1>6, <1>7, <2>4, <2>6 DEF Telling, ToldRight
  <2> QED BY <2>5, <2>6
<1>8. CASE Appears(old)
  <2>1. doing'[c] = [step |-> "announce", change |-> change]
    BY <1>3, <1>8 DEF IInv, TypeOK
  <2>2. Announcements' = Announcements \cup {change}
    BY <1>0, <1>3, <1>4, <2>1 DEF Announcements
  <2> SUFFICES ASSUME NEW r \in Rooms, NEW u \in Users PROVE ToldRight(r, u)'
    BY DEF Telling
  <2>3. Race(q, v)
    BY <1>3, <1>8
  <2>4. CASE r = q /\ u = v
    <3>1. CASE Pending(v)
      BY <2>3, <2>4, <3>1 DEF Race, ToldRight
    <3>2. CASE ~Pending(v)
      <4>1. Waiting(r, u)' = {change}
        BY <1>2, <2>2, <2>4, <3>2 DEF Waiting, Pending
      <4> QED BY <1>2, <1>5, <2>4, <4>1 DEF ToldRight
    <3> QED BY <3>1, <3>2
  <2>5. CASE r # q \/ u # v
    <3>1. Waiting(r, u)' = Waiting(r, u)
      BY <1>2, <2>2, <2>5 DEF Waiting
    <3>2. <<r, u>> \in raced => <<r, u>> \in raced'
      BY <2>3, <2>5 DEF Race
    <3> QED BY <1>3, <1>6, <2>5, <3>1, <3>2 DEF Telling, ToldRight
  <2> QED BY <2>4, <2>5
<1> QED BY <1>7, <1>8

\* The end of a connection is broadcast where it is the last one.
LEMMA RemoveTells ==
    ASSUME IInv, Telling, NEW c \in Connections, Remove(c)
    PROVE  Telling'
<1>0. PICK v \in Users : v = UserOf[c]
  OBVIOUS
<1>a. PICK gone : gone = {r \in RoomsHeard(c) : CountedDown(presence[r][v]).status = "offline"}
  OBVIOUS
<1>b. PICK changes : changes = {[user |-> v, room |-> r, status |-> "offline", by |-> c] : r \in gone}
  OBVIOUS
<1>1. /\ presence' = [r \in Rooms |->
                         IF r \in RoomsHeard(c)
                         THEN [presence[r] EXCEPT ![v] = CountedDown(@)] ELSE presence[r]]
      /\ due' = due \cup changes
      /\ raced' = IF Pending(v) \/ Cardinality(gone) > 1
                  THEN raced \cup {<<r, v>> : r \in gone} ELSE raced \ {<<r, v>> : r \in gone}
      /\ doing' = doing /\ told' = told
  BY <1>0, <1>a, <1>b DEF Remove
<1>2. Announcements' = Announcements \cup changes
  BY <1>1 DEF Announcements
<1> SUFFICES ASSUME NEW r \in Rooms, NEW u \in Users PROVE ToldRight(r, u)'
  BY DEF Telling
<1>3. CASE u = v /\ r \in gone
  <2>1. r \in RoomsHeard(c) /\ presence'[r][u].status = "offline"
    BY <1>1, <1>3, <1>a DEF IInv, TypeOK
  <2>2. [user |-> v, room |-> r, status |-> "offline", by |-> c] \in changes
    BY <1>3, <1>b
  <2>3. CASE Pending(v)
    BY <1>1, <1>3, <2>3 DEF ToldRight
  <2>4. CASE ~Pending(v)
    <3>1. \A change \in Waiting(r, u)' : change \in changes
      BY <1>2, <1>3, <2>4 DEF Waiting, Pending
    <3>2. \A change \in changes : change.status = "offline"
      BY <1>b
    <3>3. Waiting(r, u)' # {}
      BY <1>2, <1>3, <2>2 DEF Waiting
    <3> QED BY <2>1, <3>1, <3>2, <3>3 DEF ToldRight
  <2> QED BY <2>3, <2>4
<1>4. CASE ~(u = v /\ r \in gone)
  <2>1. Waiting(r, u)' = Waiting(r, u)
    <3>1. \A change \in changes : ~(change.user = u /\ change.room = r)
      BY <1>4, <1>b
    <3> QED BY <1>2, <3>1 DEF Waiting
  <2>2. <<r, u>> \in raced => <<r, u>> \in raced'
    BY <1>1, <1>4
  <2>3. CASE u = v /\ r \in RoomsHeard(c)
    <3>1. PICK old : old = presence[r][u]
      OBVIOUS
    <3>2. old # Absent /\ old \in Presences /\ CountedDown(old).status # "offline"
      BY <1>0, <1>4, <1>a, <2>3, <3>1 DEF RoomsHeard, IInv, TypeOK
    <3>3. presence'[r][u] = CountedDown(old)
      BY <1>1, <2>3, <3>1 DEF IInv, TypeOK
    <3>4. CountedDown(old).status = old.status
      BY <3>2 DEF CountedDown, Presences
    <3> QED BY <1>1, <2>1, <2>2, <3>1, <3>2, <3>3, <3>4, SameStory DEF Telling
  <2>4. CASE ~(u = v /\ r \in RoomsHeard(c))
    <3>1. presence'[r][u] = presence[r][u]
      BY <1>1, <2>4 DEF IInv, TypeOK
    <3> QED BY <1>1, <2>1, <2>2, <3>1 DEF Telling, ToldRight
  <2> QED BY <2>3, <2>4
<1> QED BY <1>3, <1>4

\* Every step.
LEMMA TellingNext == IInv /\ Telling /\ [Next]_vars => Telling'
<1> SUFFICES ASSUME IInv, Telling, [Next]_vars PROVE Telling'
  OBVIOUS
<1>1. ASSUME NEW u \in Users, NEW r \in Rooms, UnsubscribeUser(r, u) PROVE Telling'
  BY <1>1, UnsubscribeUserTells
<1>2. ASSUME NEW c \in Connections, Remove(c) \/ MarkOnline(c) \/ AnnounceOnline(c) PROVE Telling'
  BY <1>2, RemoveTells, MarkOnlineTells, AnnounceOnlineTells
<1>3. ASSUME NEW change \in due, AnnounceOffline(change) PROVE Telling'
  BY <1>3, AnnounceOfflineTells
<1>4. ASSUME \/ \E u \in Users, r \in Rooms : Join(u, r) \/ Leave(u, r)
             \/ \E c \in Connections, r \in Rooms : Unsubscribe(c, r)
             \/ \E c \in Connections : Connect(c)
             \/ UNCHANGED vars
      PROVE  Telling'
  <2>1. UNCHANGED <<presence, told, raced, due, doing>>
    BY <1>4 DEF Join, Leave, Connect, Unsubscribe, vars
  <2>2. Announcements' = Announcements
    BY <2>1 DEF Announcements
  <2> QED BY <2>1, <2>2, QuietStep
<1>5. ASSUME NEW c \in Connections, Subscribe(c) PROVE Telling'
  BY <1>5, SubscribeTells
<1>6. ASSUME NEW c \in Connections, NEW r \in Rooms, Check(c, r) PROVE Telling'
  BY <1>6, SubscribeTells
<1> QED BY <1>1, <1>2, <1>3, <1>4, <1>5, <1>6 DEF Next

\* When no broadcast is under way, a room was last told the present status, unless
\* two changes raced or one went to another room, for any number of users, rooms
\* and connections (markOnline, remove, broadcastRoomPresence).
THEOREM RoomsAreTold == Spec => []Announced
<1>1. Init => Telling
  BY DEF Init, Telling, ToldRight
<1>2. Telling => Announced
  BY DEF Telling, ToldRight, Announced, Waiting, Pending
<1> QED BY <1>1, <1>2, TellingNext, Invariance, PTL DEF Spec
=============================================================================
