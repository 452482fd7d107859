--------------------------- MODULE GameStoreProofs ---------------------------
(***************************************************************************)
(* Proofs about GameStore: whatever requests overlap, the tables agree and *)
(* a version is used once; and if none has saved over another one, the     *)
(* stored snapshots are the game's own, for any number of requests and     *)
(* actions.                                                                *)
(***************************************************************************)
EXTENDS GameStore, SequenceTheorems, TLAPS

USE MaxActionsAssumption

-----------------------------------------------------------------------------
(* Sequences and their prefixes.                                           *)

\* What a prefix is.
LEMMA PrefixProperties ==
    ASSUME NEW S, NEW s \in Seq(S), NEW n \in 0..Len(s)
    PROVE  /\ Prefix(s, n) \in Seq(S)
           /\ Len(Prefix(s, n)) = n
           /\ \A i \in 1..n : Prefix(s, n)[i] = s[i]
<1>1. \A i \in 1..n : s[i] \in S
  BY ElementOfSeq, LenProperties
<1>2. n \in Int /\ n - 1 + 1 = n /\ (1 <= n \/ n = 0)
  BY LenProperties
<1> QED BY <1>1, <1>2, SubSeqProperties DEF Prefix

\* A sequence is its longest prefix.
LEMMA PrefixFull ==
    ASSUME NEW S, NEW s \in Seq(S)
    PROVE  Prefix(s, Len(s)) = s
BY SubSeqFull DEF Prefix

\* The prefix of a prefix.
LEMMA PrefixOfPrefix ==
    ASSUME NEW S, NEW s \in Seq(S), NEW n \in 0..Len(s), NEW k \in 0..n
    PROVE  Prefix(Prefix(s, n), k) = Prefix(s, k)
<1>1. k \in 0..Len(s) /\ k \in Nat /\ n \in Nat /\ Len(s) \in Nat
  BY LenProperties
<1>2. /\ Prefix(s, n) \in Seq(S) /\ Len(Prefix(s, n)) = n
      /\ \A i \in 1..n : Prefix(s, n)[i] = s[i]
  BY PrefixProperties
<1>3. /\ Prefix(s, k) \in Seq(S) /\ Len(Prefix(s, k)) = k
      /\ \A i \in 1..k : Prefix(s, k)[i] = s[i]
  BY <1>1, PrefixProperties
<1> DEFINE t == Prefix(s, n)
<1>4. /\ Prefix(t, k) \in Seq(S) /\ Len(Prefix(t, k)) = k
      /\ \A i \in 1..k : Prefix(t, k)[i] = t[i]
  <2> HIDE DEF t
  <2>1. t \in Seq(S) /\ k \in 0..Len(t)
    BY <1>2 DEF t
  <2> QED BY <2>1, PrefixProperties
<1>5. \A i \in 1..k : Prefix(t, k)[i] = Prefix(s, k)[i]
  BY <1>1, <1>2, <1>3, <1>4
<1> QED BY <1>3, <1>4, <1>5, SeqEqual

\* Sequences of which one begins the other have the same short prefixes.
LEMMA SamePrefix ==
    ASSUME NEW S, NEW s \in Seq(S), NEW t \in Seq(S), IsPrefixOf(s, t), NEW k \in 0..Len(s)
    PROVE  Prefix(s, k) = Prefix(t, k)
<1>1. Len(s) \in 0..Len(t) /\ s = Prefix(t, Len(s))
  BY LenProperties DEF IsPrefixOf
<1> QED BY <1>1, PrefixOfPrefix

\* To begin a sequence is transitive.
LEMMA PrefixTransitive ==
    ASSUME NEW S, NEW s \in Seq(S), NEW t \in Seq(S), NEW u \in Seq(S),
           IsPrefixOf(s, t), IsPrefixOf(t, u)
    PROVE  IsPrefixOf(s, u)
<1>1. Len(s) \in Nat /\ Len(t) \in Nat /\ Len(u) \in Nat /\ Len(s) <= Len(t) /\ Len(t) <= Len(u)
  BY LenProperties DEF IsPrefixOf
<1>2. s = Prefix(t, Len(s)) /\ Len(s) \in 0..Len(t)
  BY <1>1 DEF IsPrefixOf
<1> QED BY <1>1, <1>2, SamePrefix DEF IsPrefixOf

-----------------------------------------------------------------------------
(* What a request makes of the game.                                       *)

(* An action that a client sent stands at the version it was sent with.    *)
Good(g) == g \in Seq(Actions) /\ \A i \in 1..Len(g) : g[i].saw \in {-1, i - 1}

\* The actions are what the constructor says.
LEMMA ActionTyped ==
    ASSUME NEW r \in Requests \cup {"server"}, NEW saw \in -1..MaxActions,
           NEW type \in {"post", "deal", "set", "play", "settle"}
    PROVE  /\ Action(type, r, saw) \in Actions
           /\ Action(type, r, saw).saw = saw /\ Action(type, r, saw).type = type
BY DEF Action, Actions

\* What follows a player's action is the server's.
LEMMA TailTyped ==
    ASSUME NEW r \in Requests \cup {"server"}, NEW tail \in Tails(r)
    PROVE  /\ tail \in Seq(Actions)
           /\ \A i \in 1..Len(tail) : tail[i].saw = -1 /\ tail[i].type \in {"deal", "settle"}
<1>1. -1 \in -1..MaxActions
  OBVIOUS
<1>2. \A type \in {"deal", "settle"} :
          /\ Action(type, r, -1) \in Actions
          /\ Action(type, r, -1).saw = -1 /\ Action(type, r, -1).type = type
  BY <1>1, ActionTyped
<1> DEFINE a == Action("deal", r, -1)
           b == Action("settle", r, -1)
<1>3. /\ a \in Actions /\ a.saw = -1 /\ a.type = "deal"
      /\ b \in Actions /\ b.saw = -1 /\ b.type = "settle"
  BY <1>2
<1>4. tail \in {<<>>, <<a>>, <<b>>, <<a, b>>}
  BY DEF Tails
<1> HIDE DEF a, b
<1>5. CASE tail = <<>>
  BY <1>5, EmptySeq
<1>6. CASE tail = <<a>>
  <2>1. Len(tail) = 1 /\ tail[1] = a /\ tail \in Seq(Actions)
    BY <1>3, <1>6
  <2> QED BY <1>3, <2>1
<1>7. CASE tail = <<b>>
  <2>1. Len(tail) = 1 /\ tail[1] = b /\ tail \in Seq(Actions)
    BY <1>3, <1>7
  <2> QED BY <1>3, <2>1
<1>8. CASE tail = <<a, b>>
  <2>1. Len(tail) = 2 /\ tail[1] = a /\ tail[2] = b /\ tail \in Seq(Actions)
    BY <1>3, <1>8
  <2> QED BY <1>3, <2>1
<1> QED BY <1>4, <1>5, <1>6, <1>7, <1>8

\* A changed game continues the loaded one; after SetDebugCards no player has
\* acted, and otherwise a player's action comes first.
LEMMA ChangedGame ==
    ASSUME NEW g \in Seq(Actions), Good(g), NEW r \in Requests, Len(g) \in 0..MaxActions,
           NEW h \in AfterPlay(g, r, Len(g)) \cup AfterSet(g, r, Len(g))
    PROVE  /\ Good(h) /\ Len(g) < Len(h) /\ Prefix(h, Len(g)) = g
           /\ h[Len(h)].type = "set" => \A i \in 1..Len(h) : h[i].type # "play"
           /\ h[Len(h)].type # "set" => h[Len(g) + 1].type = "play"
<1>1. Len(g) \in Nat /\ Len(g) \in -1..MaxActions
  BY LenProperties
<1>2. ASSUME NEW type \in {"set", "play"}, NEW tail \in Seq(Actions),
             \A i \in 1..Len(tail) : tail[i].saw = -1 /\ tail[i].type \in {"deal", "settle"},
             h = Append(g, Action(type, r, Len(g))) \o tail
      PROVE  /\ Good(h) /\ Len(h) = Len(g) + 1 + Len(tail) /\ Len(tail) \in Nat
             /\ Prefix(h, Len(g)) = g
             /\ \A i \in 1..Len(g) : h[i] = g[i]
             /\ h[Len(g) + 1].type = type
             /\ \A i \in Len(g) + 2..Len(h) : h[i].type \in {"deal", "settle"}
  <2> DEFINE a == Action(type, r, Len(g))
             m == Append(g, a)
  <2>1. a \in Actions /\ a.saw = Len(g) /\ a.type = type
    BY <1>1, <1>2, ActionTyped
  <2> HIDE DEF a
  <2>2. /\ m \in Seq(Actions) /\ Len(m) = Len(g) + 1
        /\ \A i \in 1..Len(g) : m[i] = g[i]
        /\ m[Len(g) + 1] = a
    BY <2>1, AppendProperties
  <2> HIDE DEF m
  <2>3. Len(tail) \in Nat
    BY LenProperties
  <2>4. /\ h \in Seq(Actions) /\ Len(h) = Len(m) + Len(tail)
        /\ \A i \in 1..Len(m) + Len(tail) : h[i] = IF i <= Len(m) THEN m[i] ELSE tail[i - Len(m)]
    <3>1. h = m \o tail
      BY <1>2 DEF m, a
    <3>2. /\ m \o tail \in Seq(Actions) /\ Len(m \o tail) = Len(m) + Len(tail)
          /\ \A i \in 1..Len(m) + Len(tail) :
                 (m \o tail)[i] = IF i <= Len(m) THEN m[i] ELSE tail[i - Len(m)]
      BY <2>2, ConcatProperties, Zenon
    <3> QED BY <3>1, <3>2, Zenon
  <2>5. \A i \in 1..Len(g) : h[i] = g[i]
    BY <1>1, <2>2, <2>3, <2>4
  <2>6. h[Len(g) + 1] = a
    BY <1>1, <2>2, <2>3, <2>4
  <2>7. \A i \in Len(g) + 2..Len(h) : i - Len(m) \in 1..Len(tail) /\ h[i] = tail[i - Len(m)]
    BY <1>1, <2>2, <2>3, <2>4
  <2>8. \A i \in Len(g) + 2..Len(h) : h[i].saw = -1 /\ h[i].type \in {"deal", "settle"}
    BY <1>2, <2>7
  <2>9. Good(h)
    <3> SUFFICES ASSUME NEW i \in 1..Len(h) PROVE h[i].saw \in {-1, i - 1}
      BY <2>4 DEF Good
    <3>1. i \in 1..Len(g) \/ i = Len(g) + 1 \/ i \in Len(g) + 2..Len(h)
      BY <1>1, <2>2, <2>3, <2>4
    <3>2. CASE i \in 1..Len(g)
      BY <2>5, <3>2 DEF Good
    <3>3. CASE i = Len(g) + 1
      BY <1>1, <2>1, <2>6, <3>3
    <3>4. CASE i \in Len(g) + 2..Len(h)
      BY <2>8, <3>4
    <3> QED BY <3>1, <3>2, <3>3, <3>4
  <2>10. Prefix(h, Len(g)) = g
    <3>1. Len(g) \in 0..Len(h)
      BY <1>1, <2>2, <2>3, <2>4
    <3>2. /\ Prefix(h, Len(g)) \in Seq(Actions) /\ Len(Prefix(h, Len(g))) = Len(g)
          /\ \A i \in 1..Len(g) : Prefix(h, Len(g))[i] = g[i]
      BY <2>4, <2>5, <3>1, PrefixProperties
    <3> QED BY <3>2, SeqEqual
  <2> QED BY <2>1, <2>2, <2>3, <2>4, <2>5, <2>6, <2>8, <2>9, <2>10
<1>3. CASE h \in AfterPlay(g, r, Len(g))
  <2>1. PICK tail \in Tails(r) : h = Append(g, Action("play", r, Len(g))) \o tail
    BY <1>3 DEF AfterPlay
  <2>2. tail \in Seq(Actions) /\ \A i \in 1..Len(tail) : tail[i].saw = -1 /\ tail[i].type \in {"deal", "settle"}
    BY TailTyped
  <2>3. /\ Good(h) /\ Len(h) = Len(g) + 1 + Len(tail) /\ Len(tail) \in Nat
        /\ Prefix(h, Len(g)) = g
        /\ h[Len(g) + 1].type = "play"
        /\ \A i \in Len(g) + 2..Len(h) : h[i].type \in {"deal", "settle"}
    BY <1>2, <2>1, <2>2
  <2>4. h[Len(h)].type # "set"
    <3>1. Len(h) = Len(g) + 1 \/ Len(h) \in Len(g) + 2..Len(h)
      BY <1>1, <2>3
    <3> QED BY <2>3, <3>1
  <2> QED BY <1>1, <2>3, <2>4
<1>4. CASE h \in AfterSet(g, r, Len(g))
  <2>1. h = Append(g, Action("set", r, Len(g))) /\ ~DebugLocked(g)
    BY <1>4 DEF AfterSet
  <2>2. Action("set", r, Len(g)) \in Actions
    BY <1>1, ActionTyped
  <2>3. h = Append(g, Action("set", r, Len(g))) \o <<>>
    BY <2>1, <2>2, AppendProperties, ConcatEmptySeq
  <2>4. /\ <<>> \in Seq(Actions) /\ Len(<<>>) = 0
        /\ \A i \in 1..Len(<<>>) : <<>>[i].saw = -1 /\ <<>>[i].type \in {"deal", "settle"}
    BY EmptySeq
  <2>5. /\ Good(h) /\ Len(h) = Len(g) + 1
        /\ Prefix(h, Len(g)) = g
        /\ \A i \in 1..Len(g) : h[i] = g[i]
        /\ h[Len(g) + 1].type = "set"
    <3>1. /\ Good(h) /\ Len(h) = Len(g) + 1 + Len(<<>>)
          /\ Prefix(h, Len(g)) = g
          /\ \A i \in 1..Len(g) : h[i] = g[i]
          /\ h[Len(g) + 1].type = "set"
      BY <1>2, <2>3, <2>4
    <3> QED BY <1>1, <2>4, <3>1
  <2>6. \A i \in 1..Len(g) : g[i].type # "play"
    BY <2>1, LenProperties DEF DebugLocked
  <2>7. \A i \in 1..Len(h) : h[i].type # "play"
    BY <1>1, <2>5, <2>6
  <2> QED BY <1>1, <2>5, <2>7
<1> QED BY <1>3, <1>4

-----------------------------------------------------------------------------
(* The inductive invariant.                                                *)

\* A request carries a game that continues the one it has loaded.
RequestGood(q) ==
    /\ q.step = "loaded" => Good(q.game)
    /\ q.step \in {"changed", "saving"} =>
           /\ Good(q.game) /\ q.loaded \in Nat /\ q.loaded < Len(q.game)
           /\ q.initial \in Seq(Actions)
    /\ q.step = "saving" => \A seq \in DOMAIN q.old : q.old[seq] \in Seq(Actions)

(* What holds whatever requests overlap.                                   *)
Stored ==
    /\ TypeOK /\ TablesAgree /\ Good(game)
    /\ \A r \in Requests : RequestGood(request[r])

\* A replay of g may start with s: no player has acted, and one acts next.
StartsReplay(s, g) == Len(s) \in Dealt(g) /\ IsPrefixOf(s, g)

(* What else holds while no request has saved over another one.  What a    *)
(* request has read is a part of the stored game; and if it has read all   *)
(* of it, its replay starts where the players of its game do.              *)
RequestFollows(q) ==
    /\ q.step = "loaded" => IsPrefixOf(q.game, game)
    /\ q.step \in {"changed", "saving"} =>
           /\ q.loaded <= Len(game) /\ Prefix(q.game, q.loaded) = Prefix(game, q.loaded)
           /\ q.loaded = Len(game) => StartsReplay(q.initial, q.game)
    /\ q.step = "saving" =>
           \A seq \in 1..q.loaded : seq \in DOMAIN q.old /\ q.old[seq] = Prefix(game, seq)

SnapshotsFollow ==
    /\ \A seq \in 1..Len(game) : snapshots[seq] = Prefix(game, seq)
    /\ StartsReplay(snapshots[0], game)

ReplayFollows ==
    replay.step = "reading" =>
        /\ replay.actions \in Seq(Actions) /\ IsPrefixOf(replay.actions, game)
        /\ replay.steps \in Seq(Seq(Actions)) /\ Len(replay.steps) >= 1
        /\ \A seq \in 2..Len(replay.steps) : replay.steps[seq] = Prefix(replay.actions, seq - 1)

Followed ==
    ~overlapped => /\ SnapshotsFollow /\ ReplayFollows
                   /\ \A r \in Requests : RequestFollows(request[r])

IInv == Stored /\ Followed

-----------------------------------------------------------------------------
(* A save.                                                                 *)

\* The row of the last action is the saved game, every row is typed.
LEMMA SavedRows ==
    ASSUME NEW q, q.step = "saving", RequestGood(q)
    PROVE  /\ \A seq \in 0..Len(q.game) : SnapshotRow(q, seq) \in Seq(Actions)
           /\ SnapshotRow(q, Len(q.game)) = q.game
           /\ Len(q.game) \in Nat
<1>1. /\ q.game \in Seq(Actions) /\ q.loaded \in Nat /\ q.loaded < Len(q.game)
      /\ q.initial \in Seq(Actions) /\ Len(q.game) \in Nat
      /\ \A seq \in DOMAIN q.old : q.old[seq] \in Seq(Actions)
  BY LenProperties DEF RequestGood, Good
<1>2. \A seq \in 0..Len(q.game) : Prefix(q.game, seq) \in Seq(Actions)
  BY <1>1, PrefixProperties
<1>3. Prefix(q.game, Len(q.game)) = q.game
  BY <1>1, PrefixFull
<1> QED BY <1>1, <1>2, <1>3 DEF SnapshotRow

\* A save leaves tables that agree.
LEMMA WriteStored ==
    ASSUME IInv, NEW r \in Requests, Write(r)
    PROVE  Stored'
<1> DEFINE q == request[r]
<1>1. /\ q.step = "saving" /\ RequestGood(q)
      /\ game' = q.game /\ actions' = q.game
      /\ snapshots' = [seq \in 0..Len(q.game) |-> SnapshotRow(q, seq)]
      /\ request' = [request EXCEPT ![r] = [step |-> "done"]]
      /\ overlapped' \in BOOLEAN /\ replay' = replay
  BY DEF Write, ActionRows, IInv, Stored, TypeOK
<1>2. Good(q.game) /\ Len(q.game) > 0 /\ Len(q.game) \in Nat
  BY <1>1, SavedRows DEF RequestGood
<1>3. Good(game')
  BY <1>1, <1>2 DEF Good
<1>4. snapshots' \in [0..Len(actions') -> Seq(Actions)] /\ snapshots'[Len(game')] = game'
  BY <1>1, <1>2, SavedRows
<1>5. \A t \in Requests : RequestGood(request'[t])
                          /\ request'[t].step \in {"new", "loaded", "changed", "saving", "done"}
  <2> SUFFICES ASSUME NEW t \in Requests
               PROVE  /\ RequestGood(request'[t])
                      /\ request'[t].step \in {"new", "loaded", "changed", "saving", "done"}
    OBVIOUS
  <2>1. CASE t = r
    <3>1. request'[t] = [step |-> "done"]
      BY <1>1, <2>1 DEF IInv, Stored, TypeOK
    <3> QED BY <3>1 DEF RequestGood
  <2>2. CASE t # r
    <3>1. request'[t] = request[t]
      BY <1>1, <2>2 DEF IInv, Stored, TypeOK
    <3> QED BY <3>1 DEF IInv, Stored, TypeOK
  <2> QED BY <2>1, <2>2
<1>6. TypeOK'
  <2>1. game' \in Seq(Actions) /\ actions' \in Seq(Actions)
    BY <1>1, <1>2 DEF Good
  <2>2. DOMAIN request' = Requests
    BY <1>1 DEF IInv, Stored, TypeOK
  <2> HIDE DEF q
  <2> QED BY <1>1, <1>4, <1>5, <2>1, <2>2 DEF TypeOK, IInv, Stored
<1>7. TablesAgree'
  BY <1>1, <1>4 DEF TablesAgree
<1> QED BY <1>3, <1>5, <1>6, <1>7 DEF Stored

\* A save over the game that was loaded leaves the snapshots of the saved game,
\* and all that was read is a part of it.
LEMMA WriteFollowed ==
    ASSUME IInv, NEW r \in Requests, Write(r)
    PROVE  Followed'
<1> SUFFICES ASSUME ~overlapped'
             PROVE  /\ SnapshotsFollow' /\ ReplayFollows'
                    /\ \A t \in Requests : RequestFollows(request[t])'
  BY DEF Followed
<1>0. PICK q : q = request[r]
  OBVIOUS
<1>1. /\ q.step = "saving" /\ RequestGood(q) /\ RequestFollows(q)
      /\ game' = q.game
      /\ snapshots' = [seq \in 0..Len(q.game) |-> SnapshotRow(q, seq)]
      /\ request' = [request EXCEPT ![r] = [step |-> "done"]]
      /\ replay' = replay /\ ~overlapped
      /\ game = Prefix(q.game, q.loaded)
  BY <1>0 DEF Write, IInv, Stored, Followed
<1>2. /\ q.game \in Seq(Actions) /\ game \in Seq(Actions)
      /\ q.loaded \in Nat /\ q.loaded < Len(q.game) /\ Len(q.game) \in Nat
  BY <1>1, LenProperties DEF RequestGood, Good, IInv, Stored, TypeOK
<1>3. q.loaded = Len(game) /\ Len(game) \in Nat
  BY <1>1, <1>2, PrefixProperties
<1>4. IsPrefixOf(game, q.game)
  BY <1>1, <1>2, <1>3 DEF IsPrefixOf
<1>5. SnapshotsFollow'
  <2>1. ASSUME NEW seq \in 1..Len(q.game) PROVE SnapshotRow(q, seq) = Prefix(q.game, seq)
    <3>1. CASE seq > q.loaded
      BY <1>2, <3>1 DEF SnapshotRow
    <3>2. CASE seq <= q.loaded
      <4>1. seq \in 1..q.loaded /\ seq \in 0..Len(game)
        BY <1>2, <1>3, <3>2
      <4>2. SnapshotRow(q, seq) = Prefix(game, seq)
        BY <1>1, <1>2, <3>2, <4>1 DEF SnapshotRow, RequestFollows
      <4> QED BY <1>2, <1>4, <4>1, <4>2, SamePrefix
    <3> QED BY <1>2, <3>1, <3>2
  <2>2. \A seq \in 1..Len(game') : snapshots'[seq] = Prefix(game', seq)
    BY <1>1, <1>2, <2>1
  <2>3. snapshots'[0] = q.initial
    BY <1>1, <1>2 DEF SnapshotRow
  <2>4. StartsReplay(q.initial, q.game)
    BY <1>1, <1>3 DEF RequestFollows
  <2> QED BY <1>1, <2>2, <2>3, <2>4 DEF SnapshotsFollow
<1>6. ReplayFollows'
  BY <1>1, <1>2, <1>4, PrefixTransitive DEF ReplayFollows, IInv, Followed
<1>7. ASSUME NEW t \in Requests PROVE RequestFollows(request[t])'
  <2>1. CASE t = r
    <3>1. request'[t].step = "done"
      BY <1>1, <2>1 DEF IInv, Stored, TypeOK
    <3> QED BY <3>1 DEF RequestFollows
  <2>2. CASE t # r
    <3>0. PICK p : p = request[t]
      OBVIOUS
    <3>1. request'[t] = p /\ RequestGood(p) /\ RequestFollows(p)
      BY <1>1, <2>2, <3>0 DEF IInv, Stored, TypeOK, Followed
    <3>2. p.step = "loaded" => IsPrefixOf(p.game, game')
      BY <1>1, <1>2, <1>4, <3>1, PrefixTransitive DEF RequestFollows, RequestGood, Good
    <3>3. ASSUME p.step \in {"changed", "saving"}
          PROVE  /\ p.loaded <= Len(game') /\ Prefix(p.game, p.loaded) = Prefix(game', p.loaded)
                 /\ p.loaded # Len(game')
      <4>1. p.loaded \in 0..Len(game) /\ Prefix(p.game, p.loaded) = Prefix(game, p.loaded)
        BY <1>3, <3>1, <3>3 DEF RequestFollows, RequestGood
      <4>2. Prefix(game, p.loaded) = Prefix(q.game, p.loaded)
        BY <1>2, <1>4, <4>1, SamePrefix
      <4> QED BY <1>1, <1>2, <1>3, <4>1, <4>2
    <3>4. ASSUME p.step = "saving", NEW seq \in 1..p.loaded
          PROVE  seq \in DOMAIN p.old /\ p.old[seq] = Prefix(game', seq)
      <4>1. seq \in DOMAIN p.old /\ p.old[seq] = Prefix(game, seq) /\ p.loaded \in 0..Len(game)
        BY <1>3, <3>1, <3>4 DEF RequestFollows, RequestGood
      <4>2. seq \in 0..Len(game)
        BY <1>3, <4>1
      <4>3. Prefix(game, seq) = Prefix(q.game, seq)
        BY <1>2, <1>4, <4>2, SamePrefix
      <4> QED BY <1>1, <4>1, <4>3
    <3> QED BY <3>1, <3>2, <3>3, <3>4 DEF RequestFollows
  <2> QED BY <2>1, <2>2
<1> QED BY <1>5, <1>6, <1>7

-----------------------------------------------------------------------------
(* The other steps.                                                        *)

\* A step of a request that writes nothing.
LEMMA RequestStep ==
    ASSUME IInv, NEW r \in Requests, NEW p,
           request' = [request EXCEPT ![r] = p],
           UNCHANGED <<game, actions, snapshots, replay, overlapped>>,
           p.step \in {"new", "loaded", "changed", "saving", "done"},
           RequestGood(p), ~overlapped => RequestFollows(p)
    PROVE  IInv'
<1>1. \A t \in Requests : request'[t] = IF t = r THEN p ELSE request[t]
  BY DEF IInv, Stored, TypeOK
<1>2. DOMAIN request' = Requests
  BY DEF IInv, Stored, TypeOK
<1>3. \A t \in Requests : /\ request'[t].step \in {"new", "loaded", "changed", "saving", "done"}
                          /\ RequestGood(request'[t])
  BY <1>1 DEF IInv, Stored, TypeOK
<1>4. Stored'
  <2>1. TypeOK'
    BY <1>2, <1>3 DEF IInv, Stored, TypeOK
  <2> QED BY <1>3, <2>1 DEF IInv, Stored, TablesAgree, Good
<1>5. Followed'
  <2> SUFFICES ASSUME ~overlapped' PROVE SnapshotsFollow' /\ ReplayFollows'
                                         /\ \A t \in Requests : RequestFollows(request[t])'
    BY DEF Followed
  <2>1. SnapshotsFollow /\ ReplayFollows /\ \A t \in Requests : RequestFollows(request[t])
    BY DEF IInv, Followed
  <2>2. SnapshotsFollow' /\ ReplayFollows'
    BY <2>1 DEF SnapshotsFollow, ReplayFollows
  <2>3. ASSUME NEW t \in Requests PROVE RequestFollows(request[t])'
    <3>1. RequestFollows(request'[t])
      BY <1>1, <2>1
    <3> QED BY <3>1 DEF RequestFollows
  <2> QED BY <2>2, <2>3
<1> QED BY <1>4, <1>5 DEF IInv

\* A request reads the game.
LEMMA LoadKeeps ==
    ASSUME IInv, NEW r \in Requests, Load(r)
    PROVE  IInv'
<1>1. PICK p : p = [step |-> "loaded", game |-> game]
  OBVIOUS
<1>2. IsPrefixOf(game, game)
  <2>1. game \in Seq(Actions) /\ Len(game) \in Nat
    BY LenProperties DEF IInv, Stored, TypeOK
  <2> QED BY <2>1, PrefixFull DEF IsPrefixOf
<1>3. request' = [request EXCEPT ![r] = p]
      /\ UNCHANGED <<game, actions, snapshots, replay, overlapped>>
  BY <1>1 DEF Load
<1>4. RequestGood(p) /\ RequestFollows(p)
  BY <1>1, <1>2 DEF RequestGood, RequestFollows, IInv, Stored
<1> QED BY <1>1, <1>3, <1>4, RequestStep

\* A request makes its change: if it has loaded the whole stored game, a replay
\* of the changed one starts where its players do.
LEMMA ChangeKeeps ==
    ASSUME IInv, NEW r \in Requests, Change(r)
    PROVE  IInv'
<1>0. PICK g : g = request[r].game
  OBVIOUS
<1>1. /\ request[r].step = "loaded" /\ Good(g) /\ g \in Seq(Actions)
      /\ UNCHANGED <<game, actions, snapshots, replay, overlapped>>
  BY <1>0 DEF Change, IInv, Stored, RequestGood, Good
<1>2. Len(g) \in Nat
  BY <1>1, LenProperties
<1>a. PICK start : start = snapshots[0]
  OBVIOUS
<1>b. \E saw \in 0..MaxActions :
          /\ saw = Len(g)
          /\ \E h \in AfterPlay(g, r, saw) \cup AfterSet(g, r, saw) :
                 request' = [request EXCEPT ![r] = [step |-> "changed", loaded |-> Len(g), game |-> h,
                                                   initial |-> InitialSnapshot(h, start)]]
  BY <1>0, <1>a DEF Change, VersionMatches
<1>c. Len(g) \in 0..MaxActions
  BY <1>b
<1>3. PICK h \in AfterPlay(g, r, Len(g)) \cup AfterSet(g, r, Len(g)) :
          request' = [request EXCEPT ![r] = [step |-> "changed", loaded |-> Len(g), game |-> h,
                                            initial |-> InitialSnapshot(h, start)]]
  BY <1>b
<1>4. /\ Good(h) /\ h \in Seq(Actions) /\ Len(g) < Len(h) /\ Prefix(h, Len(g)) = g
      /\ h[Len(h)].type = "set" => \A i \in 1..Len(h) : h[i].type # "play"
      /\ h[Len(h)].type # "set" => h[Len(g) + 1].type = "play"
  <2>1. /\ Good(h) /\ Len(g) < Len(h) /\ Prefix(h, Len(g)) = g
        /\ h[Len(h)].type = "set" => \A i \in 1..Len(h) : h[i].type # "play"
        /\ h[Len(h)].type # "set" => h[Len(g) + 1].type = "play"
    BY <1>1, <1>3, <1>c, ChangedGame
  <2> QED BY <2>1 DEF Good
<1>5. Len(h) \in Nat
  BY <1>4, LenProperties
<1>6. start \in Seq(Actions)
  <2>1. 0 \in 0..Len(actions)
    BY LenProperties DEF IInv, Stored, TypeOK
  <2> QED BY <1>a, <2>1 DEF IInv, Stored, TypeOK
<1> DEFINE p == [step |-> "changed", loaded |-> Len(g), game |-> h,
                 initial |-> InitialSnapshot(h, start)]
<1>7. /\ p.step = "changed" /\ p.loaded = Len(g) /\ p.game = h
      /\ p.initial = InitialSnapshot(h, start)
      /\ request' = [request EXCEPT ![r] = p]
  BY <1>3
<1> HIDE DEF p
<1>8. RequestGood(p)
  BY <1>1, <1>2, <1>4, <1>6, <1>7 DEF RequestGood, InitialSnapshot
<1>9. ASSUME ~overlapped PROVE RequestFollows(p)
  <2>1. IsPrefixOf(g, game) /\ game \in Seq(Actions) /\ Len(game) \in Nat
    BY <1>0, <1>1, <1>9, LenProperties DEF IInv, Stored, TypeOK, Followed, RequestFollows
  <2>2. Len(g) <= Len(game) /\ Prefix(game, Len(g)) = g
    BY <2>1 DEF IsPrefixOf
  <2>3. ASSUME Len(g) = Len(game) PROVE StartsReplay(p.initial, h)
    <3>1. g = game
      BY <2>1, <2>2, <2>3, PrefixFull
    <3>2. CASE h[Len(h)].type = "set"
      <4>1. p.initial = h
        BY <1>7, <3>2 DEF InitialSnapshot
      <4>2. Len(h) \in Dealt(h)
        BY <1>4, <1>5, <3>2 DEF Dealt
      <4>3. IsPrefixOf(h, h)
        BY <1>4, <1>5, PrefixFull DEF IsPrefixOf
      <4> QED BY <4>1, <4>2, <4>3 DEF StartsReplay
    <3>3. CASE h[Len(h)].type # "set"
      <4>0. PICK s : s = start
        OBVIOUS
      <4>1. p.initial = s /\ s \in Seq(Actions) /\ Len(s) \in Nat
        BY <1>6, <1>7, <3>3, <4>0, LenProperties DEF InitialSnapshot
      <4>2. Len(s) \in Dealt(g) /\ IsPrefixOf(s, g)
        BY <1>9, <1>a, <3>1, <4>0 DEF IInv, Followed, SnapshotsFollow, StartsReplay
      <4>3. IsPrefixOf(g, h)
        BY <1>2, <1>4, <1>5 DEF IsPrefixOf
      <4>4. \A i \in 1..Len(g) : h[i] = g[i]
        <5>1. PICK n : n = Len(g)
          OBVIOUS
        <5>2. n \in 0..Len(h)
          BY <1>2, <1>4, <1>5, <5>1
        <5>3. \A i \in 1..n : Prefix(h, n)[i] = h[i]
          BY <1>4, <5>2, PrefixProperties
        <5> QED BY <1>4, <5>1, <5>3
      <4>5. Len(s) \in Dealt(h)
        <5>1. Len(s) <= Len(g) /\ \A i \in 1..Len(s) : g[i].type # "play"
          BY <1>2, <4>1, <4>2 DEF Dealt
        <5>2. \A i \in 1..Len(s) : h[i].type # "play"
          BY <1>2, <4>1, <4>4, <5>1
        <5>3. h[Len(s) + 1].type = "play"
          <6>1. CASE Len(s) = Len(g)
            BY <1>4, <3>3, <6>1
          <6>2. CASE Len(s) < Len(g)
            <7>1. g[Len(s) + 1].type = "play" /\ Len(s) + 1 \in 1..Len(g)
              BY <1>2, <4>1, <4>2, <6>2 DEF Dealt
            <7> QED BY <4>4, <7>1
          <6> QED BY <1>2, <4>1, <5>1, <6>1, <6>2
        <5> QED BY <1>2, <1>4, <1>5, <4>1, <5>1, <5>2, <5>3 DEF Dealt
      <4> QED BY <1>1, <1>4, <4>1, <4>2, <4>3, <4>5, PrefixTransitive DEF StartsReplay
    <3> QED BY <3>2, <3>3
  <2> QED BY <1>4, <1>7, <2>2, <2>3 DEF RequestFollows
<1> QED BY <1>1, <1>7, <1>8, <1>9, RequestStep

\* A save reads the snapshots it will write again.
LEMMA ReadSnapshotsKeeps ==
    ASSUME IInv, NEW r \in Requests, ReadSnapshots(r)
    PROVE  IInv'
<1>0. PICK q : q = request[r]
  OBVIOUS
<1>1. /\ q.step = "changed" /\ RequestGood(q) /\ (~overlapped => RequestFollows(q))
      /\ UNCHANGED <<game, actions, snapshots, replay, overlapped>>
      /\ request' = [request EXCEPT ![r] = [step |-> "saving", loaded |-> q.loaded, game |-> q.game,
                                            initial |-> q.initial, old |-> snapshots]]
  BY <1>0 DEF ReadSnapshots, IInv, Stored, Followed
<1>a. PICK p : p = [step |-> "saving", loaded |-> q.loaded, game |-> q.game,
                    initial |-> q.initial, old |-> snapshots]
  OBVIOUS
<1>2. /\ p.step = "saving" /\ p.loaded = q.loaded /\ p.game = q.game
      /\ p.initial = q.initial /\ p.old = snapshots
      /\ request' = [request EXCEPT ![r] = p]
  BY <1>1, <1>a
<1>3. /\ DOMAIN snapshots = 0..Len(game) /\ \A seq \in DOMAIN snapshots : snapshots[seq] \in Seq(Actions)
      /\ Len(game) \in Nat
  BY LenProperties DEF IInv, Stored, TypeOK, TablesAgree
<1>4. RequestGood(p)
  BY <1>1, <1>2, <1>3 DEF RequestGood
<1>5. ASSUME ~overlapped PROVE RequestFollows(p)
  <2>1. \A seq \in 1..Len(game) : snapshots[seq] = Prefix(game, seq)
    BY <1>5 DEF IInv, Followed, SnapshotsFollow
  <2>2. q.loaded \in Nat /\ q.loaded <= Len(game)
    BY <1>1, <1>5 DEF RequestGood, RequestFollows
  <2>3. \A seq \in 1..q.loaded : seq \in DOMAIN snapshots /\ snapshots[seq] = Prefix(game, seq)
    BY <1>3, <2>1, <2>2
  <2> QED BY <1>1, <1>2, <1>5, <2>3 DEF RequestFollows
<1> QED BY <1>1, <1>2, <1>4, <1>5, RequestStep

\* A request ends without a save.
LEMMA GiveUpKeeps ==
    ASSUME IInv, NEW r \in Requests, GiveUp(r)
    PROVE  IInv'
<1> DEFINE p == [step |-> "done"]
<1>1. p.step = "done" /\ request' = [request EXCEPT ![r] = p]
      /\ UNCHANGED <<game, actions, snapshots, replay, overlapped>>
  BY DEF GiveUp
<1> HIDE DEF p
<1>2. RequestGood(p) /\ RequestFollows(p)
  BY <1>1 DEF RequestGood, RequestFollows
<1> QED BY <1>1, <1>2, RequestStep

\* A replay is read.
LEMMA ReplayKeeps ==
    ASSUME IInv, ReadHistory \/ ReadStep \/ EndReplay
    PROVE  IInv'
<1>1. UNCHANGED <<game, actions, snapshots, request, overlapped>>
  BY DEF ReadHistory, ReadStep, EndReplay
<1>2. Stored'
  <2>1. replay'.step \in {"new", "reading"}
    BY DEF ReadHistory, ReadStep, EndReplay, NotRead, IInv, Stored, TypeOK
  <2>2. TypeOK'
    BY <1>1, <2>1 DEF IInv, Stored, TypeOK
  <2> QED BY <1>1, <2>2 DEF IInv, Stored, TablesAgree, Good
<1>3. Followed'
  <2> SUFFICES ASSUME ~overlapped' PROVE SnapshotsFollow' /\ ReplayFollows'
                                         /\ \A t \in Requests : RequestFollows(request[t])'
    BY DEF Followed
  <2>1. SnapshotsFollow /\ ReplayFollows /\ \A t \in Requests : RequestFollows(request[t])
    BY <1>1 DEF IInv, Followed
  <2>2. SnapshotsFollow' /\ \A t \in Requests : RequestFollows(request[t])'
    BY <1>1, <2>1 DEF SnapshotsFollow, RequestFollows
  <2>3. /\ game \in Seq(Actions) /\ actions = game /\ Len(game) \in Nat
        /\ snapshots \in [0..Len(game) -> Seq(Actions)]
    BY LenProperties DEF IInv, Stored, TypeOK, TablesAgree
  <2>4. ReplayFollows'
    <3>1. CASE ReadHistory
      <4>1. replay' = [step |-> "reading", actions |-> game, steps |-> <<snapshots[0]>>]
        BY <2>3, <3>1 DEF ReadHistory
      <4>2. IsPrefixOf(game, game)
        BY <2>3, PrefixFull DEF IsPrefixOf
      <4>3. snapshots[0] \in Seq(Actions)
        BY <2>3
      <4>4. Len(<<snapshots[0]>>) = 1 /\ <<snapshots[0]>> \in Seq(Seq(Actions))
        BY <4>3
      <4> QED BY <1>1, <2>3, <4>1, <4>2, <4>4 DEF ReplayFollows
    <3>2. CASE ReadStep
      <4>0. PICK k : k = Len(replay.steps)
        OBVIOUS
      <4>1. /\ replay.step = "reading" /\ k <= Len(replay.actions) /\ k \in DOMAIN actions
            /\ replay' = [step |-> "reading", actions |-> replay.actions,
                           steps |-> Append(replay.steps, snapshots[k])]
        BY <3>2, <4>0 DEF ReadStep
      <4>2. /\ replay.actions \in Seq(Actions) /\ IsPrefixOf(replay.actions, game)
            /\ replay.steps \in Seq(Seq(Actions)) /\ k >= 1
            /\ \A seq \in 2..k : replay.steps[seq] = Prefix(replay.actions, seq - 1)
        BY <2>1, <4>0, <4>1 DEF ReplayFollows
      <4>3. k \in 1..Len(game) /\ k \in Nat
        BY <2>3, <4>1, LenProperties
      <4>4. snapshots[k] \in Seq(Actions) /\ snapshots[k] = Prefix(game, k)
        BY <2>1, <2>3, <4>3 DEF SnapshotsFollow
      <4>5. Prefix(replay.actions, k) = Prefix(game, k)
        <5>1. k \in 0..Len(replay.actions)
          BY <4>1, <4>2, <4>3, LenProperties
        <5> QED BY <2>3, <4>2, <5>1, SamePrefix
      <4>6. replay'.step = "reading" /\ replay'.actions = replay.actions
            /\ replay'.steps = Append(replay.steps, snapshots[k])
        BY <4>1
      <4>7. /\ replay'.steps \in Seq(Seq(Actions)) /\ Len(replay'.steps) = k + 1
            /\ \A i \in 1..k : replay'.steps[i] = replay.steps[i]
            /\ replay'.steps[k + 1] = snapshots[k]
        BY <4>0, <4>2, <4>4, <4>6, AppendProperties
      <4>8. ASSUME NEW seq \in 2..k + 1 PROVE replay'.steps[seq] = Prefix(replay.actions, seq - 1)
        <5>1. CASE seq = k + 1
          BY <4>3, <4>4, <4>5, <4>7, <5>1
        <5>2. CASE seq \in 2..k
          BY <4>2, <4>3, <4>7, <5>2
        <5> QED BY <4>3, <5>1, <5>2
      <4> QED BY <1>1, <4>2, <4>3, <4>6, <4>7, <4>8 DEF ReplayFollows
    <3>3. CASE EndReplay
      BY <3>3 DEF EndReplay, NotRead, ReplayFollows
    <3> QED BY <3>1, <3>2, <3>3
  <2> QED BY <2>2, <2>4
<1> QED BY <1>2, <1>3 DEF IInv

\* The steps of the game's constructor: no player has acted, no client sent them.
LEMMA NewGameTyped ==
    ASSUME NEW g \in NewGames
    PROVE  /\ g \in Seq(Actions) /\ Len(g) > 0
           /\ \A i \in 1..Len(g) : g[i].saw = -1 /\ g[i].type # "play"
<1>1. PICK post : post = Action("post", "server", -1)
  OBVIOUS
<1>2. PICK deal : deal = Action("deal", "server", -1)
  OBVIOUS
<1>3. PICK settle : settle = Action("settle", "server", -1)
  OBVIOUS
<1>4. /\ post \in Actions /\ post.saw = -1 /\ post.type # "play"
      /\ deal \in Actions /\ deal.saw = -1 /\ deal.type # "play"
      /\ settle \in Actions /\ settle.saw = -1 /\ settle.type # "play"
  <2>1. -1 \in -1..MaxActions /\ "server" \in Requests \cup {"server"}
    OBVIOUS
  <2>2. \A type \in {"post", "deal", "settle"} :
            /\ Action(type, "server", -1) \in Actions
            /\ Action(type, "server", -1).saw = -1 /\ Action(type, "server", -1).type = type
    BY <2>1, ActionTyped
  <2> QED BY <1>1, <1>2, <1>3, <2>2
<1>5. g \in {<<post>>, <<deal, post>>, <<post, deal, settle>>, <<deal, post, deal, settle>>}
  BY <1>1, <1>2, <1>3 DEF NewGames
<1>6. CASE g = <<post>>
  <2>1. g \in Seq(Actions) /\ Len(g) = 1 /\ g[1] = post
    BY <1>4, <1>6
  <2> QED BY <1>4, <2>1
<1>7. CASE g = <<deal, post>>
  <2>1. g \in Seq(Actions) /\ Len(g) = 2 /\ g[1] = deal /\ g[2] = post
    BY <1>4, <1>7
  <2> QED BY <1>4, <2>1
<1>8. CASE g = <<post, deal, settle>>
  <2>1. g \in Seq(Actions) /\ Len(g) = 3 /\ g[1] = post /\ g[2] = deal /\ g[3] = settle
    BY <1>4, <1>8
  <2> QED BY <1>4, <2>1
<1>9. CASE g = <<deal, post, deal, settle>>
  <2>1. g \in Seq(Actions) /\ Len(g) = 4 /\ g[1] = deal /\ g[2] = post /\ g[3] = deal /\ g[4] = settle
    BY <1>4, <1>9
  <2> QED BY <1>4, <2>1
<1> QED BY <1>5, <1>6, <1>7, <1>8, <1>9

\* The invariant holds of a new game.
LEMMA InitInvariant == Init => IInv
<1> SUFFICES ASSUME Init PROVE IInv
  OBVIOUS
<1>1. /\ game \in Seq(Actions) /\ Len(game) > 0 /\ Len(game) \in Nat
      /\ \A i \in 1..Len(game) : game[i].saw = -1 /\ game[i].type # "play"
  BY NewGameTyped, LenProperties DEF Init
<1>2. /\ actions = game /\ ~overlapped /\ replay.step = "new"
      /\ \A r \in Requests : request[r].step = "new"
      /\ DOMAIN request = Requests
      /\ snapshots = [seq \in 0..Len(game) |-> IF seq = 0 THEN game ELSE Prefix(game, seq)]
  BY DEF Init, NotRead, NotSent
<1>3. \A seq \in 0..Len(game) : Prefix(game, seq) \in Seq(Actions)
  BY <1>1, PrefixProperties
<1>4. /\ snapshots \in [0..Len(actions) -> Seq(Actions)]
      /\ snapshots[Len(game)] = game /\ snapshots[0] = game
      /\ \A seq \in 1..Len(game) : snapshots[seq] = Prefix(game, seq)
  <2>1. Prefix(game, Len(game)) = game
    BY <1>1, PrefixFull
  <2> QED BY <1>1, <1>2, <1>3, <2>1
<1>5. Stored
  <2>1. overlapped \in BOOLEAN
    BY DEF Init
  <2>2. TypeOK
    BY <1>1, <1>2, <1>4, <2>1 DEF TypeOK
  <2> QED BY <1>1, <1>2, <1>4, <2>2 DEF Stored, TablesAgree, Good, RequestGood
<1>6. Followed
  <2>1. IsPrefixOf(game, game)
    BY <1>1, PrefixFull DEF IsPrefixOf
  <2>2. Len(game) \in Dealt(game)
    BY <1>1 DEF Dealt
  <2>3. SnapshotsFollow
    BY <1>4, <2>1, <2>2 DEF SnapshotsFollow, StartsReplay
  <2>4. ReplayFollows /\ \A r \in Requests : RequestFollows(request[r])
    BY <1>2 DEF ReplayFollows, RequestFollows
  <2> QED BY <2>3, <2>4 DEF Followed
<1> QED BY <1>5, <1>6 DEF IInv

\* Every step keeps the invariant.
LEMMA NextInvariant == IInv /\ [Next]_vars => IInv'
<1> SUFFICES ASSUME IInv, [Next]_vars PROVE IInv'
  OBVIOUS
<1>1. ASSUME NEW r \in Requests, Load(r) PROVE IInv'
  BY <1>1, LoadKeeps
<1>2. ASSUME NEW r \in Requests, Change(r) PROVE IInv'
  BY <1>2, ChangeKeeps
<1>3. ASSUME NEW r \in Requests, ReadSnapshots(r) PROVE IInv'
  BY <1>3, ReadSnapshotsKeeps
<1>4. ASSUME NEW r \in Requests, Write(r) PROVE IInv'
  BY <1>4, WriteStored, WriteFollowed DEF IInv
<1>5. ASSUME NEW r \in Requests, GiveUp(r) PROVE IInv'
  BY <1>5, GiveUpKeeps
<1>6. CASE ReadHistory \/ ReadStep \/ EndReplay
  BY <1>6, ReplayKeeps
<1>7. CASE UNCHANGED vars
  BY <1>7 DEF vars, IInv, Stored, Followed, TypeOK, TablesAgree, Good, RequestGood,
              SnapshotsFollow, ReplayFollows, RequestFollows
<1> QED BY <1>1, <1>2, <1>3, <1>4, <1>5, <1>6, <1>7 DEF Next

-----------------------------------------------------------------------------
(* The theorems.                                                           *)

\* The invariant holds however requests and replays interleave.
THEOREM Invariance == Spec => []IInv
<1>1. Init => IInv
  BY InitInvariant
<1>2. IInv /\ [Next]_vars => IInv'
  BY NextInvariant
<1> QED BY <1>1, <1>2, PTL DEF Spec

\* The stored rows keep their types: one snapshot per number of an action.
THEOREM TypesHold == Spec => []TypeOK
<1>1. IInv => TypeOK
  BY DEF IInv, Stored
<1> QED BY <1>1, Invariance, PTL

\* The rows of the actions and the last snapshot are the game's, whatever
\* saves overlap.
THEOREM TablesAlwaysAgree == Spec => []TablesAgree
<1>1. IInv => TablesAgree
  BY DEF IInv, Stored
<1> QED BY <1>1, Invariance, PTL

\* A game holds at most one action of a version: an action that a client sends
\* twice counts once.
THEOREM VersionsOnce == Spec => []OncePerVersion
<1>1. IInv => OncePerVersion
  <2> SUFFICES ASSUME IInv, NEW i \in DOMAIN game, NEW j \in DOMAIN game,
                      game[i].saw >= 0, game[i].saw = game[j].saw
               PROVE  i = j
    BY DEF OncePerVersion
  <2>1. i \in 1..Len(game) /\ j \in 1..Len(game) /\ Len(game) \in Nat
    BY LenProperties DEF IInv, Stored, TypeOK
  <2>2. game[i].saw \in {-1, i - 1} /\ game[j].saw \in {-1, j - 1}
    BY <2>1 DEF IInv, Stored, Good
  <2> QED BY <2>1, <2>2
<1> QED BY <1>1, Invariance, PTL

\* While no save has overwritten another one, the stored replay shows each
\* action's own game and starts where the players do.
THEOREM ReplaysAreFaithful == Spec => []ReplayFaithful
<1>1. IInv => ReplayFaithful
  BY DEF IInv, Followed, SnapshotsFollow, StartsReplay, ReplayFaithful
<1> QED BY <1>1, Invariance, PTL

\* ... and a replay that is read between saves is a replay of one game.
THEOREM ReplaysAreOfOneGame == Spec => []ReplayOfOneGame
<1>1. IInv => ReplayOfOneGame
  BY DEF IInv, Followed, ReplayFollows, ReplayOfOneGame
<1> QED BY <1>1, Invariance, PTL
=============================================================================
