------------------------------ MODULE GameStore ------------------------------
(***************************************************************************)
(* One stored game and the requests of /api/games that load, check, change *)
(* and save it: backend/internal/api/server.go on                          *)
(* backend/internal/storage/storage.go.                                    *)
(*                                                                         *)
(* A game is the sequence of its recorded actions, and its version is      *)
(* their number; a snapshot is the sequence up to the action it was taken  *)
(* for.  No lock is held from the load to the save: what a request read    *)
(* first may be old when it writes.  A transaction's first select reads    *)
(* the committed rows, its writes are one step under the lock of the game  *)
(* row.                                                                    *)
(***************************************************************************)
EXTENDS Integers, Sequences

CONSTANTS Requests,  \* the requests that change the game
          MaxActions \* bound on the recorded actions

ASSUME MaxActionsAssumption == MaxActions \in Nat

VARIABLES game,      \* games.snapshot
          actions,   \* the rows of actions, by seq
          snapshots, \* the rows of snapshots, by seq from 0
          request,   \* what each request is doing
          replay     \* a reader of the whole replay

\* History: a request has saved what it had loaded before another one saved.
VARIABLE overlapped

vars == <<game, actions, snapshots, request, replay, overlapped>>

\* saw is the version the client sent with the action.
Action(type, by, saw) == [type |-> type, by |-> by, saw |-> saw]
Actions == [type : {"post", "deal", "set", "play", "settle"}, by : Requests \cup {"server"}, saw : -1..MaxActions]

Prefix(s, n) == SubSeq(s, 1, n)

NotSent == [step |-> "new"]
NotRead == [step |-> "new"]

\* What the server adds to an action: a street, the settlement, or a street that
\* is dealt when nobody can act any more and then settled.
Tails(by) == {<<>>, <<Action("deal", by, -1)>>, <<Action("settle", by, -1)>>,
              <<Action("deal", by, -1), Action("settle", by, -1)>>}

\* game.New with random or with chosen cards: the forced bets are recorded and,
\* when they put everybody all in, settled.
NewGames == LET post == Action("post", "server", -1)
                deal == Action("deal", "server", -1)
                settle == Action("settle", "server", -1)
            IN  {<<post>>, <<deal, post>>, <<post, deal, settle>>, <<deal, post, deal, settle>>}

\* Save
Init == /\ game \in NewGames
        /\ actions = game
        /\ snapshots = [seq \in 0..Len(game) |-> IF seq = 0 THEN game ELSE Prefix(game, seq)]
        /\ request = [r \in Requests |-> NotSent]
        /\ replay = NotRead
        /\ overlapped = FALSE

-----------------------------------------------------------------------------
\* What a request makes of the game it has loaded.

Finished(g) == \E i \in DOMAIN g : g[i].type = "settle"
DebugLocked(g) == \E i \in DOMAIN g : g[i].type = "play"

\* Apply records the action and the street or the settlement that follows it.
AfterPlay(g, r, saw) ==
    IF Finished(g) THEN {}
    ELSE {Append(g, Action("play", r, saw)) \o tail : tail \in Tails(r)}

\* SetDebugCards
AfterSet(g, r, saw) ==
    IF Finished(g) \/ DebugLocked(g) THEN {} ELSE {Append(g, Action("set", r, saw))}

\* The game after which the replay starts.
InitialSnapshot(g, loaded) == IF g[Len(g)].type = "set" THEN g ELSE loaded

-----------------------------------------------------------------------------
\* submitAction and debugCards

\* Load reads the game ...
Load(r) ==
    /\ request[r].step = "new"
    /\ request' = [request EXCEPT ![r] = [step |-> "loaded", game |-> game]]
    /\ UNCHANGED <<game, actions, snapshots, replay, overlapped>>

\* Mutant of VersionMatches: the version is not compared.
AnyVersion(saw, g) == saw <= Len(g)

VersionMatches(saw, g) == saw = Len(g)

\* ... and the initial snapshot; then the version is compared and the change made.
Change(r) ==
    /\ request[r].step = "loaded"
    /\ \E saw \in 0..MaxActions :
           /\ VersionMatches(saw, request[r].game)
           /\ \E g \in AfterPlay(request[r].game, r, saw) \cup AfterSet(request[r].game, r, saw) :
                  /\ Len(g) <= MaxActions
                  /\ request' = [request EXCEPT ![r] =
                         [step |-> "changed", loaded |-> Len(request[r].game), game |-> g,
                          initial |-> InitialSnapshot(g, snapshots[0])]]
    /\ UNCHANGED <<game, actions, snapshots, replay, overlapped>>

\* saveGameInTx: the snapshots of the actions that were loaded, which the loaded
\* game does not carry, are read ...
ReadSnapshots(r) ==
    /\ request[r].step = "changed"
    /\ request' = [request EXCEPT ![r] =
           [step |-> "saving", loaded |-> @.loaded, game |-> @.game,
            initial |-> @.initial, old |-> snapshots]]
    /\ UNCHANGED <<game, actions, snapshots, replay, overlapped>>

\* Mutant of SnapshotRow: every action gets the snapshot of the saved game.
SnapshotOfSave(save, seq) == save.game

\* An action's own snapshot, the stored one of its number, or the saved game.
SnapshotRow(save, seq) ==
    IF seq = 0 THEN save.initial
    ELSE IF seq > save.loaded THEN Prefix(save.game, seq)
    ELSE IF seq \in DOMAIN save.old THEN save.old[seq]
    ELSE save.game

\* Mutant of ActionRows: rows of the table that have no successor stay.
KeptRows(g) == IF Len(actions) > Len(g) THEN g \o SubSeq(actions, Len(g) + 1, Len(actions)) ELSE g

ActionRows(g) == g

\* ... and the game, its actions and its snapshots are written anew.
Write(r) ==
    /\ request[r].step = "saving"
    /\ game' = request[r].game
    /\ actions' = ActionRows(request[r].game)
    /\ snapshots' = [seq \in 0..Len(request[r].game) |-> SnapshotRow(request[r], seq)]
    /\ request' = [request EXCEPT ![r] = [step |-> "done"]]
    /\ overlapped' = (overlapped \/ game # Prefix(request[r].game, request[r].loaded))
    /\ UNCHANGED replay

\* The version differs, Apply refuses, the database fails or the server stops:
\* nothing is saved.
GiveUp(r) ==
    /\ request[r].step \in {"loaded", "changed", "saving"}
    /\ request' = [request EXCEPT ![r] = [step |-> "done"]]
    /\ UNCHANGED <<game, actions, snapshots, replay, overlapped>>

-----------------------------------------------------------------------------
\* History, and SnapshotAt for each of its actions (FormalHandReplay).

ReadHistory ==
    /\ replay.step = "new"
    /\ replay' = [step |-> "reading", actions |-> actions, steps |-> <<snapshots[0]>>]
    /\ UNCHANGED <<game, actions, snapshots, request, overlapped>>

\* SnapshotAt refuses a number beyond the last action.
ReadStep ==
    /\ replay.step = "reading"
    /\ Len(replay.steps) <= Len(replay.actions)
    /\ Len(replay.steps) \in DOMAIN actions
    /\ replay' = [step |-> "reading", actions |-> replay.actions,
                   steps |-> Append(replay.steps, snapshots[Len(replay.steps)])]
    /\ UNCHANGED <<game, actions, snapshots, request, overlapped>>

\* The replay is shown, or refused; another may be read.
EndReplay ==
    /\ replay.step = "reading"
    /\ Len(replay.steps) > Len(replay.actions) \/ Len(replay.steps) \notin DOMAIN actions
    /\ replay' = NotRead
    /\ UNCHANGED <<game, actions, snapshots, request, overlapped>>

Next == \/ \E r \in Requests : Load(r) \/ Change(r) \/ ReadSnapshots(r) \/ Write(r) \/ GiveUp(r)
        \/ ReadHistory \/ ReadStep \/ EndReplay

Spec == Init /\ [][Next]_vars

-----------------------------------------------------------------------------
\* Properties

IsPrefixOf(s, t) == Len(s) <= Len(t) /\ s = Prefix(t, Len(s))

TypeOK ==
    /\ game \in Seq(Actions)
    /\ actions \in Seq(Actions)
    /\ snapshots \in [0..Len(actions) -> Seq(Actions)]
    /\ DOMAIN request = Requests
    /\ \A r \in Requests : request[r].step \in {"new", "loaded", "changed", "saving", "done"}
    /\ replay.step \in {"new", "reading"}
    /\ overlapped \in BOOLEAN

\* Whatever requests overlap, the tables agree with the game: its actions are the
\* rows, and replaying to the last one gives the game (saveGameInTx).
TablesAgree ==
    /\ actions = game
    /\ Len(game) > 0 => snapshots[Len(game)] = game

\* Whatever requests overlap, a stored game holds no two actions that were sent
\* with the same version: a click sent again counts once (submitAction).
OncePerVersion ==
    \A i, j \in DOMAIN game : game[i].saw >= 0 /\ game[i].saw = game[j].saw => i = j

\* The lengths of g at which no player has acted yet and the next action, if any,
\* is a player's.
Dealt(g) == {n \in 0..Len(g) : /\ \A i \in 1..n : g[i].type # "play"
                               /\ n < Len(g) => g[n + 1].type = "play"}

\* If no request has saved over another one, every replay step shows the game at
\* its action, and the replay starts where the players do (Save, SnapshotAt,
\* InitialSnapshotJSON).
ReplayFaithful ==
    ~overlapped =>
        /\ \A seq \in 1..Len(game) : snapshots[seq] = Prefix(game, seq)
        /\ Len(snapshots[0]) \in Dealt(game) /\ IsPrefixOf(snapshots[0], game)

\* If no request has saved over another one, a replay that is read while actions
\* are saved is a replay of one game.
ReplayOfOneGame ==
    ~overlapped /\ replay.step = "reading" =>
        \A seq \in 2..Len(replay.steps) : replay.steps[seq] = Prefix(replay.actions, seq - 1)
=============================================================================
