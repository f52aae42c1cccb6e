------------------------------- MODULE Schema -------------------------------
(***************************************************************************)
(* The rows of one game in the database, and what the statements the       *)
(* repositories send do to them: the cascades of the foreign keys and the  *)
(* upserts of GORM's Save, which writes the whole object graph it is given.*)
(*                                                                         *)
(* A row is named by its primary key.  A round is [setup, number], setup   *)
(* telling the rounds of one table assignment from those of the next.  A   *)
(* table exists with its round, and is named by the round and a number.  A *)
(* player's team is part of its identity: no statement moves a player.     *)
(***************************************************************************)
EXTENDS Integers, FiniteSets

CONSTANTS
    Users,         \* Firebase subjects
    TeamIds,       \* primary keys of teams
    PlayerIds,     \* primary keys of players
    TeamOf         \* the team a player is created in

ASSUME KeysAssumption == /\ TeamIds \subseteq Nat \ {0}
                         /\ TeamOf \in [PlayerIds -> TeamIds]
                         /\ IsFiniteSet(PlayerIds)

Status == {"setup", "in_progress", "completed"}

\* The columns of a games row that the code decides on.  The handlers refuse
\* sizes that are zero, and no others.
Size == Int \ {0}

Game == [status : Status, teamSize : Size, tableSize : Size, numberOfRounds : Size]

NoGame == [status |-> "none"]

Round == [setup : Nat, number : Nat]

\* A row of table_players.  A row of scores has the same key.
Seat == [setup : Nat, number : Nat, table : Nat, player : PlayerIds]

Database == [game : Game \union {NoGame}, owners : SUBSET Users,
             teams : SUBSET TeamIds, players : SUBSET PlayerIds,
             rounds : SUBSET Round, seats : SUBSET Seat, scores : SUBSET Seat]

NoRows == [game |-> NoGame, owners |-> {}, teams |-> {}, players |-> {},
           rounds |-> {}, seats |-> {}, scores |-> {}]

RoundOf(seat) == [setup |-> seat.setup, number |-> seat.number]

Members(d, t) == {p \in d.players : TeamOf[p] = t}

\* The foreign keys and the unique index on (game_id, round_number).
Consistent(d) ==
    /\ d.game = NoGame => d = NoRows
    /\ \A p \in d.players : TeamOf[p] \in d.teams
    /\ \A s \in d.seats \union d.scores : RoundOf(s) \in d.rounds /\ s.player \in d.players
    /\ \A r, q \in d.rounds : r.number = q.number => r = q

-----------------------------------------------------------------------------
(***************************************************************************)
(* DELETE, with ON DELETE CASCADE.                                         *)
(***************************************************************************)
RemovePlayers(d, ps) ==
    [d EXCEPT !.players = @ \ ps,
              !.seats   = {s \in @ : s.player \notin ps},
              !.scores  = {s \in @ : s.player \notin ps}]

\* Mutant: no cascade from a team to its players.
RemoveTeamOnly(d, t) == [d EXCEPT !.teams = @ \ {t}]

RemoveTeam(d, t) == [RemovePlayers(d, Members(d, t)) EXCEPT !.teams = @ \ {t}]

\* Mutants: the scores are kept; the rounds are kept.
ResetKeepingScores(d) == [d EXCEPT !.rounds = {}, !.seats = {}]
ResetKeepingRounds(d) == [d EXCEPT !.seats = {}, !.scores = {}]

ResetGameTables(d) == [d EXCEPT !.rounds = {}, !.seats = {}, !.scores = {}]

-----------------------------------------------------------------------------
(***************************************************************************)
(* GORM's Save.  An association that is loaded in the saved object is      *)
(* inserted again row by row, and a row that is still there is left as it  *)
(* is (ON CONFLICT), so a row that was deleted since the load comes back.  *)
(* The statement order decides which foreign key can fail: Owners, then    *)
(* Teams with Players and their Scores, then Rounds with Tables, Scores    *)
(* and Players.  snap is the database as the object was loaded from it.    *)
(***************************************************************************)
SaveGame(d, snap, row) ==
    [game    |-> row,
     owners  |-> d.owners  \union snap.owners,
     teams   |-> d.teams   \union snap.teams,
     players |-> d.players \union snap.players,
     rounds  |-> d.rounds  \union snap.rounds,
     seats   |-> d.seats   \union snap.seats,
     scores  |-> d.scores  \union snap.scores]

\* Mutant: no unique index on (game_id, round_number).
CanSaveGameWithoutIndex(d, snap) ==
    /\ d.game # NoGame
    /\ \A s \in snap.scores \ d.scores : RoundOf(s) \in d.rounds

\* The owners need the game, a lost score its table, and a lost round its number.
CanSaveGame(d, snap) ==
    /\ d.game # NoGame
    /\ \A s \in snap.scores \ d.scores : RoundOf(s) \in d.rounds
    /\ \A r \in snap.rounds \ d.rounds, q \in d.rounds : r.number # q.number

\* A Team is saved with its Players and their Scores.
SaveTeam(d, t, players, scores) ==
    [d EXCEPT !.teams   = @ \union {t},
              !.players = @ \union players,
              !.scores  = @ \union scores]

\* A deleted team fails its players' key; without players it is inserted anew.
CanSaveTeam(d, t, players, scores) ==
    /\ t \in d.teams \/ (players = {} /\ d.game # NoGame)
    /\ \A s \in scores \ d.scores : RoundOf(s) \in d.rounds

\* A Player is saved with its Team, the team's Game and the game's Owners.
SavePlayer(d, p, game, owners) ==
    [d EXCEPT !.game    = IF @ = NoGame THEN game ELSE @,
              !.owners  = @ \union owners,
              !.teams   = @ \union {TeamOf[p]},
              !.players = @ \union {p}]
=============================================================================
