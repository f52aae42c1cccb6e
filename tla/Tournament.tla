----------------------------- MODULE Tournament -----------------------------
(***************************************************************************)
(* The services over the database.  A request loads what it needs, checks  *)
(* it in memory, and writes later, with no lock in between: other requests *)
(* run between its two steps.  The statements of one step run in one       *)
(* database transaction.  A request that fails a check writes nothing and  *)
(* is no step of this specification.                                       *)
(*                                                                         *)
(* The specification follows one game; no statement of the code touches    *)
(* the rows of another.                                                    *)
(***************************************************************************)
EXTENDS Schema, Seating, Sequences

CONSTANTS
    Requests,      \* requests that can be in flight at a time
    Settings,      \* the sizes a client may ask for
    Statuses,      \* the statuses a client may ask for, "" to leave it as it is
    Operations,    \* the operations clients use
    MaxSetups      \* bound on the number of table assignments

ASSUME SettingsAssumption ==
    Settings \subseteq [teamSize : Size, tableSize : Size, numberOfRounds : Size]

ASSUME StatusesAssumption == Statuses \subseteq Status \union {""}

VARIABLES
    db,            \* the committed rows
    request,       \* what each request in flight has loaded and will write
    serial         \* the id sequences: they never go back

vars == <<db, request, serial>>

Idle == [op |-> "none"]

Init == /\ db = NoRows
        /\ request = [r \in Requests |-> Idle]
        /\ serial = [game |-> FALSE, teams |-> {}, players |-> {}, setups |-> 0]

\* A request has loaded its rows and passed its checks.
Begin(r, todo) == /\ request[r] = Idle
                  /\ todo.op \in Operations
                  /\ request' = [request EXCEPT ![r] = todo]
                  /\ UNCHANGED <<db, serial>>

\* The last write of a request leaves the rows d.
Commit(r, d) == /\ db' = d
                /\ request' = [request EXCEPT ![r] = Idle]

InFlight(r, op) == request[r].op = op

-----------------------------------------------------------------------------
(***************************************************************************)
(* Games.                                                                  *)
(***************************************************************************)
CreateGame(u) ==
    /\ "CreateGame" \in Operations
    /\ ~ serial.game
    /\ serial' = [serial EXCEPT !.game = TRUE]
    /\ \E s \in Settings :
           db' = [NoRows EXCEPT !.owners = {u},
                                !.game = [status         |-> "setup",
                                          teamSize       |-> s.teamSize,
                                          tableSize      |-> s.tableSize,
                                          numberOfRounds |-> s.numberOfRounds]]
    /\ UNCHANGED request

\* The teams that have players, with their players.
TeamsMap(d) == [t \in {TeamOf[p] : p \in d.players} |-> Members(d, t)]

\* Mutant: the rounds are not counted.
StartableWithoutRounds(d, row) ==
    IsAssignable(TeamsMap(d), row.teamSize, row.tableSize)

\* What UpdateGame asks of a game that is to start.
Startable(d, row) ==
    /\ Cardinality(d.rounds) = row.numberOfRounds
    /\ IsAssignable(TeamsMap(d), row.teamSize, row.tableSize)

\* Mutant: one score too few is enough.
TwoScoresMissing(d, row) ==
    \E p \in d.players :
        Cardinality({s \in d.scores : s.player = p}) < row.numberOfRounds - 1

GameIncompleteScoresMissing(d, row) ==
    \E p \in d.players :
        Cardinality({s \in d.scores : s.player = p}) < row.numberOfRounds

\* A PUT carries all sizes, and a status or none.
BeginUpdateGame(r, u) ==
    \E s \in Settings, status \in Statuses :
        LET row == [status         |-> IF status = "" THEN db.game.status ELSE status,
                    teamSize       |-> s.teamSize,
                    tableSize      |-> s.tableSize,
                    numberOfRounds |-> s.numberOfRounds]
        IN  /\ u \in db.owners
            /\ status = "in_progress" => Startable(db, row)
            /\ status = "completed" => ~ GameIncompleteScoresMissing(db, row)
            /\ Begin(r, [op |-> "UpdateGame", user |-> u, snap |-> db, row |-> row])

CommitUpdateGame(r) ==
    /\ InFlight(r, "UpdateGame")
    /\ CanSaveGame(db, request[r].snap)
    /\ Commit(r, SaveGame(db, request[r].snap, request[r].row))
    /\ UNCHANGED serial

BeginDeleteGame(r, u) ==
    /\ u \in db.owners
    /\ Begin(r, [op |-> "DeleteGame", user |-> u])

CommitDeleteGame(r) ==
    /\ InFlight(r, "DeleteGame")
    /\ Commit(r, NoRows)
    /\ UNCHANGED serial

(***************************************************************************)
(* Table assignment: the handler checks the loaded game, then one          *)
(* transaction deletes the rounds that are there, computes a seating for   *)
(* every round of the loaded game, which checks its teams, and inserts the *)
(* new ones.  With a negative number of rounds there is nothing to check.  *)
(***************************************************************************)
CanAssign(d, game) ==
    /\ Cardinality(d.teams) >= game.tableSize
    /\ game.numberOfRounds > 0 => IsAssignable(TeamsMap(d), game.teamSize, game.tableSize)

\* Mutant: the game's status is not checked.
BeginSetupAnyGame(r, u) ==
    /\ u \in db.owners
    /\ CanAssign(db, db.game)
    /\ Begin(r, [op |-> "SetupGame", user |-> u,
                 game |-> db.game, players |-> db.players])

BeginSetupGame(r, u) ==
    /\ u \in db.owners
    /\ db.game.status = "setup"
    /\ CanAssign(db, db.game)
    /\ Begin(r, [op |-> "SetupGame", user |-> u,
                 game |-> db.game, players |-> db.players])

\* What AssignTables can return for the loaded teams.
Seatings(players, tableSize) ==
    {f \in [players -> 1 .. GoQuo(Cardinality(players), tableSize)] :
        IsSeating(f, players, TeamOf, tableSize)}

NewRounds(setup, n) == {[setup |-> setup, number |-> i] : i \in 1 .. n}

\* Mutant: the last round stays empty.
SeatsOfAllButLast(setup, n, players, seating) ==
    {[setup |-> setup, number |-> i, table |-> seating[i][p], player |-> p] :
        i \in 1 .. n - 1, p \in players}

NewSeats(setup, n, players, seating) ==
    {[setup |-> setup, number |-> i, table |-> seating[i][p], player |-> p] :
        i \in 1 .. n, p \in players}

AssignTables(d, setup, n, players, seating) ==
    [ResetGameTables(d) EXCEPT
        !.rounds = @ \union NewRounds(setup, n),
        !.seats  = @ \union NewSeats(setup, n, players, seating)]

\* The new rows need the game and the loaded players.
CommitSetupGame(r) ==
    LET players == request[r].players
        n       == request[r].game.numberOfRounds
        setup   == serial.setups + 1
    IN  /\ InFlight(r, "SetupGame")
        /\ setup <= MaxSetups
        /\ db.game # NoGame
        /\ players \subseteq db.players
        /\ serial' = [serial EXCEPT !.setups = setup]
        /\ \E seating \in [1 .. n -> Seatings(players, request[r].game.tableSize)] :
               Commit(r, AssignTables(db, setup, n, players, seating))

-----------------------------------------------------------------------------
(***************************************************************************)
(* Owners.                                                                 *)
(***************************************************************************)
BeginAddOwner(r, u) ==
    \E target \in Users \ db.owners :
        /\ u \in db.owners
        /\ Begin(r, [op |-> "AddOwner", user |-> u, target |-> target])

\* The insert needs the game, and fails on an owner that is there by now.
CommitAddOwner(r) ==
    /\ InFlight(r, "AddOwner")
    /\ db.game # NoGame
    /\ request[r].target \notin db.owners
    /\ Commit(r, [db EXCEPT !.owners = @ \union {request[r].target}])
    /\ UNCHANGED serial

\* Mutant: off by one in the number of owners.
BeginRemoveAnyOwner(r, u) ==
    \E target \in db.owners :
        /\ u \in db.owners
        /\ Cardinality(db.owners) >= 1
        /\ Begin(r, [op |-> "RemoveOwner", user |-> u, target |-> target])

BeginRemoveOwner(r, u) ==
    \E target \in db.owners :
        /\ u \in db.owners
        /\ Cardinality(db.owners) > 1
        /\ Begin(r, [op |-> "RemoveOwner", user |-> u, target |-> target])

CommitRemoveOwner(r) ==
    /\ InFlight(r, "RemoveOwner")
    /\ Commit(r, [db EXCEPT !.owners = @ \ {request[r].target}])
    /\ UNCHANGED serial

-----------------------------------------------------------------------------
(***************************************************************************)
(* Teams and players.                                                      *)
(***************************************************************************)
BeginCreateTeam(r, u) ==
    \E n \in 0 .. db.game.teamSize :
        Begin(r, [op |-> "CreateTeam", user |-> u, players |-> n])

CommitCreateTeam(r) ==
    /\ InFlight(r, "CreateTeam")
    /\ db.game # NoGame
    /\ \E t \in TeamIds \ serial.teams :
       \E ps \in SUBSET {p \in PlayerIds \ serial.players : TeamOf[p] = t} :
           /\ Cardinality(ps) = request[r].players
           /\ serial' = [serial EXCEPT !.teams = @ \union {t}, !.players = @ \union ps]
           /\ Commit(r, [db EXCEPT !.teams = @ \union {t}, !.players = @ \union ps])

BeginUpdateTeam(r, u) ==
    \E t \in db.teams :
        Begin(r, [op |-> "UpdateTeam", user |-> u, team |-> t, players |-> Members(db, t),
                  scores |-> {s \in db.scores : TeamOf[s.player] = t}])

CommitUpdateTeam(r) ==
    /\ InFlight(r, "UpdateTeam")
    /\ LET me == request[r]
       IN  /\ CanSaveTeam(db, me.team, me.players, me.scores)
           /\ Commit(r, SaveTeam(db, me.team, me.players, me.scores))
    /\ UNCHANGED serial

BeginDeleteTeam(r, u) ==
    \E t \in db.teams :
        Begin(r, [op |-> "DeleteTeam", user |-> u, team |-> t])

CommitDeleteTeam(r) ==
    /\ InFlight(r, "DeleteTeam")
    /\ Commit(r, RemoveTeam(db, request[r].team))
    /\ UNCHANGED serial

BeginCreatePlayer(r, u) ==
    \E t \in db.teams :
        Begin(r, [op |-> "CreatePlayer", user |-> u, team |-> t])

CommitCreatePlayer(r) ==
    /\ InFlight(r, "CreatePlayer")
    /\ request[r].team \in db.teams
    /\ \E p \in PlayerIds \ serial.players :
           /\ TeamOf[p] = request[r].team
           /\ serial' = [serial EXCEPT !.players = @ \union {p}]
           /\ Commit(r, [db EXCEPT !.players = @ \union {p}])

BeginUpdatePlayer(r, u) ==
    \E p \in db.players :
        Begin(r, [op |-> "UpdatePlayer", user |-> u, player |-> p,
                  game |-> db.game, owners |-> db.owners])

CommitUpdatePlayer(r) ==
    /\ InFlight(r, "UpdatePlayer")
    /\ Commit(r, SavePlayer(db, request[r].player, request[r].game, request[r].owners))
    /\ UNCHANGED serial

BeginDeletePlayer(r, u) ==
    \E p \in db.players :
        Begin(r, [op |-> "DeletePlayer", user |-> u, player |-> p])

CommitDeletePlayer(r) ==
    /\ InFlight(r, "DeletePlayer")
    /\ Commit(r, RemovePlayers(db, {request[r].player}))
    /\ UNCHANGED serial

\* Mutant: anybody may change the teams of a game that has an owner.
BeginAnyRoster(r, u) ==
    /\ db.owners # {}
    /\ \/ BeginCreateTeam(r, u)   \/ BeginUpdateTeam(r, u)   \/ BeginDeleteTeam(r, u)
       \/ BeginCreatePlayer(r, u) \/ BeginUpdatePlayer(r, u) \/ BeginDeletePlayer(r, u)

\* Every one of them is refused to a user who does not own the game.
BeginRoster(r, u) ==
    /\ u \in db.owners
    /\ \/ BeginCreateTeam(r, u)   \/ BeginUpdateTeam(r, u)   \/ BeginDeleteTeam(r, u)
       \/ BeginCreatePlayer(r, u) \/ BeginUpdatePlayer(r, u) \/ BeginDeletePlayer(r, u)

-----------------------------------------------------------------------------
(***************************************************************************)
(* Scores: as many as the table has players, each for a seated player, in  *)
(* the order of the request, which may name a player twice.  Every score   *)
(* is saved in a transaction of its own.                                   *)
(***************************************************************************)
BeginUpdateScores(r, u) ==
    \E s \in db.seats :
        LET places == {q \in db.seats : RoundOf(q) = RoundOf(s) /\ q.table = s.table}
        IN  \E todo \in [1 .. Cardinality(places) -> places] :
                /\ u \in db.owners
                /\ Begin(r, [op |-> "UpdateScores", user |-> u, todo |-> todo,
                             existing |-> places \intersect db.scores])

\* A score row the request loaded is updated, or inserted again if it is gone
\* by now; one it did not load is inserted, which fails if it is there by now.
SaveScore(r) ==
    LET me    == request[r]
        score == Head(me.todo)
    IN  /\ InFlight(r, "UpdateScores")
        /\ RoundOf(score) \in db.rounds
        /\ score.player \in db.players
        /\ score \in db.scores => score \in me.existing
        /\ db' = [db EXCEPT !.scores = @ \union {score}]
        /\ request' = [request EXCEPT ![r] = IF Len(me.todo) = 1 THEN Idle
                                             ELSE [me EXCEPT !.todo = Tail(@)]]
        /\ UNCHANGED serial

-----------------------------------------------------------------------------
(***************************************************************************)
(* A statement can fail at any time: a constraint, a deadlock of two       *)
(* transactions, a cancelled request, a process that is killed.  Its       *)
(* transaction is rolled back and the request writes nothing more.         *)
(***************************************************************************)
Fail(r) == /\ request[r] # Idle
           /\ request' = [request EXCEPT ![r] = Idle]
           /\ UNCHANGED <<db, serial>>

Next ==
    \/ \E u \in Users : CreateGame(u)
    \/ \E r \in Requests, u \in Users :
           \/ BeginUpdateGame(r, u) \/ BeginDeleteGame(r, u) \/ BeginSetupGame(r, u)
           \/ BeginAddOwner(r, u)   \/ BeginRemoveOwner(r, u)
           \/ BeginRoster(r, u)     \/ BeginUpdateScores(r, u)
    \/ \E r \in Requests :
           \/ CommitUpdateGame(r)   \/ CommitDeleteGame(r)   \/ CommitSetupGame(r)
           \/ CommitAddOwner(r)     \/ CommitRemoveOwner(r)
           \/ CommitCreateTeam(r)   \/ CommitUpdateTeam(r)   \/ CommitDeleteTeam(r)
           \/ CommitCreatePlayer(r) \/ CommitUpdatePlayer(r) \/ CommitDeletePlayer(r)
           \/ SaveScore(r)          \/ Fail(r)

Spec == Init /\ [][Next]_vars
-----------------------------------------------------------------------------
\* The requests in flight, with what each carries from its load to its write.
Loaded ==
    [op : {"UpdateGame"}, user : Users, snap : Database, row : Game]
      \union
    [op : {"DeleteGame"}, user : Users]
      \union
    [op : {"SetupGame"}, user : Users, game : Game, players : SUBSET PlayerIds]
      \union
    [op : {"AddOwner", "RemoveOwner"}, user : Users, target : Users]
      \union
    [op : {"CreateTeam"}, user : Users, players : Nat]
      \union
    [op : {"DeleteTeam", "CreatePlayer"}, user : Users, team : TeamIds]
      \union
    [op : {"UpdateTeam"}, user : Users, team : TeamIds,
     players : SUBSET PlayerIds, scores : SUBSET Seat]
      \union
    [op : {"UpdatePlayer"}, user : Users, player : PlayerIds,
     game : Game, owners : SUBSET Users]
      \union
    [op : {"DeletePlayer"}, user : Users, player : PlayerIds]
      \union
    [op : {"UpdateScores"}, user : Users, todo : Seq(Seat) \ {<<>>},
     existing : SUBSET Seat]

\* What was loaded together fits together.
LoadedConsistently(m) ==
    /\ m.op = "UpdateGame" => Consistent(m.snap)
    /\ m.op = "UpdateTeam" => /\ \A p \in m.players : TeamOf[p] = m.team
                              /\ \A s \in m.scores : s.player \in m.players

TypeOK ==
    /\ db \in Database
    /\ Consistent(db)
    /\ request \in [Requests -> Loaded \union {Idle}]
    /\ \A r \in Requests : LoadedConsistently(request[r])
    /\ serial \in [game : BOOLEAN, teams : SUBSET TeamIds,
                   players : SUBSET PlayerIds, setups : Nat]

(***************************************************************************)
(* "no two players of the same team at one table"                          *)
(* (assign_tables_test.go:168), in the stored tables, whatever requests    *)
(* have run concurrently: stale saves add seats back, table assignments    *)
(* replace them, and no mix of the two seats teammates together.           *)
(***************************************************************************)
NoTeammatesAtTable ==
    \A s, q \in db.seats :
        s.number = q.number /\ s.table = q.table /\ s.player # q.player =>
            TeamOf[s.player] # TeamOf[q.player]

(***************************************************************************)
(* "all players must be assigned exactly once" (assign_tables_test.go:175):*)
(* no player has two places in a round, even when seats of an earlier      *)
(* assignment are saved again (game/repository.go:54).                     *)
(***************************************************************************)
OnePlacePerRound ==
    \A s, q \in db.seats : s.number = q.number /\ s.player = q.player => s = q

(***************************************************************************)
(* "Game setup complete; tables assigned for all rounds"                   *)
(* (openapi.yaml:199): the stored rounds are 1 to n, all of one            *)
(* assignment.  No failure, race of two assignments or stale save leaves a *)
(* part of one or a mix of two.                                            *)
(***************************************************************************)
SetupIsWhole ==
    /\ \A r, q \in db.rounds : r.setup = q.setup
    /\ {r.number : r \in db.rounds} = 1 .. Cardinality(db.rounds)

(***************************************************************************)
(* Every round seats the same players: deletions and revivals of players   *)
(* take and give back their places in all rounds or in none.               *)
(***************************************************************************)
SeatedIn(r) == {s.player : s \in {s \in db.seats : RoundOf(s) = r}}

RoundsSeatTheSamePlayers == \A r, q \in db.rounds : SeatedIn(r) = SeatedIn(q)

(***************************************************************************)
(* AssignTables tries one shuffle after the other until everybody has a    *)
(* seat, in the transaction of the setup request (assign_tables.go:48,     *)
(* game/service.go:173): a setup that was accepted has a seating to find.  *)
(* The checks only compare numbers; that they suffice for teams of any     *)
(* size, tables of any size and teams without players is what is stated.   *)
(***************************************************************************)
SetupCanSucceed ==
    \A r \in Requests :
        InFlight(r, "SetupGame") /\ request[r].game.numberOfRounds > 0 =>
            Seatings(request[r].players, request[r].game.tableSize) # {}

(***************************************************************************)
(* "cannot remove the last owner" (apperror/error.go:18): a game without   *)
(* an owner could not be read, changed or deleted by anybody.              *)
(***************************************************************************)
EveryGameHasOwner == db.game # NoGame => db.owners # {}

(***************************************************************************)
(* "no score row may be written for a player not seated at the table"      *)
(* (scores_test.go:122).                                                   *)
(***************************************************************************)
ScoresAreSeated == db.scores \subseteq db.seats

(***************************************************************************)
(* "Game is not in setup state" (game_setup_test.go:35): the tables of a   *)
(* game that has started are not assigned anew, so its scores are not      *)
(* erased; a score goes only with its player or with the game.             *)
(***************************************************************************)
StartedGameKeepsScores ==
    [][db.game.status \in {"in_progress", "completed"} /\ db'.game # NoGame =>
           \A s \in db.scores : s.player \in db'.players => s \in db'.scores]_vars

(***************************************************************************)
(* A game becomes in_progress only with as many rounds as it is said to    *)
(* have, and with complete teams, enough of them for a table               *)
(* (game/service.go:79-88).  Without players it starts only when the size  *)
(* asked for is negative, which nobody refuses (games_handler.go:187).     *)
(***************************************************************************)
StartsPlayable ==
    [][db.game.status # "in_progress" /\ db'.game.status = "in_progress" =>
           /\ db'.rounds # {}
           /\ {r.number : r \in db'.rounds} = 1 .. db'.game.numberOfRounds
           /\ \A p \in db'.players :
                  Cardinality(Members(db', TeamOf[p])) = db'.game.teamSize
           /\ IF db'.players = {} THEN db'.game.teamSize < 0
              ELSE Cardinality({TeamOf[p] : p \in db'.players}) >= db'.game.tableSize]_vars

(***************************************************************************)
(* A game becomes completed only when every player of it has a score in    *)
(* as many different rounds as the game is said to have by then            *)
(* (game/service.go:90-94); a negative number asks for no score.           *)
(***************************************************************************)
CompletesScored ==
    [][db.game.status # "completed" /\ db'.game.status = "completed" =>
           \A p \in db'.players :
               Cardinality({RoundOf(s) : s \in {s \in db'.scores : s.player = p}})
                   >= db'.game.numberOfRounds]_vars

(***************************************************************************)
(* "Should fail to update game status to completed if scores incomplete"   *)
(* (games_test.go:147): when a game becomes completed, everybody at a      *)
(* table of it has a score there.                                          *)
(***************************************************************************)
CompletesEveryTable ==
    [][db.game.status # "completed" /\ db'.game.status = "completed" =>
           db'.seats \subseteq db'.scores]_vars

(***************************************************************************)
(* "Game deleted", "Team deleted", "Player deleted" (openapi.yaml:179,     *)
(* :358, :448): what was deleted does not come back.  Ids are never used   *)
(* again, so a row that appears has an id that was not there before.       *)
(***************************************************************************)
DeletedStaysDeleted ==
    [][/\ serial.game /\ db.game = NoGame => db'.game = NoGame
       /\ (db'.teams \ db.teams) \intersect serial.teams = {}
       /\ (db'.players \ db.players) \intersect serial.players = {}]_vars

(***************************************************************************)
(* Whoever changes a row of a game owns the game at that moment: every     *)
(* operation checks the owners of the game it changes (game/service.go:41, *)
(* player/service.go:35, :54, table/repository.go:30).                     *)
(***************************************************************************)
OnlyOwnersWrite ==
    [][db # NoRows /\ db' # db =>
           \E r \in Requests : /\ request'[r] # request[r]
                               /\ request[r].user \in db.owners]_vars

(***************************************************************************)
(* The game as its users see it, from its creation to its deletion, where  *)
(* the documents call every operation one step: "Game created" to "Game    *)
(* deleted" (openapi.yaml:91, :179).  Cascades take a player out of all    *)
(* rounds, an assignment seats everybody and erases the scores of the last *)
(* one, no change of status disturbs what is stored, and a deleted game is *)
(* gone for good.  It holds of requests that do not overlap.               *)
(***************************************************************************)
Phase == IF db.game = NoGame /\ serial.game THEN "deleted" ELSE db.game.status

\* The number of a column of the game; 0 when there is no game.
Column(name) == IF db.game = NoGame THEN 0 ELSE db.game[name]

Rules == INSTANCE GameRules
         WITH phase    <- Phase,
              teamSize <- Column("teamSize"),
              rounds   <- Column("numberOfRounds"),
              owners   <- db.owners,
              players  <- db.players,
              assigned <- db.rounds # {},
              seats    <- db.seats,
              scores   <- db.scores

FollowsTheRules == Rules!Spec
=============================================================================
