-------------------------- MODULE TournamentProofs --------------------------
(***************************************************************************)
(* Theorems about the services, for any number of users, teams, players,   *)
(* requests in flight and table assignments.                               *)
(***************************************************************************)
EXTENDS Tournament, Functions, FiniteSetTheorems, TLAPS

(***************************************************************************)
(* A slot of the request table can take any well-typed request.            *)
(***************************************************************************)
LEMMA RequestUpdate ==
    ASSUME NEW r \in Requests, NEW m \in Loaded \union {Idle}, LoadedConsistently(m),
           request \in [Requests -> Loaded \union {Idle}],
           \A q \in Requests : LoadedConsistently(request[q]),
           request' = [request EXCEPT ![r] = m]
    PROVE  /\ request' \in [Requests -> Loaded \union {Idle}]
           /\ \A q \in Requests : LoadedConsistently(request'[q])
  OBVIOUS

(***************************************************************************)
(* Beginning a well-typed request keeps the types.                         *)
(***************************************************************************)
LEMMA BeginType ==
    ASSUME TypeOK, NEW r \in Requests, NEW m \in Loaded, LoadedConsistently(m),
           Begin(r, m)
    PROVE  TypeOK'
  BY RequestUpdate DEF Begin, TypeOK

LEMMA IdleConsistent == LoadedConsistently(Idle)
  BY DEF LoadedConsistently, Idle

(***************************************************************************)
(* Committing consistent rows keeps the types.                             *)
(***************************************************************************)
LEMMA CommitType ==
    ASSUME TypeOK, NEW r \in Requests, NEW d \in Database, Consistent(d),
           Commit(r, d),
           serial' \in [game : BOOLEAN, teams : SUBSET TeamIds,
                        players : SUBSET PlayerIds, setups : Nat]
    PROVE  TypeOK'
  BY RequestUpdate, IdleConsistent DEF Commit, TypeOK

(***************************************************************************)
(* What a request in flight carries, by its operation.                     *)
(***************************************************************************)
LEMMA LoadedFields ==
    ASSUME TypeOK, NEW r \in Requests
    PROVE  /\ InFlight(r, "UpdateGame") =>
                  /\ request[r].snap \in Database
                  /\ request[r].row \in Game
                  /\ Consistent(request[r].snap)
           /\ InFlight(r, "SetupGame") =>
                  /\ request[r].game \in Game
                  /\ request[r].players \subseteq PlayerIds
           /\ InFlight(r, "AddOwner") => request[r].target \in Users
           /\ InFlight(r, "RemoveOwner") => request[r].target \in Users
           /\ InFlight(r, "UpdateTeam") =>
                  /\ request[r].team \in TeamIds
                  /\ request[r].players \subseteq PlayerIds
                  /\ request[r].scores \subseteq Seat
                  /\ \A p \in request[r].players : TeamOf[p] = request[r].team
                  /\ \A s \in request[r].scores : s.player \in request[r].players
           /\ InFlight(r, "UpdatePlayer") =>
                  /\ request[r].player \in PlayerIds
                  /\ request[r].game \in Game
                  /\ request[r].owners \subseteq Users
           /\ InFlight(r, "UpdateScores") => 
                  request[r].todo \in Seq(Seat) \ {<<>>}
  <1>1. request[r] \in Loaded \union {Idle} /\ LoadedConsistently(request[r])
    BY DEF TypeOK
  <1> QED
    BY <1>1 DEF Loaded, Idle, InFlight, LoadedConsistently

-----------------------------------------------------------------------------
(***************************************************************************)
(* The statements lead from consistent rows to consistent rows.            *)
(***************************************************************************)
LEMMA NoRowsType == NoRows \in Database /\ Consistent(NoRows)
  BY DEF NoRows, Database, Consistent

LEMMA EmptyRows ==
    ASSUME NEW d \in Database, d.game = NoGame, d.owners = {}, d.teams = {},
           d.players = {}, d.rounds = {}, d.seats = {}, d.scores = {}
    PROVE  d = NoRows
  BY DEF Database, NoRows

LEMMA DeleteRows ==
    ASSUME NEW d \in Database, Consistent(d)
    PROVE  /\ ResetGameTables(d) \in Database /\ Consistent(ResetGameTables(d))
           /\ \A ps : /\ RemovePlayers(d, ps) \in Database
                      /\ Consistent(RemovePlayers(d, ps))
           /\ \A t : RemoveTeam(d, t) \in Database /\ Consistent(RemoveTeam(d, t))
  <1>1. ResetGameTables(d) \in Database /\ Consistent(ResetGameTables(d))
    <2> DEFINE e == ResetGameTables(d)
    <2>1. e \in Database
      BY DEF ResetGameTables, Database
    <2>2. /\ e.game = d.game /\ e.owners = d.owners
          /\ e.teams = d.teams /\ e.players = d.players
          /\ e.rounds = {} /\ e.seats = {} /\ e.scores = {}
      BY DEF ResetGameTables, Database
    <2> HIDE DEF e
    <2>3. d = NoRows => e = NoRows
      BY <2>1, <2>2, EmptyRows DEF NoRows
    <2>4. Consistent(e)
      BY <2>2, <2>3 DEF Consistent
    <2> QED
      BY <2>1, <2>4 DEF e
  <1>2. ASSUME NEW ps
        PROVE  RemovePlayers(d, ps) \in Database /\ Consistent(RemovePlayers(d, ps))
    <2> DEFINE e == RemovePlayers(d, ps)
    <2>1. e \in Database
      BY DEF RemovePlayers, Database
    <2>2. /\ e.game = d.game /\ e.owners = d.owners
          /\ e.teams = d.teams /\ e.rounds = d.rounds
          /\ e.players = d.players \ ps
          /\ e.seats = {s \in d.seats : s.player \notin ps}
          /\ e.scores = {s \in d.scores : s.player \notin ps}
      BY DEF RemovePlayers, Database
    <2> HIDE DEF e
    <2>3. d = NoRows => e = NoRows
      BY <2>1, <2>2, EmptyRows DEF NoRows
    <2>4. Consistent(e)
      BY <2>2, <2>3 DEF Consistent
    <2> QED
      BY <2>1, <2>4 DEF e
  <1>3. ASSUME NEW t
        PROVE  RemoveTeam(d, t) \in Database /\ Consistent(RemoveTeam(d, t))
    <2> DEFINE e == RemovePlayers(d, Members(d, t))
               f == [e EXCEPT !.teams = @ \ {t}]
    <2>1. e \in Database /\ Consistent(e)
      BY <1>2
    <2>2. e.players = d.players \ Members(d, t)
      BY DEF RemovePlayers, Database
    <2>3. \A p \in e.players : TeamOf[p] # t
      BY <2>2 DEF Members
    <2> HIDE DEF e
    <2>4. f \in Database
      BY <2>1 DEF Database
    <2>5. /\ f.game = e.game /\ f.teams = e.teams \ {t} /\ f.rounds = e.rounds
          /\ f.players = e.players /\ f.seats = e.seats /\ f.scores = e.scores
      BY <2>1 DEF Database
    <2>6. e = NoRows => f = NoRows
      BY DEF NoRows
    <2> HIDE DEF f
    <2>7. Consistent(f)
      BY <2>1, <2>3, <2>5, <2>6 DEF Consistent
    <2> QED
      BY <2>4, <2>7 DEF RemoveTeam, e, f
  <1> QED
    BY <1>1, <1>2, <1>3

LEMMA SaveGameRows ==
    ASSUME NEW d \in Database, Consistent(d), NEW snap \in Database, Consistent(snap),
           NEW row \in Game, CanSaveGame(d, snap)
    PROVE  SaveGame(d, snap, row) \in Database /\ Consistent(SaveGame(d, snap, row))
  <1> DEFINE e == SaveGame(d, snap, row)
  <1>1. e \in Database
    BY DEF SaveGame, Database
  <1>2. e.game # NoGame
    BY DEF SaveGame, Game, NoGame, Status
  <1>3. \A p \in e.players : TeamOf[p] \in e.teams
    BY DEF SaveGame, Consistent
  <1>4. \A s \in e.seats \union e.scores : RoundOf(s) \in e.rounds /\ s.player \in e.players
    BY DEF SaveGame, Consistent
  <1>5. \A r, q \in e.rounds : r.number = q.number => r = q
    BY DEF SaveGame, Consistent, CanSaveGame
  <1> QED
    BY <1>1, <1>2, <1>3, <1>4, <1>5 DEF Consistent

LEMMA SaveTeamRows ==
    ASSUME NEW d \in Database, Consistent(d), NEW t \in TeamIds,
           NEW ps \in SUBSET PlayerIds, NEW scores \in SUBSET Seat,
           \A p \in ps : TeamOf[p] = t, \A s \in scores : s.player \in ps,
           CanSaveTeam(d, t, ps, scores)
    PROVE  SaveTeam(d, t, ps, scores) \in Database /\ Consistent(SaveTeam(d, t, ps, scores))
  <1> DEFINE e == SaveTeam(d, t, ps, scores)
  <1>1. e \in Database
    BY DEF SaveTeam, Database
  <1>2. e.game # NoGame
    BY DEF SaveTeam, CanSaveTeam, Consistent, NoRows, Database
  <1>3. \A p \in e.players : TeamOf[p] \in e.teams
    BY DEF SaveTeam, Consistent, Database
  <1>4. \A s \in e.seats \union e.scores : RoundOf(s) \in e.rounds /\ s.player \in e.players
    BY DEF SaveTeam, Consistent, CanSaveTeam, Database
  <1>5. \A r, q \in e.rounds : r.number = q.number => r = q
    BY DEF SaveTeam, Consistent, Database
  <1> QED
    BY <1>1, <1>2, <1>3, <1>4, <1>5 DEF Consistent

LEMMA SavePlayerRows ==
    ASSUME NEW d \in Database, Consistent(d), NEW p \in PlayerIds,
           NEW game \in Game, NEW owners \in SUBSET Users
    PROVE  /\ SavePlayer(d, p, game, owners) \in Database
           /\ Consistent(SavePlayer(d, p, game, owners))
  <1> DEFINE e == SavePlayer(d, p, game, owners)
  <1>1. e \in Database
    BY KeysAssumption DEF SavePlayer, Database
  <1>2. e.game # NoGame
    BY DEF SavePlayer, Game, NoGame, Status, Database
  <1>3. \A q \in e.players : TeamOf[q] \in e.teams
    BY DEF SavePlayer, Consistent, Database
  <1>4. \A s \in e.seats \union e.scores : RoundOf(s) \in e.rounds /\ s.player \in e.players
    BY DEF SavePlayer, Consistent, Database
  <1>5. \A r, q \in e.rounds : r.number = q.number => r = q
    BY DEF SavePlayer, Consistent, Database
  <1> QED
    BY <1>1, <1>2, <1>3, <1>4, <1>5 DEF Consistent

(***************************************************************************)
(* Changing the owners of a game that is there.                            *)
(***************************************************************************)
LEMMA OwnersRows ==
    ASSUME NEW d \in Database, Consistent(d), d.game # NoGame,
           NEW owners \in SUBSET Users
    PROVE  /\ [d EXCEPT !.owners = owners] \in Database
           /\ Consistent([d EXCEPT !.owners = owners])
  <1> DEFINE e == [d EXCEPT !.owners = owners]
  <1>1. e \in Database
    BY DEF Database
  <1>2. /\ e.game = d.game /\ e.teams = d.teams /\ e.players = d.players
        /\ e.rounds = d.rounds /\ e.seats = d.seats /\ e.scores = d.scores
    BY DEF Database
  <1> HIDE DEF e
  <1>3. Consistent(e)
    BY <1>2 DEF Consistent
  <1> QED
    BY <1>1, <1>3 DEF e

(***************************************************************************)
(* Inserting players with their team into a game that is there.            *)
(***************************************************************************)
LEMMA RosterRows ==
    ASSUME NEW d \in Database, Consistent(d), d.game # NoGame,
           NEW teams \in SUBSET TeamIds, NEW players \in SUBSET PlayerIds,
           \A p \in players : TeamOf[p] \in d.teams \union teams
    PROVE  LET e == [d EXCEPT !.teams = @ \union teams, !.players = @ \union players]
           IN  e \in Database /\ Consistent(e)
  <1> DEFINE e == [d EXCEPT !.teams = @ \union teams, !.players = @ \union players]
  <1>1. e \in Database
    BY DEF Database
  <1>2. /\ e.game = d.game /\ e.teams = d.teams \union teams
        /\ e.players = d.players \union players
        /\ e.rounds = d.rounds /\ e.seats = d.seats /\ e.scores = d.scores
    BY DEF Database
  <1> HIDE DEF e
  <1>3. Consistent(e)
    BY <1>2 DEF Consistent
  <1> QED
    BY <1>1, <1>3 DEF e

(***************************************************************************)
(* Inserting a score for a player and a round that are there.              *)
(***************************************************************************)
LEMMA ScoreRows ==
    ASSUME NEW d \in Database, Consistent(d), NEW s \in Seat,
           RoundOf(s) \in d.rounds, s.player \in d.players
    PROVE  LET e == [d EXCEPT !.scores = @ \union {s}]
           IN  e \in Database /\ Consistent(e)
  <1> DEFINE e == [d EXCEPT !.scores = @ \union {s}]
  <1>1. e \in Database
    BY DEF Database
  <1>2. /\ e.game = d.game /\ e.teams = d.teams /\ e.players = d.players
        /\ e.rounds = d.rounds /\ e.seats = d.seats /\ e.scores = d.scores \union {s}
    BY DEF Database
  <1>3. d.game # NoGame
    BY DEF Consistent, NoRows
  <1> HIDE DEF e
  <1>4. Consistent(e)
    BY <1>2, <1>3 DEF Consistent
  <1> QED
    BY <1>1, <1>4 DEF e

LEMMA AssignTablesRows ==
    ASSUME NEW d \in Database, Consistent(d), d.game # NoGame,
           NEW setup \in Nat, NEW n \in Int, NEW k \in Int,
           NEW players \in SUBSET d.players,
           NEW seating \in [1 .. n -> [players -> 1 .. k]]
    PROVE  LET e == AssignTables(d, setup, n, players, seating)
           IN  e \in Database /\ Consistent(e)
  <1> DEFINE e == AssignTables(d, setup, n, players, seating)
             rounds == NewRounds(setup, n)
             seats == NewSeats(setup, n, players, seating)
  <1>1. rounds \subseteq Round
    BY DEF NewRounds, Round
  <1>2. seats \subseteq Seat
    <2>1. \A i \in 1 .. n, p \in players : seating[i][p] \in Nat /\ p \in PlayerIds
      BY DEF Database
    <2> QED
      BY <2>1 DEF NewSeats, Seat
  <1>3. \A s \in seats : RoundOf(s) \in rounds /\ s.player \in players
    BY DEF NewSeats, NewRounds, RoundOf
  <1>4. \A r, q \in rounds : r.number = q.number => r = q
    BY DEF NewRounds
  <1> HIDE DEF rounds, seats
  <1>5. e = [d EXCEPT !.rounds = rounds, !.seats = seats, !.scores = {}]
    BY DEF AssignTables, ResetGameTables, Database, rounds, seats
  <1> HIDE DEF e
  <1>6. e \in Database
    BY <1>1, <1>2, <1>5 DEF Database
  <1>7. Consistent(e)
    BY <1>3, <1>4, <1>5 DEF Consistent, Database, NoRows
  <1> QED
    BY <1>6, <1>7 DEF e

-----------------------------------------------------------------------------
(***************************************************************************)
(* An owner is a user, and owns a game that is there.                      *)
(***************************************************************************)
LEMMA OwnersGame ==
    ASSUME TypeOK, NEW u \in db.owners
    PROVE  u \in Users /\ db.game \in Game
  BY DEF TypeOK, Database, Consistent, NoRows

(***************************************************************************)
(* The places at a table are finitely many, as the players are.            *)
(***************************************************************************)
LEMMA PlacesFinite ==
    ASSUME NEW places \in SUBSET Seat, NEW s \in places,
           \A q \in places : RoundOf(q) = RoundOf(s) /\ q.table = s.table
    PROVE  Cardinality(places) \in Nat \ {0}
  <1> DEFINE player == [q \in places |-> q.player]
  <1>1. ASSUME NEW q \in places, NEW o \in places, q.player = o.player
        PROVE  q = o
    <2>1. RoundOf(q) = RoundOf(o) /\ q.table = o.table
      OBVIOUS
    <2>2. q.setup = o.setup /\ q.number = o.number
      BY <2>1 DEF RoundOf
    <2> QED
      BY <1>1, <2>1, <2>2 DEF Seat
  <1>2. player \in Injection(places, PlayerIds)
    BY <1>1 DEF Injection, IsInjective, Seat
  <1>3. IsFiniteSet(places)
    BY <1>2, FS_Injection, KeysAssumption
  <1> QED
    BY <1>3, FS_EmptySet, FS_CardinalityType

(***************************************************************************)
(* The rows fit together and the requests in flight are well-formed,       *)
(* however the statements of concurrent requests interleave.               *)
(***************************************************************************)
THEOREM TypeCorrect == Spec => []TypeOK
  <1>1. Init => TypeOK
    BY NoRowsType, IdleConsistent DEF Init, TypeOK
  <1>2. TypeOK /\ [Next]_vars => TypeOK'
    <2> SUFFICES ASSUME TypeOK, [Next]_vars PROVE TypeOK'
      OBVIOUS
    <2>1. ASSUME NEW u \in Users, CreateGame(u) PROVE TypeOK'
      <3>1. PICK s \in Settings :
                db' = [NoRows EXCEPT !.owners = {u},
                                     !.game = [status         |-> "setup",
                                               teamSize       |-> s.teamSize,
                                               tableSize      |-> s.tableSize,
                                               numberOfRounds |-> s.numberOfRounds]]
        BY <2>1 DEF CreateGame
      <3> DEFINE game == [status         |-> "setup",
                          teamSize       |-> s.teamSize,
                          tableSize      |-> s.tableSize,
                          numberOfRounds |-> s.numberOfRounds]
      <3>2. game \in Game
        BY SettingsAssumption DEF Game, Status
      <3>3. game # NoGame
        BY DEF NoGame
      <3> HIDE DEF game
      <3>4. db' \in Database
        BY <3>1, <3>2 DEF NoRows, Database, game
      <3>5. Consistent(db')
        BY <3>1, <3>3 DEF NoRows, Consistent, game
      <3> QED
        BY <2>1, <3>4, <3>5 DEF CreateGame, TypeOK
    <2>2. ASSUME NEW r \in Requests, NEW u \in Users, BeginUpdateGame(r, u) PROVE TypeOK'
      <3>1. PICK s \in Settings, status \in Statuses :
                LET row == [status         |-> IF status = "" THEN db.game.status
                                               ELSE status,
                            teamSize       |-> s.teamSize,
                            tableSize      |-> s.tableSize,
                            numberOfRounds |-> s.numberOfRounds]
                IN  /\ u \in db.owners
                    /\ Begin(r, [op |-> "UpdateGame", user |-> u,
                                 snap |-> db, row |-> row])
        BY <2>2 DEF BeginUpdateGame
      <3> DEFINE row == [status         |-> IF status = "" THEN db.game.status
                                            ELSE status,
                         teamSize       |-> s.teamSize,
                         tableSize      |-> s.tableSize,
                         numberOfRounds |-> s.numberOfRounds]
                 m == [op |-> "UpdateGame", user |-> u, snap |-> db, row |-> row]
      <3>2. db.game \in Game
        BY <3>1, OwnersGame
      <3>3. row \in Game
        BY <3>2, SettingsAssumption, StatusesAssumption DEF Game, Status
      <3>4. m \in Loaded /\ LoadedConsistently(m)
        BY <3>3 DEF Loaded, LoadedConsistently, TypeOK
      <3> QED
        BY <3>1, <3>4, BeginType
    <2>3. ASSUME NEW r \in Requests, NEW u \in Users, BeginDeleteGame(r, u) PROVE TypeOK'
      <3> DEFINE m == [op |-> "DeleteGame", user |-> u]
      <3>1. m \in Loaded /\ LoadedConsistently(m)
        BY DEF Loaded, LoadedConsistently
      <3> QED
        BY <2>3, <3>1, BeginType DEF BeginDeleteGame
    <2>4. ASSUME NEW r \in Requests, NEW u \in Users, BeginSetupGame(r, u) PROVE TypeOK'
      <3> DEFINE m == [op |-> "SetupGame", user |-> u,
                       game |-> db.game, players |-> db.players]
      <3>1. db.game \in Game /\ db.players \subseteq PlayerIds
        BY <2>4, OwnersGame DEF BeginSetupGame, TypeOK, Database
      <3>2. m \in Loaded /\ LoadedConsistently(m)
        BY <3>1 DEF Loaded, LoadedConsistently
      <3> QED
        BY <2>4, <3>2, BeginType DEF BeginSetupGame
    <2>5. ASSUME NEW r \in Requests, NEW u \in Users, BeginAddOwner(r, u) PROVE TypeOK'
      <3>1. PICK target \in Users :
                Begin(r, [op |-> "AddOwner", user |-> u, target |-> target])
        BY <2>5 DEF BeginAddOwner
      <3> DEFINE m == [op |-> "AddOwner", user |-> u, target |-> target]
      <3>2. m \in Loaded /\ LoadedConsistently(m)
        BY DEF Loaded, LoadedConsistently
      <3> QED
        BY <3>1, <3>2, BeginType
    <2>6. ASSUME NEW r \in Requests, NEW u \in Users, BeginRemoveOwner(r, u) PROVE TypeOK'
      <3>1. PICK target \in db.owners :
                Begin(r, [op |-> "RemoveOwner", user |-> u, target |-> target])
        BY <2>6 DEF BeginRemoveOwner
      <3> DEFINE m == [op |-> "RemoveOwner", user |-> u, target |-> target]
      <3>2. m \in Loaded /\ LoadedConsistently(m)
        BY OwnersGame DEF Loaded, LoadedConsistently
      <3> QED
        BY <3>1, <3>2, BeginType
    <2>7. ASSUME NEW r \in Requests, NEW u \in Users, BeginRoster(r, u) PROVE TypeOK'
      <3>1. db.game \in Game /\ db.teams \subseteq TeamIds /\ db.players \subseteq PlayerIds
        BY <2>7, OwnersGame DEF BeginRoster, TypeOK, Database
      <3>2. CASE BeginCreateTeam(r, u)
        <4>1. PICK n \in 0 .. db.game.teamSize :
                  Begin(r, [op |-> "CreateTeam", user |-> u, players |-> n])
          BY <3>2 DEF BeginCreateTeam
        <4> DEFINE m == [op |-> "CreateTeam", user |-> u, players |-> n]
        <4>2. n \in Nat
          BY <3>1 DEF Game
        <4>3. m \in Loaded /\ LoadedConsistently(m)
          BY <4>2 DEF Loaded, LoadedConsistently
        <4> QED
          BY <4>1, <4>3, BeginType
      <3>3. CASE BeginUpdateTeam(r, u)
        <4>1. PICK t \in db.teams :
                  Begin(r, [op |-> "UpdateTeam", user |-> u, team |-> t,
                            players |-> Members(db, t),
                            scores |-> {s \in db.scores : TeamOf[s.player] = t}])
          BY <3>3 DEF BeginUpdateTeam
        <4> DEFINE scores == {s \in db.scores : TeamOf[s.player] = t}
                   m == [op |-> "UpdateTeam", user |-> u, team |-> t,
                         players |-> Members(db, t), scores |-> scores]
        <4>2. Members(db, t) \subseteq PlayerIds /\ scores \subseteq Seat
          BY <3>1 DEF Members, TypeOK, Database
        <4>3. m \in Loaded
          BY <3>1, <4>2 DEF Loaded
        <4>4. LoadedConsistently(m)
          BY DEF LoadedConsistently, Members, TypeOK, Consistent
        <4> QED
          BY <4>1, <4>3, <4>4, BeginType
      <3>4. CASE BeginDeleteTeam(r, u)
        <4>1. PICK t \in db.teams :
                  Begin(r, [op |-> "DeleteTeam", user |-> u, team |-> t])
          BY <3>4 DEF BeginDeleteTeam
        <4> DEFINE m == [op |-> "DeleteTeam", user |-> u, team |-> t]
        <4>2. m \in Loaded /\ LoadedConsistently(m)
          BY <3>1 DEF Loaded, LoadedConsistently
        <4> QED
          BY <4>1, <4>2, BeginType
      <3>5. CASE BeginCreatePlayer(r, u)
        <4>1. PICK t \in db.teams :
                  Begin(r, [op |-> "CreatePlayer", user |-> u, team |-> t])
          BY <3>5 DEF BeginCreatePlayer
        <4> DEFINE m == [op |-> "CreatePlayer", user |-> u, team |-> t]
        <4>2. m \in Loaded /\ LoadedConsistently(m)
          BY <3>1 DEF Loaded, LoadedConsistently
        <4> QED
          BY <4>1, <4>2, BeginType
      <3>6. CASE BeginUpdatePlayer(r, u)
        <4>1. PICK p \in db.players :
                  Begin(r, [op |-> "UpdatePlayer", user |-> u, player |-> p,
                            game |-> db.game, owners |-> db.owners])
          BY <3>6 DEF BeginUpdatePlayer
        <4> DEFINE m == [op |-> "UpdatePlayer", user |-> u, player |-> p,
                         game |-> db.game, owners |-> db.owners]
        <4>2. m \in Loaded /\ LoadedConsistently(m)
          BY <3>1 DEF Loaded, LoadedConsistently, TypeOK, Database
        <4> QED
          BY <4>1, <4>2, BeginType
      <3>7. CASE BeginDeletePlayer(r, u)
        <4>1. PICK p \in db.players :
                  Begin(r, [op |-> "DeletePlayer", user |-> u, player |-> p])
          BY <3>7 DEF BeginDeletePlayer
        <4> DEFINE m == [op |-> "DeletePlayer", user |-> u, player |-> p]
        <4>2. m \in Loaded /\ LoadedConsistently(m)
          BY <3>1 DEF Loaded, LoadedConsistently
        <4> QED
          BY <4>1, <4>2, BeginType
      <3> QED
        BY <2>7, <3>2, <3>3, <3>4, <3>5, <3>6, <3>7 DEF BeginRoster
    <2>8. ASSUME NEW r \in Requests, NEW u \in Users, BeginUpdateScores(r, u)
          PROVE  TypeOK'
      <3>1. PICK s \in db.seats :
                LET places == {q \in db.seats : RoundOf(q) = RoundOf(s) /\ q.table = s.table}
                IN  \E todo \in [1 .. Cardinality(places) -> places] :
                       Begin(r, [op |-> "UpdateScores", user |-> u, todo |-> todo,
                                 existing |-> places \intersect db.scores])
        BY <2>8 DEF BeginUpdateScores
      <3> DEFINE places == {q \in db.seats : RoundOf(q) = RoundOf(s) /\ q.table = s.table}
      <3>2. PICK todo \in [1 .. Cardinality(places) -> places] :
                Begin(r, [op |-> "UpdateScores", user |-> u, todo |-> todo,
                          existing |-> places \intersect db.scores])
        BY <3>1
      <3> DEFINE m == [op |-> "UpdateScores", user |-> u, todo |-> todo,
                       existing |-> places \intersect db.scores]
      <3>3. places \in SUBSET Seat /\ s \in places
        BY DEF TypeOK, Database
      <3>4. Cardinality(places) \in Nat \ {0}
        BY <3>3, PlacesFinite
      <3> HIDE DEF places
      <3>5. todo \in Seq(Seat) /\ todo # <<>>
        BY <3>3, <3>4
      <3>6. m \in Loaded /\ LoadedConsistently(m)
        BY <3>3, <3>5 DEF Loaded, LoadedConsistently
      <3> QED
        BY <3>2, <3>6, BeginType
    <2>9. ASSUME NEW r \in Requests, CommitUpdateGame(r) PROVE TypeOK'
      BY <2>9, LoadedFields, SaveGameRows, CommitType DEF CommitUpdateGame, TypeOK
    <2>10. ASSUME NEW r \in Requests, CommitDeleteGame(r) PROVE TypeOK'
      BY <2>10, NoRowsType, CommitType DEF CommitDeleteGame, TypeOK
    <2>11. ASSUME NEW r \in Requests, CommitSetupGame(r) PROVE TypeOK'
      <3> DEFINE players == request[r].players
                 n == request[r].game.numberOfRounds
                 tableSize == request[r].game.tableSize
                 setup == serial.setups + 1
                 k == GoQuo(Cardinality(players), tableSize)
      <3>1. PICK seating \in [1 .. n -> Seatings(players, tableSize)] :
                Commit(r, AssignTables(db, setup, n, players, seating))
        BY <2>11 DEF CommitSetupGame
      <3> DEFINE d == AssignTables(db, setup, n, players, seating)
      <3>2. /\ n \in Int /\ tableSize \in Size /\ players \subseteq PlayerIds
            /\ players \subseteq db.players /\ db.game # NoGame
        BY <2>11, LoadedFields DEF CommitSetupGame, Game, Size
      <3>3. Cardinality(players) \in Nat
        BY <3>2, KeysAssumption, FS_Subset, FS_CardinalityType
      <3>4. k \in Int
        <4>1. \A a, b \in Nat : b # 0 => a \div b \in Nat
          OBVIOUS
        <4> QED
          BY <3>2, <3>3, <4>1 DEF GoQuo, Abs, Size
      <3>5. setup \in Nat
        BY DEF TypeOK
      <3>6. seating \in [1 .. n -> [players -> 1 .. k]]
        BY DEF Seatings
      <3> HIDE DEF players, n, tableSize, setup, k
      <3>7. d \in Database /\ Consistent(d)
        BY <3>2, <3>4, <3>5, <3>6, AssignTablesRows DEF TypeOK
      <3>8. serial' \in [game : BOOLEAN, teams : SUBSET TeamIds,
                         players : SUBSET PlayerIds, setups : Nat]
        BY <2>11, <3>5 DEF CommitSetupGame, TypeOK, setup
      <3> QED
        BY <3>1, <3>7, <3>8, CommitType
    <2>12. ASSUME NEW r \in Requests, CommitAddOwner(r) PROVE TypeOK'
      <3> DEFINE owners == db.owners \union {request[r].target}
      <3>1. owners \in SUBSET Users /\ db.game # NoGame
        BY <2>12, LoadedFields DEF CommitAddOwner, TypeOK, Database
      <3>2. Commit(r, [db EXCEPT !.owners = owners])
        BY <2>12 DEF CommitAddOwner
      <3> HIDE DEF owners
      <3> QED
        BY <2>12, <3>1, <3>2, OwnersRows, CommitType DEF CommitAddOwner, TypeOK
    <2>13. ASSUME NEW r \in Requests, CommitRemoveOwner(r) PROVE TypeOK'
      <3> DEFINE owners == db.owners \ {request[r].target}
                 d == [db EXCEPT !.owners = owners]
      <3>1. owners \in SUBSET Users
        BY DEF TypeOK, Database
      <3>2. Commit(r, d)
        BY <2>13 DEF CommitRemoveOwner
      <3>3. d \in Database /\ Consistent(d)
        <4>1. CASE db.game # NoGame
          BY <3>1, <4>1, OwnersRows DEF TypeOK
        <4>2. CASE db.game = NoGame
          <5>1. db = NoRows
            BY <4>2 DEF TypeOK, Consistent
          <5>2. d = NoRows
            BY <5>1 DEF NoRows
          <5> QED
            BY <5>2, NoRowsType
        <4> QED
          BY <4>1, <4>2
      <3> HIDE DEF d
      <3> QED
        BY <2>13, <3>2, <3>3, CommitType DEF CommitRemoveOwner, TypeOK
    <2>14. ASSUME NEW r \in Requests, CommitCreateTeam(r) PROVE TypeOK'
      <3>1. PICK t \in TeamIds :
            \E ps \in SUBSET {p \in PlayerIds \ serial.players : TeamOf[p] = t} :
                /\ serial' = [serial EXCEPT !.teams = @ \union {t},
                                            !.players = @ \union ps]
                /\ Commit(r, [db EXCEPT !.teams = @ \union {t}, !.players = @ \union ps])
        BY <2>14 DEF CommitCreateTeam
      <3>2. PICK ps \in SUBSET {p \in PlayerIds \ serial.players : TeamOf[p] = t} :
                /\ serial' = [serial EXCEPT !.teams = @ \union {t},
                                            !.players = @ \union ps]
                /\ Commit(r, [db EXCEPT !.teams = @ \union {t}, !.players = @ \union ps])
        BY <3>1
      <3> DEFINE d == [db EXCEPT !.teams = @ \union {t}, !.players = @ \union ps]
      <3>3. db.game # NoGame
        BY <2>14 DEF CommitCreateTeam
      <3>4. {t} \in SUBSET TeamIds /\ ps \in SUBSET PlayerIds
        OBVIOUS
      <3>5. d \in Database /\ Consistent(d)
        BY <3>3, <3>4, RosterRows DEF TypeOK
      <3>6. serial' \in [game : BOOLEAN, teams : SUBSET TeamIds,
                         players : SUBSET PlayerIds, setups : Nat]
        BY <3>2 DEF TypeOK
      <3> QED
        BY <3>2, <3>5, <3>6, CommitType
    <2>15. ASSUME NEW r \in Requests, CommitUpdateTeam(r) PROVE TypeOK'
      BY <2>15, LoadedFields, SaveTeamRows, CommitType DEF CommitUpdateTeam, TypeOK
    <2>16. ASSUME NEW r \in Requests, CommitDeleteTeam(r) PROVE TypeOK'
      BY <2>16, DeleteRows, CommitType DEF CommitDeleteTeam, TypeOK
    <2>17. ASSUME NEW r \in Requests, CommitCreatePlayer(r) PROVE TypeOK'
      <3>1. PICK p \in PlayerIds :
                /\ TeamOf[p] = request[r].team
                /\ serial' = [serial EXCEPT !.players = @ \union {p}]
                /\ Commit(r, [db EXCEPT !.players = @ \union {p}])
        BY <2>17 DEF CommitCreatePlayer
      <3> DEFINE d == [db EXCEPT !.players = @ \union {p}]
      <3>2. TeamOf[p] \in db.teams
        BY <2>17, <3>1 DEF CommitCreatePlayer
      <3>3. db.game # NoGame
        BY <3>2 DEF TypeOK, Consistent, NoRows
      <3>4. d = [db EXCEPT !.teams = @ \union {}, !.players = @ \union {p}]
        BY DEF TypeOK, Database
      <3>5. d \in Database /\ Consistent(d)
        BY <3>2, <3>3, <3>4, RosterRows DEF TypeOK
      <3>6. serial' \in [game : BOOLEAN, teams : SUBSET TeamIds,
                         players : SUBSET PlayerIds, setups : Nat]
        BY <3>1 DEF TypeOK
      <3> QED
        BY <3>1, <3>5, <3>6, CommitType
    <2>18. ASSUME NEW r \in Requests, CommitUpdatePlayer(r) PROVE TypeOK'
      BY <2>18, LoadedFields, SavePlayerRows, CommitType DEF CommitUpdatePlayer, TypeOK
    <2>19. ASSUME NEW r \in Requests, CommitDeletePlayer(r) PROVE TypeOK'
      BY <2>19, DeleteRows, CommitType DEF CommitDeletePlayer, TypeOK
    <2>20. ASSUME NEW r \in Requests, SaveScore(r) PROVE TypeOK'
      <3> DEFINE me == request[r]
                 score == Head(me.todo)
                 d == [db EXCEPT !.scores = @ \union {score}]
                 m == IF Len(me.todo) = 1 THEN Idle ELSE [me EXCEPT !.todo = Tail(@)]
      <3>1. me \in Loaded /\ me.op = "UpdateScores"
        BY <2>20 DEF SaveScore, InFlight, TypeOK, Idle
      <3>2. /\ me \in [op : {"UpdateScores"}, user : Users, todo : Seq(Seat) \ {<<>>},
                       existing : SUBSET Seat]
        BY <3>1 DEF Loaded
      <3>3. score \in Seat
        BY <3>2
      <3>4. d \in Database /\ Consistent(d)
        BY <2>20, <3>3, ScoreRows DEF SaveScore, TypeOK
      <3>5. m \in Loaded \union {Idle} /\ LoadedConsistently(m)
        <4>1. CASE Len(me.todo) = 1
          BY <4>1, IdleConsistent
        <4>2. CASE Len(me.todo) # 1
          <5>1. Tail(me.todo) \in Seq(Seat) \ {<<>>}
            <6> DEFINE todo == me.todo
            <6>1. todo \in Seq(Seat) /\ todo # <<>> /\ Len(todo) # 1
              BY <3>2, <4>2
            <6> HIDE DEF todo
            <6>2. Len(todo) > 1 /\ Len(todo) \in Nat
              BY <6>1
            <6>3. Tail(todo) \in Seq(Seat) /\ Len(Tail(todo)) = Len(todo) - 1
              BY <6>1, <6>2
            <6>4. Len(Tail(todo)) # 0 /\ Len(<<>>) = 0
              BY <6>2, <6>3
            <6> QED
              BY <6>3, <6>4, Zenon DEF todo
          <5>2. m = [me EXCEPT !.todo = Tail(@)]
            BY <4>2
          <5>3. m \in [op : {"UpdateScores"}, user : Users, todo : Seq(Seat) \ {<<>>},
                       existing : SUBSET Seat]
            BY <3>2, <5>1, <5>2
          <5> QED
            BY <5>3 DEF Loaded, LoadedConsistently
        <4> QED
          BY <4>1, <4>2
      <3>6. db' = d /\ request' = [request EXCEPT ![r] = m] /\ UNCHANGED serial
        BY <2>20 DEF SaveScore
      <3> HIDE DEF me, score, d, m
      <3> QED
        BY <3>4, <3>5, <3>6, RequestUpdate DEF TypeOK
    <2>21. ASSUME NEW r \in Requests, Fail(r) PROVE TypeOK'
      BY <2>21, RequestUpdate, IdleConsistent DEF Fail, TypeOK
    <2>22. CASE UNCHANGED vars
      BY <2>22 DEF vars, TypeOK
    <2> QED
      BY <2>1, <2>2, <2>3, <2>4, <2>5, <2>6, <2>7, <2>8, <2>9, <2>10, <2>11, <2>12,
         <2>13, <2>14, <2>15, <2>16, <2>17, <2>18, <2>19, <2>20, <2>21, <2>22 DEF Next
  <1> QED
    BY <1>1, <1>2, PTL DEF Spec
=============================================================================
