----------------------- MODULE TournamentSerialProofs -----------------------
(***************************************************************************)
(* What the services do as long as requests do not overlap: then what a    *)
(* request has loaded is still stored when it writes, and every check it   *)
(* has made still holds.  The properties below all rest on that, and none  *)
(* of them holds of two requests at a time.                                *)
(***************************************************************************)
EXTENDS TournamentOverlapProofs

\* Requests that do not overlap.
OneAtATime == \A r, q \in Requests : r = q

\* What UpdateGame has found out about the new row of the game.
Decided(row, d) ==
    /\ row.status = "in_progress" /\ d.game.status # "in_progress" => Startable(d, row)
    /\ row.status = "completed" /\ d.game.status # "completed" =>
           ~ GameIncompleteScoresMissing(d, row)

\* What a request has loaded and checked holds of the rows d.
Upheld(m, d) ==
    /\ m.op # "none" => m.user \in d.owners
    /\ m.op = "UpdateGame"   => m.snap = d /\ Decided(m.row, d)
    /\ m.op = "SetupGame"    => /\ m.game = d.game /\ m.players = d.players
                                /\ d.game.status = "setup"
    /\ m.op = "RemoveOwner"  => \E u \in d.owners : u # m.target
    /\ m.op = "UpdateTeam"   => /\ m.team \in d.teams /\ m.players \subseteq d.players
                                /\ m.scores \subseteq d.scores
    /\ m.op = "UpdatePlayer" => m.player \in d.players /\ m.owners \subseteq d.owners
    /\ m.op = "UpdateScores" => \A i \in DOMAIN m.todo : m.todo[i] \in d.seats

Current == /\ \A r \in Requests : Upheld(request[r], db)
           /\ serial.game \/ db = NoRows

(***************************************************************************)
(* The rows d that a request may leave behind when it writes.              *)
(***************************************************************************)
Permitted(d) ==
    /\ d.game = NoGame \/ d.owners # {}
    /\ \/ d.game \in {db.game, NoGame}
       \/ d = [db EXCEPT !.game = d.game] /\ Decided(d.game, db)
    /\ db.scores \subseteq db.seats => d.scores \subseteq d.seats
    /\ \/ db.game.status = "setup" \/ d.game = NoGame
       \/ \A s \in db.scores : s.player \in d.players => s \in d.scores
    /\ (d.teams \ db.teams) \intersect serial.teams = {}
    /\ (d.players \ db.players) \intersect serial.players = {}

(***************************************************************************)
(* The same by what is written: every write is one of these.               *)
(***************************************************************************)
SameGame(d)   == d.game = db.game /\ d.rounds = db.rounds
SameRoster(d) == d.teams = db.teams /\ d.players = db.players
SamePlay(d)   == d.seats = db.seats /\ d.scores = db.scores

Erased(d) == d = NoRows

Updated(d) == /\ d = [db EXCEPT !.game = d.game]
              /\ d.game \in Game /\ Decided(d.game, db)

Seated(d) == /\ d.game = db.game /\ d.owners = db.owners /\ SameRoster(d)
             /\ db.game.status = "setup" /\ d.scores = {}
             /\ (d.rounds # {}) = (db.game.numberOfRounds > 0)
             /\ {s.player : s \in d.seats} = IF d.rounds # {} THEN db.players ELSE {}

Enlarged(d) == /\ d.owners = db.owners /\ SameGame(d) /\ SamePlay(d)
               /\ (d.teams \ db.teams) \intersect serial.teams = {}
               /\ db.players \subseteq d.players
               /\ (d.players \ db.players) \intersect serial.players = {}

Reduced(d) == /\ d.owners = db.owners /\ SameGame(d)
              /\ d.teams \subseteq db.teams /\ d.players \subseteq db.players
              /\ d.seats  = {s \in db.seats  : s.player \in d.players}
              /\ d.scores = {s \in db.scores : s.player \in d.players}

Shared(d) == /\ SameGame(d) /\ SameRoster(d) /\ SamePlay(d)
             /\ \/ d.owners = db.owners
                \/ \E u \in Users : d.owners = db.owners \union {u}
                \/ \E u, v \in db.owners : u # v /\ d.owners = db.owners \ {u}

Entered(d) == /\ d.owners = db.owners /\ SameGame(d) /\ SameRoster(d)
              /\ d.seats = db.seats
              /\ \E s \in db.seats : d.scores = db.scores \union {s}

Written(d) == \/ Erased(d)  \/ Updated(d) \/ Seated(d) \/ Enlarged(d)
              \/ Reduced(d) \/ Shared(d)  \/ Entered(d)

Allowed(r) == /\ request'[r] # request[r] /\ request[r].user \in db.owners
              /\ serial'.game = serial.game
              /\ Written(db') /\ Permitted(db')

\* The one step that is not a request in two halves.
Created == /\ ~ serial.game /\ serial'.game
           /\ \E u \in Users : db'.owners = {u}
           /\ db'.game.status = "setup" /\ db'.game # NoGame
           /\ db'.teams = {} /\ db'.players = {}
           /\ db'.rounds = {} /\ db'.seats = {} /\ db'.scores = {}

-----------------------------------------------------------------------------
(***************************************************************************)
(* With one request at a time, the one that steps is the only one.         *)
(***************************************************************************)
LEMMA OnlyRequest ==
    ASSUME OneAtATime, TypeOK, NEW r \in Requests, NEW m,
           request' = [request EXCEPT ![r] = m], Upheld(m, db'),
           serial'.game \/ db' = NoRows
    PROVE  Current'
  <1>1. \A q \in Requests : request'[q] = m
    BY DEF OneAtATime, TypeOK
  <1> QED
    BY <1>1 DEF Current

LEMMA BeginUpheld ==
    ASSUME OneAtATime, TypeOK, Current, NEW r \in Requests, NEW m, Begin(r, m),
           Upheld(m, db)
    PROVE  Current' /\ UNCHANGED <<db, serial>>
  BY OnlyRequest DEF Begin, Current

(***************************************************************************)
(* Whatever is loaded holds of the rows it is loaded from.                 *)
(***************************************************************************)
LEMMA BeginsUpheld ==
    ASSUME OneAtATime, TypeOK, Current, NEW r \in Requests, NEW u \in Users,
           \/ BeginUpdateGame(r, u) \/ BeginDeleteGame(r, u) \/ BeginSetupGame(r, u)
           \/ BeginAddOwner(r, u)   \/ BeginRemoveOwner(r, u)
           \/ BeginRoster(r, u)     \/ BeginUpdateScores(r, u)
    PROVE  Current' /\ UNCHANGED <<db, serial>>
  <1>1. CASE BeginUpdateGame(r, u)
    <2>1. PICK s \in Settings, status \in Statuses :
            LET row == [status         |-> IF status = "" THEN db.game.status ELSE status,
                        teamSize       |-> s.teamSize,
                        tableSize      |-> s.tableSize,
                        numberOfRounds |-> s.numberOfRounds]
            IN  /\ u \in db.owners
                /\ status = "in_progress" => Startable(db, row)
                /\ status = "completed" => ~ GameIncompleteScoresMissing(db, row)
                /\ Begin(r, [op |-> "UpdateGame", user |-> u, snap |-> db, row |-> row])
      BY <1>1 DEF BeginUpdateGame
    <2> DEFINE row == [status         |-> IF status = "" THEN db.game.status ELSE status,
                       teamSize       |-> s.teamSize,
                       tableSize      |-> s.tableSize,
                       numberOfRounds |-> s.numberOfRounds]
    <2>2. row.status = "in_progress" /\ db.game.status # "in_progress" => Startable(db, row)
      <3> SUFFICES ASSUME row.status = "in_progress", db.game.status # "in_progress"
                   PROVE  Startable(db, row)
        OBVIOUS
      <3>1. status = "in_progress"
        OBVIOUS
      <3> QED
        BY <2>1, <3>1
    <2>3. row.status = "completed" /\ db.game.status # "completed" =>
              ~ GameIncompleteScoresMissing(db, row)
      <3> SUFFICES ASSUME row.status = "completed", db.game.status # "completed"
                   PROVE  ~ GameIncompleteScoresMissing(db, row)
        OBVIOUS
      <3>1. status = "completed"
        OBVIOUS
      <3> QED
        BY <2>1, <3>1
    <2>4. u \in db.owners /\ Begin(r, [op |-> "UpdateGame", user |-> u, snap |-> db, row |-> row])
      BY <2>1
    <2> HIDE DEF row
    <2> DEFINE m == [op |-> "UpdateGame", user |-> u, snap |-> db, row |-> row]
    <2>5. Upheld(m, db)
      BY <2>2, <2>3, <2>4 DEF Upheld, Decided
    <2> QED
      BY <2>4, <2>5, BeginUpheld
  <1>2. CASE BeginDeleteGame(r, u)
    <2> DEFINE m == [op |-> "DeleteGame", user |-> u]
    <2>1. Upheld(m, db)
      BY <1>2 DEF BeginDeleteGame, Upheld
    <2> QED
      BY <1>2, <2>1, BeginUpheld DEF BeginDeleteGame
  <1>3. CASE BeginSetupGame(r, u)
    <2> DEFINE m == [op |-> "SetupGame", user |-> u, game |-> db.game, players |-> db.players]
    <2>1. Upheld(m, db)
      BY <1>3 DEF BeginSetupGame, Upheld
    <2> QED
      BY <1>3, <2>1, BeginUpheld DEF BeginSetupGame
  <1>4. CASE BeginAddOwner(r, u)
    <2>1. PICK target \in Users \ db.owners :
              /\ u \in db.owners
              /\ Begin(r, [op |-> "AddOwner", user |-> u, target |-> target])
      BY <1>4 DEF BeginAddOwner
    <2> DEFINE m == [op |-> "AddOwner", user |-> u, target |-> target]
    <2>2. Upheld(m, db)
      BY <2>1 DEF Upheld
    <2> QED
      BY <2>1, <2>2, BeginUpheld
  <1>5. CASE BeginRemoveOwner(r, u)
    <2>1. PICK target \in db.owners :
              /\ u \in db.owners /\ Cardinality(db.owners) > 1
              /\ Begin(r, [op |-> "RemoveOwner", user |-> u, target |-> target])
      BY <1>5 DEF BeginRemoveOwner
    <2>2. \E v \in db.owners : v # target
      <3> SUFFICES ASSUME \A v \in db.owners : v = target PROVE FALSE
        OBVIOUS
      <3>1. db.owners = {target}
        BY <2>1
      <3>2. Cardinality(db.owners) = 1
        BY <3>1, FS_Singleton
      <3> QED
        BY <2>1, <3>2
    <2> DEFINE m == [op |-> "RemoveOwner", user |-> u, target |-> target]
    <2>3. Upheld(m, db)
      BY <2>1, <2>2 DEF Upheld
    <2> QED
      BY <2>1, <2>3, BeginUpheld
  <1>6. CASE BeginRoster(r, u)
    <2>1. u \in db.owners
      BY <1>6 DEF BeginRoster
    <2>2. CASE BeginCreateTeam(r, u)
      <3>1. PICK n \in 0 .. db.game.teamSize :
                Begin(r, [op |-> "CreateTeam", user |-> u, players |-> n])
        BY <2>2 DEF BeginCreateTeam
      <3>2. Upheld([op |-> "CreateTeam", user |-> u, players |-> n], db)
        BY <2>1 DEF Upheld
      <3> QED
        BY <3>1, <3>2, BeginUpheld
    <2>3. CASE BeginUpdateTeam(r, u)
      <3>1. PICK t \in db.teams :
                Begin(r, [op |-> "UpdateTeam", user |-> u, team |-> t, players |-> Members(db, t),
                          scores |-> {s \in db.scores : TeamOf[s.player] = t}])
        BY <2>3 DEF BeginUpdateTeam
      <3> DEFINE m == [op |-> "UpdateTeam", user |-> u, team |-> t, players |-> Members(db, t),
                       scores |-> {s \in db.scores : TeamOf[s.player] = t}]
      <3>2. Upheld(m, db)
        BY <2>1 DEF Upheld, Members
      <3> QED
        BY <3>1, <3>2, BeginUpheld
    <2>4. CASE BeginDeleteTeam(r, u)
      <3>1. PICK t \in db.teams :
                Begin(r, [op |-> "DeleteTeam", user |-> u, team |-> t])
        BY <2>4 DEF BeginDeleteTeam
      <3>2. Upheld([op |-> "DeleteTeam", user |-> u, team |-> t], db)
        BY <2>1 DEF Upheld
      <3> QED
        BY <3>1, <3>2, BeginUpheld
    <2>5. CASE BeginCreatePlayer(r, u)
      <3>1. PICK t \in db.teams :
                Begin(r, [op |-> "CreatePlayer", user |-> u, team |-> t])
        BY <2>5 DEF BeginCreatePlayer
      <3>2. Upheld([op |-> "CreatePlayer", user |-> u, team |-> t], db)
        BY <2>1 DEF Upheld
      <3> QED
        BY <3>1, <3>2, BeginUpheld
    <2>6. CASE BeginUpdatePlayer(r, u)
      <3>1. PICK p \in db.players :
                Begin(r, [op |-> "UpdatePlayer", user |-> u, player |-> p,
                          game |-> db.game, owners |-> db.owners])
        BY <2>6 DEF BeginUpdatePlayer
      <3>2. Upheld([op |-> "UpdatePlayer", user |-> u, player |-> p,
                    game |-> db.game, owners |-> db.owners], db)
        BY <2>1 DEF Upheld
      <3> QED
        BY <3>1, <3>2, BeginUpheld
    <2>7. CASE BeginDeletePlayer(r, u)
      <3>1. PICK p \in db.players :
                Begin(r, [op |-> "DeletePlayer", user |-> u, player |-> p])
        BY <2>7 DEF BeginDeletePlayer
      <3>2. Upheld([op |-> "DeletePlayer", user |-> u, player |-> p], db)
        BY <2>1 DEF Upheld
      <3> QED
        BY <3>1, <3>2, BeginUpheld
    <2> QED
      BY <1>6, <2>2, <2>3, <2>4, <2>5, <2>6, <2>7 DEF BeginRoster
  <1>7. CASE BeginUpdateScores(r, u)
    <2>1. PICK s \in db.seats :
              LET places == {q \in db.seats : RoundOf(q) = RoundOf(s) /\ q.table = s.table}
              IN  \E todo \in [1 .. Cardinality(places) -> places] :
                     /\ u \in db.owners
                     /\ Begin(r, [op |-> "UpdateScores", user |-> u, todo |-> todo,
                                  existing |-> places \intersect db.scores])
      BY <1>7 DEF BeginUpdateScores
    <2> DEFINE places == {q \in db.seats : RoundOf(q) = RoundOf(s) /\ q.table = s.table}
    <2>2. PICK todo \in [1 .. Cardinality(places) -> places] :
              /\ u \in db.owners
              /\ Begin(r, [op |-> "UpdateScores", user |-> u, todo |-> todo,
                           existing |-> places \intersect db.scores])
      BY <2>1
    <2> DEFINE m == [op |-> "UpdateScores", user |-> u, todo |-> todo,
                     existing |-> places \intersect db.scores]
    <2>3. Upheld(m, db)
      BY <2>2 DEF Upheld
    <2> QED
      BY <2>2, <2>3, BeginUpheld
  <1> QED
    BY <1>1, <1>2, <1>3, <1>4, <1>5, <1>6, <1>7
-----------------------------------------------------------------------------
(***************************************************************************)
(* A request in flight has been begun by an owner, so there is a game.     *)
(***************************************************************************)
LEMMA Owned ==
    ASSUME TypeOK, Current, NEW r \in Requests, request[r].op # "none"
    PROVE  /\ request[r].user \in db.owners
           /\ db.game \in Game /\ db.game # NoGame /\ serial.game
           /\ db \in Database /\ Consistent(db)
  <1>1. request[r].user \in db.owners
    BY DEF Current, Upheld
  <1> QED
    BY <1>1, OwnersGame DEF Current, TypeOK, Game, NoGame, Status, NoRows

(***************************************************************************)
(* Every kind of write leaves permitted rows.                              *)
(***************************************************************************)
LEMMA WrittenIsPermitted ==
    ASSUME NEW d, Written(d), db \in Database, db.owners # {}
    PROVE  Permitted(d)
  <1>1. CASE Erased(d)
    BY <1>1 DEF Erased, Permitted, NoRows
  <1>2. CASE Updated(d)
    BY <1>2 DEF Updated, Permitted, Database
  <1>3. CASE Seated(d)
    BY <1>3 DEF Seated, SameGame, SameRoster, SamePlay, Permitted
  <1>4. CASE Enlarged(d)
    BY <1>4 DEF Enlarged, SameGame, SameRoster, SamePlay, Permitted
  <1>5. CASE Reduced(d)
    BY <1>5 DEF Reduced, SameGame, SameRoster, SamePlay, Permitted
  <1>6. CASE Shared(d)
    BY <1>6 DEF Shared, SameGame, SameRoster, SamePlay, Permitted
  <1>7. CASE Entered(d)
    BY <1>7 DEF Entered, SameGame, SameRoster, SamePlay, Permitted
  <1> QED
    BY <1>1, <1>2, <1>3, <1>4, <1>5, <1>6, <1>7 DEF Written

LEMMA WithoutPlayers ==
    ASSUME NEW gone, Consistent(db)
    PROVE  /\ \A s \in db.seats  : s.player \notin gone <=> s.player \in db.players \ gone
           /\ \A s \in db.scores : s.player \notin gone <=> s.player \in db.players \ gone
  BY DEF Consistent

LEMMA LastWrite ==
    ASSUME OneAtATime, TypeOK, Current, NEW r \in Requests, request[r].op # "none",
           NEW d, Commit(r, d), serial'.game = serial.game, Written(d)
    PROVE  Current' /\ Allowed(r)
  <1>1. request' = [request EXCEPT ![r] = Idle] /\ db' = d
    BY DEF Commit
  <1>2. Upheld(Idle, db')
    BY DEF Upheld, Idle
  <1>3. serial'.game /\ request[r].user \in db.owners
    BY Owned
  <1>4. request'[r] = Idle /\ Idle # request[r]
    BY <1>1 DEF TypeOK, Idle
  <1>5. Permitted(d)
    BY Owned, WrittenIsPermitted
  <1> QED
    BY <1>1, <1>2, <1>3, <1>4, <1>5, OnlyRequest DEF Allowed

LEMMA WritesUpheld ==
    ASSUME OneAtATime, TypeOK, Current, NEW r \in Requests,
           \/ CommitUpdateGame(r)   \/ CommitDeleteGame(r)   \/ CommitSetupGame(r)
           \/ CommitAddOwner(r)     \/ CommitRemoveOwner(r)
           \/ CommitCreateTeam(r)   \/ CommitUpdateTeam(r)   \/ CommitDeleteTeam(r)
           \/ CommitCreatePlayer(r) \/ CommitUpdatePlayer(r) \/ CommitDeletePlayer(r)
    PROVE  Current' /\ Allowed(r)
  <1> DEFINE ids == [game : BOOLEAN, teams : SUBSET TeamIds,
                     players : SUBSET PlayerIds, setups : Nat]
             me == request[r]
  <1>1. serial \in ids /\ Upheld(me, db)
    BY DEF TypeOK, Current
  <1>2. /\ me.op # "none"
        /\ me.user \in db.owners
        /\ db.game \in Game /\ db.game # NoGame /\ db \in Database /\ Consistent(db)
    <2>1. me.op # "none"
      BY DEF CommitUpdateGame, CommitDeleteGame, CommitSetupGame, CommitAddOwner,
             CommitRemoveOwner, CommitCreateTeam, CommitUpdateTeam, CommitDeleteTeam,
             CommitCreatePlayer, CommitUpdatePlayer, CommitDeletePlayer, InFlight
    <2> QED
      BY <2>1, Owned
  <1> HIDE DEF me
  <1>3. CASE CommitUpdateGame(r)
    <2> DEFINE d == SaveGame(db, me.snap, me.row)
    <2>1. Commit(r, d) /\ serial' = serial /\ me.snap = db /\ Decided(me.row, db)
      BY <1>1, <1>3 DEF CommitUpdateGame, InFlight, Upheld, me
    <2>2. d = [db EXCEPT !.game = me.row]
      <3> DEFINE row == me.row
      <3>1. d = [game   |-> row,         owners  |-> db.owners,  teams |-> db.teams,
                 players |-> db.players, rounds  |-> db.rounds,  seats |-> db.seats,
                 scores |-> db.scores]
        <4>1. \A S : S \union S = S
          OBVIOUS
        <4> QED
          BY <2>1, <4>1 DEF SaveGame
      <3> HIDE DEF d, row
      <3>2. d = [db EXCEPT !.game = row]
        BY <1>2, <3>1 DEF Database
      <3> QED
        BY <3>2 DEF row
    <2>3. /\ d.game = me.row /\ d.owners = db.owners /\ d.teams = db.teams
          /\ d.players = db.players /\ d.scores = db.scores /\ d.seats = db.seats
      BY <1>2, <2>2 DEF Database
    <2> HIDE DEF d
    <2>4. me.row \in Game
      <3>1. request[r] \in Loaded /\ request[r].op = "UpdateGame"
        BY <1>3 DEF TypeOK, CommitUpdateGame, InFlight, Idle
      <3> QED
        BY <3>1 DEF Loaded, me
    <2>5. Written(d)
      BY <1>2, <2>1, <2>2, <2>3, <2>4 DEF Written, Updated
    <2> QED
      BY <1>2, <2>1, <2>5, LastWrite DEF me
  <1>4. CASE CommitDeleteGame(r)
    <2>1. Commit(r, NoRows) /\ serial' = serial
      BY <1>4 DEF CommitDeleteGame
    <2>2. Written(NoRows)
      BY DEF Written, Erased
    <2> QED
      BY <1>2, <2>1, <2>2, LastWrite DEF me
  <1>5. CASE CommitSetupGame(r)
    <2> DEFINE n == me.game.numberOfRounds
               setup == serial.setups + 1
    <2>1. PICK seating \in [1 .. n -> Seatings(me.players, me.game.tableSize)] :
              Commit(r, AssignTables(db, setup, n, me.players, seating))
      BY <1>5 DEF CommitSetupGame, me
    <2>2. /\ serial'.game = serial.game /\ db.game.status = "setup"
          /\ me.game = db.game /\ me.players = db.players /\ n \in Int \ {0}
      <3>1. request[r] \in Loaded /\ request[r].op = "SetupGame"
        BY <1>5 DEF TypeOK, CommitSetupGame, InFlight, Idle
      <3>2. n \in Int \ {0}
        BY <3>1 DEF Loaded, Game, Size, me
      <3>3. serial'.game = serial.game
        BY <1>1, <1>5 DEF CommitSetupGame
      <3> QED
        BY <1>1, <3>1, <3>2, <3>3 DEF Upheld, me
    <2> DEFINE d == AssignTables(db, setup, n, me.players, seating)
               seats == NewSeats(setup, n, db.players, seating)
    <2>3. /\ d.game = db.game /\ d.owners = db.owners /\ d.teams = db.teams
          /\ d.players = db.players /\ d.scores = {}
          /\ d.rounds = NewRounds(setup, n) /\ d.seats = seats
      BY <1>2, <2>2 DEF AssignTables, ResetGameTables, Database
    <2>4. (d.rounds # {}) = (n > 0)
      <3>1. CASE n > 0
        <4>1. [setup |-> setup, number |-> 1] \in NewRounds(setup, n)
          BY <2>2, <3>1 DEF NewRounds
        <4> QED
          BY <2>3, <3>1, <4>1
      <3>2. CASE n < 0
        BY <2>2, <2>3, <3>2 DEF NewRounds
      <3> QED
        BY <2>2, <3>1, <3>2
    <2>5. {s.player : s \in seats} = IF n > 0 THEN db.players ELSE {}
      <3>1. ASSUME NEW p \in db.players, n > 0
            PROVE  \E s \in seats : s.player = p
        <4> DEFINE s == [setup |-> setup, number |-> 1, table |-> seating[1][p], player |-> p]
        <4>1. s \in seats /\ s.player = p
          BY <2>2, <3>1 DEF NewSeats
        <4> QED
          BY <4>1
      <3>2. /\ \A s \in seats : s.player \in db.players
            /\ n < 0 => seats = {}
        BY <2>2 DEF NewSeats
      <3> QED
        BY <2>2, <3>1, <3>2
    <2>6. n = db.game.numberOfRounds
      BY <2>2
    <2> HIDE DEF d, seats, n, setup
    <2>7. Written(d)
      BY <2>2, <2>3, <2>4, <2>5, <2>6 DEF Written, Seated, SameGame, SameRoster, SamePlay
    <2>8. Commit(r, d)
      BY <2>1 DEF d, n, setup
    <2> QED
      BY <1>2, <2>2, <2>7, <2>8, LastWrite DEF me
  <1>6. CASE CommitAddOwner(r)
    <2> DEFINE d == [db EXCEPT !.owners = @ \union {me.target}]
    <2>1. Commit(r, d) /\ serial' = serial
      BY <1>6 DEF CommitAddOwner, me
    <2>2. /\ d.game = db.game /\ d.owners = db.owners \union {me.target} /\ d.teams = db.teams
          /\ d.players = db.players /\ d.scores = db.scores /\ d.seats = db.seats
          /\ d.rounds = db.rounds
      BY <1>2 DEF Database
    <2> HIDE DEF d
    <2>3. me.target \in Users
      <3>1. request[r] \in Loaded /\ request[r].op = "AddOwner"
        BY <1>6 DEF TypeOK, CommitAddOwner, InFlight, Idle
      <3> QED
        BY <3>1 DEF Loaded, me
    <2>4. Written(d)
      BY <2>2, <2>3 DEF Written, Shared, SameGame, SameRoster, SamePlay
    <2> QED
      BY <1>2, <2>1, <2>4, LastWrite DEF me
  <1>7. CASE CommitRemoveOwner(r)
    <2> DEFINE d == [db EXCEPT !.owners = @ \ {me.target}]
    <2>1. Commit(r, d) /\ serial' = serial /\ \E u \in db.owners : u # me.target
      BY <1>1, <1>7 DEF CommitRemoveOwner, InFlight, Upheld, me
    <2>2. /\ d.game = db.game /\ d.owners = db.owners \ {me.target} /\ d.teams = db.teams
          /\ d.players = db.players /\ d.scores = db.scores /\ d.seats = db.seats
          /\ d.rounds = db.rounds
      BY <1>2 DEF Database
    <2> HIDE DEF d
    <2>3. d.owners = db.owners \/ \E u, v \in db.owners : u # v /\ d.owners = db.owners \ {u}
      BY <2>1, <2>2
    <2>4. Written(d)
      BY <2>2, <2>3 DEF Written, Shared, SameGame, SameRoster, SamePlay
    <2> QED
      BY <1>2, <2>1, <2>4, LastWrite DEF me
  <1>8. CASE CommitCreateTeam(r)
    <2>1. PICK t \in TeamIds \ serial.teams :
          \E ps \in SUBSET {p \in PlayerIds \ serial.players : TeamOf[p] = t} :
              /\ serial' = [serial EXCEPT !.teams = @ \union {t}, !.players = @ \union ps]
              /\ Commit(r, [db EXCEPT !.teams = @ \union {t}, !.players = @ \union ps])
      BY <1>8 DEF CommitCreateTeam
    <2>2. PICK ps \in SUBSET {p \in PlayerIds \ serial.players : TeamOf[p] = t} :
              /\ serial' = [serial EXCEPT !.teams = @ \union {t}, !.players = @ \union ps]
              /\ Commit(r, [db EXCEPT !.teams = @ \union {t}, !.players = @ \union ps])
      BY <2>1
    <2> DEFINE d == [db EXCEPT !.teams = @ \union {t}, !.players = @ \union ps]
    <2>3. /\ d.game = db.game /\ d.owners = db.owners /\ d.teams = db.teams \union {t}
          /\ d.players = db.players \union ps /\ d.scores = db.scores /\ d.seats = db.seats
          /\ d.rounds = db.rounds
      BY <1>2 DEF Database
    <2>4. Commit(r, d) /\ serial'.game = serial.game
      BY <1>1, <2>2
    <2> HIDE DEF d
    <2>5. Written(d)
      BY <1>2, <2>3 DEF Written, Enlarged, SameGame, SameRoster, SamePlay
    <2> QED
      BY <1>2, <2>4, <2>5, LastWrite DEF me
  <1>9. CASE CommitUpdateTeam(r)
    <2> DEFINE d == SaveTeam(db, me.team, me.players, me.scores)
    <2>1. Commit(r, d) /\ serial' = serial
      BY <1>9 DEF CommitUpdateTeam, me
    <2>2. me.team \in db.teams /\ me.players \subseteq db.players /\ me.scores \subseteq db.scores
      BY <1>1, <1>9 DEF CommitUpdateTeam, InFlight, Upheld, me
    <2>3. d = db
      BY <1>2, <2>2 DEF SaveTeam, Database
    <2> HIDE DEF d
    <2>4. Written(d)
      BY <1>2, <2>3 DEF Written, Enlarged, SameGame, SameRoster, SamePlay
    <2> QED
      BY <1>2, <2>1, <2>4, LastWrite DEF me
  <1>10. CASE CommitDeleteTeam(r)
    <2> DEFINE d == RemoveTeam(db, me.team)
               gone == Members(db, me.team)
    <2>1. Commit(r, d) /\ serial' = serial
      BY <1>10 DEF CommitDeleteTeam, me
    <2>2. /\ d.game = db.game /\ d.owners = db.owners /\ d.teams \subseteq db.teams
          /\ d.players = db.players \ gone
          /\ d.scores = {s \in db.scores : s.player \notin gone}
          /\ d.seats = {s \in db.seats : s.player \notin gone}
          /\ d.rounds = db.rounds
      BY <1>2 DEF Database, RemoveTeam, RemovePlayers
    <2> HIDE DEF d, gone
    <2>3. Written(d)
      BY <1>2, <2>2, WithoutPlayers DEF Written, Reduced, SameGame, SameRoster, SamePlay
    <2> QED
      BY <1>2, <2>1, <2>3, LastWrite DEF me
  <1>11. CASE CommitCreatePlayer(r)
    <2>1. PICK p \in PlayerIds \ serial.players :
              /\ serial' = [serial EXCEPT !.players = @ \union {p}]
              /\ Commit(r, [db EXCEPT !.players = @ \union {p}])
      BY <1>11 DEF CommitCreatePlayer
    <2> DEFINE d == [db EXCEPT !.players = @ \union {p}]
    <2>2. /\ d.game = db.game /\ d.owners = db.owners /\ d.teams = db.teams
          /\ d.players = db.players \union {p} /\ d.scores = db.scores /\ d.seats = db.seats
          /\ d.rounds = db.rounds
      BY <1>2 DEF Database
    <2>3. Commit(r, d) /\ serial'.game = serial.game
      BY <1>1, <2>1
    <2> HIDE DEF d
    <2>4. Written(d)
      BY <1>2, <2>2 DEF Written, Enlarged, SameGame, SameRoster, SamePlay
    <2> QED
      BY <1>2, <2>3, <2>4, LastWrite DEF me
  <1>12. CASE CommitUpdatePlayer(r)
    <2> DEFINE d == SavePlayer(db, me.player, me.game, me.owners)
    <2>1. /\ Commit(r, d) /\ serial' = serial /\ me.player \in db.players
          /\ me.owners \subseteq db.owners
      BY <1>1, <1>12 DEF CommitUpdatePlayer, InFlight, Upheld, me
    <2>2. TeamOf[me.player] \in db.teams
      BY <1>2, <2>1 DEF Consistent
    <2>3. /\ d.game = db.game /\ d.owners = db.owners /\ d.teams = db.teams
          /\ d.players = db.players /\ d.scores = db.scores /\ d.seats = db.seats
          /\ d.rounds = db.rounds
      BY <1>2, <2>1, <2>2 DEF SavePlayer, Database
    <2> HIDE DEF d
    <2>4. Written(d)
      BY <1>2, <2>3 DEF Written, Enlarged, SameGame, SameRoster, SamePlay
    <2> QED
      BY <1>2, <2>1, <2>4, LastWrite DEF me
  <1>13. CASE CommitDeletePlayer(r)
    <2> DEFINE d == RemovePlayers(db, {me.player})
    <2>1. Commit(r, d) /\ serial' = serial
      BY <1>13 DEF CommitDeletePlayer, me
    <2>2. /\ d.game = db.game /\ d.owners = db.owners /\ d.teams = db.teams
          /\ d.players = db.players \ {me.player}
          /\ d.scores = {s \in db.scores : s.player \notin {me.player}}
          /\ d.seats = {s \in db.seats : s.player \notin {me.player}}
          /\ d.rounds = db.rounds
      BY <1>2 DEF Database, RemovePlayers
    <2> HIDE DEF d
    <2>3. Written(d)
      BY <1>2, <2>2, WithoutPlayers DEF Written, Reduced, SameGame, SameRoster, SamePlay
    <2> QED
      BY <1>2, <2>1, <2>3, LastWrite DEF me
  <1> QED
    BY <1>3, <1>4, <1>5, <1>6, <1>7, <1>8, <1>9, <1>10, <1>11, <1>12, <1>13

(***************************************************************************)
(* A score of a sheet is saved, and the rest of the sheet is still to be.  *)
(***************************************************************************)
LEMMA ScoreUpheld ==
    ASSUME OneAtATime, TypeOK, Current, NEW r \in Requests, SaveScore(r)
    PROVE  Current' /\ Allowed(r)
  <1> DEFINE me == request[r]
             todo == me.todo
             m == IF Len(todo) = 1 THEN Idle ELSE [me EXCEPT !.todo = Tail(@)]
             d == [db EXCEPT !.scores = @ \union {Head(todo)}]
  <1>1. me.op = "UpdateScores" /\ todo \in Seq(Seat) /\ todo # <<>>
    BY LoadedFields DEF SaveScore, InFlight
  <1>2. /\ me.user \in db.owners /\ serial.game
        /\ db.game # NoGame /\ db \in Database
    BY <1>1, Owned
  <1>3. /\ request' = [request EXCEPT ![r] = m] /\ db' = d /\ serial' = serial
    BY DEF SaveScore
  <1>4. \A i \in DOMAIN todo : todo[i] \in db.seats
    BY <1>1 DEF Current, Upheld
  <1>5. /\ d.game = db.game /\ d.owners = db.owners /\ d.teams = db.teams
        /\ d.players = db.players /\ d.seats = db.seats /\ d.rounds = db.rounds
        /\ d.scores = db.scores \union {Head(todo)}
    BY <1>2 DEF Database
  <1>6. me \in [op : {"UpdateScores"}, user : Users, todo : Seq(Seat) \ {<<>>},
                existing : SUBSET Seat]
    BY <1>1 DEF TypeOK, Loaded, Idle
  <1> HIDE DEF todo, d
  <1>7. PICK n \in Nat : n = Len(todo) /\ n > 0 /\ DOMAIN todo = 1 .. n
    BY <1>1
  <1>8. /\ Head(todo) = todo[1]
        /\ Len(Tail(todo)) = n - 1 /\ DOMAIN Tail(todo) = 1 .. n - 1
        /\ \A i \in 1 .. n - 1 : Tail(todo)[i] = todo[i + 1]
    BY <1>1, <1>7, HeadTailProperties
  <1>9. m # me /\ Upheld(m, d)
    <2>1. CASE Len(todo) = 1
      <3>1. m = Idle
        BY <2>1
      <3> HIDE DEF m
      <3> QED
        BY <1>1, <3>1 DEF Idle, Upheld
    <2>2. CASE Len(todo) # 1
      <3>1. /\ m.op = "UpdateScores" /\ m.user = me.user /\ m.todo = Tail(todo)
        BY <1>6, <2>2 DEF todo
      <3>2. Tail(todo) # todo
        BY <1>7, <1>8
      <3>3. \A i \in DOMAIN Tail(todo) : Tail(todo)[i] \in d.seats
        BY <1>4, <1>5, <1>7, <1>8
      <3> HIDE DEF m
      <3> QED
        BY <1>2, <1>5, <3>1, <3>2, <3>3 DEF Upheld, todo
    <2> QED
      BY <2>1, <2>2
  <1>10. Written(d) /\ Permitted(d)
    <2>1. Head(todo) \in db.seats
      BY <1>4, <1>7, <1>8
    <2>2. Written(d)
      BY <1>5, <2>1 DEF Written, Entered, SameGame, SameRoster
    <2> QED
      BY <1>2, <2>2, WrittenIsPermitted
  <1> HIDE DEF m
  <1>11. Current'
    BY <1>2, <1>3, <1>9, OnlyRequest
  <1>12. request'[r] = m
    BY <1>3 DEF TypeOK
  <1> QED
    BY <1>2, <1>3, <1>9, <1>10, <1>11, <1>12 DEF Allowed

(***************************************************************************)
(* Before the game is created there is nobody who could begin a request.   *)
(***************************************************************************)
LEMMA CreatedUpheld ==
    ASSUME TypeOK, Current, NEW u \in Users, CreateGame(u)
    PROVE  Current' /\ Created
  <1>1. ~ serial.game /\ db = NoRows /\ request' = request
    BY DEF CreateGame, Current
  <1>2. \A r \in Requests : request[r].op = "none"
    BY <1>1 DEF Current, Upheld, NoRows
  <1>3. serial'.game
    BY DEF CreateGame, TypeOK
  <1>4. \A r \in Requests : Upheld(request'[r], db')
    BY <1>1, <1>2 DEF Upheld
  <1>5. PICK s \in Settings :
           db' = [NoRows EXCEPT !.owners = {u},
                                !.game = [status         |-> "setup",
                                          teamSize       |-> s.teamSize,
                                          tableSize      |-> s.tableSize,
                                          numberOfRounds |-> s.numberOfRounds]]
    BY DEF CreateGame
  <1>6. /\ db'.owners = {u} /\ db'.game.status = "setup" /\ db'.game # NoGame
        /\ db'.teams = {} /\ db'.players = {}
        /\ db'.rounds = {} /\ db'.seats = {} /\ db'.scores = {}
    BY <1>5 DEF NoRows, NoGame
  <1> QED
    BY <1>1, <1>3, <1>4, <1>6 DEF Current, Created

(***************************************************************************)
(* Every step keeps what is loaded current, and writes nothing, creates    *)
(* the game, or leaves permitted rows.                                     *)
(***************************************************************************)
LEMMA SerialStep ==
    ASSUME OneAtATime, TypeOK, Current, [Next]_vars
    PROVE  /\ Current'
           /\ UNCHANGED <<db, serial>> \/ Created \/ \E r \in Requests : Allowed(r)
  <1>1. CASE UNCHANGED vars
    BY <1>1 DEF vars, Current
  <1>2. ASSUME NEW r \in Requests, Fail(r)
        PROVE  Current' /\ UNCHANGED <<db, serial>>
    <2>1. Upheld(Idle, db')
      BY DEF Upheld, Idle
    <2> QED
      BY <1>2, <2>1, OnlyRequest DEF Fail, Current
  <1> QED
    BY <1>1, <1>2, BeginsUpheld, WritesUpheld, ScoreUpheld, CreatedUpheld DEF Next

(***************************************************************************)
(* What a request has loaded is still stored when it writes.               *)
(***************************************************************************)
LEMMA AlwaysCurrent == ASSUME OneAtATime PROVE Spec => []Current
  <1>1. Init => Current
    BY DEF Init, Current, Upheld, Idle
  <1>2. TypeOK /\ Current /\ [Next]_vars => Current'
    BY SerialStep
  <1> QED
    BY <1>1, <1>2, TypeCorrect, PTL DEF Spec

-----------------------------------------------------------------------------
(***************************************************************************)
(* "cannot remove the last owner" (apperror/error.go:18): as long as       *)
(* requests do not overlap, the count of owners is still right when one is *)
(* removed (game/service.go:162).                                          *)
(***************************************************************************)
THEOREM GamesAreOwned == ASSUME OneAtATime PROVE Spec => []EveryGameHasOwner
  <1>1. Init => EveryGameHasOwner
    BY DEF Init, EveryGameHasOwner, NoRows
  <1>2. TypeOK /\ Current /\ EveryGameHasOwner /\ [Next]_vars => EveryGameHasOwner'
    <2> SUFFICES ASSUME TypeOK, Current, EveryGameHasOwner, [Next]_vars
                 PROVE  EveryGameHasOwner'
      OBVIOUS
    <2>1. UNCHANGED <<db, serial>> \/ Created \/ \E r \in Requests : Allowed(r)
      BY SerialStep
    <2> QED
      BY <2>1 DEF EveryGameHasOwner, Created, Allowed, Permitted
  <1> QED
    BY <1>1, <1>2, AlwaysCurrent, TypeCorrect, PTL DEF Spec

(***************************************************************************)
(* "no score row may be written for a player not seated at the table"      *)
(* (scores_test.go:122): none is, as long as requests do not overlap.      *)
(***************************************************************************)
THEOREM OnlySeatsScored == ASSUME OneAtATime PROVE Spec => []ScoresAreSeated
  <1>1. Init => ScoresAreSeated
    BY DEF Init, ScoresAreSeated, NoRows
  <1>2. TypeOK /\ Current /\ ScoresAreSeated /\ [Next]_vars => ScoresAreSeated'
    <2> SUFFICES ASSUME TypeOK, Current, ScoresAreSeated, [Next]_vars
                 PROVE  ScoresAreSeated'
      OBVIOUS
    <2>1. UNCHANGED <<db, serial>> \/ Created \/ \E r \in Requests : Allowed(r)
      BY SerialStep
    <2> QED
      BY <2>1 DEF ScoresAreSeated, Created, Allowed, Permitted
  <1> QED
    BY <1>1, <1>2, AlwaysCurrent, TypeCorrect, PTL DEF Spec

(***************************************************************************)
(* "Game is not in setup state" (game_setup_test.go:35): the scores of a   *)
(* started game stay, as long as requests do not overlap: the status is    *)
(* still the one the handler has checked (games_handler.go:304).           *)
(***************************************************************************)
THEOREM StartedGamesKeepScores == ASSUME OneAtATime PROVE Spec => StartedGameKeepsScores
  <1> DEFINE Kept == db.game.status \in {"in_progress", "completed"} /\ db'.game # NoGame =>
                        \A s \in db.scores : s.player \in db'.players => s \in db'.scores
  <1>1. TypeOK /\ Current /\ [Next]_vars => [Kept]_vars
    <2> SUFFICES ASSUME TypeOK, Current, [Next]_vars PROVE Kept
      OBVIOUS
    <2>1. UNCHANGED <<db, serial>> \/ Created \/ \E r \in Requests : Allowed(r)
      BY SerialStep
    <2>2. CASE UNCHANGED <<db, serial>>
      BY <2>2
    <2>3. CASE Created
      BY <2>3 DEF Created, Current, NoRows
    <2>4. CASE \E r \in Requests : Allowed(r)
      BY <2>4 DEF Allowed, Permitted
    <2> QED
      BY <2>1, <2>2, <2>3, <2>4
  <1> QED
    BY <1>1, AlwaysCurrent, TypeCorrect, PTL DEF Spec, StartedGameKeepsScores

(***************************************************************************)
(* "Game deleted", "Team deleted", "Player deleted" (openapi.yaml:179,     *)
(* :358, :448): nothing comes back, as long as requests do not overlap:    *)
(* what a save inserts again is still there.                               *)
(***************************************************************************)
THEOREM DeletedNeverReturns == ASSUME OneAtATime PROVE Spec => DeletedStaysDeleted
  <1> DEFINE Gone == /\ serial.game /\ db.game = NoGame => db'.game = NoGame
                     /\ (db'.teams \ db.teams) \intersect serial.teams = {}
                     /\ (db'.players \ db.players) \intersect serial.players = {}
  <1>1. TypeOK /\ Current /\ [Next]_vars => [Gone]_vars
    <2> SUFFICES ASSUME TypeOK, Current, [Next]_vars PROVE Gone
      OBVIOUS
    <2>1. UNCHANGED <<db, serial>> \/ Created \/ \E r \in Requests : Allowed(r)
      BY SerialStep
    <2>2. CASE UNCHANGED <<db, serial>>
      BY <2>2
    <2>3. CASE Created
      BY <2>3 DEF Created
    <2>4. ASSUME NEW r \in Requests, Allowed(r)
          PROVE  Gone
      <3>1. db.game # NoGame
        BY <2>4, OwnersGame DEF Allowed, Game, NoGame, Status
      <3> QED
        BY <2>4, <3>1 DEF Allowed, Permitted
    <2> QED
      BY <2>1, <2>2, <2>3, <2>4
  <1> QED
    BY <1>1, AlwaysCurrent, TypeCorrect, PTL DEF Spec, DeletedStaysDeleted

(***************************************************************************)
(* Whoever changes a row owns the game at that moment, as long as requests *)
(* do not overlap (game/service.go:41, player/service.go:35,               *)
(* table/repository.go:30).                                                *)
(***************************************************************************)
THEOREM OwnersAloneWrite == ASSUME OneAtATime PROVE Spec => OnlyOwnersWrite
  <1> DEFINE Owning == db # NoRows /\ db' # db =>
                          \E r \in Requests : /\ request'[r] # request[r]
                                              /\ request[r].user \in db.owners
  <1>1. TypeOK /\ Current /\ [Next]_vars => [Owning]_vars
    <2> SUFFICES ASSUME TypeOK, Current, [Next]_vars PROVE Owning
      OBVIOUS
    <2>1. UNCHANGED <<db, serial>> \/ Created \/ \E r \in Requests : Allowed(r)
      BY SerialStep
    <2> QED
      BY <2>1 DEF Created, Current, Allowed
  <1> QED
    BY <1>1, AlwaysCurrent, TypeCorrect, PTL DEF Spec, OnlyOwnersWrite

-----------------------------------------------------------------------------
(***************************************************************************)
(* A game changes to another status only by an update that has checked it  *)
(* against the rows that are stored, and keeps those.                      *)
(***************************************************************************)
LEMMA StatusStep ==
    ASSUME OneAtATime, TypeOK, TypeOK', Current, [Next]_vars,
           db'.game.status # db.game.status, db'.game.status \in {"in_progress", "completed"}
    PROVE  /\ db'.game \in Game /\ Decided(db'.game, db)
           /\ db'.players = db.players /\ db'.rounds = db.rounds
           /\ db'.scores = db.scores /\ db'.seats = db.seats
  <1>1. db'.game # NoGame
    BY DEF NoGame
  <1>2. db'.game \in Game /\ db \in Database
    BY <1>1 DEF TypeOK, Database
  <1>3. PICK r \in Requests : Allowed(r)
    <2>1. UNCHANGED <<db, serial>> \/ Created \/ \E r \in Requests : Allowed(r)
      BY SerialStep
    <2> QED
      BY <2>1 DEF Created
  <1>4. db' = [db EXCEPT !.game = db'.game] /\ Decided(db'.game, db)
    BY <1>1, <1>3 DEF Allowed, Permitted
  <1> QED
    BY <1>2, <1>4 DEF Database

(***************************************************************************)
(* What it takes to start a game: the rounds, and teams of the right size, *)
(* as many as a table has seats at the least; or nobody, and a negative    *)
(* size.                                                                   *)
(***************************************************************************)
LEMMA StartableMeans ==
    ASSUME NEW d \in Database, NEW row \in Game, Startable(d, row)
    PROVE  /\ Cardinality(d.rounds) = row.numberOfRounds
           /\ \A p \in d.players : Cardinality(Members(d, TeamOf[p])) = row.teamSize
           /\ IF d.players = {} THEN row.teamSize < 0
              ELSE /\ Cardinality({TeamOf[p] : p \in d.players}) >= row.tableSize
                   /\ row.tableSize > 0
  <1> DEFINE teams == TeamsMap(d)
             ts == row.teamSize
             tb == row.tableSize
             Ids == {TeamOf[p] : p \in d.players}
  <1>1. /\ ts \in Int \ {0} /\ tb \in Int \ {0} /\ d.players \subseteq PlayerIds
        /\ Cardinality(d.rounds) = row.numberOfRounds
        /\ IsAssignable(teams, ts, tb)
    BY DEF Game, Size, Database, Startable
  <1>2. IsFiniteSet(d.players)
    BY <1>1, KeysAssumption, FS_Subset
  <1>3. /\ DOMAIN teams = Ids /\ \A t \in Ids : teams[t] = Members(d, t)
        /\ Ids = {} <=> d.players = {}
    BY DEF TeamsMap
  <1>4. \A t \in Ids : IsFiniteSet(teams[t])
    <2>1. \A t \in Ids : Members(d, t) \subseteq d.players
      BY DEF Members
    <2> QED
      BY <1>2, <1>3, <2>1, FS_Subset
  <1>5. IsFiniteSet(Ids)
    <2> DEFINE f == [p \in d.players |-> TeamOf[p]]
    <2>1. f \in Surjection(d.players, Ids)
      BY DEF Surjection
    <2> HIDE DEF f, Ids
    <2> QED
      BY <1>2, <2>1, FS_Surjection
  <1> HIDE DEF teams, ts, tb, Ids
  <1>6. \A t \in DOMAIN teams : Cardinality(teams[t]) = ts
    BY <1>1 DEF IsAssignable
  <1>7. \A p \in d.players : Cardinality(Members(d, TeamOf[p])) = ts
    <2> TAKE p \in d.players
    <2>1. TeamOf[p] \in Ids
      BY DEF Ids
    <2> QED
      BY <1>3, <1>6, <2>1
  <1>8. IF d.players = {} THEN ts < 0 ELSE Cardinality(Ids) >= tb /\ tb > 0
    <2>1. CASE Ids # {}
      BY <1>1, <1>3, <1>4, <1>5, <2>1, AssignableMeans
    <2>2. CASE Ids = {}
      <3>1. Cardinality(DOMAIN teams) = 0
        BY <1>3, <2>2, FS_EmptySet
      <3>2. GoQuo(0 * ts, tb) >= ts
        BY <1>1, <3>1 DEF IsAssignable
      <3>3. 0 * ts = 0
        BY <1>1
      <3>4. GoQuo(0, tb) = 0
        BY <1>1, GoQuoZero
      <3> QED
        BY <1>1, <1>3, <2>2, <3>2, <3>3, <3>4
    <2> QED
      BY <2>1, <2>2
  <1> QED
    BY <1>1, <1>7, <1>8 DEF ts, tb, Ids

(***************************************************************************)
(* A game starts only when it can be played, as long as requests do not    *)
(* overlap (game/service.go:79-88).  The code counts the rounds; that they *)
(* are those from 1 to the number asked for holds however requests run.    *)
(***************************************************************************)
THEOREM GamesStartPlayable == ASSUME OneAtATime PROVE Spec => StartsPlayable
  <1> DEFINE Playable == db.game.status # "in_progress" /\ db'.game.status = "in_progress" =>
                /\ db'.rounds # {}
                /\ {r.number : r \in db'.rounds} = 1 .. db'.game.numberOfRounds
                /\ \A p \in db'.players :
                       Cardinality(Members(db', TeamOf[p])) = db'.game.teamSize
                /\ IF db'.players = {} THEN db'.game.teamSize < 0
                   ELSE Cardinality({TeamOf[p] : p \in db'.players}) >= db'.game.tableSize
  <1>1. TypeOK /\ TypeOK' /\ Current /\ SetupIsWhole /\ [Next]_vars => [Playable]_vars
    <2> SUFFICES ASSUME TypeOK, TypeOK', Current, SetupIsWhole, [Next]_vars,
                        db.game.status # "in_progress", db'.game.status = "in_progress"
                 PROVE  /\ db'.rounds # {}
                        /\ {r.number : r \in db'.rounds} = 1 .. db'.game.numberOfRounds
                        /\ \A p \in db'.players :
                               Cardinality(Members(db', TeamOf[p])) = db'.game.teamSize
                        /\ IF db'.players = {} THEN db'.game.teamSize < 0
                           ELSE Cardinality({TeamOf[p] : p \in db'.players})
                                    >= db'.game.tableSize
      OBVIOUS
    <2> DEFINE row == db'.game
    <2>1. /\ row \in Game /\ Decided(row, db)
          /\ db'.players = db.players /\ db'.rounds = db.rounds
      BY StatusStep
    <2>2. db \in Database /\ row.status = "in_progress"
      BY DEF TypeOK
    <2> HIDE DEF row
    <2>3. Startable(db, row)
      BY <2>1, <2>2 DEF Decided
    <2>4. /\ Cardinality(db.rounds) = row.numberOfRounds
          /\ \A p \in db.players : Cardinality(Members(db, TeamOf[p])) = row.teamSize
          /\ IF db.players = {} THEN row.teamSize < 0
             ELSE Cardinality({TeamOf[p] : p \in db.players}) >= row.tableSize
      BY <2>1, <2>2, <2>3, StartableMeans
    <2>5. \A t : Members(db', t) = Members(db, t)
      BY <2>1 DEF Members
    <2>6. {r.number : r \in db.rounds} = 1 .. row.numberOfRounds
      BY <2>4 DEF SetupIsWhole
    <2>7. db.rounds # {}
      BY <2>1, <2>4, FS_EmptySet DEF Game, Size
    <2> QED
      BY <2>1, <2>4, <2>5, <2>6, <2>7 DEF row
  <1> QED
    BY <1>1, AlwaysCurrent, StoredSetupIsWhole, TypeCorrect, PTL DEF Spec, StartsPlayable

LEMMA RoundsFinite == ASSUME CopiesAgree PROVE IsFiniteSet(db.rounds)
  <1>1. CASE db.rounds = {}
    BY <1>1, FS_EmptySet
  <1>2. CASE db.rounds # {}
    <2>1. RoundsOfOneSetup(db, serial.setups)
      BY DEF CopiesAgree, Copies
    <2>2. PICK setup \in 1 .. serial.setups, n \in 1 .. Cardinality(db.rounds) :
              db.rounds = NewRounds(setup, n)
      BY <1>2, <2>1 DEF RoundsOfOneSetup
    <2>3. setup \in Nat /\ n \in Nat \ {0}
      OBVIOUS
    <2>4. IsFiniteSet(NewRounds(setup, n))
      BY <2>3, NewRoundsFacts
    <2> QED
      BY <2>2, <2>4
  <1> QED
    BY <1>1, <1>2

(***************************************************************************)
(* A player has as many scores as rounds it is scored in.                  *)
(***************************************************************************)
LEMMA ScoresInRounds ==
    ASSUME TypeOK, CopiesAgree, OnePlacePerRound, ScoresAreSeated, NEW p \in db.players
    PROVE  LET scores == {s \in db.scores : s.player = p}
           IN  /\ Cardinality({RoundOf(s) : s \in scores}) = Cardinality(scores)
               /\ Cardinality(scores) \in Nat
  <1> DEFINE scores == {s \in db.scores : s.player = p}
             rounds == {RoundOf(s) : s \in scores}
             f == [s \in scores |-> RoundOf(s)]
  <1>1. IsFiniteSet(db.rounds)
    BY RoundsFinite
  <1>2. \A s, q \in scores : RoundOf(s) = RoundOf(q) => s = q
    <2> SUFFICES ASSUME NEW s \in scores, NEW q \in scores, RoundOf(s) = RoundOf(q)
                 PROVE  s = q
      OBVIOUS
    <2>1. s \in db.seats /\ q \in db.seats /\ s.player = q.player
      BY DEF ScoresAreSeated
    <2>2. s.number = q.number
      BY DEF RoundOf
    <2> QED
      BY <2>1, <2>2 DEF OnePlacePerRound
  <1>3. f \in Bijection(scores, rounds)
    BY <1>2 DEF Bijection, Injection, Surjection, IsInjective
  <1>4. rounds \subseteq db.rounds
    BY DEF TypeOK, Consistent
  <1>5. IsFiniteSet(rounds)
    BY <1>1, <1>4, FS_Subset
  <1> HIDE DEF scores, rounds, f
  <1>6. f \in Injection(scores, rounds)
    BY <1>3 DEF Bijection
  <1>7. IsFiniteSet(scores)
    BY <1>5, <1>6, FS_Injection
  <1>8. ExistsBijection(scores, rounds)
    BY <1>3 DEF ExistsBijection
  <1>9. Cardinality(rounds) = Cardinality(scores) /\ Cardinality(scores) \in Nat
    BY <1>7, <1>8, FS_Bijection, FS_CardinalityType
  <1> QED
    BY <1>9 DEF scores, rounds

(***************************************************************************)
(* A game is completed only when every player has a score in as many       *)
(* rounds as it has, as long as requests do not overlap: the code counts   *)
(* the scores of a player, and no two of them are of one round             *)
(* (game/service.go:90-94).                                                *)
(***************************************************************************)
THEOREM GamesCompleteScored == ASSUME OneAtATime PROVE Spec => CompletesScored
  <1> DEFINE Scored == db.game.status # "completed" /\ db'.game.status = "completed" =>
                \A p \in db'.players :
                    Cardinality({RoundOf(s) : s \in {s \in db'.scores : s.player = p}})
                        >= db'.game.numberOfRounds
  <1>1. /\ TypeOK /\ TypeOK' /\ Current /\ CopiesAgree /\ OnePlacePerRound /\ ScoresAreSeated
        /\ [Next]_vars
        => [Scored]_vars
    <2> SUFFICES ASSUME TypeOK, TypeOK', Current, CopiesAgree, OnePlacePerRound,
                        ScoresAreSeated, [Next]_vars,
                        db.game.status # "completed", db'.game.status = "completed",
                        NEW p \in db'.players
                 PROVE  Cardinality({RoundOf(s) : s \in {s \in db'.scores : s.player = p}})
                            >= db'.game.numberOfRounds
      OBVIOUS
    <2> DEFINE row == db'.game
               scores == {s \in db.scores : s.player = p}
    <2>1. /\ row \in Game /\ Decided(row, db)
          /\ db'.players = db.players /\ db'.scores = db.scores
      BY StatusStep
    <2>2. row.status = "completed" /\ row.numberOfRounds \in Int
      BY <2>1 DEF Game, Size
    <2> HIDE DEF row
    <2>3. ~ GameIncompleteScoresMissing(db, row)
      BY <2>1, <2>2 DEF Decided
    <2>4. ~ (Cardinality(scores) < row.numberOfRounds)
      BY <2>1, <2>3 DEF GameIncompleteScoresMissing
    <2>5. /\ Cardinality({RoundOf(s) : s \in scores}) = Cardinality(scores)
          /\ Cardinality(scores) \in Nat
      BY <2>1, ScoresInRounds
    <2> HIDE DEF scores
    <2>6. Cardinality({RoundOf(s) : s \in scores}) >= row.numberOfRounds
      BY <2>2, <2>4, <2>5
    <2> QED
      BY <2>1, <2>6 DEF scores, row
  <1> QED
    BY <1>1, AlwaysCurrent, CopiesAlwaysAgree, StoredSeatsAreUnique, OnlySeatsScored,
       TypeCorrect, PTL DEF Spec, CompletesScored

-----------------------------------------------------------------------------
(***************************************************************************)
(* The phase of a game that is stored is its status, its sizes are those   *)
(* of its row.                                                             *)
(***************************************************************************)
LEMMA StoredPhase ==
    ASSUME TypeOK, Current, NEW r \in Requests, Allowed(r)
    PROVE  /\ serial'.game /\ db.owners # {} /\ db.game \in Game
           /\ Phase = db.game.status /\ Phase \in Rules!Status
           /\ Column("numberOfRounds") = db.game.numberOfRounds
           /\ db'.game = db.game =>
                  /\ Phase' = Phase
                  /\ Column("teamSize")' = Column("teamSize")
                  /\ Column("numberOfRounds")' = Column("numberOfRounds")
  <1>1. db.owners # {} /\ serial'.game = serial.game
    BY DEF Allowed
  <1>2. db.game \in Game /\ db.game # NoGame
    BY <1>1, OwnersGame DEF Game, NoGame, Status
  <1>3. serial.game
    BY <1>1 DEF Current, NoRows
  <1>4. db.game.status \in Rules!Status
    BY <1>2 DEF Game, Status, Rules!Status
  <1> QED
    BY <1>1, <1>2, <1>3, <1>4 DEF Phase, Column

(***************************************************************************)
(* A change of status obeys the rules: what UpdateGame counts is there.    *)
(***************************************************************************)
LEMMA UpdatedFollows ==
    ASSUME TypeOK, CopiesAgree, Phase = db.game.status, Updated(db')
    PROVE  Rules!Update
  <1> DEFINE row == db'.game
  <1>1. db \in Database /\ db' = [db EXCEPT !.game = row] /\ row \in Game /\ Decided(row, db)
    BY DEF TypeOK, Updated
  <1>2. /\ db'.owners = db.owners /\ db'.players = db.players /\ db'.rounds = db.rounds
        /\ db'.seats = db.seats /\ db'.scores = db.scores
    BY <1>1 DEF Database
  <1>3. /\ Phase' = row.status /\ row.status \in Rules!Status
        /\ Column("teamSize")' = row.teamSize /\ row.teamSize \in Int \ {0}
        /\ Column("numberOfRounds")' = row.numberOfRounds
        /\ row.numberOfRounds \in Int \ {0}
    BY <1>1 DEF Phase, Column, Game, Size, NoGame, Status, Rules!Status
  <1> HIDE DEF row
  <1>4. ASSUME row.status = "in_progress", Phase # row.status
        PROVE  /\ db.rounds # {} /\ row.numberOfRounds > 0
               /\ db.players # {} \/ row.teamSize < 0
    <2>1. Startable(db, row)
      BY <1>1, <1>4 DEF Decided
    <2>2. /\ Cardinality(db.rounds) = row.numberOfRounds
          /\ db.players # {} \/ row.teamSize < 0
      BY <1>1, <2>1, StartableMeans
    <2>3. Cardinality(db.rounds) \in Nat /\ Cardinality({}) = 0
      BY RoundsFinite, FS_CardinalityType, FS_EmptySet
    <2> QED
      BY <1>3, <2>2, <2>3
  <1>5. ASSUME row.status = "completed", Phase # row.status, NEW p \in db.players,
               row.numberOfRounds > 0
        PROVE  \E s \in db.scores : s.player = p
    <2> DEFINE scores == {s \in db.scores : s.player = p}
    <2>1. ~ GameIncompleteScoresMissing(db, row)
      BY <1>1, <1>5 DEF Decided
    <2>2. ~ (Cardinality(scores) < row.numberOfRounds)
      BY <1>5, <2>1 DEF GameIncompleteScoresMissing
    <2>3. ASSUME scores = {} PROVE FALSE
      BY <1>3, <1>5, <2>2, <2>3, FS_EmptySet
    <2> QED
      BY <2>3
  <1>6. ASSUME Phase' # Phase
        PROVE  /\ Phase' = "in_progress" => Rules!MayStart
               /\ Phase' = "completed" => Rules!MayEnd
    BY <1>3, <1>4, <1>5, <1>6 DEF Rules!MayStart, Rules!MayEnd
  <1>7. Rules!Settle
    BY <1>3 DEF Rules!Settle
  <1> QED
    BY <1>2, <1>3, <1>6, <1>7 DEF Rules!Update

(***************************************************************************)
(* Every write follows the rules.                                          *)
(***************************************************************************)
LEMMA WriteFollows ==
    ASSUME TypeOK, CopiesAgree, Current, NEW r \in Requests, Allowed(r)
    PROVE  Rules!Next
  <1>1. /\ serial'.game /\ db.owners # {}
        /\ Phase = db.game.status /\ Phase \in Rules!Status
        /\ Column("numberOfRounds") = db.game.numberOfRounds
        /\ db'.game = db.game =>
               /\ Phase' = Phase
               /\ Column("teamSize")' = Column("teamSize")
               /\ Column("numberOfRounds")' = Column("numberOfRounds")
    BY StoredPhase
  <1>2. CASE Erased(db')
    <2>1. Phase' = "deleted" /\ Rules!Empty'
      BY <1>1, <1>2 DEF Erased, NoRows, Phase, Column, Rules!Empty
    <2> QED
      BY <1>1, <2>1 DEF Rules!Next, Rules!Delete
  <1>3. CASE Updated(db')
    BY <1>1, <1>3, UpdatedFollows DEF Rules!Next
  <1>4. CASE Seated(db')
    <2>1. Rules!Assign
      BY <1>1, <1>4 DEF Seated, SameRoster, Rules!Assign
    <2> QED
      BY <1>1, <2>1 DEF Rules!Next
  <1>5. CASE Enlarged(db')
    <2>1. Rules!Admit
      BY <1>1, <1>5 DEF Enlarged, SameGame, SamePlay, Rules!Admit
    <2> QED
      BY <1>1, <2>1 DEF Rules!Next
  <1>6. CASE Reduced(db')
    <2>1. Rules!Dismiss
      BY <1>1, <1>6 DEF Reduced, SameGame, Rules!Dismiss
    <2> QED
      BY <1>1, <2>1 DEF Rules!Next
  <1>7. CASE Shared(db')
    <2>1. Rules!Share \/ Rules!Admit
      BY <1>1, <1>7 DEF Shared, SameGame, SameRoster, SamePlay, Rules!Share, Rules!Admit
    <2> QED
      BY <1>1, <2>1 DEF Rules!Next
  <1>8. CASE Entered(db')
    <2>1. Rules!Score
      BY <1>1, <1>8 DEF Entered, SameGame, SameRoster, Rules!Score
    <2> QED
      BY <1>1, <2>1 DEF Rules!Next
  <1> QED
    BY <1>2, <1>3, <1>4, <1>5, <1>6, <1>7, <1>8 DEF Allowed, Written

LEMMA CreationFollows ==
    ASSUME TypeOK', Current, Created
    PROVE  Rules!Next
  <1>1. db = NoRows /\ ~ serial.game
    BY DEF Current, Created
  <1>2. Phase = "none" /\ Phase' = "setup"
    BY <1>1 DEF Phase, NoRows, NoGame, Created
  <1>3. Column("teamSize")' # 0 /\ Column("numberOfRounds")' # 0
    <2>1. db'.game \in Game /\ db'.game # NoGame
      BY DEF TypeOK, Database, Created
    <2> QED
      BY <2>1 DEF Column, Game, Size
  <1>4. Rules!Create
    BY <1>1, <1>2, <1>3 DEF NoRows, Created, Rules!Create, Rules!Settle
  <1> QED
    BY <1>4 DEF Rules!Next

(***************************************************************************)
(* The services keep the rules of a game (GameRules) as long as requests   *)
(* do not overlap: each write, with its cascades and with all that a save  *)
(* of a loaded graph inserts again (game/repository.go:54), is one step of *)
(* the game or none.                                                       *)
(***************************************************************************)
THEOREM GamesFollowTheRules == ASSUME OneAtATime PROVE Spec => FollowsTheRules
  <1>1. Init => Rules!Init
    BY DEF Init, Rules!Init, Rules!Empty, Phase, Column, NoRows, NoGame
  <1>2. TypeOK /\ TypeOK' /\ CopiesAgree /\ Current /\ [Next]_vars
        => [Rules!Next]_(Rules!rules)
    <2> SUFFICES ASSUME TypeOK, TypeOK', CopiesAgree, Current, [Next]_vars
                 PROVE  Rules!Next \/ UNCHANGED Rules!rules
      OBVIOUS
    <2>1. UNCHANGED <<db, serial>> \/ Created \/ \E r \in Requests : Allowed(r)
      BY SerialStep
    <2>2. CASE UNCHANGED <<db, serial>>
      BY <2>2 DEF Rules!rules, Phase, Column
    <2> QED
      BY <2>1, <2>2, WriteFollows, CreationFollows
  <1> QED
    BY <1>1, <1>2, AlwaysCurrent, CopiesAlwaysAgree, TypeCorrect, PTL
    DEF Spec, FollowsTheRules, Rules!Spec
=============================================================================
