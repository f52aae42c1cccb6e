---------------------- MODULE TournamentOverlapProofs ----------------------
(***************************************************************************)
(* What concurrent requests can do to the stored rounds and seats, that an *)
(* admitted setup has a seating whatever happens meanwhile, and which      *)
(* operations alone can break what holds of requests one at a time.        *)
(*                                                                         *)
(* The hazard to the rounds is the stale copy: UpdateGame holds a copy of  *)
(* all rows from its load to its save, and the save writes lost rounds and *)
(* seats back among those of a later assignment. The invariant therefore   *)
(* speaks of the database and of all such copies at once: two of them      *)
(* agree on every assignment they both hold rows of, and the unique index  *)
(* on the number of a round keeps rows of two assignments apart.           *)
(***************************************************************************)
EXTENDS TournamentProofs, SeatingProofs, SequenceTheorems

\* The database, and the copies of it that will be saved.
Copies == {db} \union {request[r].snap : r \in {r \in Requests : InFlight(r, "UpdateGame")}}

RoundsOfOneSetup(d, setups) ==
    \/ d.rounds = {}
    \/ \E setup \in 1 .. setups, n \in 1 .. Cardinality(d.rounds) :
           d.rounds = NewRounds(setup, n)

\* Two seats of one round of one assignment.
Fit(s, q) ==
    s.setup = q.setup /\ s.number = q.number =>
        /\ s.player = q.player => s = q
        /\ s.table = q.table /\ s.player # q.player => TeamOf[s.player] # TeamOf[q.player]

\* Whoever has a place has one in every round.
SeatedInEveryRound(d) ==
    \A s \in d.seats, r \in d.rounds :
        \E q \in d.seats : RoundOf(q) = r /\ q.player = s.player

CopiesAgree ==
    /\ \A d \in Copies : RoundsOfOneSetup(d, serial.setups) /\ SeatedInEveryRound(d)
    /\ \A d \in Copies : \A s \in d.seats : s.setup <= serial.setups
    /\ \A d, e \in Copies :
           /\ \A r \in d.rounds, q \in e.rounds : r.setup = q.setup => d.rounds = e.rounds
           /\ \A s \in d.seats, q \in e.seats : Fit(s, q)

(***************************************************************************)
(* Every step but a table assignment merges a copy into the database and   *)
(* deletes players, or deletes everything.                                 *)
(***************************************************************************)
Merge ==
    /\ Copies' \subseteq Copies \union {db'}
    /\ serial'.setups = serial.setups
    /\ \E d \in Copies, gone \in SUBSET PlayerIds :
           /\ db'.seats = {s \in db.seats \union d.seats : s.player \notin gone}
           /\ \/ db'.rounds = {}
              \/ /\ db'.rounds = db.rounds \union d.rounds
                 /\ \A r \in d.rounds \ db.rounds, q \in db.rounds : r.number # q.number

(***************************************************************************)
(* A request that is changed holds no copy but one of the present rows.    *)
(***************************************************************************)
LEMMA CopiesStep ==
    ASSUME TypeOK, NEW r \in Requests, NEW m, request' = [request EXCEPT ![r] = m],
           m.op = "UpdateGame" => m.snap = db
    PROVE  Copies' \subseteq Copies \union {db'}
  <1>1. ASSUME NEW q \in Requests, request'[q].op = "UpdateGame"
        PROVE  request'[q].snap \in Copies
    <2>1. CASE q = r
      <3>1. request'[q] = m
        BY <2>1 DEF TypeOK
      <3> QED
        BY <1>1, <3>1 DEF Copies
    <2>2. CASE q # r
      <3>1. request'[q] = request[q]
        BY <2>2 DEF TypeOK
      <3> QED
        BY <1>1, <3>1 DEF Copies, InFlight
    <2> QED
      BY <2>1, <2>2
  <1>2. Copies' = {db'} \union {request'[q].snap :
                                   q \in {q \in Requests : request'[q].op = "UpdateGame"}}
    BY DEF Copies, InFlight
  <1> QED
    BY <1>1, <1>2, Zenon

(***************************************************************************)
(* A step that changes no round and at most deletes players is a merge.    *)
(***************************************************************************)
LEMMA PlainStep ==
    ASSUME TypeOK, NEW r \in Requests, NEW m, request' = [request EXCEPT ![r] = m],
           m.op = "UpdateGame" => m.snap = db,
           serial'.setups = serial.setups,
           NEW gone \in SUBSET PlayerIds,
           db'.rounds = db.rounds,
           db'.seats = {s \in db.seats : s.player \notin gone}
    PROVE  Merge
  <1>1. db \in Copies
    BY DEF Copies
  <1>2. Copies' \subseteq Copies \union {db'}
    BY CopiesStep
  <1> QED
    BY <1>1, <1>2 DEF Merge

LEMMA KeepStep ==
    ASSUME TypeOK, NEW r \in Requests, NEW m, request' = [request EXCEPT ![r] = m],
           m.op = "UpdateGame" => m.snap = db,
           serial'.setups = serial.setups,
           db'.rounds = db.rounds, db'.seats = db.seats
    PROVE  Merge
  <1>1. db'.seats = {s \in db.seats \union db.seats : s.player \notin {}}
    OBVIOUS
  <1>2. db \in Copies /\ {} \in SUBSET PlayerIds
    BY DEF Copies
  <1>3. Copies' \subseteq Copies \union {db'}
    BY CopiesStep
  <1> QED
    BY <1>1, <1>2, <1>3 DEF Merge

LEMMA BeginStep ==
    ASSUME TypeOK, NEW r \in Requests, NEW m, Begin(r, m),
           m.op = "UpdateGame" => m.snap = db
    PROVE  Merge
  BY KeepStep DEF Begin

LEMMA MergeSteps ==
    ASSUME TypeOK, Next, \A r \in Requests : ~ CommitSetupGame(r)
    PROVE  Merge
  <1> DEFINE ids == [game : BOOLEAN, teams : SUBSET TeamIds,
                     players : SUBSET PlayerIds, setups : Nat]
  <1>1. serial \in ids /\ db \in Database /\ db \in Copies
    BY DEF TypeOK, Copies
  <1>2. Idle.op # "UpdateGame"
    BY DEF Idle
  <1>3. ASSUME NEW u \in Users, CreateGame(u) PROVE Merge
    <2>1. db'.seats = {} /\ db'.rounds = {}
      BY <1>3 DEF CreateGame, NoRows
    <2>2. serial'.setups = serial.setups
      BY <1>1, <1>3 DEF CreateGame
    <2>3. Copies' \subseteq Copies \union {db'}
      BY <1>3 DEF CreateGame, Copies, InFlight
    <2>4. {s \in db.seats \union db.seats : s.player \notin PlayerIds} = {}
      BY <1>1 DEF Database, Seat
    <2> QED
      BY <1>1, <2>1, <2>2, <2>3, <2>4 DEF Merge
  <1>4. ASSUME NEW r \in Requests, NEW u \in Users,
               \/ BeginUpdateGame(r, u) \/ BeginDeleteGame(r, u) \/ BeginSetupGame(r, u)
               \/ BeginAddOwner(r, u)   \/ BeginRemoveOwner(r, u)
        PROVE  Merge
    BY <1>4, BeginStep DEF BeginUpdateGame, BeginDeleteGame, BeginSetupGame,
                           BeginAddOwner, BeginRemoveOwner
  <1>5. ASSUME NEW r \in Requests, NEW u \in Users, BeginRoster(r, u) PROVE Merge
    BY <1>5, BeginStep DEF BeginRoster, BeginCreateTeam, BeginUpdateTeam, BeginDeleteTeam,
                           BeginCreatePlayer, BeginUpdatePlayer, BeginDeletePlayer
  <1>6. ASSUME NEW r \in Requests, NEW u \in Users, BeginUpdateScores(r, u) PROVE Merge
    BY <1>6, BeginStep DEF BeginUpdateScores
  <1>7. ASSUME NEW r \in Requests, CommitUpdateGame(r) PROVE Merge
    <2>1. request[r].snap \in Copies
      BY <1>7 DEF CommitUpdateGame, Copies
    <2>2. Copies' \subseteq Copies \union {db'}
      BY <1>2, <1>7, CopiesStep DEF CommitUpdateGame, Commit
    <2>3. /\ db'.rounds = db.rounds \union request[r].snap.rounds
          /\ db'.seats = {s \in db.seats \union request[r].snap.seats : s.player \notin {}}
      BY <1>7 DEF CommitUpdateGame, Commit, SaveGame
    <2>4. \A c \in request[r].snap.rounds \ db.rounds, q \in db.rounds : c.number # q.number
      BY <1>7 DEF CommitUpdateGame, CanSaveGame
    <2>5. serial'.setups = serial.setups /\ {} \in SUBSET PlayerIds
      BY <1>7 DEF CommitUpdateGame
    <2> DEFINE d == request[r].snap
    <2>6. /\ d \in Copies
          /\ db'.rounds = db.rounds \union d.rounds
          /\ db'.seats = {s \in db.seats \union d.seats : s.player \notin {}}
          /\ \A c \in d.rounds \ db.rounds, q \in db.rounds : c.number # q.number
      BY <2>1, <2>3, <2>4
    <2> HIDE DEF d
    <2> QED
      BY <2>2, <2>5, <2>6 DEF Merge
  <1>8. ASSUME NEW r \in Requests, CommitDeleteGame(r) PROVE Merge
    <2>1. db'.seats = {} /\ db'.rounds = {}
      BY <1>8 DEF CommitDeleteGame, Commit, NoRows
    <2>2. Copies' \subseteq Copies \union {db'}
      BY <1>2, <1>8, CopiesStep DEF CommitDeleteGame, Commit
    <2>3. {s \in db.seats \union db.seats : s.player \notin PlayerIds} = {}
      BY <1>1 DEF Database, Seat
    <2> QED
      BY <1>1, <1>8, <2>1, <2>2, <2>3 DEF Merge, CommitDeleteGame
  <1>9. ASSUME NEW r \in Requests, CommitAddOwner(r) \/ CommitRemoveOwner(r) PROVE Merge
    BY <1>1, <1>2, <1>9, KeepStep DEF CommitAddOwner, CommitRemoveOwner, Commit, Database
  <1>10. ASSUME NEW r \in Requests, CommitCreateTeam(r) \/ CommitCreatePlayer(r) PROVE Merge
    BY <1>1, <1>2, <1>10, KeepStep DEF CommitCreateTeam, CommitCreatePlayer, Commit, Database
  <1>11. ASSUME NEW r \in Requests, CommitUpdateTeam(r) \/ CommitUpdatePlayer(r) PROVE Merge
    BY <1>1, <1>2, <1>11, KeepStep DEF CommitUpdateTeam, CommitUpdatePlayer, Commit,
                                       SaveTeam, SavePlayer, Database
  <1>12. ASSUME NEW r \in Requests, CommitDeleteTeam(r) PROVE Merge
    <2> DEFINE gone == Members(db, request[r].team)
    <2>1. gone \in SUBSET PlayerIds
      BY <1>1 DEF Members, Database
    <2>2. db'.rounds = db.rounds /\ db'.seats = {s \in db.seats : s.player \notin gone}
      BY <1>1, <1>12 DEF CommitDeleteTeam, Commit, RemoveTeam, RemovePlayers, Database
    <2> HIDE DEF gone
    <2> QED
      BY <1>2, <1>12, <2>1, <2>2, PlainStep DEF CommitDeleteTeam, Commit
  <1>13. ASSUME NEW r \in Requests, CommitDeletePlayer(r) PROVE Merge
    <2> DEFINE gone == {request[r].player} \intersect PlayerIds
    <2>1. gone \in SUBSET PlayerIds
      OBVIOUS
    <2>2. db'.rounds = db.rounds /\ db'.seats = {s \in db.seats : s.player \notin gone}
      BY <1>1, <1>13 DEF CommitDeletePlayer, Commit, RemovePlayers, Database, Seat
    <2> HIDE DEF gone
    <2> QED
      BY <1>2, <1>13, <2>1, <2>2, PlainStep DEF CommitDeletePlayer, Commit
  <1>14. ASSUME NEW r \in Requests, SaveScore(r) PROVE Merge
    <2> DEFINE m == IF Len(request[r].todo) = 1 THEN Idle
                    ELSE [request[r] EXCEPT !.todo = Tail(@)]
    <2>1. request' = [request EXCEPT ![r] = m] /\ serial' = serial
      BY <1>14 DEF SaveScore
    <2>2. m.op # "UpdateGame"
      BY <1>2, <1>14, LoadedFields DEF SaveScore, InFlight
    <2>3. db'.rounds = db.rounds /\ db'.seats = db.seats
      BY <1>1, <1>14 DEF SaveScore, Database
    <2> HIDE DEF m
    <2> QED
      BY <2>1, <2>2, <2>3, KeepStep
  <1>15. ASSUME NEW r \in Requests, Fail(r) PROVE Merge
    BY <1>2, <1>15, KeepStep DEF Fail
  <1> QED
    BY <1>3, <1>4, <1>5, <1>6, <1>7, <1>8, <1>9, <1>10, <1>11, <1>12, <1>13, <1>14, <1>15
       DEF Next

-----------------------------------------------------------------------------
LEMMA NewRoundsFacts ==
    ASSUME NEW setup \in Nat, NEW n \in Nat \ {0}
    PROVE  /\ IsFiniteSet(NewRounds(setup, n))
           /\ Cardinality(NewRounds(setup, n)) = n
           /\ {r.number : r \in NewRounds(setup, n)} = 1 .. n
           /\ \A r \in NewRounds(setup, n) : r.setup = setup
           /\ [setup |-> setup, number |-> 1] \in NewRounds(setup, n)
  <1> DEFINE f == [i \in 1 .. n |-> [setup |-> setup, number |-> i]]
  <1>1. f \in Bijection(1 .. n, NewRounds(setup, n))
    <2>1. f \in [1 .. n -> NewRounds(setup, n)]
      BY DEF NewRounds
    <2>2. \A i, j \in 1 .. n : f[i] = f[j] => i = j
      OBVIOUS
    <2>3. \A r \in NewRounds(setup, n) : \E i \in 1 .. n : f[i] = r
      BY DEF NewRounds
    <2> QED
      BY <2>1, <2>2, <2>3 DEF Bijection, Injection, Surjection, IsInjective
  <1>2. IsFiniteSet(1 .. n) /\ Cardinality(1 .. n) = n
    BY FS_Interval
  <1>3. ExistsBijection(1 .. n, NewRounds(setup, n))
    BY <1>1 DEF ExistsBijection
  <1>4. IsFiniteSet(NewRounds(setup, n)) /\ Cardinality(NewRounds(setup, n)) = n
    BY <1>2, <1>3, FS_Bijection
  <1>5. {r.number : r \in NewRounds(setup, n)} = 1 .. n
    <2>1. \A i \in 1 .. n : f[i] \in NewRounds(setup, n) /\ f[i].number = i
      BY DEF NewRounds
    <2>2. \A r \in NewRounds(setup, n) : r.number \in 1 .. n
      BY DEF NewRounds
    <2> HIDE DEF f
    <2> QED
      BY <2>1, <2>2, Zenon
  <1>6. /\ \A r \in NewRounds(setup, n) : r.setup = setup
        /\ [setup |-> setup, number |-> 1] \in NewRounds(setup, n)
    BY DEF NewRounds
  <1> QED
    BY <1>4, <1>5, <1>6

(***************************************************************************)
(* The copies are consistent rows.                                         *)
(***************************************************************************)
LEMMA CopiesType ==
    ASSUME TypeOK, NEW d \in Copies
    PROVE  d \in Database /\ Consistent(d)
  BY LoadedFields DEF Copies, TypeOK

(***************************************************************************)
(* The rounds after a merge are those of one of the copies, or none.       *)
(***************************************************************************)
LEMMA MergedRounds ==
    ASSUME TypeOK, CopiesAgree, NEW d \in Copies,
           \A r \in d.rounds \ db.rounds, q \in db.rounds : r.number # q.number
    PROVE  \/ db.rounds = d.rounds
           \/ db.rounds = {}
           \/ d.rounds = {}
  <1> SUFFICES ASSUME db.rounds # d.rounds, db.rounds # {}, d.rounds # {} PROVE FALSE
    OBVIOUS
  <1>1. db \in Copies /\ serial.setups \in Nat
    BY DEF Copies, TypeOK
  <1>2. PICK k \in 1 .. serial.setups, n \in 1 .. Cardinality(db.rounds) :
            db.rounds = NewRounds(k, n)
    BY <1>1 DEF CopiesAgree, RoundsOfOneSetup
  <1>3. PICK j \in 1 .. serial.setups, m \in 1 .. Cardinality(d.rounds) :
            d.rounds = NewRounds(j, m)
    BY <1>1 DEF CopiesAgree, RoundsOfOneSetup
  <1>4. [setup |-> k, number |-> 1] \in db.rounds /\ [setup |-> j, number |-> 1] \in d.rounds
    BY <1>1, <1>2, <1>3 DEF NewRounds
  <1>5. k # j
    BY <1>1, <1>4 DEF CopiesAgree
  <1>6. [setup |-> j, number |-> 1] \notin db.rounds
    BY <1>2, <1>5 DEF NewRounds
  <1> QED
    BY <1>4, <1>6

(***************************************************************************)
(* A merge keeps the copies in agreement.                                  *)
(***************************************************************************)
LEMMA MergeAgrees ==
    ASSUME TypeOK, CopiesAgree, Merge
    PROVE  CopiesAgree'
  <1>1. PICK d \in Copies, gone \in SUBSET PlayerIds :
            /\ db'.seats = {s \in db.seats \union d.seats : s.player \notin gone}
            /\ \/ db'.rounds = {}
               \/ /\ db'.rounds = db.rounds \union d.rounds
                  /\ \A r \in d.rounds \ db.rounds, q \in db.rounds : r.number # q.number
    BY DEF Merge
  <1>2. db \in Copies
    BY DEF Copies
  <1>3. \/ db'.rounds = {}
        \/ /\ db'.rounds = db.rounds \union d.rounds
           /\ \/ db.rounds = d.rounds \/ db.rounds = {} \/ d.rounds = {}
    BY <1>1, MergedRounds
  <1>4. serial'.setups = serial.setups /\ Copies' \subseteq Copies \union {db'}
    BY DEF Merge
  <1>5. \A e \in Copies' : e.rounds = {} \/ \E c \in Copies : e.rounds = c.rounds
    BY <1>2, <1>3, <1>4
  <1>6. \A e \in Copies' : \A s \in e.seats : \E c \in Copies : s \in c.seats
    BY <1>1, <1>2, <1>4
  <1>7. \A e \in Copies' : RoundsOfOneSetup(e, serial'.setups)
    BY <1>4, <1>5 DEF CopiesAgree, RoundsOfOneSetup
  <1>8. SeatedInEveryRound(db')
    <2> SUFFICES ASSUME NEW s \in db'.seats, NEW r \in db'.rounds
                 PROVE  \E q \in db'.seats : RoundOf(q) = r /\ q.player = s.player
      BY DEF SeatedInEveryRound
    <2>1. PICK c \in {db, d} : s \in c.seats
      BY <1>1
    <2>2. RoundOf(s) \in c.rounds
      BY <1>2, <2>1, CopiesType DEF Consistent
    <2>3. r \in c.rounds
      BY <1>3, <2>2
    <2>4. PICK q \in c.seats : RoundOf(q) = r /\ q.player = s.player
      BY <1>2, <2>1, <2>3 DEF CopiesAgree, SeatedInEveryRound
    <2>5. q \in db'.seats
      BY <1>1, <2>4
    <2> QED
      BY <2>4, <2>5
  <1>9. \A e \in Copies' : SeatedInEveryRound(e)
    BY <1>4, <1>8 DEF CopiesAgree
  <1>10. \A e \in Copies' : \A s \in e.seats : s.setup <= serial'.setups
    BY <1>4, <1>6 DEF CopiesAgree
  <1>11. \A e, f \in Copies' : \A r \in e.rounds, q \in f.rounds :
             r.setup = q.setup => e.rounds = f.rounds
    BY <1>5 DEF CopiesAgree
  <1>12. \A e, f \in Copies' : \A s \in e.seats, q \in f.seats : Fit(s, q)
    BY <1>6 DEF CopiesAgree
  <1> QED
    BY <1>7, <1>9, <1>10, <1>11, <1>12 DEF CopiesAgree, SeatedInEveryRound, Fit, RoundOf

(***************************************************************************)
(* A new assignment has a number of its own.                               *)
(***************************************************************************)
LEMMA SetupAgrees ==
    ASSUME TypeOK, CopiesAgree, NEW r \in Requests, CommitSetupGame(r)
    PROVE  CopiesAgree'
  <1> DEFINE players == request[r].players
             tableSize == request[r].game.tableSize
             n == request[r].game.numberOfRounds
             setup == serial.setups + 1
  <1>1. PICK seating \in [1 .. n -> Seatings(players, tableSize)] :
            Commit(r, AssignTables(db, setup, n, players, seating))
    BY DEF CommitSetupGame
  <1>2. n \in Int \ {0} /\ players \subseteq PlayerIds
    BY LoadedFields DEF CommitSetupGame, Game, Size
  <1>3. setup \in Nat /\ serial.setups \in Nat /\ setup > serial.setups
    BY DEF TypeOK
  <1>4. serial'.setups = setup
    BY DEF CommitSetupGame, TypeOK
  <1>5. \A i \in 1 .. n : \A p, q \in players :
            p # q /\ seating[i][p] = seating[i][q] => TeamOf[p] # TeamOf[q]
    BY DEF Seatings, IsSeating
  <1> HIDE DEF players, tableSize, n, setup
  <1>6. /\ db'.rounds = NewRounds(setup, n)
        /\ db'.seats = NewSeats(setup, n, players, seating)
    BY <1>1 DEF Commit, AssignTables, ResetGameTables, TypeOK, Database
  <1>7. Copies' \subseteq Copies \union {db'}
    BY <1>1, CopiesStep DEF Commit, Idle
  <1>8. RoundsOfOneSetup(db', setup)
    <2>1. setup \in 1 .. setup
      BY <1>3
    <2>2. CASE n > 0
      <3>0. n \in Nat \ {0}
        BY <1>2, <2>2
      <3>1. Cardinality(NewRounds(setup, n)) = n
        BY <1>3, <3>0, NewRoundsFacts
      <3>2. n \in 1 .. Cardinality(db'.rounds)
        BY <1>2, <1>6, <2>2, <3>1
      <3> QED
        BY <1>6, <2>1, <3>2 DEF RoundsOfOneSetup
    <2>3. CASE n < 0
      BY <1>2, <1>6, <2>3 DEF NewRounds, RoundsOfOneSetup
    <2> QED
      BY <1>2, <2>2, <2>3
  <1>9. \A d \in Copies : RoundsOfOneSetup(d, setup)
    <2>1. \A k \in 1 .. serial.setups : k \in 1 .. setup
      BY <1>3
    <2>2. \A d \in Copies : RoundsOfOneSetup(d, serial.setups)
      BY DEF CopiesAgree
    <2> QED
      BY <2>1, <2>2, Zenon DEF RoundsOfOneSetup
  <1>10. SeatedInEveryRound(db')
    <2> SUFFICES ASSUME NEW s \in db'.seats, NEW c \in db'.rounds
                 PROVE  \E q \in db'.seats : RoundOf(q) = c /\ q.player = s.player
      BY DEF SeatedInEveryRound
    <2>1. PICK i \in 1 .. n : c = [setup |-> setup, number |-> i]
      BY <1>6 DEF NewRounds
    <2>2. PICK p \in players : s.player = p
      BY <1>6 DEF NewSeats
    <2> DEFINE q == [setup |-> setup, number |-> i, table |-> seating[i][p], player |-> p]
    <2>3. q \in db'.seats
      BY <1>6 DEF NewSeats
    <2> QED
      BY <2>1, <2>2, <2>3 DEF RoundOf
  <1>11. /\ \A s \in db'.seats : s.setup = setup
         /\ \A d \in Copies : \A s \in d.seats : s.setup <= serial.setups
    BY <1>6 DEF NewSeats, CopiesAgree
  <1>12. \A d \in Copies' : \A s \in d.seats : s.setup <= serial'.setups
    <2>1. \A d \in Copies : \A s \in d.seats : s.setup \in Nat
      BY CopiesType DEF Database, Seat
    <2> QED
      BY <1>3, <1>4, <1>7, <1>11, <2>1
  <1>13. /\ \A q \in db'.rounds : q.setup = setup
         /\ \A d \in Copies : \A q \in d.rounds : q.setup # setup
    BY <1>3, <1>6 DEF NewRounds, CopiesAgree, RoundsOfOneSetup
  <1>14. \A d, e \in Copies' : \A c \in d.rounds, q \in e.rounds :
             c.setup = q.setup => d.rounds = e.rounds
    BY <1>7, <1>13 DEF CopiesAgree
  <1>15. \A s, q \in db'.seats : Fit(s, q)
    BY <1>5, <1>6 DEF NewSeats, Fit
  <1>16. \A d \in Copies : \A s \in d.seats : s.setup # setup
    BY <1>3, <1>11
  <1>17. \A d, e \in Copies' : \A s \in d.seats, q \in e.seats : Fit(s, q)
    BY <1>7, <1>11, <1>15, <1>16 DEF CopiesAgree, Fit
  <1>18. \A d \in Copies' : RoundsOfOneSetup(d, serial'.setups) /\ SeatedInEveryRound(d)
    BY <1>4, <1>7, <1>8, <1>9, <1>10 DEF CopiesAgree
  <1> QED
    BY <1>12, <1>14, <1>17, <1>18 DEF CopiesAgree, SeatedInEveryRound, Fit, RoundOf

LEMMA InitAgrees == Init => CopiesAgree
  <1> SUFFICES ASSUME Init PROVE CopiesAgree
    OBVIOUS
  <1>1. Copies = {NoRows}
    BY DEF Init, Copies, InFlight, Idle
  <1> QED
    BY <1>1 DEF CopiesAgree, RoundsOfOneSetup, SeatedInEveryRound, NoRows

LEMMA UnchangedAgrees == CopiesAgree /\ UNCHANGED vars => CopiesAgree'
  BY DEF CopiesAgree, vars, Copies, InFlight, RoundsOfOneSetup, SeatedInEveryRound, Fit,
         RoundOf, NewRounds

(***************************************************************************)
(* The database and the copies that requests hold agree, whatever the      *)
(* number of requests.                                                     *)
(***************************************************************************)
THEOREM CopiesAlwaysAgree == Spec => []CopiesAgree
  <1>1. TypeOK /\ CopiesAgree /\ [Next]_vars => CopiesAgree'
    BY MergeSteps, MergeAgrees, SetupAgrees, UnchangedAgrees
  <1> QED
    BY <1>1, InitAgrees, TypeCorrect, PTL DEF Spec

(***************************************************************************)
(* Two seats of rounds with one number are seats of one assignment: the    *)
(* index on the number admits one round, and the copies agree on it.       *)
(***************************************************************************)
LEMMA StoredSeatsFit ==
    ASSUME TypeOK, CopiesAgree
    PROVE  \A s, q \in db.seats : s.number = q.number => s.setup = q.setup /\ Fit(s, q)
  <1> SUFFICES ASSUME NEW s \in db.seats, NEW q \in db.seats, s.number = q.number
               PROVE  s.setup = q.setup /\ Fit(s, q)
    OBVIOUS
  <1>1. RoundOf(s) \in db.rounds /\ RoundOf(q) \in db.rounds
    BY DEF TypeOK, Consistent
  <1>2. RoundOf(s) = RoundOf(q)
    BY <1>1 DEF TypeOK, Consistent, RoundOf
  <1>3. s.setup = q.setup
    BY <1>2 DEF RoundOf
  <1>4. Fit(s, q)
    BY DEF CopiesAgree, Copies
  <1> QED
    BY <1>3, <1>4

(***************************************************************************)
(* No two players of a team share a table, whatever requests overlap: the  *)
(* theorem behind NoTeammatesAtTable (assign_tables_test.go:168) for the   *)
(* rows that are stored.                                                   *)
(***************************************************************************)
THEOREM StoredTeamsAreSplit == Spec => []NoTeammatesAtTable
  <1>1. TypeOK /\ CopiesAgree => NoTeammatesAtTable
    BY StoredSeatsFit DEF Fit, NoTeammatesAtTable
  <1> QED
    BY <1>1, TypeCorrect, CopiesAlwaysAgree, PTL

(***************************************************************************)
(* No player has two places in a round, though stale saves add seats back. *)
(***************************************************************************)
THEOREM StoredSeatsAreUnique == Spec => []OnePlacePerRound
  <1>1. TypeOK /\ CopiesAgree => OnePlacePerRound
    BY StoredSeatsFit DEF Fit, OnePlacePerRound
  <1> QED
    BY <1>1, TypeCorrect, CopiesAlwaysAgree, PTL

(***************************************************************************)
(* The stored rounds are all rounds of one assignment, or there is none:   *)
(* no overlap of assignments and saves leaves a part or a mix.             *)
(***************************************************************************)
THEOREM StoredSetupIsWhole == Spec => []SetupIsWhole
  <1>1. TypeOK /\ CopiesAgree => SetupIsWhole
    <2> SUFFICES ASSUME TypeOK, CopiesAgree PROVE SetupIsWhole
      OBVIOUS
    <2>1. CASE db.rounds = {}
      <3>1. Cardinality(db.rounds) = 0
        BY <2>1, FS_EmptySet
      <3> QED
        BY <2>1, <3>1 DEF SetupIsWhole
    <2>2. CASE db.rounds # {}
      <3>1. PICK setup \in 1 .. serial.setups, n \in 1 .. Cardinality(db.rounds) :
                db.rounds = NewRounds(setup, n)
        <4>1. RoundsOfOneSetup(db, serial.setups)
          BY DEF CopiesAgree, Copies
        <4> QED
          BY <2>2, <4>1 DEF RoundsOfOneSetup
      <3>2. setup \in Nat /\ n \in Nat \ {0}
        OBVIOUS
      <3>3. /\ Cardinality(db.rounds) = n
            /\ {r.number : r \in db.rounds} = 1 .. n
            /\ \A r \in db.rounds : r.setup = setup
        <4>1. /\ Cardinality(NewRounds(setup, n)) = n
              /\ {r.number : r \in NewRounds(setup, n)} = 1 .. n
              /\ \A r \in NewRounds(setup, n) : r.setup = setup
          BY <3>2, NewRoundsFacts
        <4> QED
          BY <3>1, <4>1, Zenon
      <3> QED
        BY <3>3 DEF SetupIsWhole
    <2> QED
      BY <2>1, <2>2
  <1> QED
    BY <1>1, TypeCorrect, CopiesAlwaysAgree, PTL

(***************************************************************************)
(* Every stored round seats the same players.                              *)
(***************************************************************************)
THEOREM StoredRoundsSeatTheSame == Spec => []RoundsSeatTheSamePlayers
  <1>1. TypeOK /\ CopiesAgree => RoundsSeatTheSamePlayers
    <2> SUFFICES ASSUME TypeOK, CopiesAgree PROVE RoundsSeatTheSamePlayers
      OBVIOUS
    <2>1. SeatedInEveryRound(db)
      BY DEF CopiesAgree, Copies
    <2>2. ASSUME NEW r \in db.rounds, NEW q \in db.rounds, NEW p \in SeatedIn(r)
          PROVE  p \in SeatedIn(q)
      <3>1. PICK s \in db.seats : RoundOf(s) = r /\ s.player = p
        BY DEF SeatedIn
      <3>2. PICK o \in db.seats : RoundOf(o) = q /\ o.player = p
        BY <2>1, <3>1 DEF SeatedInEveryRound
      <3> QED
        BY <3>2 DEF SeatedIn
    <2> QED
      BY <2>2, Zenon DEF RoundsSeatTheSamePlayers
  <1> QED
    BY <1>1, TypeCorrect, CopiesAlwaysAgree, PTL

-----------------------------------------------------------------------------
(***************************************************************************)
(* What a request that begins carries of the rows it was checked against.  *)
(***************************************************************************)
Carries(m, d) ==
    /\ m.op \in Operations
    /\ m.user \in d.owners
    /\ m.op = "SetupGame"    => /\ m.game = d.game /\ m.players = d.players
                                /\ CanAssign(d, d.game)
    /\ m.op = "UpdatePlayer" => m.owners = d.owners
    /\ m.op = "UpdateScores" => \A i \in DOMAIN m.todo : m.todo[i] \in d.seats

LEMMA PlainBegin ==
    ASSUME NEW r, NEW m, Begin(r, m), m.user \in db.owners,
           m.op \notin {"SetupGame", "UpdatePlayer", "UpdateScores"}
    PROVE  \E c : Begin(r, c) /\ Carries(c, db)
  BY DEF Begin, Carries

LEMMA BeginCarries ==
    ASSUME TypeOK, NEW r \in Requests, NEW u \in Users,
           \/ BeginUpdateGame(r, u) \/ BeginDeleteGame(r, u) \/ BeginSetupGame(r, u)
           \/ BeginAddOwner(r, u)   \/ BeginRemoveOwner(r, u)
           \/ BeginRoster(r, u)     \/ BeginUpdateScores(r, u)
    PROVE  \E m : Begin(r, m) /\ Carries(m, db)
  <1>1. CASE \/ BeginUpdateGame(r, u) \/ BeginDeleteGame(r, u)
             \/ BeginAddOwner(r, u)   \/ BeginRemoveOwner(r, u)
    BY <1>1, PlainBegin DEF BeginUpdateGame, BeginDeleteGame, BeginAddOwner, BeginRemoveOwner
  <1>2. CASE BeginSetupGame(r, u)
    <2> DEFINE m == [op |-> "SetupGame", user |-> u, game |-> db.game,
                     players |-> db.players]
    <2>1. Begin(r, m) /\ Carries(m, db)
      BY <1>2 DEF BeginSetupGame, Begin, Carries
    <2> QED
      BY <2>1
  <1>3. CASE BeginUpdateScores(r, u)
    <2>1. PICK s \in db.seats :
            \E todo \in [1 .. Cardinality({q \in db.seats : RoundOf(q) = RoundOf(s)
                                                               /\ q.table = s.table})
                             -> {q \in db.seats : RoundOf(q) = RoundOf(s)
                                                     /\ q.table = s.table}] :
                /\ u \in db.owners
                /\ Begin(r, [op |-> "UpdateScores", user |-> u, todo |-> todo,
                             existing |-> {q \in db.seats : RoundOf(q) = RoundOf(s)
                                              /\ q.table = s.table} \intersect db.scores])
      BY <1>3 DEF BeginUpdateScores
    <2> DEFINE places == {q \in db.seats : RoundOf(q) = RoundOf(s) /\ q.table = s.table}
    <2>2. PICK todo \in [1 .. Cardinality(places) -> places] :
            /\ u \in db.owners
            /\ Begin(r, [op |-> "UpdateScores", user |-> u, todo |-> todo,
                         existing |-> places \intersect db.scores])
      BY <2>1
    <2>3. \A i \in DOMAIN todo : todo[i] \in db.seats
      OBVIOUS
    <2> DEFINE m == [op |-> "UpdateScores", user |-> u, todo |-> todo,
                     existing |-> places \intersect db.scores]
    <2>4. Begin(r, m) /\ m.op = "UpdateScores" /\ m.user = u /\ m.todo = todo
      BY <2>2
    <2> HIDE DEF places, m
    <2>5. Carries(m, db)
      BY <2>2, <2>3, <2>4 DEF Begin, Carries
    <2> QED
      BY <2>4, <2>5
  <1>4. CASE BeginRoster(r, u)
    <2>1. u \in db.owners
      BY <1>4 DEF BeginRoster
    <2>2. CASE BeginUpdatePlayer(r, u)
      <3>1. PICK p \in db.players :
                Begin(r, [op |-> "UpdatePlayer", user |-> u, player |-> p,
                          game |-> db.game, owners |-> db.owners])
        BY <2>2 DEF BeginUpdatePlayer
      <3> DEFINE m == [op |-> "UpdatePlayer", user |-> u, player |-> p,
                       game |-> db.game, owners |-> db.owners]
      <3>2. Begin(r, m) /\ Carries(m, db)
        BY <2>1, <3>1 DEF Begin, Carries
      <3> QED
        BY <3>2
    <2>3. CASE \/ BeginCreateTeam(r, u)   \/ BeginUpdateTeam(r, u) \/ BeginDeleteTeam(r, u)
               \/ BeginCreatePlayer(r, u) \/ BeginDeletePlayer(r, u)
      BY <2>1, <2>3, PlainBegin DEF BeginCreateTeam, BeginUpdateTeam, BeginDeleteTeam,
                                    BeginCreatePlayer, BeginDeletePlayer
    <2> QED
      BY <1>4, <2>2, <2>3 DEF BeginRoster
  <1> QED
    BY <1>1, <1>2, <1>3, <1>4

(***************************************************************************)
(* A request that has saved one of its scores has no others left than it   *)
(* had before.                                                             *)
(***************************************************************************)
SavesOne(r) ==
    /\ SaveScore(r)
    /\ request'[r].op = "UpdateScores"
    /\ request'[r].user = request[r].user
    /\ \A i \in DOMAIN request'[r].todo :
           \E j \in DOMAIN request[r].todo : request'[r].todo[i] = request[r].todo[j]

LEMMA ScoreSaved ==
    ASSUME TypeOK, NEW r \in Requests, SaveScore(r)
    PROVE  /\ request'[r] # request[r]
           /\ request'[r] = Idle \/ SavesOne(r)
           /\ \E j \in DOMAIN request[r].todo : Head(request[r].todo) = request[r].todo[j]
  <1> DEFINE me == request[r]
             todo == me.todo
             m == IF Len(todo) = 1 THEN Idle ELSE [me EXCEPT !.todo = Tail(@)]
  <1>1. me.op = "UpdateScores" /\ todo \in Seq(Seat) /\ todo # <<>>
    BY LoadedFields DEF SaveScore, InFlight
  <1>2. me \in [op : {"UpdateScores"}, user : Users, todo : Seq(Seat) \ {<<>>},
                existing : SUBSET Seat]
    BY <1>1 DEF TypeOK, Loaded, Idle
  <1>3. request'[r] = m
    BY DEF SaveScore, TypeOK
  <1> HIDE DEF todo
  <1>4. PICK n \in Nat : n = Len(todo) /\ n > 0 /\ DOMAIN todo = 1 .. n
    BY <1>1
  <1>5. /\ Head(todo) = todo[1]
        /\ Len(Tail(todo)) = n - 1 /\ DOMAIN Tail(todo) = 1 .. n - 1
        /\ \A i \in 1 .. n - 1 : Tail(todo)[i] = todo[i + 1]
    BY <1>1, <1>4, HeadTailProperties
  <1>6. \E j \in DOMAIN todo : Head(todo) = todo[j]
    BY <1>4, <1>5
  <1>7. \A i \in DOMAIN Tail(todo) : \E j \in DOMAIN todo : Tail(todo)[i] = todo[j]
    <2> TAKE i \in DOMAIN Tail(todo)
    <2>1. i + 1 \in DOMAIN todo /\ Tail(todo)[i] = todo[i + 1]
      BY <1>4, <1>5
    <2> QED
      BY <2>1
  <1>8. CASE Len(todo) = 1
    <2>1. m = Idle
      BY <1>8
    <2>2. Idle # me
      BY <1>1 DEF Idle
    <2> QED
      BY <1>3, <1>6, <2>1, <2>2 DEF todo
  <1>9. CASE Len(todo) # 1
    <2>1. m.op = "UpdateScores" /\ m.user = me.user /\ m.todo = Tail(todo)
      BY <1>2, <1>9 DEF todo
    <2>2. Tail(todo) # todo
      BY <1>4, <1>5
    <2> HIDE DEF m
    <2> QED
      BY <1>3, <1>6, <1>7, <2>1, <2>2 DEF SavesOne, todo
  <1> QED
    BY <1>8, <1>9

(***************************************************************************)
(* A request begins, saves one of its scores, or ends.                     *)
(***************************************************************************)
LEMMA RequestStep ==
    ASSUME TypeOK, Next, NEW r \in Requests, request'[r] # request[r]
    PROVE  \/ request'[r] = Idle
           \/ Carries(request'[r], db) /\ UNCHANGED <<db, serial>>
           \/ SavesOne(r)
  <1>1. ASSUME NEW q \in Requests, NEW m, request' = [request EXCEPT ![q] = m]
        PROVE  q = r /\ request'[r] = m
    BY <1>1 DEF TypeOK
  <1>2. ASSUME NEW q \in Requests, NEW u \in Users,
               \/ BeginUpdateGame(q, u) \/ BeginDeleteGame(q, u) \/ BeginSetupGame(q, u)
               \/ BeginAddOwner(q, u)   \/ BeginRemoveOwner(q, u)
               \/ BeginRoster(q, u)     \/ BeginUpdateScores(q, u)
        PROVE  Carries(request'[r], db) /\ UNCHANGED <<db, serial>>
    <2>1. PICK m : Begin(q, m) /\ Carries(m, db)
      BY <1>2, BeginCarries
    <2> QED
      BY <1>1, <2>1 DEF Begin
  <1>3. ASSUME NEW q \in Requests,
               \/ CommitUpdateGame(q)   \/ CommitDeleteGame(q)   \/ CommitSetupGame(q)
               \/ CommitAddOwner(q)     \/ CommitRemoveOwner(q)
               \/ CommitCreateTeam(q)   \/ CommitUpdateTeam(q)   \/ CommitDeleteTeam(q)
               \/ CommitCreatePlayer(q) \/ CommitUpdatePlayer(q) \/ CommitDeletePlayer(q)
               \/ Fail(q)
        PROVE  request'[r] = Idle
    <2>1. request' = [request EXCEPT ![q] = Idle]
      BY <1>3 DEF CommitUpdateGame, CommitDeleteGame, CommitSetupGame, CommitAddOwner,
                  CommitRemoveOwner, CommitCreateTeam, CommitUpdateTeam, CommitDeleteTeam,
                  CommitCreatePlayer, CommitUpdatePlayer, CommitDeletePlayer, Commit, Fail
    <2> QED
      BY <1>1, <2>1
  <1>4. ASSUME NEW q \in Requests, SaveScore(q)
        PROVE  request'[r] = Idle \/ SavesOne(r)
    <2> DEFINE m == IF Len(request[q].todo) = 1 THEN Idle
                    ELSE [request[q] EXCEPT !.todo = Tail(@)]
    <2>1. request' = [request EXCEPT ![q] = m]
      BY <1>4 DEF SaveScore
    <2> HIDE DEF m
    <2>2. q = r
      BY <1>1, <2>1
    <2> QED
      BY <1>4, <2>2, ScoreSaved
  <1>5. ASSUME NEW u \in Users, CreateGame(u) PROVE FALSE
    BY <1>5 DEF CreateGame
  <1> QED
    BY <1>2, <1>3, <1>4, <1>5 DEF Next

(***************************************************************************)
(* Every setup that was accepted has a seating to find, so the search for  *)
(* one, in the middle of a transaction, can end (assign_tables.go:48).     *)
(***************************************************************************)
SetupsAssignable ==
    \A r \in Requests :
        InFlight(r, "SetupGame") /\ request[r].game.numberOfRounds > 0 =>
            IsAssignable([t \in {TeamOf[p] : p \in request[r].players} |->
                             {p \in request[r].players : TeamOf[p] = t}],
                         request[r].game.teamSize, request[r].game.tableSize)

THEOREM SetupsHaveSeating == Spec => []SetupCanSucceed
  <1>1. Init => SetupsAssignable
    BY DEF Init, SetupsAssignable, InFlight, Idle
  <1>2. TypeOK /\ SetupsAssignable /\ [Next]_vars => SetupsAssignable'
    <2> SUFFICES ASSUME TypeOK, SetupsAssignable, [Next]_vars,
                        NEW r \in Requests, request'[r].op = "SetupGame",
                        request'[r].game.numberOfRounds > 0
                 PROVE  IsAssignable([t \in {TeamOf[p] : p \in request'[r].players} |->
                                         {p \in request'[r].players : TeamOf[p] = t}],
                                     request'[r].game.teamSize,
                                     request'[r].game.tableSize)
      BY DEF SetupsAssignable, InFlight
    <2>1. CASE request'[r] = request[r]
      BY <2>1 DEF SetupsAssignable, InFlight
    <2>2. CASE request'[r] # request[r]
      <3>1. Next /\ request'[r] # Idle
        BY <2>2 DEF vars, Idle
      <3>2. ~ SavesOne(r)
        BY DEF SavesOne
      <3>3. Carries(request'[r], db)
        BY <2>2, <3>1, <3>2, RequestStep
      <3> QED
        BY <3>3 DEF Carries, CanAssign, TeamsMap, Members
    <2> QED
      BY <2>1, <2>2
  <1>3. TypeOK /\ SetupsAssignable => SetupCanSucceed
    <2> SUFFICES ASSUME TypeOK, SetupsAssignable, NEW r \in Requests,
                        InFlight(r, "SetupGame"), request[r].game.numberOfRounds > 0
                 PROVE  Seatings(request[r].players, request[r].game.tableSize) # {}
      BY DEF SetupCanSucceed
    <2> DEFINE players == request[r].players
               a == request[r].game.teamSize
               b == request[r].game.tableSize
               teams == [t \in {TeamOf[p] : p \in players} |->
                            {p \in players : TeamOf[p] = t}]
    <2>1. /\ a \in Int \ {0} /\ b \in Int \ {0} /\ players \subseteq PlayerIds
      BY LoadedFields DEF Game, Size
    <2>2. IsAssignable(teams, a, b) /\ IsFiniteSet(players)
      BY <2>1, KeysAssumption, FS_Subset DEF SetupsAssignable
    <2> HIDE DEF players, a, b
    <2>3. PICK f : IsSeating(f, players, TeamOf, b)
      BY <2>1, <2>2, AssignableHasSeating
    <2>4. f \in Seatings(players, b)
      BY <2>3 DEF Seatings, IsSeating
    <2> QED
      BY <2>4 DEF players, b
  <1> QED
    BY <1>1, <1>2, <1>3, TypeCorrect, PTL DEF Spec

-----------------------------------------------------------------------------
(***************************************************************************)
(* Which operations the hazards of overlapping requests come from.  The    *)
(* theorems below hold of any number of requests that overlap, as long as  *)
(* clients leave those operations alone.                                   *)
(***************************************************************************)
InUse == \A r \in Requests : request[r].op \in Operations \union {"none"}

LEMMA AlwaysInUse == Spec => []InUse
  <1>1. Init => InUse
    BY DEF Init, InUse, Idle
  <1>2. TypeOK /\ InUse /\ [Next]_vars => InUse'
    <2> SUFFICES ASSUME TypeOK, InUse, [Next]_vars, NEW r \in Requests
                 PROVE  request'[r].op \in Operations \union {"none"}
      BY DEF InUse
    <2>1. CASE request'[r] = request[r]
      BY <2>1 DEF InUse
    <2>2. CASE request'[r] # request[r]
      <3>1. Next
        BY <2>2 DEF vars
      <3>2. SavesOne(r) => request'[r].op = request[r].op
        BY DEF SavesOne, SaveScore, InFlight
      <3> QED
        BY <2>2, <3>1, <3>2, RequestStep DEF Carries, Idle, InUse
    <2> QED
      BY <2>1, <2>2
  <1> QED
    BY <1>1, <1>2, TypeCorrect, PTL DEF Spec

(***************************************************************************)
(* Who changes a row is a request in flight, or creates the game.          *)
(***************************************************************************)
LEMMA WriterSteps ==
    ASSUME TypeOK, Next, db' # db
    PROVE  \/ \E u \in Users : CreateGame(u)
           \/ \E r \in Requests : request[r].op # "none" /\ request'[r] # request[r]
  <1>1. ASSUME NEW r \in Requests, request[r].op # "none",
               request' = [request EXCEPT ![r] = Idle]
        PROVE  request'[r] # request[r]
    BY <1>1 DEF TypeOK, Idle
  <1>2. ASSUME NEW r \in Requests,
               \/ CommitUpdateGame(r)   \/ CommitDeleteGame(r)   \/ CommitSetupGame(r)
               \/ CommitAddOwner(r)     \/ CommitRemoveOwner(r)
               \/ CommitCreateTeam(r)   \/ CommitUpdateTeam(r)   \/ CommitDeleteTeam(r)
               \/ CommitCreatePlayer(r) \/ CommitUpdatePlayer(r) \/ CommitDeletePlayer(r)
        PROVE  request[r].op # "none" /\ request'[r] # request[r]
    BY <1>1, <1>2 DEF CommitUpdateGame, CommitDeleteGame, CommitSetupGame, CommitAddOwner,
                      CommitRemoveOwner, CommitCreateTeam, CommitUpdateTeam, CommitDeleteTeam,
                      CommitCreatePlayer, CommitUpdatePlayer, CommitDeletePlayer, Commit,
                      InFlight
  <1>3. ASSUME NEW r \in Requests, SaveScore(r)
        PROVE  request[r].op # "none" /\ request'[r] # request[r]
    BY <1>3, ScoreSaved DEF SaveScore, InFlight
  <1>4. ASSUME NEW r \in Requests, NEW u \in Users,
               \/ BeginUpdateGame(r, u) \/ BeginDeleteGame(r, u) \/ BeginSetupGame(r, u)
               \/ BeginAddOwner(r, u)   \/ BeginRemoveOwner(r, u)
               \/ BeginRoster(r, u)     \/ BeginUpdateScores(r, u)
        PROVE  FALSE
    BY <1>4, BeginCarries DEF Begin
  <1>5. ASSUME NEW r \in Requests, Fail(r) PROVE FALSE
    BY <1>5 DEF Fail
  <1> QED
    BY <1>2, <1>3, <1>4, <1>5 DEF Next

(***************************************************************************)
(* Owners go with the game or one at a time, come back with a saved        *)
(* player, and nothing else is written where no game is.                   *)
(***************************************************************************)
LEMMA OwnersStep ==
    ASSUME TypeOK, Next
    PROVE  \/ \E u \in Users : CreateGame(u)
           \/ \E r \in Requests : InFlight(r, "DeleteGame") /\ db' = NoRows /\ serial' = serial
           \/ \E r \in Requests : InFlight(r, "RemoveOwner")
           \/ \E r \in Requests : CommitUpdatePlayer(r)
           \/ /\ db.owners \subseteq db'.owners
              /\ db.game = NoGame => db' = db
              /\ serial'.game = serial.game
  <1> DEFINE Kept == /\ db.owners \subseteq db'.owners
                     /\ db.game = NoGame => db' = db
                     /\ serial'.game = serial.game
  <1>1. /\ db \in Database /\ (db.game = NoGame => db = NoRows)
        /\ serial \in [game : BOOLEAN, teams : SUBSET TeamIds,
                       players : SUBSET PlayerIds, setups : Nat]
    BY DEF TypeOK, Consistent
  <1>2. ASSUME NEW r \in Requests, NEW u \in Users,
               \/ BeginUpdateGame(r, u) \/ BeginDeleteGame(r, u) \/ BeginSetupGame(r, u)
               \/ BeginAddOwner(r, u)   \/ BeginRemoveOwner(r, u)
               \/ BeginRoster(r, u)     \/ BeginUpdateScores(r, u)
        PROVE  Kept
    BY <1>2, BeginCarries DEF Begin
  <1>3. ASSUME NEW r \in Requests, CommitUpdateGame(r) PROVE Kept
    BY <1>3 DEF CommitUpdateGame, CanSaveGame, Commit, SaveGame
  <1>4. ASSUME NEW r \in Requests, CommitSetupGame(r) PROVE Kept
    BY <1>1, <1>4 DEF CommitSetupGame, Commit, AssignTables, ResetGameTables, Database
  <1>5. ASSUME NEW r \in Requests, CommitAddOwner(r) PROVE Kept
    BY <1>1, <1>5 DEF CommitAddOwner, Commit, Database
  <1>6. ASSUME NEW r \in Requests, CommitCreateTeam(r) PROVE Kept
    BY <1>1, <1>6 DEF CommitCreateTeam, Commit, Database
  <1>7. ASSUME NEW r \in Requests, CommitUpdateTeam(r) PROVE Kept
    BY <1>1, <1>7 DEF CommitUpdateTeam, CanSaveTeam, Commit, SaveTeam, Database, NoRows
  <1>8. ASSUME NEW r \in Requests, CommitDeleteTeam(r) PROVE Kept
    <2> DEFINE t == request[r].team
    <2>1. db' = RemoveTeam(db, t) /\ serial' = serial
      BY <1>8 DEF CommitDeleteTeam, Commit
    <2>2. db'.owners = db.owners
      BY <1>1, <2>1 DEF RemoveTeam, RemovePlayers, Database
    <2>3. ASSUME db = NoRows PROVE db' = NoRows
      <3>1. RemoveTeam(db, t) \in Database
        BY DeleteRows DEF TypeOK
      <3> QED
        BY <2>1, <2>3, <3>1, EmptyRows DEF RemoveTeam, RemovePlayers, NoRows
    <2> QED
      BY <1>1, <2>1, <2>2, <2>3
  <1>9. ASSUME NEW r \in Requests, CommitCreatePlayer(r) PROVE Kept
    BY <1>1, <1>9 DEF CommitCreatePlayer, Commit, Database, NoRows
  <1>10. ASSUME NEW r \in Requests, CommitDeletePlayer(r) PROVE Kept
    <2> DEFINE ps == {request[r].player}
    <2>1. db' = RemovePlayers(db, ps) /\ serial' = serial
      BY <1>10 DEF CommitDeletePlayer, Commit
    <2>2. db'.owners = db.owners
      BY <1>1, <2>1 DEF RemovePlayers, Database
    <2>3. ASSUME db = NoRows PROVE db' = NoRows
      <3>1. RemovePlayers(db, ps) \in Database
        BY DeleteRows DEF TypeOK
      <3> QED
        BY <2>1, <2>3, <3>1, EmptyRows DEF RemovePlayers, NoRows
    <2> QED
      BY <1>1, <2>1, <2>2, <2>3
  <1>11. ASSUME NEW r \in Requests, SaveScore(r) PROVE Kept
    BY <1>1, <1>11 DEF SaveScore, Database, NoRows
  <1>12. ASSUME NEW r \in Requests, Fail(r) PROVE Kept
    BY <1>12 DEF Fail
  <1> QED
    BY <1>2, <1>3, <1>4, <1>5, <1>6, <1>7, <1>8, <1>9, <1>10, <1>11, <1>12
       DEF Next, CommitDeleteGame, CommitRemoveOwner, Commit

(***************************************************************************)
(* "cannot remove the last owner" (apperror/error.go:18): the check of     *)
(* RemoveOwner on a stale count is the only way to a game without owners.  *)
(* A game that a saved player brings back comes with its owners.           *)
(***************************************************************************)
Governed ==
    /\ EveryGameHasOwner
    /\ \A r \in Requests : InFlight(r, "UpdatePlayer") => request[r].owners # {}

THEOREM OverlapKeepsOwners ==
    ASSUME "RemoveOwner" \notin Operations PROVE Spec => []EveryGameHasOwner
  <1>1. Init => Governed
    BY DEF Init, Governed, EveryGameHasOwner, NoRows, InFlight, Idle
  <1>2. TypeOK /\ InUse /\ Governed /\ [Next]_vars => Governed'
    <2> SUFFICES ASSUME TypeOK, InUse, Governed, [Next]_vars PROVE Governed'
      OBVIOUS
    <2>1. CASE UNCHANGED vars
      BY <2>1 DEF vars, Governed, EveryGameHasOwner, InFlight
    <2>2. CASE Next
      <3>1. ASSUME NEW r \in Requests, request'[r].op = "UpdatePlayer"
            PROVE  request'[r].owners # {}
        <4>1. CASE request'[r] = request[r]
          BY <3>1, <4>1 DEF Governed, InFlight
        <4>2. CASE request'[r] # request[r]
          BY <2>2, <3>1, <4>2, RequestStep DEF Carries, SavesOne, Idle
        <4> QED
          BY <4>1, <4>2
      <3>2. EveryGameHasOwner'
        <4>1. CASE \E u \in Users : CreateGame(u)
          BY <4>1 DEF CreateGame, EveryGameHasOwner, NoRows
        <4>2. CASE db' = NoRows
          BY <4>2 DEF EveryGameHasOwner, NoRows
        <4>3. \A r \in Requests : ~ InFlight(r, "RemoveOwner")
          BY DEF InUse, InFlight
        <4>4. ASSUME NEW r \in Requests, CommitUpdatePlayer(r)
              PROVE  EveryGameHasOwner'
          <5>1. request[r].owners # {}
            BY <4>4 DEF CommitUpdatePlayer, Governed
          <5>2. db'.owners = db.owners \union request[r].owners
            BY <4>4 DEF CommitUpdatePlayer, Commit, SavePlayer, TypeOK, Database
          <5> QED
            BY <5>1, <5>2 DEF EveryGameHasOwner
        <4>5. CASE db.owners \subseteq db'.owners /\ (db.game = NoGame => db' = db)
          BY <4>5 DEF Governed, EveryGameHasOwner
        <4> QED
          BY <2>2, <4>1, <4>2, <4>3, <4>4, <4>5, OwnersStep
      <3> QED
        BY <3>1, <3>2 DEF Governed, InFlight
    <2> QED
      BY <2>1, <2>2
  <1>3. Governed => EveryGameHasOwner
    BY DEF Governed
  <1> QED
    BY <1>1, <1>2, <1>3, TypeCorrect, AlwaysInUse, PTL DEF Spec

(***************************************************************************)
(* Whoever changes a row owns the game at that moment, unless owners are   *)
(* removed, or a saved player brings back the game that another request    *)
(* has deleted: a request is checked once, when it loads.                  *)
(***************************************************************************)
Authorised ==
    /\ serial.game \/ db = NoRows
    /\ \A r \in Requests :
           request[r].op # "none" =>
               \/ request[r].user \in db.owners
               \/ db = NoRows /\ serial.game /\ "DeleteGame" \in Operations

THEOREM OverlapLeavesOwnersWriting ==
    ASSUME "RemoveOwner" \notin Operations,
           "DeleteGame" \notin Operations \/ "UpdatePlayer" \notin Operations
    PROVE  Spec => OnlyOwnersWrite
  <1> DEFINE Owning == db # NoRows /\ db' # db =>
                          \E r \in Requests : /\ request'[r] # request[r]
                                              /\ request[r].user \in db.owners
  <1>1. Init => Authorised
    BY DEF Init, Authorised, Idle
  <1>2. TypeOK /\ InUse /\ Authorised /\ [Next]_vars => Authorised'
    <2> SUFFICES ASSUME TypeOK, InUse, Authorised, [Next]_vars PROVE Authorised'
      OBVIOUS
    <2>1. CASE UNCHANGED vars
      BY <2>1 DEF vars, Authorised
    <2>2. CASE Next
      <3>1. \A r \in Requests : ~ InFlight(r, "RemoveOwner")
        BY DEF InUse, InFlight
      <3>2. ASSUME NEW r \in Requests, request'[r].op # "none"
            PROVE  \/ Carries(request'[r], db) /\ UNCHANGED <<db, serial>>
                   \/ request[r].op # "none" /\ request'[r].user = request[r].user
        <4>1. CASE request'[r] = request[r]
          BY <3>2, <4>1
        <4>2. CASE request'[r] # request[r]
          BY <2>2, <3>2, <4>2, RequestStep DEF SavesOne, SaveScore, InFlight, Idle
        <4> QED
          BY <4>1, <4>2
      <3>3. CASE \E u \in Users : CreateGame(u)
        <4>1. ~ serial.game /\ db = NoRows /\ request' = request /\ serial'.game
          BY <3>3 DEF CreateGame, Authorised, TypeOK
        <4>2. \A r \in Requests : request[r].op = "none"
          BY <4>1 DEF Authorised, NoRows
        <4> QED
          BY <4>1, <4>2 DEF Authorised
      <3>4. ASSUME NEW q \in Requests, InFlight(q, "DeleteGame"),
                   db' = NoRows, serial' = serial
            PROVE  Authorised'
        <4>1. "DeleteGame" \in Operations
          BY <3>4 DEF InUse, InFlight
        <4>2. serial.game
          BY <3>4 DEF Authorised, NoRows, InFlight
        <4> QED
          BY <3>4, <4>1, <4>2 DEF Authorised
      <3>5. ASSUME NEW q \in Requests, CommitUpdatePlayer(q)
            PROVE  Authorised'
        <4>1. "DeleteGame" \notin Operations
          BY <3>5 DEF CommitUpdatePlayer, InUse, InFlight
        <4>2. db.owners \subseteq db'.owners /\ serial' = serial
          BY <3>5 DEF CommitUpdatePlayer, Commit, SavePlayer, TypeOK, Database
        <4>3. serial.game
          BY <3>5, <4>1 DEF CommitUpdatePlayer, InFlight, Authorised, NoRows
        <4> QED
          BY <3>2, <4>1, <4>2, <4>3 DEF Authorised, Carries
      <3>6. CASE /\ db.owners \subseteq db'.owners
                 /\ db.game = NoGame => db' = db
                 /\ serial'.game = serial.game
        <4>1. db = NoRows => db' = NoRows
          BY <3>6 DEF NoRows
        <4> QED
          BY <3>2, <3>6, <4>1 DEF Authorised, Carries
      <3> QED
        BY <2>2, <3>1, <3>3, <3>4, <3>5, <3>6, OwnersStep
    <2> QED
      BY <2>1, <2>2
  <1>3. TypeOK /\ Authorised /\ [Next]_vars => [Owning]_vars
    <2> SUFFICES ASSUME TypeOK, Authorised, Next, db # NoRows, db' # db
                 PROVE  \E r \in Requests : /\ request'[r] # request[r]
                                            /\ request[r].user \in db.owners
      BY DEF vars
    <2>1. ~ \E u \in Users : CreateGame(u)
      BY DEF CreateGame, Authorised
    <2> QED
      BY <2>1, WriterSteps DEF Authorised
  <1> QED
    BY <1>1, <1>2, <1>3, TypeCorrect, AlwaysInUse, PTL DEF Spec, OnlyOwnersWrite

(***************************************************************************)
(* The operations that write a loaded object graph back (GORM's Save).     *)
(* Without them a row that appears is new, and a seat goes only with its   *)
(* round or its player.                                                    *)
(***************************************************************************)
Saves == {"UpdateGame", "UpdateTeam", "UpdatePlayer"}

OnlyFreshRows ==
    /\ serial.game /\ db.game = NoGame => db'.game = NoGame
    /\ (db'.teams \ db.teams) \intersect serial.teams = {}
    /\ (db'.players \ db.players) \intersect serial.players = {}
    /\ (db'.players \ db.players) \union serial.players \subseteq serial'.players
    /\ serial'.setups >= serial.setups
    /\ \A c \in db'.rounds \ db.rounds : c.setup > serial.setups
    /\ \A s \in db.seats : RoundOf(s) \in db'.rounds /\ s.player \in db'.players =>
                               s \in db'.seats
    /\ \A s \in db'.scores \ db.scores :
           \E r \in Requests : /\ InFlight(r, "UpdateScores")
                               /\ \E j \in DOMAIN request[r].todo : s = request[r].todo[j]

LEMMA WithoutSaves ==
    ASSUME TypeOK, InUse, CopiesAgree, Saves \intersect Operations = {}, Next
    PROVE  OnlyFreshRows
  <1>1. /\ db \in Database /\ Consistent(db)
        /\ serial \in [game : BOOLEAN, teams : SUBSET TeamIds,
                       players : SUBSET PlayerIds, setups : Nat]
    BY DEF TypeOK
  <1>2. ASSUME serial' = serial, db'.game = db.game, db'.teams = db.teams,
               db'.players = db.players, db'.rounds = db.rounds, db'.seats = db.seats,
               db'.scores = db.scores
        PROVE  OnlyFreshRows
    BY <1>1, <1>2 DEF OnlyFreshRows
  <1>3. ASSUME NEW u \in Users, CreateGame(u) PROVE OnlyFreshRows
    <2>1. /\ db'.teams = {} /\ db'.players = {} /\ db'.rounds = {} /\ db'.seats = {}
          /\ db'.scores = {} /\ ~ serial.game
          /\ serial'.players = serial.players /\ serial'.setups = serial.setups
      BY <1>1, <1>3 DEF CreateGame, NoRows
    <2> QED
      BY <1>1, <2>1 DEF OnlyFreshRows
  <1>4. ASSUME NEW r \in Requests, NEW u \in Users,
               \/ BeginUpdateGame(r, u) \/ BeginDeleteGame(r, u) \/ BeginSetupGame(r, u)
               \/ BeginAddOwner(r, u)   \/ BeginRemoveOwner(r, u)
               \/ BeginRoster(r, u)     \/ BeginUpdateScores(r, u)
        PROVE  OnlyFreshRows
    BY <1>2, <1>4, BeginCarries DEF Begin
  <1>5. ASSUME NEW r \in Requests,
               CommitUpdateGame(r) \/ CommitUpdateTeam(r) \/ CommitUpdatePlayer(r)
        PROVE  FALSE
    <2>1. request[r].op \in Saves
      BY <1>5 DEF CommitUpdateGame, CommitUpdateTeam, CommitUpdatePlayer, InFlight, Saves
    <2>2. request[r].op # "none"
      BY <2>1 DEF Saves
    <2> QED
      BY <2>1, <2>2 DEF InUse
  <1>6. ASSUME NEW r \in Requests, CommitDeleteGame(r) PROVE OnlyFreshRows
    <2>1. db' = NoRows /\ serial' = serial
      BY <1>6 DEF CommitDeleteGame, Commit
    <2> QED
      BY <1>1, <2>1 DEF OnlyFreshRows, NoRows
  <1>7. ASSUME NEW r \in Requests, CommitSetupGame(r) PROVE OnlyFreshRows
    <2> DEFINE players == request[r].players
               n == request[r].game.numberOfRounds
               setup == serial.setups + 1
    <2>1. PICK seating : Commit(r, AssignTables(db, setup, n, players, seating))
      BY <1>7 DEF CommitSetupGame
    <2> HIDE DEF players, n, setup
    <2>2. /\ db'.game = db.game /\ db'.teams = db.teams /\ db'.players = db.players
          /\ db'.rounds = NewRounds(setup, n) /\ db'.scores = {}
      BY <1>1, <2>1 DEF Commit, AssignTables, ResetGameTables, Database
    <2>3. /\ serial'.players = serial.players /\ serial'.setups = setup
          /\ setup > serial.setups /\ serial.setups \in Nat /\ setup \in Nat
      BY <1>1, <1>7 DEF CommitSetupGame, setup
    <2>4. \A c \in db'.rounds : c.setup = setup
      BY <2>2 DEF NewRounds
    <2>5. ASSUME NEW s \in db.seats, RoundOf(s) \in db'.rounds PROVE FALSE
      <3>1. s.setup <= serial.setups /\ s.setup \in Nat
        BY <1>1 DEF CopiesAgree, Copies, Database, Seat
      <3> QED
        BY <2>3, <2>4, <2>5, <3>1 DEF RoundOf
    <2> QED
      BY <2>2, <2>3, <2>4, <2>5 DEF OnlyFreshRows
  <1>8. ASSUME NEW r \in Requests, CommitAddOwner(r) \/ CommitRemoveOwner(r)
        PROVE  OnlyFreshRows
    BY <1>1, <1>2, <1>8 DEF CommitAddOwner, CommitRemoveOwner, Commit, Database
  <1>9. ASSUME NEW r \in Requests, CommitCreateTeam(r) PROVE OnlyFreshRows
    <2>1. PICK t \in TeamIds \ serial.teams, ps \in SUBSET (PlayerIds \ serial.players) :
              /\ serial' = [serial EXCEPT !.teams = @ \union {t}, !.players = @ \union ps]
              /\ db' = [db EXCEPT !.teams = @ \union {t}, !.players = @ \union ps]
      BY <1>9 DEF CommitCreateTeam, Commit
    <2>2. /\ db'.game = db.game /\ db'.rounds = db.rounds /\ db'.seats = db.seats
          /\ db'.scores = db.scores /\ serial'.setups = serial.setups
          /\ db'.teams = db.teams \union {t} /\ db'.players = db.players \union ps
          /\ serial'.players = serial.players \union ps
      BY <1>1, <2>1 DEF Database
    <2> QED
      BY <1>1, <2>2 DEF OnlyFreshRows
  <1>10. ASSUME NEW r \in Requests, CommitCreatePlayer(r) PROVE OnlyFreshRows
    <2>1. PICK p \in PlayerIds \ serial.players :
              /\ serial' = [serial EXCEPT !.players = @ \union {p}]
              /\ db' = [db EXCEPT !.players = @ \union {p}]
      BY <1>10 DEF CommitCreatePlayer, Commit
    <2>2. /\ db'.game = db.game /\ db'.rounds = db.rounds /\ db'.seats = db.seats
          /\ db'.scores = db.scores /\ serial'.setups = serial.setups
          /\ db'.teams = db.teams /\ db'.players = db.players \union {p}
          /\ serial'.players = serial.players \union {p}
      BY <1>1, <2>1 DEF Database
    <2> QED
      BY <1>1, <2>2 DEF OnlyFreshRows
  <1>11. ASSUME NEW gone, serial' = serial, db'.game = db.game, db'.rounds = db.rounds,
                db'.teams \subseteq db.teams, db'.players = db.players \ gone,
                db'.seats  = {s \in db.seats  : s.player \notin gone},
                db'.scores = {s \in db.scores : s.player \notin gone}
         PROVE  OnlyFreshRows
    BY <1>1, <1>11 DEF OnlyFreshRows
  <1>12. ASSUME NEW r \in Requests, CommitDeleteTeam(r) PROVE OnlyFreshRows
    <2> DEFINE gone == Members(db, request[r].team)
    <2>1. /\ serial' = serial /\ db'.game = db.game /\ db'.rounds = db.rounds
          /\ db'.teams \subseteq db.teams /\ db'.players = db.players \ gone
          /\ db'.seats  = {s \in db.seats  : s.player \notin gone}
          /\ db'.scores = {s \in db.scores : s.player \notin gone}
      BY <1>1, <1>12 DEF CommitDeleteTeam, Commit, RemoveTeam, RemovePlayers, Database
    <2> HIDE DEF gone
    <2> QED
      BY <1>11, <2>1
  <1>13. ASSUME NEW r \in Requests, CommitDeletePlayer(r) PROVE OnlyFreshRows
    <2> DEFINE gone == {request[r].player}
    <2>1. /\ serial' = serial /\ db'.game = db.game /\ db'.rounds = db.rounds
          /\ db'.teams \subseteq db.teams /\ db'.players = db.players \ gone
          /\ db'.seats  = {s \in db.seats  : s.player \notin gone}
          /\ db'.scores = {s \in db.scores : s.player \notin gone}
      BY <1>1, <1>13 DEF CommitDeletePlayer, Commit, RemovePlayers, Database
    <2> HIDE DEF gone
    <2> QED
      BY <1>11, <2>1
  <1>14. ASSUME NEW r \in Requests, SaveScore(r) PROVE OnlyFreshRows
    <2>1. /\ serial' = serial /\ db'.game = db.game /\ db'.teams = db.teams
          /\ db'.players = db.players /\ db'.rounds = db.rounds /\ db'.seats = db.seats
          /\ db'.scores = db.scores \union {Head(request[r].todo)}
      BY <1>1, <1>14 DEF SaveScore, Database
    <2>2. /\ InFlight(r, "UpdateScores")
          /\ \E j \in DOMAIN request[r].todo : Head(request[r].todo) = request[r].todo[j]
      BY <1>14, ScoreSaved DEF SaveScore
    <2>3. \A s \in db'.scores \ db.scores : s = Head(request[r].todo)
      BY <2>1
    <2>4. serial.setups >= serial.setups
      BY <1>1
    <2> QED
      BY <2>1, <2>2, <2>3, <2>4 DEF OnlyFreshRows
  <1>15. ASSUME NEW r \in Requests, Fail(r) PROVE OnlyFreshRows
    BY <1>2, <1>15 DEF Fail
  <1> QED
    BY <1>3, <1>4, <1>5, <1>6, <1>7, <1>8, <1>9, <1>10, <1>12, <1>13, <1>14, <1>15 DEF Next

(***************************************************************************)
(* "Game deleted", "Team deleted", "Player deleted" (openapi.yaml:179,     *)
(* :358, :448): only a save brings something deleted back.                 *)
(***************************************************************************)
THEOREM OverlapLeavesDeleted ==
    ASSUME Saves \intersect Operations = {} PROVE Spec => DeletedStaysDeleted
  <1>1. TypeOK /\ InUse /\ CopiesAgree /\ [Next]_vars =>
            [/\ serial.game /\ db.game = NoGame => db'.game = NoGame
             /\ (db'.teams \ db.teams) \intersect serial.teams = {}
             /\ (db'.players \ db.players) \intersect serial.players = {}]_vars
    BY WithoutSaves DEF OnlyFreshRows
  <1> QED
    BY <1>1, TypeCorrect, AlwaysInUse, CopiesAlwaysAgree, PTL DEF Spec, DeletedStaysDeleted

(***************************************************************************)
(* A place that was once assigned is still there, or its round or its      *)
(* player is gone for good.                                                *)
(***************************************************************************)
Settled(s, d, ids) ==
    /\ s.setup <= ids.setups /\ s.player \in ids.players
    /\ RoundOf(s) \in d.rounds /\ s.player \in d.players => s \in d.seats

LEMMA SettledStays ==
    ASSUME TypeOK, TypeOK', OnlyFreshRows, NEW s \in Seat, Settled(s, db, serial)
    PROVE  Settled(s, db', serial')
  <1>1. s.setup \in Nat /\ serial.setups \in Nat /\ serial'.setups \in Nat
    BY DEF Seat, TypeOK
  <1>2. s.setup <= serial'.setups /\ s.player \in serial'.players
    BY <1>1 DEF OnlyFreshRows, Settled
  <1>3. ASSUME RoundOf(s) \in db'.rounds, s.player \in db'.players PROVE s \in db'.seats
    <2>1. RoundOf(s) \in db.rounds
      BY <1>1, <1>3 DEF OnlyFreshRows, Settled, RoundOf
    <2>2. s.player \in db.players
      BY <1>3 DEF OnlyFreshRows, Settled
    <2> QED
      BY <1>3, <2>1, <2>2 DEF OnlyFreshRows, Settled
  <1> QED
    BY <1>2, <1>3 DEF Settled, RoundOf

SheetsSettled ==
    /\ db.players \subseteq serial.players
    /\ \A r \in Requests :
           InFlight(r, "UpdateScores") => \A i \in DOMAIN request[r].todo :
                                              Settled(request[r].todo[i], db, serial)

(***************************************************************************)
(* "no score row may be written for a player not seated at the table"      *)
(* (scores_test.go:122): a score sheet that is saved row by row, while     *)
(* players leave and tables are assigned anew, scores only players who     *)
(* still have the seat.  Only a save can leave a score without one.        *)
(***************************************************************************)
THEOREM OverlapSeatsScores ==
    ASSUME Saves \intersect Operations = {} PROVE Spec => []ScoresAreSeated
  <1> DEFINE Inv == SheetsSettled /\ ScoresAreSeated
  <1>1. Init => Inv
    BY DEF Init, SheetsSettled, ScoresAreSeated, NoRows, InFlight, Idle
  <1>2. TypeOK /\ TypeOK' /\ InUse /\ CopiesAgree /\ Inv /\ [Next]_vars => Inv'
    <2> SUFFICES ASSUME TypeOK, TypeOK', InUse, CopiesAgree, Inv, [Next]_vars PROVE Inv'
      OBVIOUS
    <2>1. CASE UNCHANGED vars
      BY <2>1 DEF vars, SheetsSettled, ScoresAreSeated, InFlight, Settled
    <2>2. CASE Next
      <3>1. OnlyFreshRows
        BY <2>2, WithoutSaves
      <3>2. db'.players \subseteq serial'.players
        BY <3>1 DEF OnlyFreshRows, SheetsSettled
      <3>3. \A s \in db.seats : s \in Seat /\ Settled(s, db, serial)
        BY DEF CopiesAgree, Copies, TypeOK, Consistent, Database, SheetsSettled, Settled
      <3>4. \A r \in Requests :
               InFlight(r, "UpdateScores") =>
                   \A i \in DOMAIN request[r].todo : /\ request[r].todo[i] \in Seat
                                                     /\ Settled(request[r].todo[i], db, serial)
        <4> SUFFICES ASSUME NEW r \in Requests, InFlight(r, "UpdateScores"),
                            NEW i \in DOMAIN request[r].todo
                     PROVE  request[r].todo[i] \in Seat
          BY DEF SheetsSettled
        <4>1. request[r].todo \in Seq(Seat)
          BY LoadedFields
        <4> QED
          BY <4>1
      <3>5. ASSUME NEW r \in Requests, request'[r].op = "UpdateScores",
                   NEW i \in DOMAIN request'[r].todo
            PROVE  Settled(request'[r].todo[i], db', serial')
        <4> DEFINE s == request'[r].todo[i]
        <4>1. s \in Seat /\ Settled(s, db, serial)
          <5>1. CASE request'[r] = request[r]
            BY <3>4, <3>5, <5>1 DEF InFlight
          <5>2. CASE request'[r] # request[r] /\ Carries(request'[r], db)
            BY <3>3, <3>5, <5>2 DEF Carries
          <5>3. CASE SavesOne(r)
            BY <3>4, <3>5, <5>3 DEF SavesOne, SaveScore
          <5> QED
            BY <2>2, <3>5, <5>1, <5>2, <5>3, RequestStep DEF Idle
        <4>2. \A o \in Seat : Settled(o, db, serial) => Settled(o, db', serial')
          BY <3>1, SettledStays
        <4> QED
          BY <4>1, <4>2
      <3>6. ASSUME NEW s \in db'.scores PROVE s \in db'.seats
        <4>1. s \in Seat /\ Settled(s, db, serial)
          BY <3>1, <3>3, <3>4 DEF OnlyFreshRows, ScoresAreSeated
        <4>2. Settled(s, db', serial')
          BY <3>1, <4>1, SettledStays
        <4>3. RoundOf(s) \in db'.rounds /\ s.player \in db'.players
          BY DEF TypeOK, Consistent
        <4> QED
          BY <4>2, <4>3 DEF Settled
      <3> QED
        BY <3>2, <3>5, <3>6 DEF SheetsSettled, ScoresAreSeated, InFlight
    <2> QED
      BY <2>1, <2>2
  <1>3. Inv => ScoresAreSeated
    OBVIOUS
  <1> HIDE DEF Inv
  <1> QED
    BY <1>1, <1>2, <1>3, TypeCorrect, AlwaysInUse, CopiesAlwaysAgree, PTL DEF Spec
=============================================================================
