# A verification of knobel-manager-service

The service keeps tournaments of a dice game: a *game* has *owners*, *teams* of
*players*, and, once it is set up, *rounds* of *tables* at which players of
different teams sit and get *scores*. It is a stateless HTTP server in Go over
PostgreSQL; all state is in the database, requests run concurrently, and the
only coordination between two of them is what a database transaction gives.

This directory holds TLA+ models of it, what TLC checks of them, and what TLAPS
proves about them.

## Inventory

| Part (source) | State | Operations | What makes it correct | Modelled in |
|---|---|---|---|---|
| Table assignment, `pkg/setup` | local to a call: list of players, tables, seed | `IsAssignable`, `AssignTables` | every player gets one seat, tables are full, no teammates at a table; the retry loop has a way out | `TableAssignment` |
| Schema and entities, `db_migration`, `pkg/entity` | all rows | cascades, unique indexes; GORM's `Save` of an object graph | rows refer to rows that are there | `Schema` |
| Game service, `pkg/game`, `api/handlers/games_handler.go` | games, owners, rounds, tables, seats | create, update, delete, set up, add and remove an owner | an owner remains; a started game is not set up again; it starts playable and ends scored | `Tournament` |
| Team and player services, `pkg/team`, `pkg/player` | teams, players | create, rename, delete | a rename changes nothing else | `Tournament` |
| Table service, `pkg/table` | scores | enter the scores of a table | only seated players get scores; an answer shows the sheet; a table holds one score sheet (it does not) | `Tournament`, `ScoreEntry` |
| Wrappers, routes, handlers and error answers, `gen/api`, `api/routes`, `api/handlers` | one call | bind, decode, refuse, answer; 18 operations | every call is answered, with what it did | `Api` |
| Middleware, `api/middleware` | request context, counters | authenticate, log, count | only authenticated users reach a handler | `Api` (without headers and logs) |
| Read-only endpoints, converters | none | list and get | they are refused like the others | `Api` (without converters) |
| Lifecycle and health, `cmd/main.go`, `api/health` | stage, draining flag | start, probe, drain, shut down | requests in flight get their time; the proxy leaves in time; the process ends | `Rollout` |
| Documents, scripts, deployment | none | | | constants of `Rollout` |

**Interaction.** A handler takes the subject from the request context, decodes the
body and calls a service; a service loads rows through its repository, checks them
in memory, changes the loaded objects, and saves them. Load and save are separate
statements (separate transactions) in every operation; only the table assignment
writes inside one explicit transaction, and its load is outside. So every
operation reads state that may be stale when it writes. The process stands behind a
proxy that probes `/health/ready`, and under a container runtime that stops, kills
and replaces it.

**Hard behaviours.** `Save` writes the whole loaded graph, so stale copies bring
deleted rows back. Checks of status, ownership, number of owners and sizes are made
on stale copies. Sizes can be negative. A score sheet is saved row by row. The
retry loop of the assignment
is unbounded and runs inside a transaction. Requests fail between any two
statements. What was written is read back in a statement of its own. The drain, the
shutdown, the probe, the proxy and the runtime each have a clock of their own. `PROJECT.json` lists each of these as a hazard, at its line.

## Modules

| Module | Models | Notes |
|---|---|---|
| `Seating` | `IsAssignable`, Go's integer division, what a seating is | shared by the next three |
| `TableAssignment` | one call of `setup.AssignTables` | one action per step of the two loops |
| `Schema` | rows, cascades, constraints, the effect of `Save` | operators on a record of row sets |
| `GameRules` | what the services promise of one game | abstract: every operation is one step |
| `Tournament` | all writing operations of the four services | extends `Schema` and `Seating`; implements `GameRules`, within limits |
| `Api` | the way of a call through wrapper, middleware and handler | extends `Tournament`, whose steps are its admissions and writes |
| `TableScores` | what the scores of a table should be | abstract: a table takes a sheet as a whole |
| `ScoreEntry` | the points of one table, entered row by row | does not implement `TableScores` once a statement fails |
| `Rollout` | the process, its probe, the proxy and the runtime, with times | |
| `MC*` | the instances TLC checks | |
| `*Proofs` | the theorems | `SeatingProofs` has the lemmas on division and on counting |

Operators whose comment begins with *Mutant* are not part of the specifications.
Each stands for a plausible mistake in the definition that follows it; a property
is kept only if exchanging the two makes a run report it.

### TableAssignment

`pc` says where the call is: `check` before `IsAssignable`, `deal` in the loops over
seats and tables, `decide` after them, `done` or `error` when it has returned.
`order` is `playersToAssign` after the shuffle; a player removed from the list by
`append(list[:i], list[i+1:]...)` leaves the set `left` of positions, and the first
player of the list that fits is the least fitting position. The map `tables` is a
function from table numbers to sets of players. `Refuse`, `Shuffle`, `Deal`, `Skip`
and `Return` are the error return, the top of the retry loop, an iteration that
seats somebody, one that finds nobody, and the return.

The random source is abstracted: every pass shuffles into any order in
`Shuffles(players)`, whichever seed it runs under. Players are named by their rank
in the unshuffled list.

### Schema and Tournament

`db` is the committed state: the record of one game's row and of its owners, teams,
players, rounds, seats (`table_players`) and scores. A round carries the number of
the assignment (`setup`) it was made by; the code tells them apart by primary keys
only. `serial` stands for the id sequences, which are never set back: an id is used
once. `request[r]` is a request in flight with what it has loaded and still uses.

Every operation is a `Begin` and a `Commit`. `Begin` reads `db`, makes all checks of
handler and service, and keeps what the write will use: all rows for `UpdateGame`
(`snap`), the players and scores of a team for `UpdateTeam`, the player with its
team's game and owners for `UpdatePlayer`, players and sizes for `SetupGame`, ids
for the rest. `Commit` is the write. Any steps of other requests may come between
them. `CreateGame` loads nothing and is one step. `UpdateScores` has a step
`SaveScore` for each row it saves. `Fail` ends a request before its next write.

`GameRules` is the game as its users see it: a phase from `none` over the three statuses
to `deleted`, owners, players, whether tables are assigned, seats and scores.
`Tournament` maps its rows to it (`Phase`, `Rules`, `FollowsTheRules`): a load, a
failure, and the saves behind a rename are no steps of the game; a cascade, a save of a
whole graph or an assignment is one. The rules say what each step leaves alone, which is
what a `Save` of everything puts at risk, and what may start and end a game
(`MayStart`, `MayEnd`), negative sizes included.

Sizes are any integers but zero (`Size`): that is all the handlers refuse
(`games_handler.go:144-145`, `:186-187`), and the columns have no check. A negative team
size lets a game without players start, a negative number of rounds makes `SetupGame`
take all tables away and lets a game complete without scores. `StartsPlayable`,
`CompletesScored` and `FollowsTheRules` allow exactly that; `CompletesEveryTable`, which
a test states, does not.

Abstractions, and why they are sound for what is claimed:

* A load is one step, though it sends several selects.
* A transaction is one step; PostgreSQL runs it at *read committed*. Two table
  assignments that overlap meet in the unique index on (game, round number); one of
  them fails, which is `Fail`.
* The `Save` of a player that is gone is an update that brings team, game and owners
  back, and then an insert; the two transactions are one step here.
* `Save` of a row that is there is modelled as leaving its keys as they are. Names,
  score values, and timestamps are left out, so an overwritten name is invisible.
* A score is its player and table. Where a stale save would insert a second id for
  the same player and table the database refuses; the model lets the save succeed
  without effect, which allows more behaviours, not fewer.
* One game is followed. No statement reads or writes rows of another.
* A request that is refused writes nothing and is no step.

### ScoreEntry and TableScores

`score` holds the stored points of each player, `NoScore` where there is no row.
`request[r]` is a `PUT .../scores`: `Load` is `FindTable` with the checks of
`UpdateScore` (as many entries as players, each seated), `loaded` the table it saw,
`todo` the rows it will save. Two entries for a player share one loaded object, so
both save the last points; without a loaded score they are two inserts, the second of
which the unique index refuses (`Todo`, `Conflict`). `SaveScore` is one iteration of
the loop of `UpdateTable`, a transaction of its own; `Reload` reads the table for the
answer; `Fail` is a failing statement, `MaxFailures` of them in all.

`TableScores` is a table that takes a whole sheet at once. `ScoreEntry` is compared with
it through `VisibleTable`: what was loaded as long as a request saves, the stored
points otherwise (`Promise`, `TableHoldsOneSheet`). So it is not the rows that are seen
in between that break it, only what is left in the end.
`AnswerShowsTheSheet` is said of whoever enters scores alone (`Alone`): no other request
has been sent. Entries may name a player twice, and half a sheet may be stored already.

### Api

`call[r]` is a call: received, bound, counted, authenticated, decoded, admitted,
written, answered. The generated wrapper binds path parameters before any middleware
runs, so a malformed id is answered before the call is counted or authenticated.
`Parameters` and `Handlers` are the tables of the 18 operations; `Refusals` is what
handlers and services check, in their order, on the rows as they are; `Refuse` stands
for every refusal, whichever argument brings it about. `Admit` and `Write` are the
`Begin` and `Commit` of `Tournament`; `Reload` reads back what is answered,
and answers 500 when the game, or the table of a score sheet (`Shown`), is gone by then;
`SelectFails` and `WriteFails` are failures of the database. A path names all that is
asked for, the game but not the rest, or the rest but not the game (`Paths`): the
operations on players look at the player and its team only.

### Rollout

`stage` is where `main` is: four stages of the start, serving, signalled, draining,
shutdown of the main and of the metrics server, exited. `since` counts seconds in a
stage that takes time. `proxy` has what Caddy believes of the server (`up`), the time
since its last probe and whether a probe is being checked: the flag is read first, the
database and Firebase are asked then, so a probe can pass after draining has begun.
`request[c]` is a request at the proxy or in the process, with its age. A handler may take
any time, or never end: no timeout of the server ends it. So the age of what it handles is
counted up to `MaxAge` only, from which on all deadlines are over. `Tick` lets a
second pass when nothing is due. `Kill` and `Restart` are the container runtime.

## Runs

| Run | Question | Bounds | Result |
|---|---|---|---|
| `assign` | What does `AssignTables` accept, and what does it return, in any order of the shuffle? | up to 3 teams of 1 or 2 players, both sizes from -3 to 3 without 0, also for no teams; 2 teams of 4, sizes 1, 2, 4, all 40,320 orders | holds |
| `serial` | Do the promises of the services hold when requests do not overlap? | 2 users, 1 request, 2 teams, 3 players, 2 assignments, all operations, four sets of sizes, one with a negative team size, one with a negative number of rounds | holds |
| `concurrent` | What do overlapping requests leave of an assignment? | 1 user, 2 requests, 2 teams of 2, 2 rounds, 2 assignments, all operations but `UpdateScores`, `CreatePlayer` and `DeleteTeam`, status left as it is | holds |
| `sheets` | Do overlapping sheets end, does a table get scored, and does whoever is alone see its sheet? | 2 seats, a stranger, 2 requests, 1 failure, sheets that name a player twice | holds |
| `api` | Is every call answered, and with what it did? | 2 users and one without a token, 1 call, 18 operations, a game of 1 player, negative sizes among those sent | holds |
| `rollout` | Does a replacement go as the deployment means it to? | 1 client, whose request may never end, 1 stop, 1 crash, 1 outage; the times below | holds |
| `last_owner` | "cannot remove the last owner" under overlap | 2 users, 2 requests, owner operations | violated |
| `unseated_score` | "no score row ... for a player not seated at the table" under overlap | 1 user, 2 requests, rename and delete | violated |
| `restart` | "Game is not in setup state" under overlap | 1 user, 2 requests, set up, start and score | violated |
| `revived` | "Game deleted" under overlap | 1 user, 2 requests, rename and delete | violated |
| `torn_sheet` | "Transactions used for multistep operations" | 2 seats, 1 request, 1 failure, whole sheets | violated |
| `unscored` | "Should fail to update game status to completed if scores incomplete" | 1 user, 1 request, 1 player, a number of rounds of 1 or -1 | violated |

Deadlock is not checked in `assign` and the runs of `Tournament`: a call of
`AssignTables` ends, and a game that is deleted or whose ids are used up has no
further steps. It is checked in the others.

**Why the bounds are enough.** Two overlapping requests are what every hazard found
in the code needs: one with a stale copy, one that makes it stale. Two assignments
are the least that can be mixed. Two rounds make a partial or mixed assignment
visible, and two teams of two make a bad seating possible. `concurrent` leaves the
status as it is: a change of it only keeps assignments from being admitted; no operation
decides where to seat anybody from the scores; two pairs can be assigned only when all four
players are there; and what `DeleteTeam` takes away `DeletePlayer` does, one after the other.
The theorems about its properties have no such restriction. In `serial` the
negative sizes come with tables of one, so that nothing else keeps a game from
starting. In `assign` the sizes
include both signs, teams that are incomplete, tables that are too large, and sizes
that do not divide. Two entries are the least with a row before and after a failure;
`sheets` has three players, one of whom sits elsewhere, and sheets that differ in the
points of one. In `api` one call follows another, by owners and strangers,
on every state the rows can get into without overlap; for overlapping calls its safety
properties are proved. The times of
`rollout` are those of `main.go` (5 s drain, 15 s shutdown) and of `site.caddy` (5 s
between probes, 10 s of patience), 10 s to `SIGKILL` as `compose.yaml` leaves the
runtime's default, 2 s for a start and 1 s for a probe. `MaxAge` is 15 s, the longest
anything waits for a request. One client is followed: two of them could
alternate for ever in no time, which no real clients do, and time would stand still.
For most properties the theorems below remove the bounds.

**What they show.** `serial`: `EveryGameHasOwner`, `ScoresAreSeated`,
`StartedGameKeepsScores`, `StartsPlayable`, `CompletesScored`, `OnlyOwnersWrite` and the
refinement `FollowsTheRules` hold of requests that do not overlap; the first three are
refuted by a run with two requests, and with them the refinement. `SetupCanSucceed` (a
setup that is admitted has a seating to find), `OnePlacePerRound`, `NoTeammatesAtTable`,
`SetupIsWhole` and `RoundsSeatTheSamePlayers` survive the overlap. `sheets`: whoever
enters scores alone is shown them; two sheets can refuse each other, but not for ever.
`rollout`: a request is cut off only by a
crash or after its time, the proxy has left a second after the listener is closed, a
process that is told to stop does so even if a request never ends, and
one process serves in the end. With 10 s to the kill, a request in flight has 5 s of
the 15 s that `main` means to give.

**Findings.** Four of the violated runs are races with one cause: a check or a copy
made at the load is not looked at again at the write.
`last_owner`: two owners remove each other. `unseated_score`: a team is saved with a
player who was deleted meanwhile. `restart`: two assignments are admitted while the game
is in setup; one is committed, the game is started, a score is entered, and the other
assignment erases it. `revived`: a player is saved
with the game that was deleted meanwhile, and the game is back.
Which operations they come from is proved (`TournamentOverlapProofs`, below): without
`RemoveOwner` no overlap leaves a game without owners, and without the three operations
that save a loaded graph (`UpdateGame`, `UpdateTeam`, `UpdatePlayer`) no overlap brings
anything deleted back or leaves a score without a seat. A repair of the first needs to
look at `RemoveOwner` only, one of the second and fourth at those three saves.
The other two need one request only. `torn_sheet`: one row is saved, the next statement
fails, and the table keeps half a sheet. `unscored`: a negative number of rounds
completes a game without scores, since no player has fewer scores than that.

**Other disagreements of code and documents, seen while modelling and not given a run:**

* With a negative team size (and a table size of 1) a game starts without players:
  nobody is there whose team could be incomplete (`assign_tables.go:20-32`).
  `SetupGame` with a negative number of rounds removes all tables and answers 204,
  which `openapi.yaml:199` calls "tables assigned for all rounds".
* A player added after the assignment has no seat. The start of the game counts rounds
  and players (`service.go:79-83`), not seats, and the game can then not be completed,
  since that player never gets a score. No document says that it should not start.
* A user who does not own the game gets 404 from `UpdateScores`
  (`pkg/table/service.go:21-23`), as does any failing select; `openapi.yaml:584`
  says 403. `StrangersAreForbidden` leaves this operation out.
* The operations on players ignore the game in the path
  (`players_handler.go:62`, `:100`); `openapi.yaml:398` asks for it.
* `SetupGame` answers 409 when there are too few teams (`games_handler.go:309`);
  `openapi.yaml:198-207` does not name that answer.
* A malformed id is answered by the wrapper (`api.gen.go:364` and on), before
  metrics, logging and authentication.
* A sheet that names a player twice is accepted (`pkg/table/service.go:46-55`), and on a
  table without scores the second row is refused by the index, after the first is stored.
* The drain and the shutdown take up to 20 s (`main.go:234-236`), the runtime's
  default is 10 s; and the proxy holds a new request for 10 s (`site.caddy:10`), while
  a replacement behind a request of 10 s takes 17 s or more, so that new requests can
  get a 502.

## Fairness

* `ScoreEntry`: a request that has loaded goes on (`WF` of `Proceed` per request): a
  handler is a goroutine that blocks on nothing but the database. `SpecRetried` adds
  that clients that are refused try again (`WF` of `Load`), which the code leaves to
  them; only `TableGetsScored` rests on it, and on clients that come to send sheets that
  name nobody twice (`ClientsLearn`): others refuse themselves. Failures are not fair and
  end.
* `Api`: a call proceeds (`WF` of `Proceed` per call), for the same reason. Arrivals
  and failures are not fair.
* `Rollout`: `WF` of the steps of the process and its runtime, of each step of the
  probe, and of the proxy's forwarding or giving up a request; they are the scheduler's.
  `SF` of `Tick`: time passes, and a step that is due only delays it. A handler need not
  return: its answer is not fair. Nor are signals, crashes, outages and arrivals.
* `TableAssignment` and `Tournament` state none; their runs check safety. That the
  retry loop can end is stated as two safety properties, and both are proved.
  `TeamByTeamSucceeds`: in every accepted setup the pass on the unshuffled order seats
  everybody. `SetupCanSucceed`: a setup request in flight has a seating, whatever
  the requests beside it do. Whether the sequence of seeds ever produces such an order
  is a matter of `math/rand`, which is not modelled.

## Proofs

All proofs are checked by TLAPS for any values of the constants that satisfy the
assumptions named in the modules: any number of users, requests, teams, rounds, sizes
and assignments, finitely many players, any times.

* `SeatingProofs`: lemmas. Go's quotient and remainder for both signs; what
  `IsAssignable` amounts to (`AssignableMeans`, `PlayableIsAssignable`); `Groups`,
  that a set divided into groups of `n` has `n` times as many elements as groups; and
  `AssignableHasSeating`, that an accepted setup has a seating. The seating is given
  outright: number the players team by team and deal them to the tables in turn. Two
  players of a table are then as far apart as there are tables, teammates are closer
  (`SameTableFarApart`, `TeamRanks`), and full tables take everybody (`FullTables`).
* `TableAssignmentProofs`: `TypeCorrect`, `TeamsAreSplit`, `NobodyLost`; the crux is
  that the least candidate is a position whose player is at no table yet
  (`FirstCandidate`). `PlayableAlone` and `UnplayableAlone` say exactly which setups
  are accepted, one without teams and with a negative team size among them; the second
  assumes positive team ids, as the database gives them.
  `CallersGetSeatings`: no table has more players than it has had turns (`Filled`),
  at the return everybody has a table, and the tables have room for exactly everybody
  (`TablesSuffice`), so by counting each of them is full. `TeamByTeamIsWayOut`: the
  code deals seat by seat and takes the first player of the list that fits, so that on
  the unshuffled order every iteration finds the next in line (`NextInOrder`) and the
  players dealt are always the first so many of the list, each at the table of its turn
  (`DealtInOrder`). `RanksAssumption` says that players are named by their rank in the
  unshuffled list, team after team.
* `TournamentProofs`: `TypeCorrect`. `TypeOK` includes `Consistent(db)`, the foreign
  keys and the unique round number, and that a copy held by a request is consistent
  in itself. Each statement has a lemma that it leads from consistent rows to
  consistent rows; `CanSaveGame` and `CanSaveTeam`, the constraints the database
  checks, are needed exactly there.
* `TournamentOverlapProofs`, for any number of overlapping requests:
  `StoredTeamsAreSplit`, `StoredSeatsAreUnique`, `StoredSetupIsWhole` and
  `StoredRoundsSeatTheSame`. None of these is inductive: a
  stale save unites the database with an older copy, so nothing follows from the
  database alone. The invariant `CopiesAgree` speaks of the database *and* all
  copies that will be saved: each holds the rounds of one assignment or none, two of
  them that hold rounds of one assignment hold the same rounds, and their seats fit
  together. Every step but an assignment is a `Merge` of one copy into the database
  (`MergeSteps`); since round 1 is in every assignment, the unique index makes a
  merge of two assignments impossible (`MergedRounds`), so a merge keeps agreement
  (`MergeAgrees`); an assignment has a number no copy knows (`SetupAgrees`).
  `SetupsHaveSeating`: a setup works on the players and sizes it was admitted with
  (`SetupsAssignable`), so later changes of the rows do not matter.
  Four theorems say of the properties that overlap breaks which operations break them,
  as a hypothesis on `Operations`; everything else may overlap in any way.
  `OverlapKeepsOwners` needs no `RemoveOwner`; `OverlapLeavesOwnersWriting` besides
  either no `DeleteGame` or no `UpdatePlayer`, since a player's save brings a game back
  that is nobody's to write. `OverlapLeavesDeleted` and `OverlapSeatsScores` need no
  `UpdateGame`, `UpdateTeam` and `UpdatePlayer`: all other writes use ids never used
  before (`OnlyFreshRows`), and whoever a score sheet still has to save for
  has either kept the seat or is gone for good (`SheetsSettled`).
* `TournamentSerialProofs`: the properties of `serial`, `DeletedStaysDeleted`, and the
  refinement `GamesFollowTheRules`, from the assumption `OneAtATime` that requests do not
  overlap, for all sizes but zero. The inductive invariant `Current` says
  that what a request has loaded and checked still holds of the stored rows; it is
  exactly what the four races lack. Every write is then of one of seven kinds
  (`Written`), each a step of `GameRules`, and leaves rows that are `Permitted`, from
  which each property is read off.
* `ScoreEntryProofs`: `TypeCorrect` for any overlap; `AnswersShowTheSheet`, for any
  number of requests, failures and sheets that name a player twice. The invariant
  `Progress` says of a request that is alone that what is left to save is the rest of the
  sheet and what is saved is stored, on top of whatever its earlier failures have left.
* `ApiProofs`, for any number of concurrent calls: `ServicesBehind`, that `ApiSpec`
  implements the specification of `Tournament`, so that all its theorems hold behind
  the interface; `InterfaceKeepsAssignments` says so of the stored assignment; and the safety properties of `api`. The invariant `Calls` follows a
  call stage by stage: nothing is in flight or written before it is admitted, and the
  caller is one of `Users` from then on.
* `RolloutProofs`, for any times: `TypeCorrect`, `GraceAlwaysGiven` and, if the drain
  is at least as long as the interval between probes, `ClosedServerAlwaysLeft`. The
  ages of a request and of the shutdown grow together (`Grace`), and a server that has
  drained for longer than the probe's clock shows has been probed since (`Unprobed`).

**Model-checked only:** all liveness: `EverySheetIsAnswered`, `TableGetsScored`,
`EveryCallIsAnswered`, `Stops`, `ReadyInTheEnd`. Liveness under fairness is out of the
prover's reach. Every invariant and every action property that a passing run checks is stated
by a theorem: those of `serial` under the restriction that the run has,
`OnlyUnplayableRefused` and `ClosedServerIsLeft` under the condition named above. The
properties of `torn_sheet` and `unscored` are false and have none.

## Not modelled

The converters, CORS and security headers, the limit on bodies, log lines and the
values of metrics; the public pages and the served documents; the verification of a
token and the lookup of an e-mail address (both Firebase: a token is valid or not, a
user is known or not); the settings of the connection pool (no
operation asks for a second connection while it holds one, so requests do not wait for
each other in a circle); migrations as such,
containers and scripts. Names and timestamps of rows are left out everywhere.

## Plan

1. Done: the modules, runs and proofs above.
2. Which operations can break `StartsPlayable`, `CompletesScored` and
   `StartedGameKeepsScores` under overlap, as theorems like the four above.
3. `AssignTables` with the seeds of `math/rand`, if its sequence of orders can be
   characterised.
