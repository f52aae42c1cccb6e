-------------------------------- MODULE Api --------------------------------
(***************************************************************************)
(* The HTTP interface over the services of Tournament: how a call gets     *)
(* from the router to a service, and what it is answered.  A call has its  *)
(* path parameters bound, then passes the middleware (headers, metrics,    *)
(* logging, authentication), has its body decoded, is refused or admitted  *)
(* by the service on what it loads, writes, reads back what it answers,    *)
(* and is answered.                                                        *)
(*                                                                         *)
(* The arguments of a call (ids, sizes, scores) are chosen when they are   *)
(* looked at; of its path, whether it names the game, and whether what     *)
(* else it names is there.                                                 *)
(***************************************************************************)
EXTENDS Tournament

CONSTANT Nobody        \* the caller without a valid token

ASSUME NobodyAssumption == Nobody \notin Users

VARIABLE call          \* per slot, the call and its answer

apiVars == <<db, request, serial, call>>

\* f, and g where f says nothing.
f ++ g == [x \in DOMAIN f \union DOMAIN g |-> IF x \in DOMAIN f THEN f[x] ELSE g[x]]

NoCall == [stage |-> "idle"]

ApiInit == Init /\ call = [r \in Requests |-> NoCall]

-----------------------------------------------------------------------------
(***************************************************************************)
(* The router.                                                             *)
(***************************************************************************)
\* The parameters an operation binds, in this order.
GamesParameters ==
    [op \in {"GetGame", "UpdateGame", "DeleteGame", "AddOwner", "RemoveOwner"} |->
        IF op = "RemoveOwner" THEN <<"gameID", "ownerSub">> ELSE <<"gameID">>]

TablesParameters ==
    [op \in {"GetTables", "GetTable", "UpdateScores"} |->
        IF op = "GetTables" THEN <<"gameID", "roundNumber">>
        ELSE <<"gameID", "roundNumber", "tableNumber">>]

SetupParameters == [op \in {"SetupGame", "GetGameTables"} |-> <<"gameID">>]

TeamsParameters ==
    [op \in {"CreateTeam", "UpdateTeam", "DeleteTeam"} |->
        IF op = "CreateTeam" THEN <<"gameID">> ELSE <<"gameID", "teamID">>]

PlayersParameters ==
    [op \in {"CreatePlayer", "UpdatePlayer", "DeletePlayer"} |->
        IF op = "CreatePlayer" THEN <<"gameID", "teamID">>
        ELSE <<"gameID", "teamID", "playerID">>]

Parameters ==
    [op \in {"GetGames", "CreateGame"} |-> <<>>]
        ++ GamesParameters ++ TablesParameters ++ SetupParameters
        ++ TeamsParameters ++ PlayersParameters

\* Not an integer; a subject can be any string.
CanBeMalformed(op) == {i \in DOMAIN Parameters[op] : Parameters[op][i] # "ownerSub"}

\* A handler decodes a body or has none, and answers success with a status.
Decodes(status) == [decodes |-> TRUE, success |-> status]
NoBody(status)  == [decodes |-> FALSE, success |-> status]

ReadingHandlers == [op \in {"GetGames", "GetGame"} |-> NoBody(200)]

GamesHandlers == [op \in {"CreateGame", "UpdateGame"} |->
                     Decodes(IF op = "CreateGame" THEN 201 ELSE 200)]

OwnersHandlers == [op \in {"AddOwner", "RemoveOwner"} |->
                      IF op = "AddOwner" THEN Decodes(200) ELSE NoBody(200)]

LifecycleHandlers == [op \in {"DeleteGame", "SetupGame"} |-> NoBody(204)]

TeamsHandlers == [op \in {"CreateTeam", "UpdateTeam", "DeleteTeam"} |->
                     IF op = "DeleteTeam" THEN NoBody(204)
                     ELSE Decodes(IF op = "CreateTeam" THEN 201 ELSE 200)]

PlayersHandlers == [op \in {"CreatePlayer", "UpdatePlayer", "DeletePlayer"} |->
                       IF op = "DeletePlayer" THEN NoBody(204)
                       ELSE Decodes(IF op = "CreatePlayer" THEN 201 ELSE 200)]

TablesHandlers == [op \in {"GetGameTables", "GetTables", "GetTable", "UpdateScores"} |->
                      IF op = "UpdateScores" THEN Decodes(200) ELSE NoBody(200)]

Handlers == ReadingHandlers ++ GamesHandlers ++ OwnersHandlers ++ LifecycleHandlers
                ++ TeamsHandlers ++ PlayersHandlers ++ TablesHandlers

ASSUME OperationsAssumption == Operations \subseteq DOMAIN Handlers

Reads == {"GetGames", "GetGame", "GetGameTables", "GetTables", "GetTable"}

Set(r, fields) == call' = [call EXCEPT ![r] = fields ++ @]

\* What is left of a call once it is answered.
Answer(r, status) ==
    LET c == call[r]
    IN  call' = [call EXCEPT ![r] = [stage |-> "answered", op |-> c.op, path |-> c.path,
                                     status |-> status, wrote |-> c.wrote, counted |-> c.counted]]

Receive(r) ==
    /\ call[r].stage \in {"idle", "answered"}
    /\ \E op \in Operations :
           /\ op = "CreateGame" => ~ serial.game
           /\ call' = [call EXCEPT ![r] = [stage |-> "received", op |-> op, path |-> "unread",
                                         wrote |-> FALSE, counted |-> FALSE]]
    /\ UNCHANGED vars

\* The wrapper binds the parameters before it calls any middleware.
BindParameters(r) ==
    /\ call[r].stage = "received"
    /\ \/ Set(r, [stage |-> "bound"])
       \/ CanBeMalformed(call[r].op) # {} /\ Answer(r, 400)
    /\ UNCHANGED vars

\* Every call that gets here is counted with the answer it will have.
CountRequest(r) ==
    /\ call[r].stage = "bound"
    /\ Set(r, [stage |-> "counted", counted |-> TRUE])
    /\ UNCHANGED vars

\* Mutant: a call without a token goes on.
AuthenticateAnybody(r) ==
    /\ call[r].stage = "counted"
    /\ \E sub \in Users \union {Nobody} : Set(r, [stage |-> "authenticated", sub |-> sub])
    /\ UNCHANGED vars

Authenticate(r) ==
    /\ call[r].stage = "counted"
    /\ \E sub \in Users \union {Nobody} :
           IF sub = Nobody THEN Answer(r, 401)
           ELSE Set(r, [stage |-> "authenticated", sub |-> sub])
    /\ UNCHANGED vars

\* What a path can name: all that is asked for, the game without the rest of
\* it, or no game.
Paths(op) == {"all"} \union {path \in {"game", "rest"} :
                                 Len(Parameters[op]) > (IF path = "game" THEN 1 ELSE 0)}

\* The body is malformed JSON or a field is missing, or the call goes on.
Decode(r) ==
    /\ call[r].stage = "authenticated"
    /\ \/ Handlers[call[r].op].decodes /\ Answer(r, 400)
       \/ \E path \in Paths(call[r].op) : Set(r, [stage |-> "decoded", path |-> path])
    /\ UNCHANGED vars

-----------------------------------------------------------------------------
(***************************************************************************)
(* What the services and handlers refuse, on the rows as they are.         *)
(***************************************************************************)
StatusOf ==
    [ErrNotOwner             |-> 403, ErrGameNotFound     |-> 404, ErrTeamNotFound  |-> 404,
     ErrPlayerNotFound       |-> 404, ErrInvalidScore     |-> 400, ErrAlreadyOwner  |-> 409,
     ErrRoundOrTableNotFound |-> 404, ErrInvalidGameSetup |-> 409, ErrLastOwner     |-> 409,
     ErrTeamSizeNotAllowed   |-> 400, ErrGameIncomplete   |-> 409, ErrUserNotFound  |-> 422,
     ErrTableAssignment      |-> 500, NotInSetupState     |-> 400, NotEnoughTeams   |-> 409]

Only(condition, error) == {e \in {error} : condition}

\* What the path names besides the game can be there, and is.
IsThere(op) ==
    CASE op \in {"UpdateTeam", "DeleteTeam", "CreatePlayer"}   -> db.teams # {}
      [] op \in {"UpdatePlayer", "DeletePlayer"}              -> db.players # {}
      [] op = "GetTables"                                     -> db.rounds # {}
      [] op \in {"GetTable", "UpdateScores"}                  -> db.seats # {}
      [] OTHER                                                -> TRUE

Found(c) == c.path # "game" /\ IsThere(c.op)

Owned(c) == c.sub \in db.owners

\* Mutant: what a user does not own is not found.
FindOwnGame(c) == Only(c.path = "rest" \/ ~ Owned(c), "ErrGameNotFound")

FindGame(c) ==
    IF c.path = "rest" \/ db.game = NoGame THEN {"ErrGameNotFound"}
    ELSE Only(~ Owned(c), "ErrNotOwner")

\* Any sizes can come with any status.
Rows == {[status |-> status, teamSize |-> s.teamSize, tableSize |-> s.tableSize,
          numberOfRounds |-> s.numberOfRounds] : s \in Settings, status \in Statuses \ {""}}

\* Mutant: the last owner cannot be named.
GamesRulesButOne(c) ==
    CASE c.op = "RemoveOwner" -> Only(~ Found(c), "ErrGameNotFound") [] OTHER -> {}

GamesRules(c) ==
    CASE c.op = "UpdateGame" ->
             Only(\E row \in Rows : row.status = "in_progress" /\ ~ Startable(db, row),
                  "ErrInvalidGameSetup") \union
             Only(\E row \in Rows : row.status = "completed" /\ GameIncompleteScoresMissing(db, row),
                  "ErrGameIncomplete")
      [] c.op = "SetupGame" ->
             IF db.game.status # "setup" THEN {"NotInSetupState"}
             ELSE IF Cardinality(db.teams) < db.game.tableSize THEN {"NotEnoughTeams"}
             ELSE Only(~ CanAssign(db, db.game), "ErrTableAssignment")
      [] c.op = "AddOwner" -> {"ErrUserNotFound", "ErrAlreadyOwner"}
      [] c.op = "RemoveOwner" ->
             IF ~ Found(c) THEN {"ErrGameNotFound"}
             ELSE Only(Cardinality(db.owners) <= 1, "ErrLastOwner")
      [] OTHER -> {}

TeamsRules(c) ==
    CASE c.op = "CreateTeam" -> {"ErrTeamSizeNotAllowed"}
      [] c.op \in {"UpdateTeam", "DeleteTeam"} -> Only(~ Found(c), "ErrTeamNotFound")
      [] OTHER -> {}

TablesRules(c) == Only(c.op \in {"GetTables", "GetTable"} /\ ~ Found(c), "ErrRoundOrTableNotFound")

\* The game in the path of a player is not looked at.
PlayersRefusals(c) ==
    IF Found(c) THEN Only(~ Owned(c), "ErrNotOwner")
    ELSE {IF c.op = "CreatePlayer" THEN "ErrTeamNotFound" ELSE "ErrPlayerNotFound"}

\* The table is looked up together with an owner of its game.
ScoresRefusals(c) ==
    {IF c.path = "all" /\ Found(c) /\ Owned(c) THEN "ErrInvalidScore"
     ELSE "ErrRoundOrTableNotFound"}

Refusals(c) ==
    CASE c.op \in {"CreatePlayer", "UpdatePlayer", "DeletePlayer"} -> PlayersRefusals(c)
      [] c.op = "UpdateScores" -> ScoresRefusals(c)
      [] c.op \in {"GetGames", "CreateGame"} -> {}
      [] OTHER -> IF FindGame(c) # {} THEN FindGame(c)
                  ELSE GamesRules(c) \union TeamsRules(c) \union TablesRules(c)

\* Refusals that leave the caller no argument to be admitted with.
Refuse(r) ==
    /\ call[r].stage = "decoded"
    /\ \E error \in Refusals(call[r]) : Answer(r, StatusOf[error])
    /\ UNCHANGED vars

-----------------------------------------------------------------------------
(***************************************************************************)
(* What they do.                                                           *)
(***************************************************************************)
Success(op) == Handlers[op].success

Read(r) ==
    /\ call[r].stage = "decoded"
    /\ call[r].op \in Reads
    /\ Refusals(call[r]) = {}
    /\ Answer(r, 200)
    /\ UNCHANGED vars

\* The handler of the operation in the path; it loads what the path names.
Admit(r) ==
    LET c == call[r]
    IN  /\ c.stage = "decoded"
        /\ c.path = "all" \/ (c.path = "rest" /\ c.op \in {"CreatePlayer", "UpdatePlayer", "DeletePlayer"})
        /\ \/ BeginUpdateGame(r, c.sub) \/ BeginDeleteGame(r, c.sub) \/ BeginSetupGame(r, c.sub)
           \/ BeginAddOwner(r, c.sub)   \/ BeginRemoveOwner(r, c.sub)
           \/ BeginRoster(r, c.sub)     \/ BeginUpdateScores(r, c.sub)
        /\ request'[r].op = c.op
        /\ Set(r, [stage |-> "admitted"])

\* Nothing is loaded or checked for a new game; its insert can fail.
Create(r) == /\ call[r].stage = "decoded"
             /\ call[r].op = "CreateGame"
             /\ \/ /\ CreateGame(call[r].sub)
                   /\ Set(r, [stage |-> "written", wrote |-> TRUE, shown |-> {}])
                \/ Answer(r, 500) /\ UNCHANGED vars

\* The rounds whose tables a call will answer with.
Shown(r) ==
    IF InFlight(r, "UpdateScores") THEN {RoundOf(Head(request[r].todo))} ELSE {}

Write(r) ==
    /\ call[r].stage = "admitted"
    /\ \/ CommitUpdateGame(r)   \/ CommitDeleteGame(r)   \/ CommitSetupGame(r)
       \/ CommitAddOwner(r)     \/ CommitRemoveOwner(r)
       \/ CommitCreateTeam(r)   \/ CommitUpdateTeam(r)   \/ CommitDeleteTeam(r)
       \/ CommitCreatePlayer(r) \/ CommitUpdatePlayer(r) \/ CommitDeletePlayer(r)
       \/ SaveScore(r)
    /\ Set(r, [stage |-> IF request'[r] = Idle THEN "written" ELSE "admitted",
               wrote |-> TRUE, shown |-> Shown(r)])

WriteFails(r) == /\ call[r].stage = "admitted"
                 /\ Fail(r)
                 /\ Answer(r, 500)

\* What a call has written and answers with is loaded again.
ReadsBack == {"CreateGame", "UpdateGame", "AddOwner", "RemoveOwner", "UpdateScores"}

\* Mutant: it is loaded as the caller may see it.
ReloadOwn(r) ==
    /\ call[r].stage = "written"
    /\ IF call[r].op \in ReadsBack /\ FindGame(call[r]) # {}
       THEN Answer(r, 403) ELSE Answer(r, Success(call[r].op))
    /\ UNCHANGED vars

\* It is gone by now, with its game or with the tables of a round.
CanReload(c) == c.op \in ReadsBack => db.game # NoGame /\ c.shown \subseteq db.rounds

Reload(r) ==
    /\ call[r].stage = "written"
    /\ Answer(r, IF CanReload(call[r]) THEN Success(call[r].op) ELSE 500)
    /\ UNCHANGED vars

\* A select fails, before anything is written or after all of it.  A table
\* that cannot be loaded is not found.
SelectFails(r) ==
    /\ \/ call[r].stage = "decoded" /\ call[r].op # "CreateGame"
       \/ call[r].stage = "written" /\ call[r].op \in ReadsBack
    /\ Answer(r, IF call[r].stage = "decoded" /\ call[r].op = "UpdateScores" THEN 404 ELSE 500)
    /\ UNCHANGED vars

Proceed(r) ==
    \/ BindParameters(r) \/ CountRequest(r) \/ Authenticate(r) \/ Decode(r)
    \/ Refuse(r) \/ Read(r) \/ Admit(r) \/ Create(r) \/ Write(r) \/ WriteFails(r) \/ Reload(r)

ApiNext == \E r \in Requests : Receive(r) \/ Proceed(r) \/ SelectFails(r)

\* The goroutine of a call runs until it has answered.
ApiSpec == ApiInit /\ [][ApiNext]_apiVars /\ \A r \in Requests : WF_apiVars(Proceed(r))
-----------------------------------------------------------------------------
Answered(r, lowest, highest) ==
    call[r].stage = "answered" /\ call[r].status \in lowest .. highest

\* A call has something in flight exactly while it is admitted; only a call with
\* a malformed id escapes the counter of requests.
ApiTypeOK ==
    \A r \in Requests :
        LET c == call[r]
        IN  \/ c = NoCall /\ request[r] = Idle
            \/ /\ c.op \in Operations
               /\ (c.stage = "admitted") = (request[r] # Idle)
               /\ c.stage = "admitted" => request[r].op = c.op /\ request[r].user = c.sub
               /\ c.stage \in {"authenticated", "decoded", "admitted", "written"} => c.sub \in Users
               /\ c.stage = "answered" /\ c.status # 400 => c.counted

(***************************************************************************)
(* A call that is refused (an answer of 400 to 499) has changed nothing,   *)
(* whatever other calls do meanwhile (error_response.go:34-65).            *)
(***************************************************************************)
RefusedWroteNothing == \A r \in Requests : Answered(r, 400, 499) => ~ call[r].wrote

(***************************************************************************)
(* Every call is answered: for all rows and all arguments, the checks of   *)
(* the handlers and services either refuse a call or let it write          *)
(* (games_handler.go, teams_handler.go, players_handler.go,                *)
(* tables_handler.go).                                                     *)
(***************************************************************************)
EveryCallIsAnswered ==
    \A r \in Requests : call[r].stage = "received" ~> call[r].stage = "answered"

(***************************************************************************)
(* "Not owner of the game" (openapi.yaml:403 and others): a user who asks  *)
(* for what is there, and does not own it, is answered 403.  UpdateScores  *)
(* looks up the table together with its owner, and answers 404.            *)
(***************************************************************************)
StrangersAreForbidden ==
    [][\A r \in Requests :
           /\ call[r].stage = "decoded" /\ call'[r].stage = "answered"
           /\ call[r].path = "all" /\ call[r].op \notin {"GetGames", "CreateGame", "UpdateScores"}
           /\ db.game # NoGame /\ IsThere(call[r].op) /\ ~ Owned(call[r])
           => call'[r].status \in {403, 500}]_apiVars
=============================================================================
