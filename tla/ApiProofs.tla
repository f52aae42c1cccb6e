----------------------------- MODULE ApiProofs -----------------------------
(***************************************************************************)
(* What the pipeline adds to the services: it hands them the caller it has *)
(* authenticated, so every behaviour of the interface is one of Tournament *)
(* and what is proved there holds here; and it answers a call with what    *)
(* the call has done.                                                      *)
(***************************************************************************)
EXTENDS Api, TournamentOverlapProofs

-----------------------------------------------------------------------------
(***************************************************************************)
(* Tables of operations.                                                   *)
(***************************************************************************)
LEMMA Joined ==
    ASSUME NEW f, NEW g
    PROVE  /\ DOMAIN (f ++ g) = DOMAIN f \union DOMAIN g
           /\ \A x \in DOMAIN f : (f ++ g)[x] = f[x]
           /\ \A x \in DOMAIN g \ DOMAIN f : (f ++ g)[x] = g[x]
  BY DEF ++

LEMMA JoinedRange ==
    ASSUME NEW f, NEW g, NEW S,
           \A x \in DOMAIN f : f[x] \in S,
           \A x \in DOMAIN g : g[x] \in S
    PROVE  \A x \in DOMAIN (f ++ g) : (f ++ g)[x] \in S
  <1> SUFFICES ASSUME NEW x \in DOMAIN f \union DOMAIN g
               PROVE  (f ++ g)[x] \in S
    BY Joined
  <1>1. CASE x \in DOMAIN f
    <2>1. (f ++ g)[x] = f[x]
      BY <1>1, Joined
    <2> QED
      BY <1>1, <2>1
  <1>2. CASE x \notin DOMAIN f
    <2>1. x \in DOMAIN g
      BY <1>2
    <2>2. (f ++ g)[x] = g[x]
      BY <1>2, <2>1 DEF ++
    <2> QED
      BY <2>1, <2>2
  <1> QED
    BY <1>1, <1>2

\* How an operation is answered, decoded or not.
Handling == [decodes : BOOLEAN, success : {200, 201, 204}]

LEMMA HandlersType == \A op \in DOMAIN Handlers : Handlers[op] \in Handling
  <1>1. \A op \in DOMAIN ReadingHandlers : ReadingHandlers[op] \in Handling
    BY DEF ReadingHandlers, NoBody, Handling
  <1>2. \A op \in DOMAIN GamesHandlers : GamesHandlers[op] \in Handling
    BY DEF GamesHandlers, Decodes, Handling
  <1>3. \A op \in DOMAIN OwnersHandlers : OwnersHandlers[op] \in Handling
    BY DEF OwnersHandlers, Decodes, NoBody, Handling
  <1>4. \A op \in DOMAIN LifecycleHandlers : LifecycleHandlers[op] \in Handling
    BY DEF LifecycleHandlers, NoBody, Handling
  <1>5. \A op \in DOMAIN TeamsHandlers : TeamsHandlers[op] \in Handling
    BY DEF TeamsHandlers, Decodes, NoBody, Handling
  <1>6. \A op \in DOMAIN PlayersHandlers : PlayersHandlers[op] \in Handling
    BY DEF PlayersHandlers, Decodes, NoBody, Handling
  <1>7. \A op \in DOMAIN TablesHandlers : TablesHandlers[op] \in Handling
    BY DEF TablesHandlers, Decodes, NoBody, Handling
  <1> DEFINE h2 == ReadingHandlers ++ GamesHandlers
             h3 == h2 ++ OwnersHandlers
             h4 == h3 ++ LifecycleHandlers
             h5 == h4 ++ TeamsHandlers
             h6 == h5 ++ PlayersHandlers
  <1>8. \A op \in DOMAIN h2 : h2[op] \in Handling
    BY <1>1, <1>2, JoinedRange
  <1> HIDE DEF h2
  <1>9. \A op \in DOMAIN h3 : h3[op] \in Handling
    BY <1>3, <1>8, JoinedRange
  <1> HIDE DEF h3
  <1>10. \A op \in DOMAIN h4 : h4[op] \in Handling
    BY <1>4, <1>9, JoinedRange
  <1> HIDE DEF h4
  <1>11. \A op \in DOMAIN h5 : h5[op] \in Handling
    BY <1>5, <1>10, JoinedRange
  <1> HIDE DEF h5
  <1>12. \A op \in DOMAIN h6 : h6[op] \in Handling
    BY <1>6, <1>11, JoinedRange
  <1> HIDE DEF h6
  <1>13. \A op \in DOMAIN (h6 ++ TablesHandlers) : (h6 ++ TablesHandlers)[op] \in Handling
    BY <1>7, <1>12, JoinedRange
  <1> QED
    BY <1>13 DEF Handlers, h2, h3, h4, h5, h6

\* No operation is called what an idle slot is.
LEMMA NoneIsNoOperation == "none" \notin Operations
  <1>1. /\ "none" \notin DOMAIN ReadingHandlers /\ "none" \notin DOMAIN GamesHandlers
        /\ "none" \notin DOMAIN OwnersHandlers /\ "none" \notin DOMAIN LifecycleHandlers
        /\ "none" \notin DOMAIN TeamsHandlers /\ "none" \notin DOMAIN PlayersHandlers
        /\ "none" \notin DOMAIN TablesHandlers
    BY DEF ReadingHandlers, GamesHandlers, OwnersHandlers, LifecycleHandlers,
           TeamsHandlers, PlayersHandlers, TablesHandlers
  <1>2. \A f, g : "none" \notin DOMAIN f /\ "none" \notin DOMAIN g => "none" \notin DOMAIN (f ++ g)
    BY Joined
  <1>3. "none" \notin DOMAIN Handlers
    BY <1>1, <1>2 DEF Handlers
  <1> QED
    BY <1>3, OperationsAssumption

-----------------------------------------------------------------------------
(***************************************************************************)
(* The inductive invariant: what is known of a call c, and of what it has  *)
(* in flight, m.  A call has not written before it is admitted.            *)
(***************************************************************************)
Inside == {"authenticated", "decoded", "admitted", "written"}

Fields(c) == {"stage", "op", "path", "wrote", "counted"} \subseteq DOMAIN c

Named(c) == c.stage \in Inside => "sub" \in DOMAIN c /\ c.sub \in Users

InHand(c, m) ==
    /\ c.stage # "admitted" => m = Idle
    /\ c.stage = "admitted" => /\ {"op", "user"} \subseteq DOMAIN m
                               /\ m.op = c.op /\ m.user = c.sub

Noted(c) ==
    /\ c.stage \in {"received", "bound", "counted", "authenticated", "decoded"} => ~ c.wrote
    /\ c.stage \in Inside \union {"counted"} => c.counted

Honest(c) ==
    c.stage = "answered" =>
        /\ c.status \in 400 .. 499 => ~ c.wrote
        /\ c.status # 400 => c.counted

Kept(c, m) ==
    \/ c = NoCall /\ m = Idle
    \/ /\ Fields(c) /\ c.op \in Operations
       /\ c.stage \in Inside \union {"received", "bound", "counted", "answered"}
       /\ Named(c) /\ InHand(c, m) /\ Noted(c) /\ Honest(c)

Calls == /\ DOMAIN call = Requests /\ DOMAIN request = Requests
         /\ \A r \in Requests : Kept(call[r], request[r])

LEMMA CallStep ==
    ASSUME Calls, NEW r \in Requests, NEW c, call' = [call EXCEPT ![r] = c],
           DOMAIN request' = Requests,
           \A q \in Requests \ {r} : request'[q] = request[q],
           Kept(c, request'[r])
    PROVE  Calls'
  <1>1. DOMAIN call' = Requests /\ call'[r] = c
        /\ \A q \in Requests \ {r} : call'[q] = call[q]
    BY DEF Calls
  <1> QED
    BY <1>1 DEF Calls

LEMMA NothingBegun ==
    ASSUME Calls
    PROVE  \A r \in Requests : call[r] = NoCall => request[r] = Idle
  BY DEF Calls, Kept, InHand, NoCall

\* A call that has begun has its fields.
LEMMA Begun ==
    ASSUME Calls, NEW r \in Requests, call[r].stage # "idle"
    PROVE  /\ Fields(call[r]) /\ call[r].op \in Operations
           /\ Named(call[r]) /\ InHand(call[r], request[r]) /\ Noted(call[r])
           /\ Honest(call[r])
  BY DEF Calls, Kept, NoCall

LEMMA Setting ==
    ASSUME Calls, NEW r \in Requests, NEW fields, Set(r, fields),
           DOMAIN request' = Requests,
           \A q \in Requests \ {r} : request'[q] = request[q],
           Kept(fields ++ call[r], request'[r])
    PROVE  Calls'
  BY CallStep DEF Set

(***************************************************************************)
(* A call is answered.                                                     *)
(***************************************************************************)
LEMMA Answering ==
    ASSUME Calls, NEW r \in Requests, NEW status,
           call[r].stage # "idle",
           Answer(r, status),
           DOMAIN request' = Requests, request'[r] = Idle,
           \A q \in Requests \ {r} : request'[q] = request[q],
           status \in 400 .. 499 => ~ call[r].wrote,
           status # 400 => call[r].counted
    PROVE  Calls'
  <1> DEFINE c == call[r]
             n == [stage |-> "answered", op |-> c.op, path |-> c.path,
                   status |-> status, wrote |-> c.wrote, counted |-> c.counted]
  <1>1. call' = [call EXCEPT ![r] = n]
    BY DEF Answer
  <1>2. Kept(n, Idle)
    BY Begun DEF Kept, Fields, Named, InHand, Noted, Honest, Inside
  <1> HIDE DEF n
  <1> QED
    BY <1>1, <1>2, CallStep

(***************************************************************************)
(* The way to the handler.                                                 *)
(***************************************************************************)
LEMMA ReceiveKeeps == ASSUME Calls, NEW r \in Requests, Receive(r) PROVE Calls'
  <1>1. PICK op \in Operations :
            call' = [call EXCEPT ![r] = [stage |-> "received", op |-> op, path |-> "unread",
                                         wrote |-> FALSE, counted |-> FALSE]]
    BY DEF Receive
  <1>2. request' = request /\ request[r] = Idle
    BY DEF Receive, vars, Calls, Kept, InHand, NoCall
  <1> DEFINE c == [stage |-> "received", op |-> op, path |-> "unread",
                   wrote |-> FALSE, counted |-> FALSE]
  <1>3. Kept(c, Idle)
    BY DEF Kept, Fields, Named, InHand, Noted, Honest, Inside
  <1> HIDE DEF c
  <1> QED
    BY <1>1, <1>2, <1>3, CallStep DEF c, Calls

LEMMA BindParametersKeeps ==
    ASSUME Calls, NEW r \in Requests, BindParameters(r)
    PROVE  Calls'
  <1>1. request' = request /\ DOMAIN request = Requests /\ call[r].stage = "received"
    BY DEF BindParameters, vars, Calls
  <1>2. /\ request[r] = Idle /\ ~ call[r].wrote /\ Fields(call[r]) /\ call[r].op \in Operations
    BY <1>1, Begun DEF InHand, Noted
  <1>3. CASE Answer(r, 400)
    BY <1>1, <1>2, <1>3, Answering
  <1>4. CASE Set(r, [stage |-> "bound"])
    <2> DEFINE fields == [stage |-> "bound"]
               n == fields ++ call[r]
    <2>1. /\ n.stage = "bound" /\ n.op = call[r].op /\ n.wrote = call[r].wrote /\ Fields(n)
      BY <1>2 DEF ++, Fields
    <2> HIDE DEF n
    <2>2. Kept(n, Idle)
      BY <1>2, <2>1 DEF Kept, Named, InHand, Noted, Honest, Inside
    <2> QED
      BY <1>1, <1>2, <1>4, <2>2, Setting DEF n
  <1> QED
    BY <1>3, <1>4 DEF BindParameters

LEMMA CountRequestKeeps ==
    ASSUME Calls, NEW r \in Requests, CountRequest(r)
    PROVE  Calls'
  <1>1. /\ request' = request /\ DOMAIN request = Requests /\ call[r].stage = "bound"
        /\ Set(r, [stage |-> "counted", counted |-> TRUE])
    BY DEF CountRequest, vars, Calls
  <1>2. /\ request[r] = Idle /\ ~ call[r].wrote /\ Fields(call[r]) /\ call[r].op \in Operations
    BY <1>1, Begun DEF InHand, Noted
  <1> DEFINE fields == [stage |-> "counted", counted |-> TRUE]
             n == fields ++ call[r]
  <1>3. /\ n.stage = "counted" /\ n.counted /\ n.op = call[r].op /\ n.wrote = call[r].wrote
        /\ Fields(n)
    BY <1>2 DEF ++, Fields
  <1> HIDE DEF n
  <1>4. Kept(n, Idle)
    BY <1>2, <1>3 DEF Kept, Named, InHand, Noted, Honest, Inside
  <1> QED
    BY <1>1, <1>2, <1>4, Setting DEF n

LEMMA AuthenticateKeeps ==
    ASSUME Calls, NEW r \in Requests, Authenticate(r)
    PROVE  Calls'
  <1>1. request' = request /\ DOMAIN request = Requests /\ call[r].stage = "counted"
    BY DEF Authenticate, vars, Calls
  <1>2. /\ request[r] = Idle /\ ~ call[r].wrote /\ Fields(call[r]) /\ call[r].op \in Operations
        /\ call[r].counted
    BY <1>1, Begun DEF InHand, Noted
  <1>3. CASE Answer(r, 401)
    BY <1>1, <1>2, <1>3, Answering
  <1>4. ASSUME NEW sub \in Users, Set(r, [stage |-> "authenticated", sub |-> sub])
        PROVE  Calls'
    <2> DEFINE fields == [stage |-> "authenticated", sub |-> sub]
               n == fields ++ call[r]
    <2>1. /\ n.stage = "authenticated" /\ n.op = call[r].op /\ n.wrote = call[r].wrote
          /\ n.counted = call[r].counted /\ Fields(n) /\ "sub" \in DOMAIN n /\ n.sub = sub
      BY <1>2 DEF ++, Fields
    <2> HIDE DEF n
    <2>2. Kept(n, Idle)
      BY <1>2, <2>1 DEF Kept, Named, InHand, Noted, Honest, Inside
    <2> QED
      BY <1>1, <1>2, <1>4, <2>2, Setting DEF n
  <1> QED
    BY <1>3, <1>4 DEF Authenticate

LEMMA DecodeKeeps == ASSUME Calls, NEW r \in Requests, Decode(r) PROVE Calls'
  <1>1. request' = request /\ DOMAIN request = Requests /\ call[r].stage = "authenticated"
    BY DEF Decode, vars, Calls
  <1>2. /\ request[r] = Idle /\ ~ call[r].wrote /\ Fields(call[r]) /\ call[r].op \in Operations
        /\ call[r].counted /\ "sub" \in DOMAIN call[r] /\ call[r].sub \in Users
    BY <1>1, Begun DEF InHand, Noted, Named, Inside
  <1>3. CASE Answer(r, 400)
    BY <1>1, <1>2, <1>3, Answering
  <1>4. ASSUME NEW path \in Paths(call[r].op), Set(r, [stage |-> "decoded", path |-> path])
        PROVE  Calls'
    <2> DEFINE fields == [stage |-> "decoded", path |-> path]
               n == fields ++ call[r]
    <2>1. /\ n.stage = "decoded" /\ n.op = call[r].op /\ n.wrote = call[r].wrote
          /\ n.path = path /\ n.counted = call[r].counted /\ Fields(n)
          /\ "sub" \in DOMAIN n /\ n.sub = call[r].sub
      BY <1>2 DEF ++, Fields
    <2> HIDE DEF n
    <2>2. Kept(n, Idle)
      BY <1>2, <2>1 DEF Kept, Named, InHand, Noted, Honest, Inside
    <2> QED
      BY <1>1, <1>2, <1>4, <2>2, Setting DEF n
  <1> QED
    BY <1>3, <1>4 DEF Decode

-----------------------------------------------------------------------------
(***************************************************************************)
(* Refusals and reads.                                                     *)
(***************************************************************************)
\* Before it is admitted a call has nothing in flight and has not written.
LEMMA Decoded ==
    ASSUME Calls, NEW r \in Requests, call[r].stage = "decoded"
    PROVE  /\ request[r] = Idle /\ ~ call[r].wrote /\ call[r].counted
           /\ Fields(call[r]) /\ call[r].op \in Operations
           /\ "sub" \in DOMAIN call[r] /\ call[r].sub \in Users
  BY Begun DEF InHand, Noted, Named, Inside

LEMMA RefuseKeeps == ASSUME Calls, NEW r \in Requests, Refuse(r) PROVE Calls'
  <1>1. PICK error \in Refusals(call[r]) : Answer(r, StatusOf[error])
    BY DEF Refuse
  <1>2. request' = request /\ DOMAIN request = Requests /\ call[r].stage = "decoded"
    BY DEF Refuse, vars, Calls
  <1> HIDE DEF StatusOf
  <1> QED
    BY <1>1, <1>2, Decoded, Answering

LEMMA ReadKeeps == ASSUME Calls, NEW r \in Requests, Read(r) PROVE Calls'
  <1>1. /\ Answer(r, 200) /\ request' = request /\ DOMAIN request = Requests
        /\ call[r].stage = "decoded" /\ call[r].op \in Reads /\ Refusals(call[r]) = {}
    BY DEF Read, vars, Calls
  <1> QED
    BY <1>1, Decoded, Answering

LEMMA SelectFailsKeeps == ASSUME Calls, NEW r \in Requests, SelectFails(r) PROVE Calls'
  <1>1. /\ request' = request /\ DOMAIN request = Requests
        /\ call[r].stage \in {"decoded", "written"}
    BY DEF SelectFails, vars, Calls
  <1>2. request[r] = Idle /\ call[r].counted
    BY <1>1, Begun DEF InHand, Noted, Inside
  <1>3. CASE Answer(r, 500)
    BY <1>1, <1>2, <1>3, Answering
  <1>4. CASE call[r].stage = "decoded" /\ Answer(r, 404)
    BY <1>1, <1>2, <1>4, Decoded, Answering
  <1> QED
    BY <1>3, <1>4 DEF SelectFails

-----------------------------------------------------------------------------
(***************************************************************************)
(* Admission, writes and the answer after them.                            *)
(***************************************************************************)
LEMMA BeginLoads ==
    ASSUME NEW r \in Requests, NEW u,
           \/ BeginUpdateGame(r, u) \/ BeginDeleteGame(r, u) \/ BeginSetupGame(r, u)
           \/ BeginAddOwner(r, u)   \/ BeginRemoveOwner(r, u)
           \/ BeginRoster(r, u)     \/ BeginUpdateScores(r, u)
    PROVE  \E m : Begin(r, m) /\ {"op", "user"} \subseteq DOMAIN m /\ m.user = u
  <1> DEFINE Loads(m) == Begin(r, m) /\ {"op", "user"} \subseteq DOMAIN m /\ m.user = u
  <1>1. CASE BeginUpdateGame(r, u)
    <2>1. PICK row : Begin(r, [op |-> "UpdateGame", user |-> u, snap |-> db, row |-> row])
      BY <1>1 DEF BeginUpdateGame
    <2>2. Loads([op |-> "UpdateGame", user |-> u, snap |-> db, row |-> row])
      BY <2>1
    <2> QED
      BY <2>2
  <1>2. CASE BeginDeleteGame(r, u) \/ BeginSetupGame(r, u)
    BY <1>2 DEF BeginDeleteGame, BeginSetupGame
  <1>3. CASE BeginAddOwner(r, u)
    <2>1. PICK v : Begin(r, [op |-> "AddOwner", user |-> u, target |-> v])
      BY <1>3 DEF BeginAddOwner
    <2>2. Loads([op |-> "AddOwner", user |-> u, target |-> v])
      BY <2>1
    <2> QED
      BY <2>2
  <1>4. CASE BeginRemoveOwner(r, u)
    <2>1. PICK v : Begin(r, [op |-> "RemoveOwner", user |-> u, target |-> v])
      BY <1>4 DEF BeginRemoveOwner
    <2>2. Loads([op |-> "RemoveOwner", user |-> u, target |-> v])
      BY <2>1
    <2> QED
      BY <2>2
  <1>5. CASE BeginCreateTeam(r, u)
    <2>1. PICK n : Begin(r, [op |-> "CreateTeam", user |-> u, players |-> n])
      BY <1>5 DEF BeginCreateTeam
    <2>2. Loads([op |-> "CreateTeam", user |-> u, players |-> n])
      BY <2>1
    <2> QED
      BY <2>2
  <1>6. CASE BeginUpdateTeam(r, u)
    <2>1. PICK t, ps, ss : Begin(r, [op |-> "UpdateTeam", user |-> u, team |-> t,
                                     players |-> ps, scores |-> ss])
      BY <1>6 DEF BeginUpdateTeam
    <2>2. Loads([op |-> "UpdateTeam", user |-> u, team |-> t, players |-> ps, scores |-> ss])
      BY <2>1
    <2> QED
      BY <2>2
  <1>7. CASE BeginDeleteTeam(r, u) \/ BeginCreatePlayer(r, u)
    <2>1. PICK op, t : Begin(r, [op |-> op, user |-> u, team |-> t])
      BY <1>7 DEF BeginDeleteTeam, BeginCreatePlayer
    <2>2. Loads([op |-> op, user |-> u, team |-> t])
      BY <2>1
    <2> QED
      BY <2>2
  <1>8. CASE BeginUpdatePlayer(r, u)
    <2>1. PICK p : Begin(r, [op |-> "UpdatePlayer", user |-> u, player |-> p,
                             game |-> db.game, owners |-> db.owners])
      BY <1>8 DEF BeginUpdatePlayer
    <2>2. Loads([op |-> "UpdatePlayer", user |-> u, player |-> p,
                 game |-> db.game, owners |-> db.owners])
      BY <2>1
    <2> QED
      BY <2>2
  <1>9. CASE BeginDeletePlayer(r, u)
    <2>1. PICK p : Begin(r, [op |-> "DeletePlayer", user |-> u, player |-> p])
      BY <1>9 DEF BeginDeletePlayer
    <2>2. Loads([op |-> "DeletePlayer", user |-> u, player |-> p])
      BY <2>1
    <2> QED
      BY <2>2
  <1>10. CASE BeginUpdateScores(r, u)
    BY <1>10 DEF BeginUpdateScores
  <1> QED
    BY <1>1, <1>2, <1>3, <1>4, <1>5, <1>6, <1>7, <1>8, <1>9, <1>10 DEF BeginRoster

LEMMA AdmitKeeps == ASSUME Calls, NEW r \in Requests, Admit(r) PROVE Calls'
  <1> DEFINE n == [stage |-> "admitted"] ++ call[r]
  <1>1. /\ call[r].stage = "decoded" /\ request'[r].op = call[r].op
        /\ Set(r, [stage |-> "admitted"])
    BY DEF Admit
  <1>2. PICK m : Begin(r, m) /\ {"op", "user"} \subseteq DOMAIN m /\ m.user = call[r].sub
    BY BeginLoads DEF Admit
  <1>3. /\ request' = [request EXCEPT ![r] = m] /\ DOMAIN request = Requests
    BY <1>2 DEF Begin, Calls
  <1>4. /\ request'[r] = m /\ DOMAIN request' = Requests
        /\ \A q \in Requests \ {r} : request'[q] = request[q]
    BY <1>3
  <1>5. /\ ~ call[r].wrote /\ call[r].counted /\ Fields(call[r]) /\ call[r].op \in Operations
        /\ "sub" \in DOMAIN call[r] /\ call[r].sub \in Users
    BY <1>1, Decoded
  <1>6. /\ n.stage = "admitted" /\ n.op = call[r].op /\ n.path = call[r].path
        /\ n.counted = call[r].counted /\ n.wrote = call[r].wrote /\ Fields(n)
        /\ "sub" \in DOMAIN n /\ n.sub = call[r].sub
    BY <1>5 DEF ++, Fields
  <1> HIDE DEF n
  <1>7. Kept(n, m)
    BY <1>1, <1>2, <1>4, <1>5, <1>6
       DEF Kept, Named, InHand, Noted, Honest, Inside
  <1> QED
    BY <1>1, <1>4, <1>7, Setting DEF n

LEMMA CreateKeeps == ASSUME Calls, NEW r \in Requests, Create(r) PROVE Calls'
  <1>1. /\ request' = request /\ DOMAIN request = Requests
        /\ call[r].stage = "decoded" /\ call[r].op = "CreateGame"
    BY DEF Create, CreateGame, vars, Calls
  <1>2. /\ request[r] = Idle /\ call[r].counted /\ Fields(call[r]) /\ call[r].op \in Operations
        /\ "sub" \in DOMAIN call[r] /\ call[r].sub \in Users
    BY <1>1, Decoded
  <1>3. CASE Answer(r, 500)
    BY <1>1, <1>2, <1>3, Answering
  <1>4. CASE Set(r, [stage |-> "written", wrote |-> TRUE, shown |-> {}])
    <2> DEFINE fields == [stage |-> "written", wrote |-> TRUE, shown |-> {}]
               n == fields ++ call[r]
    <2>1. /\ n.stage = "written" /\ n.op = call[r].op /\ n.path = call[r].path
          /\ n.counted = call[r].counted /\ n.wrote /\ Fields(n)
          /\ "sub" \in DOMAIN n /\ n.sub = call[r].sub
      BY <1>2 DEF ++, Fields
    <2> HIDE DEF n
    <2>2. Kept(n, Idle)
      BY <1>2, <2>1 DEF Kept, Named, InHand, Noted, Honest, Inside
    <2> QED
      BY <1>1, <1>2, <1>4, <2>2, Setting DEF n
  <1> QED
    BY <1>3, <1>4 DEF Create

LEMMA SaveScoreLeaves ==
    ASSUME Calls, NEW r \in Requests, {"op", "user"} \subseteq DOMAIN request[r], SaveScore(r)
    PROVE  /\ DOMAIN request' = Requests
           /\ \A q \in Requests \ {r} : request'[q] = request[q]
           /\ \/ request'[r] = Idle
              \/ /\ {"op", "user"} \subseteq DOMAIN request'[r]
                 /\ request'[r].op = request[r].op /\ request'[r].user = request[r].user
  <1> DEFINE me == request[r]
             m == IF Len(me.todo) = 1 THEN Idle ELSE [me EXCEPT !.todo = Tail(@)]
  <1>1. request' = [request EXCEPT ![r] = m] /\ DOMAIN request = Requests
    BY DEF SaveScore, Calls
  <1>2. \/ m = Idle
        \/ {"op", "user"} \subseteq DOMAIN m /\ m.op = me.op /\ m.user = me.user
    OBVIOUS
  <1> HIDE DEF m
  <1> QED
    BY <1>1, <1>2

LEMMA WriteLeaves ==
    ASSUME Calls, NEW r \in Requests, {"op", "user"} \subseteq DOMAIN request[r], Write(r)
    PROVE  /\ DOMAIN request' = Requests
           /\ \A q \in Requests \ {r} : request'[q] = request[q]
           /\ \/ request'[r] = Idle
              \/ /\ {"op", "user"} \subseteq DOMAIN request'[r]
                 /\ request'[r].op = request[r].op /\ request'[r].user = request[r].user
  <1>1. ASSUME NEW d, Commit(r, d)
        PROVE  /\ DOMAIN request' = Requests /\ request'[r] = Idle
               /\ \A q \in Requests \ {r} : request'[q] = request[q]
    BY <1>1 DEF Commit, Calls
  <1>2. CASE \/ CommitUpdateGame(r)   \/ CommitDeleteGame(r)
             \/ CommitAddOwner(r)     \/ CommitRemoveOwner(r)
    BY <1>1, <1>2 DEF CommitUpdateGame, CommitDeleteGame, CommitAddOwner, CommitRemoveOwner
  <1>3. CASE CommitSetupGame(r)
    BY <1>1, <1>3 DEF CommitSetupGame
  <1>4. CASE CommitCreateTeam(r) \/ CommitUpdateTeam(r) \/ CommitDeleteTeam(r)
    BY <1>1, <1>4 DEF CommitCreateTeam, CommitUpdateTeam, CommitDeleteTeam
  <1>5. CASE CommitCreatePlayer(r) \/ CommitUpdatePlayer(r) \/ CommitDeletePlayer(r)
    BY <1>1, <1>5 DEF CommitCreatePlayer, CommitUpdatePlayer, CommitDeletePlayer
  <1>6. CASE SaveScore(r)
    BY <1>6, SaveScoreLeaves
  <1> QED
    BY <1>2, <1>3, <1>4, <1>5, <1>6 DEF Write

\* What a call that is admitted has in flight is what it was sent for.
LEMMA Admitted ==
    ASSUME Calls, NEW r \in Requests, call[r].stage = "admitted"
    PROVE  /\ Fields(call[r]) /\ call[r].op \in Operations /\ call[r].counted
           /\ "sub" \in DOMAIN call[r] /\ call[r].sub \in Users
           /\ {"op", "user"} \subseteq DOMAIN request[r]
           /\ request[r].op = call[r].op /\ request[r].user = call[r].sub
  BY Begun DEF InHand, Noted, Named, Inside

LEMMA WriteKeeps == ASSUME Calls, NEW r \in Requests, Write(r) PROVE Calls'
  <1> DEFINE stage == IF request'[r] = Idle THEN "written" ELSE "admitted"
             fields == [stage |-> stage, wrote |-> TRUE, shown |-> Shown(r)]
             n == fields ++ call[r]
  <1>1. call[r].stage = "admitted" /\ Set(r, fields)
    BY DEF Write
  <1>2. /\ Fields(call[r]) /\ call[r].op \in Operations /\ call[r].counted
        /\ "sub" \in DOMAIN call[r] /\ call[r].sub \in Users
        /\ {"op", "user"} \subseteq DOMAIN request[r]
        /\ request[r].op = call[r].op /\ request[r].user = call[r].sub
    BY <1>1, Admitted
  <1>3. /\ DOMAIN request' = Requests
        /\ \A q \in Requests \ {r} : request'[q] = request[q]
        /\ \/ request'[r] = Idle
           \/ /\ {"op", "user"} \subseteq DOMAIN request'[r]
              /\ request'[r].op = request[r].op /\ request'[r].user = request[r].user
    BY <1>2, WriteLeaves
  <1>4. /\ n.stage = stage /\ n.op = call[r].op /\ n.path = call[r].path
        /\ n.counted = call[r].counted /\ n.wrote /\ Fields(n)
        /\ "sub" \in DOMAIN n /\ n.sub = call[r].sub
    BY <1>2 DEF ++, Fields
  <1> HIDE DEF n
  <1>5. Kept(n, request'[r])
    BY <1>2, <1>3, <1>4 DEF Kept, Named, InHand, Noted, Honest, Inside
  <1> QED
    BY <1>1, <1>3, <1>5, Setting DEF n

LEMMA WriteFailsKeeps == ASSUME Calls, NEW r \in Requests, WriteFails(r) PROVE Calls'
  <1>1. /\ call[r].stage = "admitted" /\ Answer(r, 500)
        /\ request' = [request EXCEPT ![r] = Idle] /\ DOMAIN request = Requests
    BY DEF WriteFails, Fail, Calls
  <1>2. /\ DOMAIN request' = Requests /\ request'[r] = Idle
        /\ \A q \in Requests \ {r} : request'[q] = request[q]
    BY <1>1
  <1> QED
    BY <1>1, <1>2, Admitted, Answering

LEMMA ReloadKeeps == ASSUME Calls, NEW r \in Requests, Reload(r) PROVE Calls'
  <1>1. /\ request' = request /\ DOMAIN request = Requests /\ call[r].stage = "written"
    BY DEF Reload, vars, Calls
  <1>2. /\ request[r] = Idle /\ call[r].counted /\ call[r].op \in Operations
    BY <1>1, Begun DEF InHand, Noted, Inside
  <1> DEFINE status == IF CanReload(call[r]) THEN Success(call[r].op) ELSE 500
  <1>3. status \in {200, 201, 204, 500}
    BY <1>2, OperationsAssumption, HandlersType DEF Success, Handling
  <1>4. Answer(r, status)
    BY DEF Reload
  <1> HIDE DEF status
  <1> QED
    BY <1>1, <1>2, <1>3, <1>4, Answering

(***************************************************************************)
(* The invariant holds.                                                    *)
(***************************************************************************)
LEMMA InitKeeps == ApiInit => Calls
  BY DEF ApiInit, Init, Calls, Kept

LEMMA StepKeeps == ASSUME Calls, [ApiNext]_apiVars PROVE Calls'
  <1>1. CASE UNCHANGED apiVars
    BY <1>1 DEF apiVars, Calls
  <1>2. CASE ApiNext
    <2>1. PICK r \in Requests : Receive(r) \/ Proceed(r) \/ SelectFails(r)
      BY <1>2 DEF ApiNext
    <2>2. CASE Proceed(r)
      BY <2>2, BindParametersKeeps, CountRequestKeeps, AuthenticateKeeps, DecodeKeeps,
         RefuseKeeps, ReadKeeps, AdmitKeeps, CreateKeeps, WriteKeeps, WriteFailsKeeps,
         ReloadKeeps DEF Proceed
    <2> QED
      BY <2>1, <2>2, ReceiveKeeps, SelectFailsKeeps
  <1> QED
    BY <1>1, <1>2

LEMMA AlwaysKept == ApiSpec => []Calls
  <1>1. Calls /\ [ApiNext]_apiVars => Calls'
    BY StepKeeps
  <1> QED
    BY <1>1, InitKeeps, PTL DEF ApiSpec

-----------------------------------------------------------------------------
(***************************************************************************)
(* Every behaviour of the interface is one of the services: whoever gets   *)
(* to a service is the user that was authenticated, and nothing else       *)
(* writes.  All that is proved of Tournament holds behind the interface.   *)
(***************************************************************************)
LEMMA StepOfServices == ASSUME Calls, [ApiNext]_apiVars PROVE [Next]_vars
  <1>1. CASE UNCHANGED apiVars
    BY <1>1 DEF apiVars, vars
  <1>2. ASSUME NEW r \in Requests, Admit(r) PROVE Next
    <2>1. call[r].sub \in Users
      BY <1>2, Decoded DEF Admit
    <2> QED
      BY <1>2, <2>1 DEF Admit, Next
  <1>3. ASSUME NEW r \in Requests, Create(r) PROVE [Next]_vars
    <2>1. call[r].sub \in Users
      BY <1>3, Decoded DEF Create
    <2> QED
      BY <1>3, <2>1 DEF Create, Next
  <1>4. ASSUME NEW r \in Requests, Write(r) \/ WriteFails(r) PROVE Next
    BY <1>4 DEF Write, WriteFails, Next
  <1>5. ASSUME NEW r \in Requests,
               \/ Receive(r) \/ BindParameters(r) \/ CountRequest(r) \/ Authenticate(r)
               \/ Decode(r) \/ Refuse(r) \/ Read(r) \/ Reload(r) \/ SelectFails(r)
        PROVE  UNCHANGED vars
    BY <1>5 DEF Receive, BindParameters, CountRequest, Authenticate, Decode, Refuse, Read,
                Reload, SelectFails
  <1> QED
    BY <1>1, <1>2, <1>3, <1>4, <1>5 DEF ApiNext, Proceed

THEOREM ServicesBehind == ApiSpec => Spec
  <1>1. Calls /\ [ApiNext]_apiVars => [Next]_vars
    BY StepOfServices
  <1>2. ApiInit => Init
    BY DEF ApiInit
  <1> QED
    BY <1>1, <1>2, AlwaysKept, PTL DEF ApiSpec, Spec

(***************************************************************************)
(* What the services keep under any overlap of requests, any overlap of    *)
(* calls keeps: the stored rounds are those of one assignment, they seat   *)
(* the same players, once each and apart from their teammates, and a setup *)
(* that was admitted has a seating (games_handler.go:289 to :315).         *)
(***************************************************************************)
THEOREM InterfaceKeepsAssignments ==
    ApiSpec => /\ []SetupIsWhole
               /\ []RoundsSeatTheSamePlayers
               /\ []OnePlacePerRound
               /\ []NoTeammatesAtTable
               /\ []SetupCanSucceed
  BY ServicesBehind, StoredSetupIsWhole, StoredRoundsSeatTheSame, StoredSeatsAreUnique,
     StoredTeamsAreSplit, SetupsHaveSeating

(***************************************************************************)
(* A call has something in flight exactly while it is admitted, as the     *)
(* user it was authenticated as, and is counted unless an id is malformed. *)
(***************************************************************************)
THEOREM CallsAreTyped == ApiSpec => []ApiTypeOK
  <1>1. Calls => ApiTypeOK
    <2> SUFFICES ASSUME Calls, NEW r \in Requests
                 PROVE  LET c == call[r]
                        IN  \/ c = NoCall /\ request[r] = Idle
                            \/ /\ c.op \in Operations
                               /\ (c.stage = "admitted") = (request[r] # Idle)
                               /\ c.stage = "admitted" =>
                                      request[r].op = c.op /\ request[r].user = c.sub
                               /\ c.stage \in Inside => c.sub \in Users
                               /\ c.stage = "answered" /\ c.status # 400 => c.counted
      BY DEF ApiTypeOK, Inside
    <2>1. CASE call[r] = NoCall
      BY <2>1, NothingBegun
    <2>2. CASE call[r] # NoCall
      <3>1. Kept(call[r], request[r])
        BY DEF Calls
      <3>2. call[r].stage = "admitted" => request[r] # Idle
        BY <2>2, <3>1, NoneIsNoOperation DEF Kept, InHand, Idle
      <3>3. call[r].stage # "admitted" => request[r] = Idle
        BY <2>2, <3>1 DEF Kept, InHand
      <3> QED
        BY <2>2, <3>1, <3>2, <3>3 DEF Kept, InHand, Named, Honest
    <2> QED
      BY <2>1, <2>2
  <1> QED
    BY <1>1, AlwaysKept, PTL

(***************************************************************************)
(* A call that is refused has changed nothing, at any point of any         *)
(* interleaving (error_response.go:34-65).                                 *)
(***************************************************************************)
THEOREM RefusalsAreHarmless == ApiSpec => []RefusedWroteNothing
  <1>1. Calls => RefusedWroteNothing
    BY Begun DEF RefusedWroteNothing, Answered, Honest
  <1> QED
    BY <1>1, AlwaysKept, PTL

(***************************************************************************)
(* A user who asks for what is there, and does not own it, is answered     *)
(* 403, unless the database fails (openapi.yaml:403).                      *)
(***************************************************************************)
LEMMA StrangersRefused ==
    ASSUME NEW c, NEW error \in Refusals(c), c.path = "all",
           c.op \notin {"GetGames", "CreateGame", "UpdateScores"},
           db.game # NoGame, IsThere(c.op), ~ Owned(c)
    PROVE  StatusOf[error] = 403
  <1>1. Found(c)
    BY DEF Found
  <1>2. PlayersRefusals(c) = {"ErrNotOwner"}
    BY <1>1 DEF PlayersRefusals, Only
  <1>3. FindGame(c) = {"ErrNotOwner"}
    BY DEF FindGame, Only
  <1>4. error = "ErrNotOwner"
    BY <1>2, <1>3 DEF Refusals
  <1> QED
    BY <1>4 DEF StatusOf

LEMMA StrangerStep ==
    ASSUME Calls, [ApiNext]_apiVars, NEW r \in Requests,
           call[r].stage = "decoded", call'[r].stage = "answered", call[r].path = "all",
           call[r].op \notin {"GetGames", "CreateGame", "UpdateScores"},
           db.game # NoGame, IsThere(call[r].op), ~ Owned(call[r])
    PROVE  call'[r].status \in {403, 500}
  <1>1. \A status : Answer(r, status) => call'[r].status = status
    BY DEF Answer, Calls
  <1>2. Refusals(call[r]) # {}
    <2>1. Found(call[r])
      BY DEF Found
    <2>2. PlayersRefusals(call[r]) # {} /\ FindGame(call[r]) # {}
      BY <2>1 DEF PlayersRefusals, FindGame, Only
    <2> QED
      BY <2>2 DEF Refusals
  <1>3. CASE Refuse(r)
    BY <1>1, <1>3, StrangersRefused DEF Refuse
  <1>4. CASE SelectFails(r)
    BY <1>1, <1>4 DEF SelectFails
  <1>5. \A q \in Requests : /\ ~ BindParameters(r) /\ ~ CountRequest(r) /\ ~ Authenticate(r)
                            /\ ~ Write(r) /\ ~ WriteFails(r) /\ ~ Reload(r) /\ ~ Receive(r)
    BY DEF BindParameters, CountRequest, Authenticate, Write, WriteFails, Reload, Receive
  <1>6. ~ Create(r) /\ ~ Read(r)
    BY <1>2 DEF Create, Read
  <1>7. ~ Admit(r) /\ ~ Decode(r)
    <2>1. ~ Set(r, [stage |-> "admitted"])
      <3> SUFFICES ASSUME Set(r, [stage |-> "admitted"])
                   PROVE  call'[r].stage = "admitted"
        OBVIOUS
      <3>1. call'[r] = [stage |-> "admitted"] ++ call[r]
        BY DEF Set, Calls
      <3> QED
        BY <3>1 DEF ++
    <2> QED
      BY <2>1 DEF Admit, Decode
  <1>8. ASSUME NEW q \in Requests \ {r}, Receive(q) \/ Proceed(q) \/ SelectFails(q)
        PROVE  call'[r] = call[r]
    <2>1. \A fields : Set(q, fields) => call'[r] = call[r]
      BY DEF Set, Calls
    <2>2. \A status : Answer(q, status) => call'[r] = call[r]
      BY DEF Answer, Calls
    <2>3. CASE Receive(q)
      BY <2>3 DEF Receive, Calls
    <2>4. CASE BindParameters(q) \/ CountRequest(q) \/ Authenticate(q) \/ Decode(q)
      BY <2>1, <2>2, <2>4 DEF BindParameters, CountRequest, Authenticate, Decode
    <2>5. CASE Refuse(q) \/ SelectFails(q) \/ Read(q)
      BY <2>2, <2>5 DEF Refuse, SelectFails, Read
    <2>6. CASE Admit(q) \/ Create(q)
      BY <2>1, <2>2, <2>6 DEF Admit, Create
    <2>7. CASE Write(q) \/ WriteFails(q) \/ Reload(q)
      BY <2>1, <2>2, <2>7 DEF Write, WriteFails, Reload
    <2> QED
      BY <1>8, <2>3, <2>4, <2>5, <2>6, <2>7 DEF Proceed
  <1>9. CASE UNCHANGED apiVars
    BY <1>9 DEF apiVars
  <1> QED
    BY <1>3, <1>4, <1>5, <1>6, <1>7, <1>8, <1>9 DEF ApiNext, Proceed

THEOREM StrangersAlwaysForbidden == ApiSpec => StrangersAreForbidden
  <1>1. Calls /\ [ApiNext]_apiVars =>
            [\A r \in Requests :
                /\ call[r].stage = "decoded" /\ call'[r].stage = "answered"
                /\ call[r].path = "all" /\ call[r].op \notin {"GetGames", "CreateGame", "UpdateScores"}
                /\ db.game # NoGame /\ IsThere(call[r].op) /\ ~ Owned(call[r])
                => call'[r].status \in {403, 500}]_apiVars
    BY StrangerStep
  <1> QED
    BY <1>1, AlwaysKept, PTL DEF ApiSpec, StrangersAreForbidden
=============================================================================
