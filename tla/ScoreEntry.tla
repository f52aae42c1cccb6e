----------------------------- MODULE ScoreEntry -----------------------------
(***************************************************************************)
(* The scores of one table, entered by PUT .../scores.  A request loads    *)
(* the table with its players and scores, checks the sheet it was sent     *)
(* against them, saves the scores one by one, each in a transaction of its *)
(* own, and reads the table again for its answer.                          *)
(*                                                                         *)
(* The players stay at their table here; Tournament has the deletions and  *)
(* the assignments that take scores away.                                  *)
(***************************************************************************)
EXTENDS Naturals, FiniteSets, Sequences

CONSTANTS
    People,        \* all players
    Seated,        \* the players at this table
    Points,        \* the scores a sheet can give
    NoScore,       \* there is no row for a player
    Sheets,        \* the bodies clients send
    Requests,      \* requests that can be in flight at a time
    MaxFailures    \* bound on the statements that fail

Entry == [player : People, points : Points]

ASSUME TableAssumption == /\ Seated \subseteq People
                          /\ IsFiniteSet(Seated)
                          /\ NoScore \notin Points
                          /\ Sheets \subseteq Seq(Entry)
                          /\ MaxFailures \in Nat

VARIABLES
    score,         \* the stored points of each player
    request,       \* the request in each slot, and its answer
    failures       \* statements that have failed

vars == <<score, request, failures>>

Idle == [pc |-> "idle"]

Init == /\ score = [p \in People |-> NoScore]
        /\ request = [r \in Requests |-> Idle]
        /\ failures = 0

Free(r) == request[r].pc \in {"idle", "answered"}

Answer(r, status, shown) ==
    request' = [request EXCEPT ![r] = [pc |-> "answered", sheet |-> request[r].sheet,
                                       status |-> status, shown |-> shown]]

\* The points of a player are those of its last entry in the sheet ...
LastPoints(sheet, p) ==
    LET last == CHOOSE i \in DOMAIN sheet :
                    /\ sheet[i].player = p
                    /\ \A j \in DOMAIN sheet : sheet[j].player = p => j <= i
    IN  sheet[last].points

\* ... where the loaded score is changed: all entries of the player change the
\* same object.  For a player without a score every entry is a new row.
Todo(sheet, loaded) ==
    [i \in DOMAIN sheet |->
        [player |-> sheet[i].player,
         points |-> IF loaded[sheet[i].player] = NoScore THEN sheet[i].points
                    ELSE LastPoints(sheet, sheet[i].player)]]

\* Mutant: it is not checked who sits at the table.
LoadForAnybody(r) ==
    /\ Free(r)
    /\ \E sheet \in Sheets :
           /\ Len(sheet) = Cardinality(Seated)
           /\ request' = [request EXCEPT ![r] = [pc |-> "save", sheet |-> sheet, loaded |-> score,
                                                 todo |-> Todo(sheet, score)]]
    /\ UNCHANGED <<score, failures>>

\* A sheet of another length, or one that names somebody else, is refused.
Load(r) ==
    /\ Free(r)
    /\ \E sheet \in Sheets :
           /\ Len(sheet) = Cardinality(Seated)
           /\ \A i \in DOMAIN sheet : sheet[i].player \in Seated
           /\ request' = [request EXCEPT ![r] = [pc |-> "save", sheet |-> sheet, loaded |-> score,
                                                 todo |-> Todo(sheet, score)]]
    /\ UNCHANGED <<score, failures>>

Entering(r) == request[r].pc = "save" /\ request[r].todo # <<>>

\* Mutant: every score is inserted.
IsThere(r) == score[Head(request[r].todo).player] # NoScore

\* The next entry of the sheet is an insert, and there is a row by now.
IsTaken(r) == LET p == Head(request[r].todo).player
              IN  score[p] # NoScore /\ request[r].loaded[p] = NoScore

SaveScore(r) ==
    LET entry == Head(request[r].todo)
    IN  /\ Entering(r)
        /\ ~ IsTaken(r)
        /\ score' = [score EXCEPT ![entry.player] = entry.points]
        /\ request' = [request EXCEPT ![r].todo = Tail(@)]
        /\ UNCHANGED failures

\* Mutant: the insert is tried again.
ConflictTriedAgain(r) ==
    /\ Entering(r)
    /\ IsTaken(r)
    /\ UNCHANGED vars

\* The unique index refuses the insert; what was saved before stays.
Conflict(r) ==
    /\ Entering(r)
    /\ IsTaken(r)
    /\ Answer(r, 500, score)
    /\ UNCHANGED <<score, failures>>

\* Mutant: the table is answered as it was loaded.
ReloadNothing(r) ==
    /\ request[r].pc = "save"
    /\ request[r].todo = <<>>
    /\ Answer(r, 200, request[r].loaded)
    /\ UNCHANGED <<score, failures>>

Reload(r) ==
    /\ request[r].pc = "save"
    /\ request[r].todo = <<>>
    /\ Answer(r, 200, score)
    /\ UNCHANGED <<score, failures>>

\* A statement fails: the connection, the database, a cancelled request.
Fail(r) ==
    /\ request[r].pc = "save"
    /\ failures < MaxFailures
    /\ failures' = failures + 1
    /\ Answer(r, 500, score)
    /\ UNCHANGED score

Proceed(r) == SaveScore(r) \/ Conflict(r) \/ Reload(r)

Next == \E r \in Requests : Load(r) \/ Proceed(r) \/ Fail(r)

\* A handler that has begun goes on.
HandlersRun == \A r \in Requests : WF_vars(Proceed(r))

Spec == Init /\ [][Next]_vars /\ HandlersRun

\* Whoever is refused sends a sheet again.
SpecRetried == Spec /\ \A r \in Requests : WF_vars(Load(r))
-----------------------------------------------------------------------------
\* Only who sits at the table has a score.
Scores == {s \in [People -> Points \union {NoScore}] :
              \A p \in People \ Seated : s[p] = NoScore}

InFlight == [pc : {"save"}, sheet : Sheets, loaded : Scores,
             todo : Seq([player : Seated, points : Points])]

Answered == [pc : {"answered"}, sheet : Sheets, status : {200, 500}, shown : Scores]

TypeOK == /\ score \in Scores
          /\ request \in [Requests -> {Idle} \union InFlight \union Answered]
          /\ failures \in 0 .. MaxFailures

(***************************************************************************)
(* "Updated table with new scores" (openapi.yaml:577): the answer shows    *)
(* the points of the sheet, whatever was stored before, half a sheet that  *)
(* failed included, and even if the sheet names a player twice             *)
(* (table/service.go:39-55).  It is said of whoever enters scores alone:   *)
(* one request follows the other, and nobody else has sent any.            *)
(***************************************************************************)
Alone(r) == \A q \in Requests \ {r} : request[q] = Idle

AnswerShowsTheSheet ==
    \A r \in Requests :
        Alone(r) /\ request[r].pc = "answered" /\ request[r].status = 200 =>
            \A i \in DOMAIN request[r].sheet :
                LET p == request[r].sheet[i].player
                IN  request[r].shown[p] = LastPoints(request[r].sheet, p)

(***************************************************************************)
(* Every sheet that is accepted is answered (table/service.go:59-64).      *)
(***************************************************************************)
EverySheetIsAnswered ==
    \A r \in Requests : request[r].pc = "save" ~> request[r].pc = "answered"

(***************************************************************************)
(* Two sheets for an empty table can refuse each other, each with the rows *)
(* it has inserted (table/service.go:49, table/repository.go:41), and a    *)
(* sheet that names a new player twice refuses itself.  If clients come to *)
(* send sheets that name nobody twice, the refusals end: whoever tries     *)
(* again finds the table scored.                                           *)
(***************************************************************************)
NamesNobodyTwice(sheet) ==
    \A i, j \in DOMAIN sheet : sheet[i].player = sheet[j].player => i = j

ClientsLearn ==
    <>[](\A r \in Requests : request[r].pc = "save" => NamesNobodyTwice(request[r].sheet))

TableGetsScored == ClientsLearn => <>(\A p \in Seated : score[p] # NoScore)

(***************************************************************************)
(* The table as others are to see it: until a request has saved its whole  *)
(* sheet or is refused, the table it has loaded.                           *)
(***************************************************************************)
VisibleTable ==
    LET saving == {r \in Requests : Entering(r)}
    IN  [p \in Seated |-> IF saving = {} THEN score[p]
                          ELSE request[CHOOSE r \in saving : TRUE].loaded[p]]

(***************************************************************************)
(* "Transactions used for multistep operations"                            *)
(* (copilot-instructions.md:169): whatever fails, the table holds one      *)
(* sheet, as a whole.  The scores are saved without a transaction around   *)
(* them (table/repository.go:40), so a statement that fails leaves a part. *)
(***************************************************************************)
Promise == INSTANCE TableScores WITH table <- VisibleTable

TableHoldsOneSheet == Promise!Spec
=============================================================================
