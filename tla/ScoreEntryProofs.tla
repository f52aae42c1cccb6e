-------------------------- MODULE ScoreEntryProofs --------------------------
(***************************************************************************)
(* What entering scores one by one does, for any table, any sheets, any    *)
(* number of requests and any failures.                                    *)
(***************************************************************************)
EXTENDS ScoreEntry, SequenceTheorems, WellFoundedInduction, NaturalsInduction, TLAPS

-----------------------------------------------------------------------------
(***************************************************************************)
(* A player named in a sheet has a last entry in it, whose points are what *)
(* LastPoints says.                                                        *)
(***************************************************************************)
LEMMA LastEntry ==
    ASSUME NEW sheet \in Seq(Entry), NEW i \in DOMAIN sheet
    PROVE  \E last \in DOMAIN sheet :
               /\ sheet[last].player = sheet[i].player
               /\ \A j \in DOMAIN sheet : sheet[j].player = sheet[i].player => j <= last
               /\ LastPoints(sheet, sheet[i].player) = sheet[last].points
  <1> DEFINE p == sheet[i].player
             n == Len(sheet)
             Back == {k \in Nat : \E j \in DOMAIN sheet : sheet[j].player = p /\ k = n - j}
             Less == {m \in Nat \X Nat : m[1] < m[2]}
             IsLast(l) == /\ sheet[l].player = p
                          /\ \A j \in DOMAIN sheet : sheet[j].player = p => j <= l
  <1>1. DOMAIN sheet = 1 .. n /\ n \in Nat
    OBVIOUS
  <1>2. n - i \in Back
    BY <1>1
  <1>3. IsWellFoundedOn(Less, Nat)
    BY Zenon, NatLessThanWellFounded DEF OpToRel
  <1>4. Back \subseteq Nat /\ Back # {}
    BY <1>2
  <1> HIDE DEF Less, Back
  <1>5. PICK x \in Back : \A y \in Back : ~ <<y, x>> \in Less
    BY <1>3, <1>4, WFMin
  <1> USE DEF Less, Back
  <1>6. PICK l \in DOMAIN sheet : sheet[l].player = p /\ x = n - l
    BY <1>5
  <1>7. ASSUME NEW j \in DOMAIN sheet, sheet[j].player = p
        PROVE  j <= l
    <2>1. n - j \in Back
      BY <1>1, <1>7
    <2>2. ~ (n - j < x)
      BY <1>4, <1>5, <2>1
    <2> QED
      BY <1>1, <1>6, <2>2
  <1>8. IsLast(l)
    BY <1>6, <1>7
  <1> DEFINE last == CHOOSE k \in DOMAIN sheet : IsLast(k)
  <1>9. last \in DOMAIN sheet /\ IsLast(last)
    BY <1>8
  <1>10. LastPoints(sheet, p) = sheet[last].points
    BY DEF LastPoints
  <1> QED
    BY <1>9, <1>10

Saves == [player : Seated, points : Points]

(***************************************************************************)
(* The points to save are points of the sheet, for players at the table.   *)
(***************************************************************************)
LEMMA TodoType ==
    ASSUME NEW sheet \in Seq(Entry), NEW loaded,
           \A i \in DOMAIN sheet : sheet[i].player \in Seated
    PROVE  /\ Todo(sheet, loaded) \in Seq(Saves)
           /\ Len(Todo(sheet, loaded)) = Len(sheet)
  <1>1. ASSUME NEW i \in DOMAIN sheet
        PROVE  Todo(sheet, loaded)[i] \in Saves
    <2>1. PICK last \in DOMAIN sheet :
              LastPoints(sheet, sheet[i].player) = sheet[last].points
      BY <1>1, LastEntry
    <2>2. sheet[i] \in Entry /\ sheet[last] \in Entry
      BY <1>1
    <2>3. sheet[i].points \in Points /\ sheet[last].points \in Points
      BY <2>2 DEF Entry
    <2> QED
      BY <1>1, <2>1, <2>3 DEF Todo, Saves
  <1>2. Todo(sheet, loaded) \in [1 .. Len(sheet) -> Saves]
    BY <1>1 DEF Todo
  <1> QED
    BY <1>2

(***************************************************************************)
(* What a request does to its record keeps the types of all requests.      *)
(***************************************************************************)
LEMMA RequestTypes ==
    ASSUME TypeOK, NEW r \in Requests, NEW q \in {Idle} \union InFlight \union Answered,
           request' = [request EXCEPT ![r] = q]
    PROVE  request' \in [Requests -> {Idle} \union InFlight \union Answered]
  BY DEF TypeOK

LEMMA SavingRequest ==
    ASSUME TypeOK, NEW r \in Requests, request[r].pc = "save"
    PROVE  /\ request[r] \in InFlight
           /\ request[r].sheet \in Sheets /\ request[r].loaded \in Scores
           /\ request[r].todo \in Seq(Saves)
  <1>1. request[r] \in {Idle} \union InFlight \union Answered
    BY DEF TypeOK
  <1>2. request[r] \notin Answered
    BY DEF Answered
  <1>3. request[r] # Idle
    BY DEF Idle
  <1>4. request[r] \in InFlight
    BY <1>1, <1>2, <1>3
  <1> QED
    BY <1>4 DEF InFlight, Saves

LEMMA AnswerTypes ==
    ASSUME TypeOK, NEW r \in Requests, NEW status \in {200, 500}, NEW shown \in Scores,
           request[r].pc = "save", Answer(r, status, shown)
    PROVE  request' \in [Requests -> {Idle} \union InFlight \union Answered]
  <1> DEFINE q == [pc |-> "answered", sheet |-> request[r].sheet,
                   status |-> status, shown |-> shown]
  <1>1. q \in Answered
    BY SavingRequest DEF Answered
  <1>2. request' = [request EXCEPT ![r] = q]
    BY DEF Answer
  <1> HIDE DEF q
  <1>3. q \in {Idle} \union InFlight \union Answered
    BY <1>1
  <1>4. request \in [Requests -> {Idle} \union InFlight \union Answered]
    BY DEF TypeOK
  <1> QED
    BY <1>2, <1>3, <1>4

(***************************************************************************)
(* Each step keeps the types.                                              *)
(***************************************************************************)
LEMMA LoadTypes == ASSUME TypeOK, NEW r \in Requests, Load(r) PROVE TypeOK'
  <1>1. PICK sheet \in Sheets :
            /\ \A i \in DOMAIN sheet : sheet[i].player \in Seated
            /\ request' = [request EXCEPT ![r] = [pc |-> "save", sheet |-> sheet,
                                                  loaded |-> score, todo |-> Todo(sheet, score)]]
    BY DEF Load
  <1>2. Todo(sheet, score) \in Seq(Saves)
    BY <1>1, TodoType, TableAssumption
  <1>3. [pc |-> "save", sheet |-> sheet, loaded |-> score, todo |-> Todo(sheet, score)] \in InFlight
    BY <1>2 DEF InFlight, Saves, TypeOK
  <1>4. request' \in [Requests -> {Idle} \union InFlight \union Answered]
    BY <1>1, <1>3, RequestTypes
  <1> QED
    BY <1>4 DEF Load, TypeOK

LEMMA SaveScoreTypes == ASSUME TypeOK, NEW r \in Requests, SaveScore(r) PROVE TypeOK'
  <1> DEFINE c == request[r]
             q == [c EXCEPT !.todo = Tail(c.todo)]
  <1>1. c.pc = "save" /\ c.todo # <<>>
    BY DEF SaveScore, Entering
  <1>2. c \in InFlight /\ c.todo \in Seq(Saves)
    BY <1>1, SavingRequest
  <1>3. Head(c.todo) \in Saves /\ Tail(c.todo) \in Seq(Saves)
    BY <1>1, <1>2, HeadTailProperties
  <1>4. q \in InFlight
    BY <1>2, <1>3 DEF InFlight, Saves
  <1>5. request' = [request EXCEPT ![r] = q]
    BY DEF SaveScore
  <1>6. score' = [score EXCEPT ![Head(c.todo).player] = Head(c.todo).points]
    BY DEF SaveScore
  <1>7. Head(c.todo).player \in Seated /\ Head(c.todo).points \in Points
    BY <1>3 DEF Saves
  <1>8. score' \in Scores
    BY <1>6, <1>7, TableAssumption DEF TypeOK, Scores
  <1> HIDE DEF q
  <1>9. request' \in [Requests -> {Idle} \union InFlight \union Answered]
    BY <1>4, <1>5, RequestTypes
  <1> QED
    BY <1>8, <1>9 DEF SaveScore, TypeOK

(***************************************************************************)
(* What is stored and what requests carry is of the right type, for any    *)
(* number of requests that overlap and fail (table/service.go:19-65).      *)
(***************************************************************************)
THEOREM TypeCorrect == Spec => []TypeOK
  <1>1. Init => TypeOK
    BY TableAssumption DEF Init, TypeOK, Scores
  <1>2. TypeOK /\ [Next]_vars => TypeOK'
    <2> SUFFICES ASSUME TypeOK, [Next]_vars PROVE TypeOK'
      OBVIOUS
    <2>1. CASE UNCHANGED vars
      BY <2>1 DEF vars, TypeOK, Scores, InFlight, Answered, Idle
    <2>2. ASSUME NEW r \in Requests, Conflict(r) \/ Reload(r) \/ Fail(r)
          PROVE  TypeOK'
      <3>1. /\ request[r].pc = "save" /\ score' = score
            /\ \E status \in {200, 500} : Answer(r, status, score)
        BY <2>2 DEF Conflict, Reload, Fail, Entering
      <3>2. failures' \in 0 .. MaxFailures
        BY <2>2, TableAssumption DEF Conflict, Reload, Fail, TypeOK
      <3>3. request' \in [Requests -> {Idle} \union InFlight \union Answered]
        BY <2>2, <3>1, AnswerTypes DEF TypeOK
      <3> QED
        BY <3>1, <3>2, <3>3 DEF TypeOK
    <2> QED
      BY <2>1, <2>2, LoadTypes, SaveScoreTypes DEF Next, Proceed
  <1> QED
    BY <1>1, <1>2, PTL DEF Spec
-----------------------------------------------------------------------------
(***************************************************************************)
(* What a request has saved of its sheet, k entries of it: the points of   *)
(* those entries are stored, no insert was made twice, and whoever is not  *)
(* among them has what was loaded.                                         *)
(***************************************************************************)
Saved(sheet, loaded, k, stored) ==
    /\ \A j \in 1 .. k : stored[sheet[j].player] = Todo(sheet, loaded)[j].points
    /\ \A i, j \in 1 .. k :
           sheet[i].player = sheet[j].player /\ loaded[sheet[i].player] = NoScore => i = j
    /\ \A p \in People : (\A j \in 1 .. k : sheet[j].player # p) => stored[p] = loaded[p]

\* The rest of the entries is still to be saved.
Prefix(sheet, loaded, todo, stored) ==
    LET k == Len(sheet) - Len(todo)
    IN  /\ \A i \in DOMAIN sheet : sheet[i].player \in Seated
        /\ Len(todo) <= Len(sheet)
        /\ \A i \in 1 .. Len(todo) : todo[i] = Todo(sheet, loaded)[k + i]
        /\ Saved(sheet, loaded, k, stored)

(***************************************************************************)
(* Saving the next entry adds it to what has been saved.                   *)
(***************************************************************************)
LEMMA SaveNext ==
    ASSUME NEW sheet \in Seq(Entry), NEW loaded \in Scores, NEW stored \in Scores,
           NEW k \in Nat, k + 1 <= Len(sheet),
           \A i \in DOMAIN sheet : sheet[i].player \in Seated,
           Saved(sheet, loaded, k, stored),
           ~ (stored[sheet[k + 1].player] # NoScore /\ loaded[sheet[k + 1].player] = NoScore)
    PROVE  Saved(sheet, loaded, k + 1,
                 [stored EXCEPT ![sheet[k + 1].player] = Todo(sheet, loaded)[k + 1].points])
  <1> DEFINE t == Todo(sheet, loaded)
             e == sheet[k + 1].player
             new == [stored EXCEPT ![e] = t[k + 1].points]
  <1>1. DOMAIN sheet = 1 .. Len(sheet) /\ Len(sheet) \in Nat /\ k + 1 \in DOMAIN sheet
    OBVIOUS
  <1>2. \A j \in DOMAIN sheet : t[j].points \in Points
    <2>1. t \in Seq(Saves) /\ Len(t) = Len(sheet)
      BY TodoType
    <2>2. \A j \in DOMAIN sheet : t[j] \in Saves
      BY <1>1, <2>1
    <2> QED
      BY <2>2 DEF Saves
  <1>3. \A j \in DOMAIN sheet : sheet[j].player \in People
    BY TableAssumption
  <1>4. /\ new[e] = t[k + 1].points
        /\ \A p \in People : p # e => new[p] = stored[p]
    BY <1>1, <1>3 DEF Scores
  <1>5. ASSUME NEW j \in 1 .. k, sheet[j].player = e
        PROVE  loaded[e] # NoScore
    <2>1. stored[e] = t[j].points /\ t[j].points \in Points
      BY <1>1, <1>2, <1>5 DEF Saved
    <2> QED
      BY <2>1, TableAssumption
  <1>6. ASSUME NEW j \in 1 .. k, sheet[j].player = e
        PROVE  t[j].points = t[k + 1].points
    BY <1>1, <1>5, <1>6 DEF Todo
  <1>7. ASSUME NEW j \in 1 .. k + 1
        PROVE  new[sheet[j].player] = t[j].points
    <2>1. CASE sheet[j].player # e
      <3>1. j \in 1 .. k /\ sheet[j].player \in People
        BY <1>1, <1>3, <1>7, <2>1
      <3> QED
        BY <1>4, <2>1, <3>1 DEF Saved
    <2>2. CASE sheet[j].player = e
      BY <1>4, <1>6, <1>7, <2>2
    <2> QED
      BY <2>1, <2>2
  <1>8. ASSUME NEW i \in 1 .. k + 1, NEW j \in 1 .. k + 1,
               sheet[i].player = sheet[j].player, loaded[sheet[i].player] = NoScore
        PROVE  i = j
    <2>1. CASE i \in 1 .. k /\ j \in 1 .. k
      BY <1>8, <2>1 DEF Saved
    <2>2. CASE i = k + 1 \/ j = k + 1
      BY <1>5, <1>8, <2>2
    <2> QED
      BY <1>8, <2>1, <2>2
  <1>9. ASSUME NEW p \in People, \A j \in 1 .. k + 1 : sheet[j].player # p
        PROVE  new[p] = loaded[p]
    <2>1. p # e
      BY <1>9
    <2>2. stored[p] = loaded[p]
      BY <1>9 DEF Saved
    <2> QED
      BY <1>4, <1>9, <2>1, <2>2
  <1> HIDE DEF new, t
  <1>10. Saved(sheet, loaded, k + 1, new)
    BY <1>7, <1>8, <1>9 DEF Saved, t
  <1> QED
    BY <1>10 DEF new, t

(***************************************************************************)
(* A sheet that is saved is shown: every player in it has the points of    *)
(* its last entry.                                                         *)
(***************************************************************************)
LEMMA AllSaved ==
    ASSUME NEW sheet \in Seq(Entry), NEW loaded, NEW stored,
           Saved(sheet, loaded, Len(sheet), stored), NEW i \in DOMAIN sheet
    PROVE  stored[sheet[i].player] = LastPoints(sheet, sheet[i].player)
  <1> DEFINE p == sheet[i].player
  <1>1. PICK last \in DOMAIN sheet :
            sheet[last].player = p /\ LastPoints(sheet, p) = sheet[last].points
    BY LastEntry
  <1>2. DOMAIN sheet = 1 .. Len(sheet)
    OBVIOUS
  <1>3. stored[p] = Todo(sheet, loaded)[i].points
    BY <1>2 DEF Saved
  <1>4. CASE loaded[p] = NoScore
    <2>1. last = i
      BY <1>1, <1>2, <1>4 DEF Saved
    <2> QED
      BY <1>1, <1>3, <1>4, <2>1 DEF Todo
  <1>5. CASE loaded[p] # NoScore
    BY <1>3, <1>5 DEF Todo
  <1> QED
    BY <1>4, <1>5

LEMMA PrefixNext ==
    ASSUME NEW sheet \in Seq(Entry), NEW loaded \in Scores, NEW stored \in Scores,
           NEW todo \in Seq(Saves), todo # <<>>, Prefix(sheet, loaded, todo, stored),
           ~ (stored[Head(todo).player] # NoScore /\ loaded[Head(todo).player] = NoScore)
    PROVE  Prefix(sheet, loaded, Tail(todo),
                  [stored EXCEPT ![Head(todo).player] = Head(todo).points])
  <1> DEFINE t == Todo(sheet, loaded)
             entry == Head(todo)
             new == [stored EXCEPT ![entry.player] = entry.points]
  <1>1. PICK n \in Nat : n = Len(sheet) /\ DOMAIN sheet = 1 .. n
    OBVIOUS
  <1>2. PICK m \in Nat : m = Len(todo) /\ DOMAIN todo = 1 .. m /\ m > 0
    OBVIOUS
  <1>3. m <= n
    BY <1>1, <1>2 DEF Prefix
  <1>4. PICK k \in Nat : k = n - m /\ k + 1 \in 1 .. n
    BY <1>2, <1>3
  <1>5. /\ \A i \in 1 .. n : sheet[i].player \in Seated
        /\ \A i \in 1 .. m : todo[i] = t[k + i]
        /\ Saved(sheet, loaded, k, stored)
    BY <1>1, <1>2, <1>4 DEF Prefix
  <1>6. entry = todo[1] /\ Tail(todo) \in Seq(Saves) /\ Len(Tail(todo)) = m - 1
        /\ \A i \in 1 .. m - 1 : Tail(todo)[i] = todo[i + 1]
    BY <1>2, HeadTailProperties
  <1>7. entry = t[k + 1]
    BY <1>2, <1>5, <1>6
  <1>8. entry.player = sheet[k + 1].player
    BY <1>1, <1>4, <1>7 DEF Todo
  <1> HIDE DEF t, entry
  <1>9. Saved(sheet, loaded, k + 1, new)
    <2>1. new = [stored EXCEPT ![sheet[k + 1].player] = Todo(sheet, loaded)[k + 1].points]
      BY <1>7, <1>8 DEF t
    <2>2. /\ k + 1 <= Len(sheet)
          /\ \A i \in DOMAIN sheet : sheet[i].player \in Seated
      BY <1>1, <1>4, <1>5
    <2>3. ~ (stored[sheet[k + 1].player] # NoScore /\ loaded[sheet[k + 1].player] = NoScore)
      BY <1>8 DEF entry
    <2> HIDE DEF new
    <2> QED
      BY <1>5, <2>1, <2>2, <2>3, SaveNext
  <1>10. n - Len(Tail(todo)) = k + 1 /\ Len(Tail(todo)) <= n
    BY <1>3, <1>4, <1>6
  <1>11. ASSUME NEW i \in 1 .. m - 1
         PROVE  Tail(todo)[i] = t[(k + 1) + i]
    <2>1. i + 1 \in 1 .. m /\ k + (i + 1) = (k + 1) + i
      BY <1>11
    <2> QED
      BY <1>5, <1>6, <1>11, <2>1
  <1> HIDE DEF new
  <1>12. Prefix(sheet, loaded, Tail(todo), new)
    BY <1>1, <1>5, <1>6, <1>9, <1>10, <1>11 DEF Prefix, t
  <1> QED
    BY <1>12 DEF new, entry

-----------------------------------------------------------------------------
(***************************************************************************)
(* Whoever is alone after a step has taken it, and was alone before.       *)
(***************************************************************************)
LEMMA AloneActs ==
    ASSUME TypeOK, NEW q \in Requests, Load(q) \/ Proceed(q) \/ Fail(q),
           NEW r \in Requests, Alone(r)'
    PROVE  r = q /\ Alone(r)
  <1>1. request'[q].pc \in {"save", "answered"}
    <2>1. CASE Load(q)
      BY <2>1 DEF Load, TypeOK
    <2>2. CASE Conflict(q) \/ Reload(q) \/ Fail(q)
      BY <2>2 DEF Conflict, Reload, Fail, Answer, TypeOK
    <2>3. CASE SaveScore(q)
      <3>1. request[q].pc = "save"
        BY <2>3 DEF SaveScore, Entering
      <3>2. request[q] \in InFlight
        BY <3>1, SavingRequest
      <3> QED
        BY <2>3, <3>1, <3>2 DEF SaveScore, TypeOK, InFlight
    <2> QED
      BY <2>1, <2>2, <2>3 DEF Proceed
  <1>2. r = q
    BY <1>1 DEF Alone, Idle
  <1>3. \A p \in Requests \ {q} : request'[p] = request[p]
    BY DEF Load, Proceed, SaveScore, Conflict, Reload, Fail, Answer, TypeOK
  <1> QED
    BY <1>2, <1>3 DEF Alone

(***************************************************************************)
(* Who is alone has saved the entries it is past.                          *)
(***************************************************************************)
Progress ==
    \A r \in Requests : Alone(r) /\ request[r].pc = "save" =>
        Prefix(request[r].sheet, request[r].loaded, request[r].todo, score)

LEMMA LoadProgress ==
    ASSUME TypeOK, NEW r \in Requests, Load(r)
    PROVE  Progress'
  <1>1. PICK sheet \in Sheets :
            /\ \A i \in DOMAIN sheet : sheet[i].player \in Seated
            /\ request' = [request EXCEPT ![r] = [pc |-> "save", sheet |-> sheet,
                                                  loaded |-> score, todo |-> Todo(sheet, score)]]
    BY DEF Load
  <1>2. request'[r] = [pc |-> "save", sheet |-> sheet, loaded |-> score, todo |-> Todo(sheet, score)]
    BY <1>1 DEF TypeOK
  <1>3. sheet \in Seq(Entry)
    BY TableAssumption
  <1>4. Len(Todo(sheet, score)) = Len(sheet) /\ Len(sheet) \in Nat
    BY <1>1, <1>3, TodoType
  <1>5. Prefix(sheet, score, Todo(sheet, score), score)
    BY <1>1, <1>4 DEF Prefix, Saved
  <1>6. score' = score
    BY DEF Load
  <1> QED
    BY <1>2, <1>5, <1>6, AloneActs DEF Progress

LEMMA SaveScoreProgress ==
    ASSUME TypeOK, Progress, NEW r \in Requests, SaveScore(r)
    PROVE  Progress'
  <1>0. SUFFICES ASSUME Alone(r), Alone(r)'
                 PROVE  Prefix(request'[r].sheet, request'[r].loaded, request'[r].todo, score')
    BY AloneActs DEF Progress, Proceed
  <1> DEFINE c == request[r]
  <1>1. c.pc = "save" /\ c.todo # <<>> /\ ~ IsTaken(r)
    BY DEF SaveScore, Entering
  <1>2. c.sheet \in Seq(Entry) /\ c.loaded \in Scores /\ c.todo \in Seq(Saves)
        /\ c \in InFlight /\ score \in Scores
    BY <1>1, SavingRequest, TableAssumption DEF TypeOK
  <1>3. Prefix(c.sheet, c.loaded, c.todo, score)
    BY <1>0, <1>1 DEF Progress
  <1>4. ~ (score[Head(c.todo).player] # NoScore /\ c.loaded[Head(c.todo).player] = NoScore)
    BY <1>1 DEF IsTaken
  <1>5. score' = [score EXCEPT ![Head(c.todo).player] = Head(c.todo).points]
    BY DEF SaveScore
  <1>6. Prefix(c.sheet, c.loaded, Tail(c.todo), score')
    BY <1>1, <1>2, <1>3, <1>4, <1>5, PrefixNext
  <1>7. /\ request'[r].sheet = c.sheet /\ request'[r].loaded = c.loaded
        /\ request'[r].todo = Tail(c.todo)
    BY <1>2 DEF SaveScore, TypeOK, InFlight
  <1> HIDE DEF c
  <1> QED
    BY <1>6, <1>7

LEMMA AlwaysProgress == Spec => []Progress
  <1>1. Init => Progress
    BY DEF Init, Progress, Idle
  <1>2. TypeOK /\ Progress /\ [Next]_vars => Progress'
    <2> SUFFICES ASSUME TypeOK, Progress, [Next]_vars PROVE Progress'
      OBVIOUS
    <2>1. CASE UNCHANGED vars
      BY <2>1 DEF vars, Progress, Alone
    <2>2. ASSUME NEW r \in Requests, Conflict(r) \/ Reload(r) \/ Fail(r)
          PROVE  Progress'
      <3>1. request'[r].pc = "answered"
        BY <2>2 DEF Conflict, Reload, Fail, Answer, TypeOK
      <3> QED
        BY <2>2, <3>1, AloneActs DEF Progress, Proceed
    <2> QED
      BY <2>1, <2>2, LoadProgress, SaveScoreProgress DEF Next, Proceed
  <1> QED
    BY <1>1, <1>2, TypeCorrect, PTL DEF Spec

(***************************************************************************)
(* Whoever enters scores alone is shown the points of its sheet: for any   *)
(* sheets, also those that name a player twice, after any failures, and    *)
(* until somebody else sends a sheet (table/service.go:34-64).             *)
(***************************************************************************)
THEOREM AnswersShowTheSheet == Spec => []AnswerShowsTheSheet
  <1>1. Init => AnswerShowsTheSheet
    BY DEF Init, AnswerShowsTheSheet, Idle
  <1>2. TypeOK /\ Progress /\ AnswerShowsTheSheet /\ [Next]_vars => AnswerShowsTheSheet'
    <2> SUFFICES ASSUME TypeOK, Progress, AnswerShowsTheSheet, [Next]_vars
                 PROVE  AnswerShowsTheSheet'
      OBVIOUS
    <2>1. CASE UNCHANGED vars
      BY <2>1 DEF vars, AnswerShowsTheSheet, Alone
    <2>2. ASSUME NEW r \in Requests, Load(r) \/ SaveScore(r)
          PROVE  AnswerShowsTheSheet'
      <3>1. request'[r].pc = "save"
        <4>1. CASE Load(r)
          BY <2>2, <4>1 DEF Load, TypeOK
        <4>2. CASE SaveScore(r)
          <5>1. request[r].pc = "save"
            BY <4>2 DEF SaveScore, Entering
          <5>2. request[r] \in InFlight
            BY <2>2, <5>1, SavingRequest
          <5> QED
            BY <2>2, <4>2, <5>1, <5>2 DEF SaveScore, TypeOK, InFlight
        <4> QED
          BY <2>2, <4>1, <4>2
      <3> QED
        BY <2>2, <3>1, AloneActs DEF AnswerShowsTheSheet, Proceed
    <2>3. ASSUME NEW r \in Requests, Conflict(r) \/ Fail(r)
          PROVE  AnswerShowsTheSheet'
      <3>1. request'[r].pc = "answered" /\ request'[r].status = 500
        BY <2>3 DEF Conflict, Fail, Answer, TypeOK
      <3> QED
        BY <2>3, <3>1, AloneActs DEF AnswerShowsTheSheet, Proceed
    <2>4. ASSUME NEW r \in Requests, Reload(r)
          PROVE  AnswerShowsTheSheet'
      <3> DEFINE c == request[r]
      <3> SUFFICES ASSUME NEW q \in Requests, Alone(q)', request'[q].pc = "answered",
                          request'[q].status = 200
                   PROVE  \A i \in DOMAIN request'[q].sheet :
                              LET p == request'[q].sheet[i].player
                              IN  request'[q].shown[p] = LastPoints(request'[q].sheet, p)
        BY DEF AnswerShowsTheSheet
      <3>0. q = r /\ Alone(r)
        BY <2>4, AloneActs DEF Proceed
      <3>1. c.pc = "save" /\ c.todo = <<>>
        BY <2>4 DEF Reload
      <3>2. c.sheet \in Seq(Entry) /\ Saved(c.sheet, c.loaded, Len(c.sheet), score)
        <4>1. c.sheet \in Seq(Entry) /\ Len(c.sheet) \in Nat /\ Len(c.todo) = 0
          BY <2>4, <3>1, SavingRequest, TableAssumption
        <4>2. Len(c.sheet) - Len(c.todo) = Len(c.sheet)
          BY <4>1
        <4> QED
          BY <2>4, <3>0, <3>1, <4>1, <4>2 DEF Progress, Prefix
      <3>3. \A i \in DOMAIN c.sheet :
               score[c.sheet[i].player] = LastPoints(c.sheet, c.sheet[i].player)
        BY <3>2, AllSaved
      <3>4. request'[r] = [pc |-> "answered", sheet |-> c.sheet, status |-> 200, shown |-> score]
        BY <2>4 DEF Reload, Answer, TypeOK
      <3> QED
        BY <3>0, <3>3, <3>4
    <2> QED
      BY <2>1, <2>2, <2>3, <2>4 DEF Next, Proceed
  <1> QED
    BY <1>1, <1>2, AlwaysProgress, TypeCorrect, PTL DEF Spec
=============================================================================
