----------------------- MODULE TableAssignmentProofs -----------------------
(***************************************************************************)
(* Safety of the deal, for every setup and every sequence of shuffles.     *)
(***************************************************************************)
EXTENDS TableAssignment, SeatingProofs, WellFoundedInduction

\* The call is one of the setups, and its variables have their types.
Typed == setup \in Setups /\ TypeOK

(***************************************************************************)
(* Go's truncated division of two numbers of int, the divisor not zero, is *)
(* a number of int.                                                        *)
(***************************************************************************)
LEMMA GoQuoInt ==
    ASSUME NEW a \in Int, NEW b \in Int \ {0}
    PROVE  GoQuo(a, b) \in Int
  <1>1. Abs(a) \in Nat /\ Abs(b) \in Nat /\ Abs(b) > 0
    BY DEF Abs
  <1>2. Abs(a) \div Abs(b) \in Int
    BY <1>1
  <1> QED
    BY <1>2 DEF GoQuo

(***************************************************************************)
(* The number of tables of a call is a number.                             *)
(***************************************************************************)
LEMMA NumberOfTablesInt ==
    ASSUME setup \in Setups
    PROVE  NumberOfTables \in Int
  <1>1. setup.teamSize \in Int /\ setup.tableSize \in Int \ {0}
    BY SetupsAssumption
  <1>2. Cardinality(DOMAIN setup.teams) \in Nat
    BY SetupsAssumption, FS_CardinalityType
  <1>3. setup.teamSize * Cardinality(DOMAIN setup.teams) \in Int
    BY <1>1, <1>2
  <1> QED
    BY <1>1, <1>3, GoQuoInt DEF NumberOfTables

(***************************************************************************)
(* The turn goes to the next table, or after the last to the next seat.    *)
(***************************************************************************)
LEMMA TurnMoves ==
    ASSUME Typed, pc = "deal", NextTurn
    PROVE  \/ /\ table + 1 < NumberOfTables
              /\ table' = table + 1 /\ seat' = seat /\ pc' = "deal"
           \/ /\ table + 1 = NumberOfTables
              /\ table' = 0 /\ seat' = seat + 1
              /\ pc' = IF seat + 1 = setup.tableSize THEN "decide" ELSE "deal"
  <1> DEFINE T == NumberOfTables
  <1>1. T \in Int /\ setup.tableSize \in Int
    BY NumberOfTablesInt, SetupsAssumption DEF Typed
  <1>2. table \in 0 .. T - 1 /\ seat \in 0 .. setup.tableSize - 1
    BY DEF Typed, TypeOK
  <1> HIDE DEF T
  <1>3. CASE table + 1 < T
    <2>1. (table + 1) % T = table + 1
      BY <1>1, <1>2, <1>3
    <2> QED
      BY <1>1, <1>2, <1>3, <2>1 DEF NextTurn, T
  <1>4. CASE table + 1 = T
    <2>1. (table + 1) % T = 0
      BY <1>1, <1>2, <1>4
    <2> QED
      BY <1>1, <1>2, <1>4, <2>1 DEF NextTurn, T
  <1> QED
    BY <1>1, <1>2, <1>3, <1>4

(***************************************************************************)
(* Where the turn goes after a seat: it stays within the tables, and the   *)
(* deal ends after the last seat of the last table.                        *)
(***************************************************************************)
LEMMA NextTurnType ==
    ASSUME Typed, pc = "deal", NextTurn
    PROVE  /\ pc' \in {"deal", "decide"}
           /\ pc' = "deal" => /\ table' \in 0 .. NumberOfTables - 1
                              /\ seat' \in 0 .. setup.tableSize - 1
  <1>1. NumberOfTables \in Int /\ setup.tableSize \in Int
    BY NumberOfTablesInt, SetupsAssumption DEF Typed, TypeOK
  <1>2. table \in 0 .. NumberOfTables - 1 /\ seat \in 0 .. setup.tableSize - 1
    BY DEF Typed, TypeOK
  <1>3. table' \in 0 .. NumberOfTables - 1
    BY <1>1, <1>2 DEF NextTurn
  <1>4. seat' \in 0 .. setup.tableSize
    BY <1>1, <1>2 DEF NextTurn
  <1> QED
    BY <1>1, <1>3, <1>4 DEF NextTurn

(***************************************************************************)
(* The first candidate is a candidate.                                     *)
(***************************************************************************)
LEMMA FirstCandidate ==
    ASSUME Typed, Candidates # {}
    PROVE  Min(Candidates) \in Candidates
  <1>1. Candidates \subseteq Players
    BY DEF Typed, TypeOK, Candidates
  <1>2. Players = 1 .. Cardinality(Players) /\ IsFiniteSet(Players)
    BY SetupsAssumption DEF Typed, TypeOK, Players
  <1>3. Cardinality(Players) \in Nat
    BY <1>2, FS_CardinalityType
  <1>4. Candidates \subseteq Nat
    BY <1>1, <1>2, <1>3
  <1> DEFINE Less == {m \in Nat \X Nat : m[1] < m[2]}
  <1>5. IsWellFoundedOn(Less, Nat)
    BY Zenon, NatLessThanWellFounded DEF OpToRel
  <1> HIDE DEF Less
  <1>6. PICK x \in Candidates : \A y \in Candidates : ~ <<y, x>> \in Less
    BY <1>4, <1>5, WFMin
  <1>7. \A y \in Candidates : x =< y
    <2> TAKE y \in Candidates
    <2>1. x \in Nat /\ y \in Nat
      BY <1>4
    <2>2. <<y, x>> \in Nat \X Nat /\ ~ <<y, x>> \in Less
      BY <1>6, <2>1
    <2>3. ~ y < x
      BY <2>2 DEF Less
    <2> QED
      BY <2>1, <2>3
  <1> QED
    BY <1>7 DEF Min

-----------------------------------------------------------------------------
(***************************************************************************)
(* Every step of the call keeps the setup and the types.                   *)
(***************************************************************************)
THEOREM TypedCalls == Spec => []Typed
  <1>1. Init => Typed
    BY DEF Init, Typed, TypeOK
  <1>2. Typed /\ [Next]_vars => Typed'
    <2> SUFFICES ASSUME Typed, [Next]_vars
                 PROVE  Typed'
      OBVIOUS
    <2>1. CASE Refuse
      BY <2>1 DEF Refuse, Typed, TypeOK, Players, NumberOfTables
    <2>2. CASE Shuffle
      <3>1. NumberOfTables \in Int /\ setup.tableSize \in Int
        BY NumberOfTablesInt, SetupsAssumption DEF Typed, TypeOK
      <3>2. NumberOfTables' = NumberOfTables /\ Players' = Players /\ setup' = setup
        BY <2>2 DEF Shuffle, NumberOfTables, Players
      <3>3. tables' = [k \in 0 .. NumberOfTables - 1 |-> {}]
        BY <2>2 DEF Shuffle
      <3>4. \A k \in DOMAIN tables' : tables'[k] \subseteq Players
        BY <3>3
      <3>5. pc' \in {"deal", "decide"} /\ order' \in Shuffles(Players) /\ left' = Players
        BY <2>2 DEF Shuffle
      <3>6. pc' = "deal" => /\ table' \in 0 .. NumberOfTables - 1
                            /\ seat' \in 0 .. setup.tableSize - 1
        BY <2>2, <3>1 DEF Shuffle
      <3>7. IsOrder(order', Players)
        BY <3>5, ShufflesAssumption DEF Typed, Players
      <3> QED
        BY <3>2, <3>3, <3>4, <3>5, <3>6, <3>7 DEF Typed, TypeOK
    <2>3. CASE Deal
      <3> DEFINE i == Min(Candidates)
      <3>1. pc = "deal" /\ NextTurn /\ setup' = setup /\ order' = order
        BY <2>3 DEF Deal
      <3>2. NumberOfTables' = NumberOfTables /\ Players' = Players
        BY <3>1 DEF NumberOfTables, Players
      <3>3. i \in left
        BY <2>3, FirstCandidate DEF Deal, Candidates
      <3>4. order[i] \in Players
        BY <3>1, <3>3, ShufflesAssumption DEF IsOrder, Typed, TypeOK, Players
      <3>5. tables' = [tables EXCEPT ![table] = @ \union {order[i]}] /\ left' = left \ {i}
        BY <2>3 DEF Deal
      <3>6. DOMAIN tables' = DOMAIN tables
        BY <3>5
      <3>7. \A k \in DOMAIN tables' : tables'[k] \subseteq Players
        BY <3>4, <3>5, <3>6 DEF Typed, TypeOK
      <3> QED
        BY <3>1, <3>2, <3>5, <3>6, <3>7, NextTurnType DEF Typed, TypeOK
    <2>4. CASE Skip
      <3>1. pc = "deal" /\ NextTurn
        BY <2>4 DEF Skip
      <3>2. NumberOfTables' = NumberOfTables /\ Players' = Players
        BY <2>4 DEF Skip, NumberOfTables, Players
      <3> QED
        BY <2>4, <3>1, <3>2, NextTurnType DEF Skip, Typed, TypeOK
    <2>5. CASE Return
      BY <2>5 DEF Return, Typed, TypeOK, Players, NumberOfTables
    <2>6. CASE UNCHANGED vars
      BY <2>6 DEF vars, Typed, TypeOK, Players, NumberOfTables
    <2> QED
      BY <2>1, <2>2, <2>3, <2>4, <2>5, <2>6 DEF Next
  <1> QED
    BY <1>1, <1>2, PTL DEF Spec

(***************************************************************************)
(* The types hold at every moment of a call.                               *)
(***************************************************************************)
THEOREM TypeCorrect == Spec => []TypeOK
  <1>1. Typed => TypeOK
    BY DEF Typed
  <1> QED
    BY <1>1, TypedCalls, PTL

(***************************************************************************)
(* Two players of a team never sit at the same table, at no moment of the  *)
(* deal, in any setup, under any shuffles (assign_tables.go:43-112).       *)
(***************************************************************************)
THEOREM TeamsAreSplit == Spec => []NoTeammatesAtTable
  <1>1. Init => NoTeammatesAtTable
    BY DEF Init, NoTeammatesAtTable
  <1>2. Typed /\ NoTeammatesAtTable /\ [Next]_vars => NoTeammatesAtTable'
    <2> SUFFICES ASSUME Typed, NoTeammatesAtTable, [Next]_vars
                 PROVE  NoTeammatesAtTable'
      OBVIOUS
    <2>1. ASSUME UNCHANGED <<setup, tables>>
          PROVE  NoTeammatesAtTable'
      BY <2>1 DEF NoTeammatesAtTable, Teammates
    <2>2. CASE Shuffle
      <3>1. \A k \in DOMAIN tables' : tables'[k] = {}
        BY <2>2 DEF Shuffle
      <3> QED
        BY <3>1 DEF NoTeammatesAtTable
    <2>3. CASE Deal
      <3> DEFINE i == Min(Candidates)
      <3>1. i \in Candidates
        BY <2>3, FirstCandidate DEF Deal
      <3>2. \A q \in tables[table] : ~ Teammates(order[i], q)
        BY <3>1 DEF Candidates
      <3>3. setup' = setup
        BY <2>3 DEF Deal
      <3>4. \A p, q : Teammates(p, q)' <=> Teammates(p, q)
        BY <3>3 DEF Teammates
      <3>5. \A p, q : Teammates(p, q) => Teammates(q, p)
        BY DEF Teammates
      <3>6. tables' = [tables EXCEPT ![table] = @ \union {order[i]}]
        BY <2>3 DEF Deal
      <3> SUFFICES ASSUME NEW k \in DOMAIN tables,
                          NEW p \in tables'[k], NEW q \in tables'[k], p # q
                   PROVE  ~ Teammates(p, q)
        BY <3>4, <3>6 DEF NoTeammatesAtTable
      <3>7. CASE k # table
        BY <3>6, <3>7 DEF NoTeammatesAtTable
      <3>8. CASE k = table
        <4>1. p \in tables[table] \union {order[i]} /\ q \in tables[table] \union {order[i]}
          BY <3>6, <3>8
        <4> QED
          BY <3>2, <3>5, <3>8, <4>1 DEF NoTeammatesAtTable
      <3> QED
        BY <3>7, <3>8
    <2> QED
      BY <2>1, <2>2, <2>3 DEF Next, Refuse, Skip, Return, vars
  <1> QED
    BY <1>1, <1>2, TypedCalls, PTL DEF Spec

(***************************************************************************)
(* No player is lost by the deal or dealt out twice: at every moment each  *)
(* waits or sits at exactly one table.  When the call returns, nobody      *)
(* waits.                                                                  *)
(***************************************************************************)
THEOREM NobodyLost == Spec => []EveryPlayerSomewhere
  <1> DEFINE Waiting(p) == /\ \E i \in left : order[i] = p
                           /\ \A k \in DOMAIN tables : p \notin tables[k]
             Seated(p)  == /\ \A i \in left : order[i] # p
                           /\ \E k \in DOMAIN tables :
                                  /\ p \in tables[k]
                                  /\ \A j \in DOMAIN tables : p \in tables[j] => j = k
  <1>1. Init => EveryPlayerSomewhere
    BY DEF Init, EveryPlayerSomewhere
  <1>2. Typed /\ EveryPlayerSomewhere /\ [Next]_vars => EveryPlayerSomewhere'
    <2> SUFFICES ASSUME Typed, EveryPlayerSomewhere, [Next]_vars
                 PROVE  EveryPlayerSomewhere'
      OBVIOUS
    <2>1. CASE Refuse
      BY <2>1 DEF Refuse, EveryPlayerSomewhere
    <2>2. CASE Shuffle
      <3>1. order' \in Shuffles(Players) /\ left' = Players /\ Players' = Players
        BY <2>2 DEF Shuffle, Players
      <3>2. \A p \in Players : \E i \in left' : order'[i] = p
        BY <3>1, ShufflesAssumption DEF IsOrder, Typed, TypeOK, Players
      <3>3. \A k \in DOMAIN tables' : tables'[k] = {}
        BY <2>2 DEF Shuffle
      <3> QED
        BY <3>1, <3>2, <3>3 DEF EveryPlayerSomewhere
    <2>3. CASE Deal
      <3> DEFINE i == Min(Candidates)
      <3>1. i \in left
        BY <2>3, FirstCandidate DEF Deal, Candidates
      <3>2. /\ pc = "deal"
            /\ setup' = setup
            /\ order' = order
            /\ tables' = [tables EXCEPT ![table] = @ \union {order[i]}]
            /\ left' = left \ {i}
        BY <2>3 DEF Deal
      <3>3. table \in DOMAIN tables /\ DOMAIN tables' = DOMAIN tables
        BY <3>2 DEF Typed, TypeOK
      <3>4. \A j \in left : j # i => order[j] # order[i]
        BY <3>1, <3>2, ShufflesAssumption DEF IsOrder, Typed, TypeOK, Players
      <3> SUFFICES ASSUME NEW p \in Players
                   PROVE  Waiting(p)' \/ Seated(p)'
        BY <3>2 DEF EveryPlayerSomewhere, Players
      <3>5. Waiting(p) \/ Seated(p)
        BY <3>2 DEF EveryPlayerSomewhere
      <3>6. CASE p = order[i]
        <4>1. Waiting(p)
          BY <3>1, <3>5, <3>6
        <4>2. p \in tables'[table]
          BY <3>2, <3>3, <3>6
        <4>3. \A j \in DOMAIN tables : p \in tables'[j] => j = table
          BY <3>2, <3>3, <4>1
        <4>4. \A j \in left' : order'[j] # p
          BY <3>2, <3>4, <3>6
        <4> QED
          BY <3>3, <4>2, <4>3, <4>4
      <3>7. CASE p # order[i]
        <4>1. \A j \in DOMAIN tables : p \in tables'[j] <=> p \in tables[j]
          BY <3>2, <3>3, <3>7
        <4>2. (\E j \in left' : order'[j] = p) <=> (\E j \in left : order[j] = p)
          BY <3>2, <3>7
        <4> QED
          BY <3>3, <3>5, <4>1, <4>2
      <3> QED
        BY <3>6, <3>7
    <2>4. CASE Skip
      <3>1. UNCHANGED <<setup, order, left, tables>> /\ pc = "deal"
        BY <2>4 DEF Skip
      <3> QED
        BY <3>1 DEF EveryPlayerSomewhere, Players
    <2>5. CASE Return
      BY <2>5 DEF Return, EveryPlayerSomewhere, Players
    <2>6. CASE UNCHANGED vars
      BY <2>6 DEF vars, EveryPlayerSomewhere, Players
    <2> QED
      BY <2>1, <2>2, <2>3, <2>4, <2>5, <2>6 DEF Next
  <1> QED
    BY <1>1, <1>2, TypedCalls, PTL DEF Spec

-----------------------------------------------------------------------------
(***************************************************************************)
(* Only what the check accepts is dealt, only what it refuses is answered  *)
(* by an error, and nobody is left when the call returns.                  *)
(***************************************************************************)
Accepted == IsAssignable(setup.teams, setup.teamSize, setup.tableSize)

Checked == /\ pc \in {"deal", "decide", "done"} => Accepted
           /\ pc = "error" => ~ Accepted
           /\ pc = "done" => left = {}

LEMMA AlwaysChecked == Spec => []Checked
  <1>1. Init => Checked
    BY DEF Init, Checked
  <1>2. Typed /\ Checked /\ [Next]_vars => Checked'
    <2> SUFFICES ASSUME Typed, Checked, [Next]_vars PROVE Checked'
      OBVIOUS
    <2>1. setup' = setup
      BY DEF Next, Refuse, Shuffle, Deal, Skip, Return, vars
    <2>2. Accepted' <=> Accepted
      BY <2>1 DEF Accepted
    <2>3. CASE Deal \/ Skip
      BY <2>2, <2>3, NextTurnType DEF Checked, Deal, Skip
    <2> QED
      BY <2>2, <2>3 DEF Next, Checked, Refuse, Shuffle, Return, Accepted, vars
  <1> QED
    BY <1>1, <1>2, TypedCalls, PTL DEF Spec

(***************************************************************************)
(* A setup that is accepted, if it has a player: the tables have a seat    *)
(* for each.                                                               *)
(***************************************************************************)
LEMMA TablesSuffice ==
    ASSUME Typed, Accepted, Players # {}
    PROVE  /\ Playable
           /\ IsFiniteSet(Players)
           /\ NumberOfTables \in Nat
           /\ Cardinality(Players) = NumberOfTables * setup.tableSize
           /\ Cardinality(Players) \div setup.tableSize = NumberOfTables
  <1> DEFINE teams == setup.teams
             ts == setup.teamSize
             tb == setup.tableSize
             n == Cardinality(DOMAIN teams)
             G == [t \in DOMAIN teams |-> teams[t]]
  <1>1. /\ ts \in Int \ {0} /\ tb \in Int \ {0} /\ IsFiniteSet(DOMAIN teams)
        /\ \A t, u \in DOMAIN teams : t # u => teams[t] \cap teams[u] = {}
        /\ IsFiniteSet(Players)
    BY SetupsAssumption DEF Typed, Players
  <1>2. \A t \in DOMAIN teams : teams[t] \subseteq Players
    BY DEF Players, PlayersOf
  <1>3. \A t \in DOMAIN teams : IsFiniteSet(teams[t])
    BY <1>1, <1>2, FS_Subset
  <1>4. DOMAIN teams # {}
    BY DEF Players, PlayersOf
  <1>5. IsAssignable(teams, ts, tb)
    BY DEF Accepted
  <1> HIDE DEF teams, ts, tb
  <1>6. /\ ts > 0 /\ tb > 0
        /\ \E m \in 1 .. ts : ts = m * tb
        /\ \A t \in DOMAIN teams : Cardinality(teams[t]) = ts
        /\ n >= tb
    BY <1>1, <1>3, <1>4, <1>5, AssignableMeans
  <1>7. n \in Nat
    BY <1>1, FS_CardinalityType
  <1>8. Cardinality(Players) = n * ts
    <2>1. G \in [DOMAIN teams -> SUBSET Players]
      BY <1>2
    <2>2. \A t \in DOMAIN teams : IsFiniteSet(G[t]) /\ Cardinality(G[t]) <= ts
      BY <1>1, <1>3, <1>6
    <2>3. \A p \in Players : \E t \in DOMAIN teams : p \in G[t]
      BY DEF Players, PlayersOf, teams
    <2>4. \A p \in Players : \A t, u \in DOMAIN teams : p \in G[t] /\ p \in G[u] => t = u
      BY <1>1
    <2>5. \A t \in DOMAIN teams : Cardinality(G[t]) = ts
      BY <1>6
    <2>6. ts \in Nat
      BY <1>1, <1>6
    <2> HIDE DEF G
    <2> QED
      BY <1>1, <2>1, <2>2, <2>3, <2>4, <2>5, <2>6, Groups
  <1> HIDE DEF n
  <1>9. PICK m \in 1 .. ts : ts = m * tb
    BY <1>6
  <1> DEFINE k == n * m
             prod == ts * n
  <1>10. k \in Nat /\ prod \in Nat /\ prod = k * tb /\ prod = n * ts
    <2>1. ts \in Nat /\ m \in Nat /\ tb \in Nat
      BY <1>1, <1>6
    <2> QED
      BY <1>7, <1>9, <2>1
  <1> HIDE DEF k, prod
  <1>11. prod \div tb = k
    BY <1>1, <1>6, <1>10
  <1>12. NumberOfTables = GoQuo(prod, tb)
    BY DEF NumberOfTables, prod, ts, tb, n, teams
  <1>13. NumberOfTables = k
    <2>1. tb \in Nat \ {0}
      BY <1>1, <1>6
    <2> QED
      BY <1>10, <1>11, <1>12, <2>1, GoQuoNat
  <1>14. Playable
    BY <1>6 DEF Playable, teams, ts, tb, n
  <1>15. Cardinality(Players) = NumberOfTables * tb /\ Cardinality(Players) \div tb = NumberOfTables
    BY <1>8, <1>10, <1>11, <1>13
  <1> QED
    BY <1>1, <1>10, <1>13, <1>14, <1>15 DEF tb

(***************************************************************************)
(* A setup that is accepted without a player has no team either: an empty  *)
(* team would have to have a size, and zero is none.                       *)
(***************************************************************************)
LEMMA NobodyAccepted ==
    ASSUME Typed, Accepted, Players = {}
    PROVE  DOMAIN setup.teams = {} /\ setup.teamSize < 0
  <1> DEFINE teams == setup.teams
             ts == setup.teamSize
             tb == setup.tableSize
  <1>1. ts \in Int \ {0} /\ tb \in Int \ {0}
    BY SetupsAssumption DEF Typed
  <1>2. /\ \A t \in DOMAIN teams : Cardinality(teams[t]) = ts
        /\ GoQuo(Cardinality(DOMAIN teams) * ts, tb) >= ts
    BY DEF Accepted, IsAssignable
  <1>3. DOMAIN teams = {}
    <2> SUFFICES ASSUME NEW t \in DOMAIN teams PROVE FALSE
      OBVIOUS
    <2>1. teams[t] = {}
      BY DEF Players, PlayersOf
    <2> QED
      BY <1>1, <1>2, <2>1, FS_EmptySet
  <1> HIDE DEF teams, ts, tb
  <1>4. Cardinality(DOMAIN teams) * ts = 0
    BY <1>1, <1>3, FS_EmptySet
  <1>5. 0 >= ts
    BY <1>1, <1>2, <1>4, GoQuoZero
  <1> QED
    BY <1>1, <1>3, <1>5 DEF teams, ts

(***************************************************************************)
(* A setup with teams is dealt only if it is playable, whatever sizes a    *)
(* client has chosen, negative ones included; without teams, only if the   *)
(* team size is negative (assign_tables.go:15-34).                         *)
(***************************************************************************)
THEOREM PlayableAlone == Spec => []OnlyPlayableAccepted
  <1>1. Typed /\ Checked => OnlyPlayableAccepted
    BY TablesSuffice, NobodyAccepted DEF Checked, OnlyPlayableAccepted
  <1> QED
    BY <1>1, TypedCalls, AlwaysChecked, PTL

(***************************************************************************)
(* Nothing playable is refused, if the ids of teams are those the database *)
(* gives out (assign_tables.go:21).                                        *)
(***************************************************************************)
PositiveIds == \A s \in Setups : \A t \in DOMAIN s.teams : t >= 1

THEOREM UnplayableAlone == ASSUME PositiveIds PROVE Spec => []OnlyUnplayableRefused
  <1>1. Typed /\ Checked => OnlyUnplayableRefused
    <2> SUFFICES ASSUME Typed, Checked, pc = "error", Playable PROVE FALSE
      BY DEF OnlyUnplayableRefused
    <2>1. PICK m \in 1 .. setup.teamSize : setup.teamSize = m * setup.tableSize
      BY DEF Playable
    <2>2. /\ setup.teamSize \in Nat \ {0} /\ setup.tableSize \in Nat \ {0} /\ m \in Nat
          /\ IsFiniteSet(DOMAIN setup.teams) /\ \A t \in DOMAIN setup.teams : t >= 1
      BY SetupsAssumption, PositiveIds DEF Playable, Typed, PositiveIds
    <2>3. IsAssignable(setup.teams, setup.teamSize, setup.tableSize)
      BY <2>1, <2>2, PlayableIsAssignable DEF Playable
    <2> QED
      BY <2>3 DEF Checked, Accepted
  <1> QED
    BY <1>1, TypedCalls, AlwaysChecked, PTL

-----------------------------------------------------------------------------
(***************************************************************************)
(* A table has no more players than the turns it has had.                  *)
(***************************************************************************)
Turns(k) == IF pc = "deal" THEN IF k < table THEN seat + 1 ELSE seat
                           ELSE setup.tableSize

Filled == pc \in {"deal", "decide", "done"} /\ Players # {} =>
              \A k \in DOMAIN tables : /\ IsFiniteSet(tables[k])
                                       /\ Cardinality(tables[k]) <= Turns(k)

(***************************************************************************)
(* The table whose turn it was has had a turn more, the others as many.    *)
(***************************************************************************)
LEMMA TurnsStep ==
    ASSUME Typed, pc = "deal", NextTurn, setup' = setup, NEW k \in DOMAIN tables
    PROVE  /\ Turns(k) \in Nat /\ Turns(k)' \in Nat
           /\ Turns(k)' = IF k = table THEN Turns(k) + 1 ELSE Turns(k)
  <1> DEFINE T == NumberOfTables
  <1>1. T \in Int /\ setup.tableSize \in Int
    BY NumberOfTablesInt, SetupsAssumption DEF Typed
  <1>2. /\ table \in 0 .. T - 1 /\ seat \in 0 .. setup.tableSize - 1
        /\ k \in 0 .. T - 1
    BY DEF Typed, TypeOK
  <1> QED
    BY <1>1, <1>2, TurnMoves DEF Turns

LEMMA AlwaysFilled == Spec => []Filled
  <1>1. Init => Filled
    BY DEF Init, Filled
  <1>2. Typed /\ Checked /\ Filled /\ [Next]_vars => Filled'
    <2> SUFFICES ASSUME Typed, Checked, Filled, [Next]_vars, Players' # {},
                        pc' \in {"deal", "decide", "done"}, NEW k \in DOMAIN tables'
                 PROVE  IsFiniteSet(tables'[k]) /\ Cardinality(tables'[k]) <= Turns(k)'
      BY DEF Filled
    <2>1. setup' = setup /\ Players' = Players
      BY DEF Next, Refuse, Shuffle, Deal, Skip, Return, vars, Players
    <2>2. CASE Shuffle
      <3>1. tables'[k] = {} /\ seat' = 0 /\ pc' \in {"deal", "decide"}
        BY <2>2 DEF Shuffle
      <3>2. Accepted
        BY <2>2 DEF Shuffle, Accepted, Checked
      <3>3. setup.tableSize \in Int /\ setup.tableSize > 0
        BY <2>1, <3>2, TablesSuffice, SetupsAssumption DEF Playable, Typed
      <3>4. Turns(k)' \in Nat
        BY <2>1, <3>1, <3>3 DEF Turns
      <3> QED
        BY <3>1, <3>4, FS_EmptySet
    <2>3. CASE Deal
      <3> DEFINE p == order[Min(Candidates)]
      <3>1. /\ pc = "deal" /\ NextTurn
            /\ tables' = [tables EXCEPT ![table] = @ \union {p}]
        BY <2>3 DEF Deal
      <3> HIDE DEF p
      <3>2. k \in DOMAIN tables /\ IsFiniteSet(tables[k]) /\ Cardinality(tables[k]) <= Turns(k)
        BY <2>1, <3>1 DEF Filled
      <3>3. /\ Turns(k) \in Nat /\ Turns(k)' \in Nat
            /\ Turns(k)' = IF k = table THEN Turns(k) + 1 ELSE Turns(k)
        BY <2>1, <3>1, <3>2, TurnsStep
      <3>4. tables'[k] = IF k = table THEN tables[k] \union {p} ELSE tables[k]
        BY <3>1, <3>2
      <3>5. Cardinality(tables[k]) \in Nat
        BY <3>2, FS_CardinalityType
      <3>6. /\ IsFiniteSet(tables[k] \union {p})
            /\ Cardinality(tables[k] \union {p}) <= Cardinality(tables[k]) + 1
        BY <3>2, <3>5, FS_AddElement
      <3>7. Cardinality(tables[k] \union {p}) \in Nat
        BY <3>6, FS_CardinalityType
      <3> HIDE DEF Turns
      <3> QED
        BY <3>2, <3>3, <3>4, <3>5, <3>6, <3>7
    <2>4. CASE Skip
      <3>1. pc = "deal" /\ NextTurn /\ tables' = tables
        BY <2>4 DEF Skip
      <3>2. k \in DOMAIN tables /\ IsFiniteSet(tables[k]) /\ Cardinality(tables[k]) <= Turns(k)
        BY <2>1, <3>1 DEF Filled
      <3>3. /\ Turns(k) \in Nat /\ Turns(k)' \in Nat
            /\ Turns(k)' = IF k = table THEN Turns(k) + 1 ELSE Turns(k)
        BY <2>1, <3>1, <3>2, TurnsStep
      <3>4. Cardinality(tables[k]) \in Nat
        BY <3>2, FS_CardinalityType
      <3> QED
        BY <3>1, <3>2, <3>3, <3>4
    <2>5. CASE Return
      BY <2>1, <2>5 DEF Return, Filled, Turns
    <2>6. CASE UNCHANGED vars
      BY <2>1, <2>6 DEF vars, Filled, Turns
    <2> QED
      BY <2>2, <2>3, <2>4, <2>5, <2>6 DEF Next, Refuse
  <1> QED
    BY <1>1, <1>2, TypedCalls, AlwaysChecked, PTL DEF Spec

(***************************************************************************)
(* The tables a caller gets are a seating of all players: everybody has    *)
(* one place, the tables are full, and no two teammates share one.  Nobody *)
(* waits any more, no table has more players than seats, and there are as  *)
(* many seats as players: so no seat is empty (assign_tables.go:43-112).   *)
(***************************************************************************)
THEOREM CallersGetSeatings == Spec => []ResultIsSeating
  <1>1. ASSUME Typed, Checked, Filled, NoTeammatesAtTable, EveryPlayerSomewhere
        PROVE  ResultIsSeating
    <2>0. CASE Players = {}
      <3>1. /\ [p \in Players |-> TableOf(p) + 1] = [p \in {} |-> 0]
            /\ setup.tableSize \in Int \ {0}
        BY <1>1, <2>0, SetupsAssumption DEF Typed
      <3>2. IsSeating([p \in {} |-> 0], {}, [p \in Players |-> TeamOf(p)], setup.tableSize)
        BY <3>1, NobodyIsSeated
      <3> QED
        BY <2>0, <3>1, <3>2 DEF ResultIsSeating
    <2> SUFFICES ASSUME pc = "done", Players # {}
                 PROVE  /\ \A p \in Players : \E k \in DOMAIN tables : p \in tables[k]
                        /\ IsSeating([p \in Players |-> TableOf(p) + 1], Players,
                                     [p \in Players |-> TeamOf(p)], setup.tableSize)
      BY <2>0 DEF ResultIsSeating
    <2> DEFINE T == NumberOfTables
               K == 0 .. T - 1
               tb == setup.tableSize
               P == Players
               f == [p \in P |-> TableOf(p) + 1]
               g == [p \in P |-> TeamOf(p)]
    <2>1. /\ Accepted /\ T \in Nat /\ tb \in Nat \ {0} /\ IsFiniteSet(P)
          /\ Cardinality(P) = T * tb /\ Cardinality(P) \div tb = T
      BY <1>1, TablesSuffice, SetupsAssumption DEF Checked, Playable, Typed
    <2>2. DOMAIN tables = K /\ \A k \in K : tables[k] \subseteq P
      BY <1>1 DEF Typed, TypeOK
    <2>3. /\ \A p \in P : \E k \in K : p \in tables[k]
          /\ \A p \in P : \A k, l \in K : p \in tables[k] /\ p \in tables[l] => k = l
      BY <1>1, <2>2 DEF EveryPlayerSomewhere, Checked
    <2>4. \A k \in K : IsFiniteSet(tables[k]) /\ Cardinality(tables[k]) <= tb
      BY <1>1, <2>2 DEF Filled, Turns
    <2>5. \A p \in P : TableOf(p) \in K /\ p \in tables[TableOf(p)]
      BY <2>2, <2>3 DEF TableOf
    <2>6. \A p \in P : TeamOf(p) \in DOMAIN setup.teams /\ p \in setup.teams[TeamOf(p)]
      BY DEF TeamOf, Players, PlayersOf
    <2> HIDE DEF T, tb, P
    <2>7. \A k \in K : Cardinality(tables[k]) = tb
      <3> DEFINE G == [k \in K |-> tables[k]]
      <3>1. IsFiniteSet(K) /\ Cardinality(K) = T
        BY <2>1, FS_Interval
      <3>2. G \in [K -> SUBSET P] /\ \A k \in K : G[k] = tables[k]
        BY <2>2
      <3>3. /\ \A k \in K : IsFiniteSet(G[k]) /\ Cardinality(G[k]) <= tb
            /\ \A p \in P : \E k \in K : p \in G[k]
            /\ \A p \in P : \A k, l \in K : p \in G[k] /\ p \in G[l] => k = l
            /\ tb \in Nat
        BY <2>1, <2>3, <2>4, <3>2
      <3> HIDE DEF G, K
      <3>4. Cardinality(P) = Cardinality(K) * tb <=> \A k \in K : Cardinality(G[k]) = tb
        BY <3>1, <3>2, <3>3, Groups
      <3> QED
        BY <2>1, <3>1, <3>2, <3>4
    <2>8. f \in [P -> 1 .. T]
      BY <2>1, <2>5
    <2>9. ASSUME NEW p \in P, NEW q \in P, p # q, f[p] = f[q]
          PROVE  g[p] # g[q]
      <3>1. TableOf(p) = TableOf(q)
        <4> DEFINE x == TableOf(p)
                   y == TableOf(q)
        <4>1. x + 1 = y + 1
          BY <2>9
        <4>2. x \in Int /\ y \in Int
          BY <2>1, <2>5
        <4> HIDE DEF x, y
        <4>3. x = y
          BY <4>1, <4>2
        <4> QED
          BY <4>3 DEF x, y
      <3>2. ~ Teammates(p, q)
        BY <1>1, <2>2, <2>5, <2>9, <3>1 DEF NoTeammatesAtTable
      <3> QED
        BY <2>6, <3>2 DEF Teammates
    <2>10. ASSUME NEW k \in 1 .. T
           PROVE  Cardinality({p \in P : f[p] = k}) = tb
      <3>1. k - 1 \in K
        BY <2>1
      <3>2. {p \in P : f[p] = k} = tables[k - 1]
        <4>1. \A p \in P : f[p] = k <=> TableOf(p) = k - 1
          BY <2>1, <2>5
        <4>2. \A p \in P : TableOf(p) = k - 1 <=> p \in tables[k - 1]
          BY <2>3, <2>5, <3>1
        <4> QED
          BY <2>2, <3>1, <4>1, <4>2
      <3> QED
        BY <2>7, <3>1, <3>2
    <2> HIDE DEF f, g
    <2>11. IsSeating(f, P, g, tb)
      <3>1. GoQuo(Cardinality(P), tb) = T
        <4>1. Cardinality(P) \in Nat
          BY <2>1, FS_CardinalityType
        <4> QED
          BY <2>1, <4>1, GoQuoNat
      <3> QED
        BY <2>8, <2>9, <2>10, <3>1 DEF IsSeating
    <2> QED
      BY <2>2, <2>3, <2>11 DEF f, g, P, tb
  <1> QED
    BY <1>1, TypedCalls, AlwaysChecked, AlwaysFilled, TeamsAreSplit, NobodyLost, PTL

-----------------------------------------------------------------------------
(***************************************************************************)
(* The deal of the list as it is built, team after team: the turn finds    *)
(* the players in the order of their ranks.                                *)
(***************************************************************************)
Dealt == IF pc = "deal" THEN seat * NumberOfTables + table
                        ELSE setup.tableSize * NumberOfTables

InOrder == \A i \in Players : order[i] = i

DealtInOrder ==
    pc \in {"deal", "decide"} /\ Players # {} /\ InOrder =>
        /\ left = {i \in Players : i > Dealt}
        /\ \A k \in DOMAIN tables : \A p \in tables[k] :
               p <= Dealt /\ \E r \in Nat : p = r * NumberOfTables + k + 1

(***************************************************************************)
(* Players whose ranks are as many apart as there are tables are of        *)
(* different teams: a team has its ranks in a row, and no more players     *)
(* than there are tables (assign_tables.go:33).                            *)
(***************************************************************************)
LEMMA FarApart ==
    ASSUME Typed, Accepted, NEW p \in Players, NEW q \in Players,
           p - q >= NumberOfTables
    PROVE  ~ Teammates(p, q)
  <1> DEFINE ts == setup.teamSize
             T == NumberOfTables
             n == Cardinality(DOMAIN setup.teams)
  <1> SUFFICES ASSUME NEW t \in DOMAIN setup.teams, {p, q} \subseteq setup.teams[t]
               PROVE  FALSE
    BY DEF Teammates
  <1>1. /\ IsFiniteSet(Players) /\ Players = 1 .. Cardinality(Players)
        /\ ts \in Int /\ setup.tableSize \in Int \ {0} /\ IsFiniteSet(DOMAIN setup.teams)
    BY SetupsAssumption DEF Typed, Players
  <1>2. n \in Nat /\ Cardinality(Players) \in Nat /\ NumberOfTables \in Nat
    BY <1>1, FS_CardinalityType, TablesSuffice
  <1>3. ts * n = n * ts
    BY <1>1, <1>2
  <1>4. T >= ts
    BY <1>3 DEF Accepted, IsAssignable, NumberOfTables
  <1>5. p \in Nat /\ q \in Nat /\ q .. p \subseteq setup.teams[t]
    BY <1>1, <1>2, RanksAssumption DEF Typed
  <1>6. setup.teams[t] \subseteq Players
    BY DEF Players, PlayersOf
  <1>7. IsFiniteSet(setup.teams[t]) /\ Cardinality(setup.teams[t]) = ts
    BY <1>1, <1>6, FS_Subset DEF Accepted, IsAssignable
  <1>8. Cardinality(q .. p) = p - q + 1
    BY <1>2, <1>5, FS_Interval
  <1>9. Cardinality(q .. p) <= ts
    BY <1>5, <1>7, FS_Subset
  <1> QED
    BY <1>1, <1>2, <1>4, <1>5, <1>8, <1>9

(***************************************************************************)
(* In order, the first candidate is the next player of the list.           *)
(***************************************************************************)
LEMMA NextInOrder ==
    ASSUME Typed, Accepted, DealtInOrder, InOrder, Players # {}, pc = "deal"
    PROVE  /\ Dealt + 1 \in Candidates /\ Min(Candidates) = Dealt + 1
           /\ Dealt \in Nat
  <1> DEFINE T == NumberOfTables
             tb == setup.tableSize
             st == seat * T
  <1>1. /\ T \in Nat /\ tb \in Nat /\ tb > 0
        /\ Cardinality(Players) = T * tb /\ Players = 1 .. Cardinality(Players)
    BY TablesSuffice, SetupsAssumption DEF Typed, Playable, Players
  <1>2. table \in 0 .. T - 1 /\ seat \in 0 .. tb - 1
    BY DEF Typed, TypeOK
  <1>3. st \in Nat /\ st + T <= T * tb
    <2>1. (seat + 1) * T = st + T
      BY <1>1, <1>2
    <2>2. (seat + 1) * T <= tb * T
      BY <1>1, <1>2
    <2> QED
      BY <1>1, <1>2, <2>1, <2>2
  <1>4. Dealt = st + table
    BY DEF Dealt
  <1> HIDE DEF st
  <1>5. Dealt \in Nat /\ Dealt + 1 \in Players /\ Dealt + 1 \in left
    <2>1. Dealt \in Nat /\ Dealt + 1 <= T * tb
      BY <1>1, <1>2, <1>3, <1>4
    <2>2. Dealt + 1 \in Players
      BY <1>1, <2>1
    <2> HIDE DEF T, tb
    <2> QED
      BY <2>1, <2>2 DEF DealtInOrder
  <1>6. table \in DOMAIN tables
    BY <1>2 DEF Typed, TypeOK
  <1>7. ASSUME NEW q \in tables[table]
        PROVE  ~ Teammates(Dealt + 1, q)
    <2>1. PICK r \in Nat : q <= Dealt /\ q = r * T + table + 1
      BY <1>6 DEF DealtInOrder
    <2>2. q \in Players
      BY <1>6 DEF Typed, TypeOK
    <2> DEFINE rt == r * T
    <2>3. rt \in Nat /\ rt < st
      BY <1>1, <1>2, <1>3, <1>4, <2>1
    <2>4. r < seat
      <3> SUFFICES ASSUME seat <= r PROVE FALSE
        BY <1>1, <1>2
      <3>1. seat * T <= r * T
        BY <1>1, <1>2
      <3> QED
        BY <1>3, <2>3, <3>1 DEF st
    <2>5. rt + T <= st
      <3>1. (r + 1) * T <= seat * T
        BY <1>1, <1>2, <2>4
      <3>2. (r + 1) * T = rt + T
        BY <1>1
      <3> QED
        BY <3>1, <3>2 DEF st
    <2> HIDE DEF rt
    <2>6. (Dealt + 1) - q >= T
      BY <1>1, <1>2, <1>3, <1>4, <2>1, <2>3, <2>5 DEF rt
    <2> QED
      BY <1>5, <2>2, <2>6, FarApart
  <1>8. Dealt + 1 \in Candidates
    BY <1>5, <1>7 DEF Candidates, InOrder
  <1>9. \A i \in Candidates : Dealt + 1 <= i
    <2> TAKE i \in Candidates
    <2>1. i \in left
      BY DEF Candidates
    <2>2. i \in Players /\ i > Dealt
      BY <2>1 DEF DealtInOrder
    <2>3. i \in Nat
      BY <1>1, <2>2
    <2> QED
      BY <1>5, <2>2, <2>3
  <1>10. Candidates \subseteq Nat
    <2>1. Candidates \subseteq Players
      BY DEF Candidates, Typed, TypeOK
    <2> QED
      BY <1>1, <2>1
  <1>11. Min(Candidates) = Dealt + 1
    <2>1. Min(Candidates) \in Candidates /\ \A i \in Candidates : Min(Candidates) <= i
      BY <1>8, <1>9 DEF Min
    <2> DEFINE first == Min(Candidates)
    <2>2. first \in Nat /\ Dealt + 1 <= first /\ first <= Dealt + 1
      BY <1>8, <1>9, <1>10, <2>1
    <2> HIDE DEF first
    <2>3. first = Dealt + 1
      BY <1>5, <2>2
    <2> QED
      BY <2>3 DEF first
  <1> QED
    BY <1>5, <1>8, <1>11

LEMMA AlwaysDealtInOrder == Spec => []DealtInOrder
  <1>1. Init => DealtInOrder
    BY DEF Init, DealtInOrder
  <1>2. Typed /\ Checked /\ DealtInOrder /\ [Next]_vars => DealtInOrder'
    <2> SUFFICES ASSUME Typed, Checked, DealtInOrder, [Next]_vars,
                        pc' \in {"deal", "decide"}, Players' # {}, InOrder'
                 PROVE  /\ left' = {i \in Players' : i > Dealt'}
                        /\ \A k \in DOMAIN tables' : \A p \in tables'[k] :
                               /\ p <= Dealt'
                               /\ \E r \in Nat : p = r * NumberOfTables' + k + 1
      BY DEF DealtInOrder
    <2>1. setup' = setup /\ Players' = Players /\ NumberOfTables' = NumberOfTables
      BY DEF Next, Refuse, Shuffle, Deal, Skip, Return, vars, Players, NumberOfTables
    <2> DEFINE T == NumberOfTables
               tb == setup.tableSize
    <2>2. CASE Shuffle
      <3>1. Accepted
        BY <2>2 DEF Shuffle, Accepted, Checked
      <3>2. /\ T \in Nat /\ tb \in Nat /\ tb > 0
            /\ Cardinality(Players) = T * tb /\ Players = 1 .. Cardinality(Players)
        BY <2>1, <3>1, TablesSuffice, SetupsAssumption DEF Typed, Playable, Players
      <3>3. T > 0
        <4> SUFFICES ASSUME T = 0 PROVE FALSE
          BY <3>2
        <4>1. T * tb = 0
          BY <3>2
        <4> QED
          BY <2>1, <3>2, <4>1
      <3>4. pc' = "deal" /\ seat' = 0 /\ table' = 0 /\ left' = Players
        BY <2>2, <3>2, <3>3 DEF Shuffle
      <3>5. Dealt' = 0
        BY <2>1, <3>2, <3>4 DEF Dealt
      <3>6. \A k \in DOMAIN tables' : tables'[k] = {}
        BY <2>2 DEF Shuffle
      <3>7. \A i \in Players : i > 0
        BY <3>2
      <3> QED
        BY <2>1, <3>4, <3>5, <3>6, <3>7
    <2>3. CASE Deal \/ Skip
      <3>1. pc = "deal" /\ NextTurn /\ order' = order
        BY <2>3 DEF Deal, Skip
      <3>2. InOrder /\ Accepted
        BY <2>1, <3>1 DEF InOrder, Checked
      <3>3. Dealt + 1 \in Candidates /\ Min(Candidates) = Dealt + 1 /\ Dealt \in Nat
        BY <2>1, <3>1, <3>2, NextInOrder
      <3>4. /\ tables' = [tables EXCEPT ![table] = @ \union {order[Dealt + 1]}]
            /\ left' = left \ {Dealt + 1}
        BY <2>3, <3>3 DEF Deal, Skip
      <3>5. order[Dealt + 1] = Dealt + 1
        BY <3>2, <3>3 DEF InOrder, Candidates, Typed, TypeOK
      <3>6. T \in Nat /\ tb \in Nat /\ Players \subseteq Nat
        <4>1. Players = 1 .. Cardinality(Players) /\ IsFiniteSet(Players) /\ tb \in Int
          BY SetupsAssumption DEF Typed, Players
        <4> QED
          BY <2>1, <3>2, <4>1, FS_CardinalityType, TablesSuffice DEF Playable
      <3>7. table \in 0 .. T - 1 /\ seat \in 0 .. tb - 1 /\ DOMAIN tables = 0 .. T - 1
        BY <3>1 DEF Typed, TypeOK
      <3>8. Dealt = seat * T + table
        BY <3>1 DEF Dealt
      <3>9. Dealt' = Dealt + 1
        <4>1. (seat + 1) * T = seat * T + T
          BY <3>6, <3>7
        <4>2. seat * T \in Nat
          BY <3>6, <3>7
        <4> DEFINE st == seat * T
        <4> HIDE DEF T
        <4>3. CASE table + 1 < T
          <5>1. table' = table + 1 /\ seat' = seat /\ pc' = "deal"
            BY <3>1, <3>6, <3>7, <4>3, TurnMoves DEF T
          <5>2. Dealt' = seat * T + (table + 1)
            BY <2>1, <5>1 DEF Dealt, T
          <5> QED
            BY <3>7, <3>8, <4>2, <5>2
        <4>4. CASE table + 1 = T
          <5>1. /\ table' = 0 /\ seat' = seat + 1
                /\ pc' = IF seat + 1 = tb THEN "decide" ELSE "deal"
            BY <3>1, <3>6, <3>7, <4>4, TurnMoves DEF T
          <5>2. Dealt' = (seat + 1) * T
            <6>1. (seat + 1) * T + 0 = (seat + 1) * T
              BY <3>6, <3>7
            <6> QED
              BY <2>1, <3>7, <5>1, <6>1 DEF Dealt, T
          <5> QED
            BY <3>7, <3>8, <4>1, <4>2, <4>4, <5>2
        <4> QED
          BY <3>6, <3>7, <4>3, <4>4
      <3>10. left = {i \in Players : i > Dealt}
        BY <2>1, <3>1, <3>2 DEF DealtInOrder
      <3>11. left' = {i \in Players : i > Dealt + 1}
        <4> DEFINE d == Dealt
        <4>1. d \in Nat /\ left' = left \ {d + 1} /\ left = {i \in Players : i > d}
          BY <3>3, <3>4, <3>10
        <4> HIDE DEF d
        <4>2. \A i \in Players : i > d /\ i # d + 1 <=> i > d + 1
          BY <3>6, <4>1
        <4>3. left' = {i \in Players : i > d + 1}
          BY <4>1, <4>2
        <4> QED
          BY <4>3 DEF d
      <3>12. ASSUME NEW k \in DOMAIN tables, NEW p \in tables'[k]
             PROVE  p <= Dealt + 1 /\ \E r \in Nat : p = r * T + k + 1
        <4>1. CASE p \in tables[k]
          <5>1. p <= Dealt /\ \E r \in Nat : p = r * T + k + 1
            BY <2>1, <3>1, <3>2, <4>1 DEF DealtInOrder
          <5>2. p \in Nat
            BY <3>6, <4>1 DEF Typed, TypeOK
          <5> QED
            BY <3>3, <5>1, <5>2
        <4>2. CASE p \notin tables[k]
          <5>1. k = table /\ p = Dealt + 1
            BY <3>4, <3>5, <4>2
          <5>2. Dealt + 1 = seat * T + table + 1 /\ seat \in Nat
            BY <3>7, <3>8
          <5> QED
            BY <3>3, <5>1, <5>2
        <4> QED
          BY <4>1, <4>2
      <3>13. DOMAIN tables' = DOMAIN tables
        BY <3>4
      <3> HIDE DEF T
      <3> QED
        BY <2>1, <3>9, <3>11, <3>12, <3>13 DEF T
    <2>4. CASE Refuse \/ Return
      BY <2>4 DEF Refuse, Return
    <2>5. CASE UNCHANGED vars
      <3>1. Dealt' = Dealt /\ InOrder
        BY <2>5 DEF vars, Dealt, InOrder, Players, NumberOfTables
      <3> QED
        BY <2>1, <2>5, <3>1 DEF vars, DealtInOrder
    <2> QED
      BY <2>2, <2>3, <2>4, <2>5 DEF Next
  <1> QED
    BY <1>1, <1>2, TypedCalls, AlwaysChecked, PTL DEF Spec

(***************************************************************************)
(* The retry loop of every setup that is accepted has a way out: on the    *)
(* list as it is built the deal finds a seat for everybody, one after the  *)
(* other (assign_tables.go:48-111).                                        *)
(***************************************************************************)
THEOREM TeamByTeamIsWayOut == Spec => []TeamByTeamSucceeds
  <1>1. Typed /\ Checked /\ DealtInOrder => TeamByTeamSucceeds
    <2> SUFFICES ASSUME Typed, Checked, DealtInOrder, pc = "decide", InOrder
                 PROVE  left = {}
      BY DEF TeamByTeamSucceeds, InOrder
    <2>1. CASE Players = {}
      BY <2>1 DEF Typed, TypeOK
    <2>2. CASE Players # {}
      <3> DEFINE T == NumberOfTables
                 tb == setup.tableSize
      <3>1. left = {i \in Players : i > tb * T}
        BY <2>2 DEF DealtInOrder, Dealt
      <3>2. /\ T \in Nat /\ tb \in Int /\ Cardinality(Players) = T * tb
            /\ Players = 1 .. Cardinality(Players)
        BY <2>2, TablesSuffice, SetupsAssumption DEF Typed, Players, Checked
      <3>3. tb * T = T * tb /\ T * tb \in Int
        BY <3>2
      <3> QED
        BY <3>1, <3>2, <3>3
    <2> QED
      BY <2>1, <2>2
  <1> QED
    BY <1>1, TypedCalls, AlwaysChecked, AlwaysDealtInOrder, PTL
=============================================================================
