-------------------------- MODULE TableAssignment --------------------------
(***************************************************************************)
(* One call of setup.AssignTables: check the setup, shuffle the players,   *)
(* deal them out to the tables one seat at a time, and start again with    *)
(* the next seed while a player is left over.                              *)
(***************************************************************************)
EXTENDS Seating, FiniteSetsExt

(***************************************************************************)
(* The calls: records with teams, teamSize and tableSize.  A player is     *)
(* named by its rank in playersToAssign as it is built, team after team,   *)
(* so a shuffle is a permutation of the players.                           *)
(***************************************************************************)
CONSTANTS
    Setups,
    Shuffles(_)    \* the orders math/rand's Shuffle can leave a list in

PlayersOf(s) == UNION {s.teams[t] : t \in DOMAIN s.teams}

ASSUME SetupsAssumption ==
    \A s \in Setups :
        /\ s.teamSize \in Int \ {0}
        /\ s.tableSize \in Int \ {0}
        /\ IsFiniteSet(DOMAIN s.teams)
        /\ \A t, u \in DOMAIN s.teams : t # u => s.teams[t] \cap s.teams[u] = {}
        /\ IsFiniteSet(PlayersOf(s))
        /\ PlayersOf(s) = 1 .. Cardinality(PlayersOf(s))

\* The members of a team are appended one after the other.
ASSUME RanksAssumption ==
    \A s \in Setups : \A t \in DOMAIN s.teams : \A p, q \in s.teams[t] :
        p .. q \subseteq s.teams[t]

IsOrder(o, players) ==
    /\ o \in [players -> players]
    /\ \A i, j \in players : i # j => o[i] # o[j]
    /\ \A p \in players : \E i \in players : o[i] = p

\* A shuffle swaps elements, so it leaves every player at one position.
ASSUME ShufflesAssumption ==
    \A s \in Setups : \A o \in Shuffles(PlayersOf(s)) : IsOrder(o, PlayersOf(s))

VARIABLES
    setup,     \* the arguments of the call
    pc,        \* where the call is
    order,     \* playersToAssign as shuffled
    left,      \* the positions of order whose player has no seat yet
    tables,    \* the players at each table, numbered from 0
    seat,      \* the outer loop: how many seats of every table were dealt
    table      \* the inner loop: the table whose turn it is

vars == <<setup, pc, order, left, tables, seat, table>>

Players == PlayersOf(setup)

Teammates(p, q) == \E t \in DOMAIN setup.teams : {p, q} \subseteq setup.teams[t]

NumberOfTables ==
    GoQuo(setup.teamSize * Cardinality(DOMAIN setup.teams), setup.tableSize)

-----------------------------------------------------------------------------
Init == /\ setup \in Setups
        /\ pc = "check"
        /\ order = <<>>
        /\ left = {}
        /\ tables = <<>>
        /\ seat = 0
        /\ table = 0

Refuse == /\ pc = "check"
          /\ ~ IsAssignable(setup.teams, setup.teamSize, setup.tableSize)
          /\ pc' = "error"
          /\ UNCHANGED <<setup, order, left, tables, seat, table>>

\* The top of the for loop: rnd.Shuffle under a seed not used before.
Shuffle == /\ \/ /\ pc = "check"
                 /\ IsAssignable(setup.teams, setup.teamSize, setup.tableSize)
              \/ /\ pc = "decide"
                 /\ left # {}
           /\ order' \in Shuffles(Players)
           /\ left' = Players
           /\ tables' = [k \in 0 .. NumberOfTables - 1 |-> {}]
           /\ seat' = 0
           /\ table' = 0
           /\ pc' = IF NumberOfTables > 0 /\ setup.tableSize > 0
                    THEN "deal" ELSE "decide"
           /\ UNCHANGED setup

\* Mutant: the same-team check dropped.
AnyoneLeft == left

\* The remaining players who may sit down at the table whose turn it is.
Candidates == {i \in left : \A q \in tables[table] : ~ Teammates(order[i], q)}

\* Mutant: one seat too many.
OneTurnMore ==
    /\ table' = (table + 1) % NumberOfTables
    /\ seat' = IF table' = 0 THEN seat + 1 ELSE seat
    /\ pc' = IF seat' > setup.tableSize THEN "decide" ELSE "deal"

\* Pass the turn on to the next table, and after the last to the next seat.
NextTurn ==
    /\ table' = (table + 1) % NumberOfTables
    /\ seat' = IF table' = 0 THEN seat + 1 ELSE seat
    /\ pc' = IF seat' = setup.tableSize THEN "decide" ELSE "deal"

\* Mutant: the player who sits down stays on the list.
DealAndKeep ==
    /\ pc = "deal"
    /\ Candidates # {}
    /\ tables' = [tables EXCEPT ![table] = @ \union {order[Min(Candidates)]}]
    /\ NextTurn
    /\ UNCHANGED <<setup, order, left>>

\* The first remaining player of another team takes the seat.
Deal == /\ pc = "deal"
        /\ Candidates # {}
        /\ LET i == Min(Candidates)
           IN  /\ tables' = [tables EXCEPT ![table] = @ \union {order[i]}]
               /\ left' = left \ {i}
        /\ NextTurn
        /\ UNCHANGED <<setup, order>>

\* No remaining player fits: the seat stays empty.
Skip == /\ pc = "deal"
        /\ Candidates = {}
        /\ NextTurn
        /\ UNCHANGED <<setup, order, left, tables>>

\* Mutant: return with players left over.
ReturnAnyway ==
    /\ pc = "decide"
    /\ pc' = "done"
    /\ UNCHANGED <<setup, order, left, tables, seat, table>>

Return == /\ pc = "decide"
          /\ left = {}
          /\ pc' = "done"
          /\ UNCHANGED <<setup, order, left, tables, seat, table>>

Next == Refuse \/ Shuffle \/ Deal \/ Skip \/ Return

Spec == Init /\ [][Next]_vars
-----------------------------------------------------------------------------
TypeOK ==
    /\ pc \in {"check", "deal", "decide", "done", "error"}
    /\ left \subseteq Players
    /\ \A k \in DOMAIN tables : tables[k] \subseteq Players
    /\ pc \in {"deal", "decide", "done"} =>
           /\ IsOrder(order, Players)
           /\ DOMAIN tables = 0 .. NumberOfTables - 1
    /\ pc = "deal" => /\ table \in 0 .. NumberOfTables - 1
                      /\ seat \in 0 .. setup.tableSize - 1

(***************************************************************************)
(* "no two players of the same team at one table"                          *)
(* (assign_tables_test.go:168), at every moment of the deal.               *)
(***************************************************************************)
NoTeammatesAtTable ==
    \A k \in DOMAIN tables : \A p, q \in tables[k] : p # q => ~ Teammates(p, q)

(***************************************************************************)
(* No step loses a player or deals one out twice: every player is either   *)
(* waiting or at exactly one table.                                        *)
(***************************************************************************)
EveryPlayerSomewhere ==
    pc \in {"deal", "decide", "done"} =>
        \A p \in Players :
            \/ /\ \E i \in left : order[i] = p
               /\ \A k \in DOMAIN tables : p \notin tables[k]
            \/ /\ \A i \in left : order[i] # p
               /\ \E k \in DOMAIN tables :
                      /\ p \in tables[k]
                      /\ \A j \in DOMAIN tables : p \in tables[j] => j = k

(***************************************************************************)
(* The tables a caller gets form a seating: "every table must be full",    *)
(* "all players must be assigned exactly once" (assign_tables_test.go:163, *)
(* :175); without players there is no table.                               *)
(***************************************************************************)
TableOf(p) == CHOOSE k \in DOMAIN tables : p \in tables[k]
TeamOf(p)  == CHOOSE t \in DOMAIN setup.teams : p \in setup.teams[t]

ResultIsSeating ==
    pc = "done" =>
        /\ \A p \in Players : \E k \in DOMAIN tables : p \in tables[k]
        /\ IsSeating([p \in Players |-> TableOf(p) + 1], Players,
                     [p \in Players |-> TeamOf(p)], setup.tableSize)

(***************************************************************************)
(* The retry loop has a way out in every setup it accepts: an attempt on   *)
(* the list as it is built, team after team, seats everybody.  Without     *)
(* such an order the loop, which has no other exit, would hold the         *)
(* transaction of a setup request forever (the regression of               *)
(* assign_tables_test.go:146).                                             *)
(***************************************************************************)
TeamByTeamSucceeds ==
    pc = "decide" /\ (\A i \in Players : order[i] = i) => left = {}

(***************************************************************************)
(* IsAssignable accepts a setup exactly when the sizes are positive, the   *)
(* table size divides the team size, every team is complete and there are  *)
(* as many teams as a table has seats; on the way it divides by sizes a    *)
(* client chose, negative ones included.  The exception is a setup without *)
(* teams: there it accepts every negative team size, and no positive one.  *)
(***************************************************************************)
Playable ==
    /\ setup.teamSize > 0
    /\ setup.tableSize > 0
    /\ \E m \in 1 .. setup.teamSize : setup.teamSize = m * setup.tableSize
    /\ \A t \in DOMAIN setup.teams : Cardinality(setup.teams[t]) = setup.teamSize
    /\ Cardinality(DOMAIN setup.teams) >= setup.tableSize

OnlyPlayableAccepted ==
    pc \in {"deal", "decide", "done"} =>
        Playable \/ (DOMAIN setup.teams = {} /\ setup.teamSize < 0)

OnlyUnplayableRefused == pc = "error" => ~ Playable
=============================================================================
