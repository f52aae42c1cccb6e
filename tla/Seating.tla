------------------------------ MODULE Seating ------------------------------
(***************************************************************************)
(* The rules of a seating, shared by the algorithm that computes one       *)
(* (TableAssignment) and by the service that stores one (Tournament).      *)
(***************************************************************************)
EXTENDS Integers, FiniteSets

(***************************************************************************)
(* The division of Go's int: the quotient is truncated toward zero and the *)
(* remainder has the sign of the dividend.  Both panic on a zero divisor.  *)
(***************************************************************************)
Abs(n) == IF n < 0 THEN -n ELSE n

GoQuo(a, b) == IF (a < 0) = (b < 0) THEN Abs(a) \div Abs(b)
                                    ELSE -(Abs(a) \div Abs(b))

GoRem(a, b) == a - b * GoQuo(a, b)

\* Mutants: a table larger than the number of teams; a team that is split
\* over more tables than it can fill; no setup in which the teams just suffice.
AnyNumberOfTeams(teams, teamSize, tableSize) ==
    /\ ~ GoRem(teamSize, tableSize) > 0
    /\ \A t \in DOMAIN teams : t >= 1 /\ Cardinality(teams[t]) = teamSize

AnyTableSize(teams, teamSize, tableSize) ==
    /\ \A t \in DOMAIN teams : t >= 1 /\ Cardinality(teams[t]) = teamSize
    /\ GoQuo(Cardinality(DOMAIN teams) * teamSize, tableSize) >= teamSize

OneTeamMore(teams, teamSize, tableSize) ==
    /\ ~ GoRem(teamSize, tableSize) > 0
    /\ \A t \in DOMAIN teams : t >= 1 /\ Cardinality(teams[t]) = teamSize
    /\ GoQuo(Cardinality(DOMAIN teams) * teamSize, tableSize) > teamSize

(***************************************************************************)
(* teams maps a team's id to the set of its players: the Go map of         *)
(* teamsMap, which holds a team only when it has a player.                 *)
(***************************************************************************)
IsAssignable(teams, teamSize, tableSize) ==
    /\ ~ GoRem(teamSize, tableSize) > 0
    /\ \A t \in DOMAIN teams : t >= 1 /\ Cardinality(teams[t]) = teamSize
    /\ GoQuo(Cardinality(DOMAIN teams) * teamSize, tableSize) >= teamSize

(***************************************************************************)
(* What a caller of AssignTables relies on: every player has one place,    *)
(* table numbers run from 1, every table is full, and no two players of a  *)
(* team share a table.                                                     *)
(***************************************************************************)
IsSeating(table, players, team, tableSize) ==
    /\ table \in [players -> 1 .. GoQuo(Cardinality(players), tableSize)]
    /\ \A p, q \in players : p # q /\ table[p] = table[q] => team[p] # team[q]
    /\ \A k \in 1 .. GoQuo(Cardinality(players), tableSize) :
           Cardinality({p \in players : table[p] = k}) = tableSize
=============================================================================
