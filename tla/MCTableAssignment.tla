------------------------- MODULE MCTableAssignment -------------------------
(***************************************************************************)
(* Setups for TLC: up to MaxTeams small teams with all sizes a request can *)
(* carry in a small range, complete teams and teams short of a player; and *)
(* two teams of WideTeam players.                                          *)
(***************************************************************************)
EXTENDS TableAssignment, Functions, TLC

CONSTANTS
    MaxTeams,      \* bound on the number of small teams
    Sizes,         \* the teamSize and tableSize values of a request
    Members,       \* the possible numbers of players of a small team
    WideTeam,      \* the number of players of a wide team
    WideSizes      \* the sizes requested for wide teams

\* Team t holds the ranks that follow those of the teams before it.
Block(count, t) == LET before == SumFunctionOnSet(count, 1 .. t - 1)
                   IN  before + 1 .. before + count[t]

SmallSizes == (-3 .. 3) \ {0}

SetupsOf(counts, sizes) ==
    {[teams |-> [t \in DOMAIN count |-> Block(count, t)],
      teamSize |-> size[1], tableSize |-> size[2]] : count \in counts, size \in sizes \X sizes}

MCSetups ==
    UNION {SetupsOf([1 .. n -> Members], Sizes) : n \in 0 .. MaxTeams}
        \union SetupsOf([1 .. 2 -> {WideTeam}], WideSizes)

MCShuffles(players) == Permutations(players)
=============================================================================
