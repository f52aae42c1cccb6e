---------------------------- MODULE MCTournament ----------------------------
(***************************************************************************)
(* Small games for TLC.                                                    *)
(***************************************************************************)
EXTENDS Tournament, TLC

CONSTANTS u1, u2, r1, r2, p1, p2, p3, p4

\* One team of one player, teams of two and one, and two of two.
Single == p1 :> 1
Uneven == p1 :> 1 @@ p2 :> 1 @@ p3 :> 2
Pairs == p1 :> 1 @@ p2 :> 1 @@ p3 :> 2 @@ p4 :> 2

Sizes(teamSize, tableSize, numberOfRounds) ==
    [teamSize |-> teamSize, tableSize |-> tableSize, numberOfRounds |-> numberOfRounds]

OneRound   == {Sizes(1, 1, 1)}
TwoRounds  == {Sizes(2, 2, 2)}
MixedSizes == {Sizes(1, 1, 2), Sizes(2, 2, 1), Sizes(-1, 1, 1), Sizes(1, 1, -1)}
NoRounds   == {Sizes(1, 1, 1), Sizes(1, 1, -1)}

AllStatuses == Status \union {""}

RosterOperations ==
    {"CreateTeam", "UpdateTeam", "DeleteTeam",
     "CreatePlayer", "UpdatePlayer", "DeletePlayer"}

OwnerOperations == {"CreateGame", "AddOwner", "RemoveOwner"}

RenameOperations ==
    {"CreateGame", "CreateTeam", "SetupGame", "UpdateScores", "UpdateTeam", "DeletePlayer"}

StartOperations ==
    {"CreateGame", "CreateTeam", "SetupGame", "UpdateGame", "UpdateScores"}

AllOperations ==
    RosterOperations \union
    {"CreateGame", "UpdateGame", "DeleteGame", "SetupGame",
     "AddOwner", "RemoveOwner", "UpdateScores"}

DeleteOperations == {"CreateGame", "CreateTeam", "UpdatePlayer", "DeleteGame"}

\* No entered score changes a table assignment, an assignment of two pairs needs
\* all four players to be there already, and a team goes with its players.
StructureOperations == AllOperations \ {"UpdateScores", "CreatePlayer", "DeleteTeam"}

\* Teammates can stand in for each other.
UnevenSymmetry == Permutations(Users) \union Permutations({p1, p2})

PairsSymmetry ==
    Permutations(Requests) \union Permutations({p1, p2}) \union Permutations({p3, p4})
=============================================================================
