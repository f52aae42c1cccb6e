------------------------------- MODULE MCApi -------------------------------
(***************************************************************************)
(* A game of one player, who plays alone, and all operations, for TLC.     *)
(***************************************************************************)
EXTENDS Api, TLC

CONSTANTS u1, u2, r1, p1, nobody

Single == p1 :> 1

\* Only zero is refused of a size.
AnySign == {[teamSize |-> t, tableSize |-> 1, numberOfRounds |-> n] : t, n \in {-1, 1}}

AllStatuses == Status \union {""}

AllOperations == Reads \union
    {"CreateGame", "UpdateGame", "DeleteGame", "SetupGame", "AddOwner", "RemoveOwner",
     "CreateTeam", "UpdateTeam", "DeleteTeam", "CreatePlayer", "UpdatePlayer",
     "DeletePlayer", "UpdateScores"}
=============================================================================
