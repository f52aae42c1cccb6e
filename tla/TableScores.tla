---------------------------- MODULE TableScores ----------------------------
(***************************************************************************)
(* What the scores of a table promise to whoever enters them: the table    *)
(* holds no scores, or those of the score sheet entered last, all of them. *)
(***************************************************************************)
CONSTANTS
    Seated,        \* the players at the table
    Points,        \* the scores a player can get
    NoScore        \* there is no row for a player

VARIABLE table

NoScores == [p \in Seated |-> NoScore]

Init == table = NoScores

\* A sheet has a score for everybody at the table.
Enter(sheet) == table' = sheet

Next == \E sheet \in [Seated -> Points] : Enter(sheet)

Spec == Init /\ [][Next]_table
=============================================================================
