---------------------------- MODULE MCScoreEntry ----------------------------
(***************************************************************************)
(* A table of a few players for TLC.                                       *)
(***************************************************************************)
EXTENDS ScoreEntry

CONSTANTS p1, p2, p3

\* Bodies that may name a player twice, or somebody from another table; only p1
\* ever gets anything but 1.
AnySheets ==
    [1 .. Cardinality(Seated) -> {e \in Entry : e.player # p1 => e.points = 1}]

\* Bodies with one entry for everybody at the table, in any order.
WholeSheets ==
    {s \in [1 .. Cardinality(Seated) -> [player : Seated, points : Points]] :
        {s[i].player : i \in DOMAIN s} = Seated}
=============================================================================
