CONSTANTS
    u1 = u1
    u2 = u2
    r1 = r1
    r2 = r2
    p1 = p1
    p2 = p2
    p3 = p3
    p4 = p4
    Users = {u1}
    TeamIds = {1, 2}
    PlayerIds = {p1, p2, p3, p4}
    TeamOf <- Pairs
    Requests = {r1, r2}
    Settings <- TwoRounds
    Statuses = {""}
    Operations <- StructureOperations
    MaxSetups = 2
SYMMETRY PairsSymmetry
SPECIFICATION Spec
CHECK_DEADLOCK FALSE
INVARIANTS
    OnePlacePerRound
    SetupIsWhole
    RoundsSeatTheSamePlayers
    NoTeammatesAtTable
