CONSTANTS
    u1 = u1
    u2 = u2
    r1 = r1
    r2 = r2
    p1 = p1
    p2 = p2
    p3 = p3
    p4 = p4
    Users = {u1, u2}
    TeamIds = {1, 2}
    PlayerIds = {p1, p2, p3}
    TeamOf <- Uneven
    Requests = {r1}
    Settings <- MixedSizes
    Statuses <- AllStatuses
    Operations <- AllOperations
    MaxSetups = 2
SYMMETRY UnevenSymmetry
SPECIFICATION Spec
INVARIANTS
    TypeOK
    EveryGameHasOwner
    ScoresAreSeated
    SetupCanSucceed
PROPERTIES
    StartedGameKeepsScores
    StartsPlayable
    CompletesScored
    OnlyOwnersWrite
    FollowsTheRules
CHECK_DEADLOCK FALSE
