CONSTANTS
    u1 = u1
    u2 = u2
    r1 = r1
    r2 = r2
    p1 = p1
    p2 = p2
    p3 = p3
    p4 = p4
    Users = {u1, u2}
    TeamIds = {1}
    PlayerIds = {p1}
    TeamOf <- Single
    Requests = {r1, r2}
    Settings <- OneRound
    Statuses <- AllStatuses
    Operations <- OwnerOperations
    MaxSetups = 0
SPECIFICATION Spec
INVARIANT EveryGameHasOwner
CHECK_DEADLOCK FALSE
