CONSTANTS
    u1 = u1
    u2 = u2
    r1 = r1
    p1 = p1
    nobody = nobody
    Users = {u1, u2}
    Nobody = nobody
    TeamIds = {1}
    PlayerIds = {p1}
    TeamOf <- Single
    Requests = {r1}
    Settings <- AnySign
    Statuses <- AllStatuses
    Operations <- AllOperations
    MaxSetups = 1
SPECIFICATION ApiSpec
INVARIANTS
    ApiTypeOK
    RefusedWroteNothing
PROPERTIES
    EveryCallIsAnswered
    StrangersAreForbidden
