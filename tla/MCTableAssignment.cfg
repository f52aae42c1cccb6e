CONSTANTS
    MaxTeams = 3
    Sizes <- SmallSizes
    Members = {1, 2}
    WideTeam = 4
    WideSizes = {1, 2, 4}
    Setups <- MCSetups
    Shuffles <- MCShuffles
SPECIFICATION Spec
INVARIANTS
    TypeOK
    NoTeammatesAtTable
    EveryPlayerSomewhere
    ResultIsSeating
    TeamByTeamSucceeds
    OnlyPlayableAccepted
    OnlyUnplayableRefused
CHECK_DEADLOCK FALSE
