------------------------------ MODULE GameRules ------------------------------
(***************************************************************************)
(* What the services promise of one game to users who act one after the    *)
(* other: an operation is a single step, does what it is asked to as a     *)
(* whole, and finds what the one before it has left.  A size can be        *)
(* negative; then there is nobody to wait for, or nothing to play.         *)
(***************************************************************************)
EXTENDS Integers

CONSTANT Users

VARIABLES
    phase,         \* the status of the game; "none" before it, "deleted" after it
    teamSize,      \* the players of a team, as the owners say
    rounds,        \* the rounds of the game, as the owners say
    owners,
    players,
    assigned,      \* tables have been assigned
    seats,         \* places at tables, each with its player
    scores         \* the places that have a score

rules == <<phase, teamSize, rounds, owners, players, assigned, seats, scores>>

Status == {"setup", "in_progress", "completed"}

Empty == /\ teamSize = 0 /\ rounds = 0
         /\ owners = {} /\ players = {} /\ seats = {} /\ scores = {}
         /\ assigned = FALSE

Init == phase = "none" /\ Empty

Settle == teamSize' # 0 /\ rounds' # 0

Create == /\ phase = "none"
          /\ phase' = "setup"
          /\ Settle
          /\ \E u \in Users : owners' = {u}
          /\ UNCHANGED <<players, assigned, seats, scores>>

\* A game starts with tables and players, and ends when everybody has a score.
MayStart == assigned /\ rounds' > 0 /\ (players # {} \/ teamSize' < 0)

MayEnd == rounds' > 0 => \A p \in players : \E s \in scores : s.player = p

Update == /\ phase' \in Status
          /\ Settle
          /\ phase' # phase => /\ phase' = "in_progress" => MayStart
                               /\ phase' = "completed" => MayEnd
          /\ UNCHANGED <<owners, players, assigned, seats, scores>>

\* Everybody gets a seat.  What was played at the tables before is gone.
Assign == /\ phase = "setup"
          /\ assigned' = (rounds > 0)
          /\ {s.player : s \in seats'} = IF rounds > 0 THEN players ELSE {}
          /\ scores' = {}
          /\ UNCHANGED <<phase, teamSize, rounds, owners, players>>

Admit == /\ players \subseteq players'
         /\ UNCHANGED <<phase, teamSize, rounds, owners, assigned, seats, scores>>

\* A player leaves every round.
Dismiss == /\ players' \subseteq players
           /\ seats'  = {s \in seats  : s.player \in players'}
           /\ scores' = {s \in scores : s.player \in players'}
           /\ UNCHANGED <<phase, teamSize, rounds, owners, assigned>>

Share == /\ \/ \E u \in Users : owners' = owners \union {u}
            \/ \E u, v \in owners : u # v /\ owners' = owners \ {u}
         /\ UNCHANGED <<phase, teamSize, rounds, players, assigned, seats, scores>>

Score == /\ \E s \in seats : scores' = scores \union {s}
         /\ UNCHANGED <<phase, teamSize, rounds, owners, players, assigned, seats>>

Delete == phase' = "deleted" /\ Empty'

Next == \/ Create
        \/ /\ phase \in Status
           /\ owners # {}
           /\ \/ Update \/ Assign \/ Admit \/ Dismiss \/ Share \/ Score \/ Delete

Spec == Init /\ [][Next]_rules
=============================================================================
