----------------------------- MODULE MCRollout -----------------------------
(***************************************************************************)
(* Rollout for TLC, with the times of main.go and site.caddy, and the time *)
(* a container runtime waits when it is told nothing else.                 *)
(***************************************************************************)
EXTENDS Rollout

CONSTANTS c1

=============================================================================
