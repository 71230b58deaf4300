-------------------------- MODULE MCSessionLifetime --------------------------
(* An instance of SessionLifetime for TLC. *)
EXTENDS SessionLifetime
==============================================================================
