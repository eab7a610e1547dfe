------------------------------ MODULE MCDBAdmin ------------------------------
(* Instance of DBAdmin for TLC: two databases, and the two workflows that     *)
(* rotate their credentials.                                                  *)
EXTENDS DBAdmin

CONSTANTS d1, d2, bootstrap, rotation
=============================================================================
