---------------------------- MODULE MCPATRotation ----------------------------
(* Instance of PATRotation for TLC: two environments, and a token for every   *)
(* week in which one may be minted while those before it are valid.           *)
EXTENDS PATRotation

CONSTANTS dep1, dep2, t1, t2, t3, t4, t5, t6, t7
=============================================================================
