----------------------------- MODULE MCAplOverlay -----------------------------
(* Instance of AplOverlay for TLC: two replicas, one co-written file and one  *)
(* team.                                                                      *)
EXTENDS AplOverlay

CONSTANTS r1, r2, otomi, team
=============================================================================
