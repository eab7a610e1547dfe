-------------------------- MODULE MCReconcilerLease --------------------------
(* Instance of LeaseTiming for TLC: two replicas whose clocks are a tick      *)
(* apart.                                                                     *)
EXTENDS LeaseTiming

CONSTANTS r1, r2

UnevenSkew == [r \in Replica |-> IF r = r1 THEN 1 ELSE 0]
=============================================================================
