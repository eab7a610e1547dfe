------------------------- MODULE MCESStoreRecovery -------------------------
(* Model-checking instance of ESStoreRecovery: two replicas, one object that
   reads the store and one that writes to it.                              *)
EXTENDS ESStoreRecovery

CONSTANTS r1, r2, read1, push
=============================================================================
