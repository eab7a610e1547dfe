------------------------- MODULE MCReconcilerManager -------------------------
(* Model-checking instance of ReconcilerManager.  The lanes are named for the
   ones buildReconcilers makes:
     sc   sc-demote    gated, watches StorageClasses
     vol  volume-tags  gated, watches PVs, waits for the Linode token
     apl  apl-overlay  gated, waits for the object-storage credential
     obs  observe      not gated, needs nothing, has a ticker only           *)
EXTENDS ReconcilerManager

CONSTANTS sc, vol, apl, obs
=============================================================================
