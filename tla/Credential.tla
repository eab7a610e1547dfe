------------------------------ MODULE Credential ------------------------------
(***************************************************************************)
(* What the rotation of a credential promises to those who use it, whoever *)
(* rotates and whatever fails: a program may publish a new key, at some    *)
(* time the consumers adopt the published one, and a key may be retired    *)
(* only when it is neither.                                                *)
(***************************************************************************)
EXTENDS Naturals

VARIABLES
  published,  \* key the store names, 0 for none; later keys are greater
  inUse,      \* key the consumers authenticate with, 0 for none
  retired     \* keys the rotation has revoked

vars == <<published, inUse, retired>>

\* Consumers start with what is published.
Init == published \in Nat /\ inUse = published /\ retired = {}

\* A rotation only goes forward.
Publish ==
  /\ published' \in Nat \ retired
  /\ published' > published /\ published' > inUse
  /\ UNCHANGED <<inUse, retired>>

\* Someone else wipes the store.
Withdraw == published' = 0 /\ UNCHANGED <<inUse, retired>>

Adopt ==
  /\ published # 0
  /\ inUse' = published
  /\ UNCHANGED <<published, retired>>

Retire ==
  /\ retired \subseteq retired'
  /\ {published, inUse} \cap retired' = {}
  /\ UNCHANGED <<published, inUse>>

Next == Publish \/ Withdraw \/ Adopt \/ Retire

Spec == Init /\ [][Next]_vars
=============================================================================
