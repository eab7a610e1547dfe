-------------------------- MODULE MCObjKeyRotation --------------------------
(* Instances of ObjKeyRotation for TLC: the rotator lane of the leading        *)
(* reconciler and one bootstrap job.                                           *)
EXTENDS ObjKeyRotation

CONSTANTS lane, job
=============================================================================
