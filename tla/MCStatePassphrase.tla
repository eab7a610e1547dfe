-------------------------- MODULE MCStatePassphrase --------------------------
(* Instance of StatePassphrase for TLC: two deployments with a shared VPC and *)
(* a cluster each, two operators.                                             *)
EXTENDS StatePassphrase

CONSTANTS dep1, dep2, vpc, cluster, net, c1, c2, me, you

SharedNetwork ==
  [x \in Deployment \X Root |-> IF x[2] = vpc THEN net ELSE IF x[1] = dep1 THEN c1 ELSE c2]
=============================================================================
