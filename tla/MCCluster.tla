----------------------------- MODULE MCCluster -----------------------------
(***************************************************************************)
(* Cluster on small instances: the registry and the agents it is about.    *)
(***************************************************************************)
EXTENDS Cluster
=============================================================================
