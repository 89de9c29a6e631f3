------------------------------ MODULE MCCluster ------------------------------
(* Small clusters for TLC. *)
EXTENDS Cluster
==============================================================================
