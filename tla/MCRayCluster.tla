---------------------------- MODULE MCRayCluster ----------------------------
(* RayCluster on one or two compute clusters. *)
EXTENDS RayCluster

CONSTANTS k1, k2
=============================================================================
