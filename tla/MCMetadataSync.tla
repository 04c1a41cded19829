--------------------------- MODULE MCMetadataSync ---------------------------
(* MetadataSync on small instances. *)
EXTENDS MetadataSync, TLC

ClientSymmetry == Permutations(Clients)
=============================================================================
