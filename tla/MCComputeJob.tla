---------------------------- MODULE MCComputeJob ----------------------------
(* ComputeJob on both engines. *)
EXTENDS ComputeJob

BothEngines == {"spark", "ray"}
=============================================================================
