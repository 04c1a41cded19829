---- MODULE MCDeployment ----
(* The models are the model values m1 and m2 of the cfgs; the deployment is created with m1. *)
EXTENDS Deployment
====
