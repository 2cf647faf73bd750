----------------------------- MODULE MCDelivery -----------------------------
(***************************************************************************)
(* Delivery to one target, in behaviours of deployments or of releases.    *)
(***************************************************************************)
EXTENDS Delivery

MCLimits == {[deploys |-> 4, releases |-> 0], [deploys |-> 1, releases |-> 3]}
=============================================================================
