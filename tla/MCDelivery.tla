----------------------------- MODULE MCDelivery -----------------------------
(* Two members of a workspace, one of them at an address that bounces. *)
EXTENDS Delivery
=============================================================================
