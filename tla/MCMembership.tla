----------------------------- MODULE MCMembership -----------------------------
(* Membership of a cluster of three nodes.                                   *)
EXTENDS Membership
=============================================================================
