--------------------------- MODULE MCReplicatorEvents ---------------------------
(* ReplicatorEvents with a replicator that is started twice, and events that *)
(* may be the same or different.                                           *)
EXTENDS ReplicatorEvents
=============================================================================
