------------------------------- MODULE MCDataset -------------------------------
(* Dataset with two Sync Gateway nodes: one is called, the other one polls.  *)
EXTENDS Dataset
=============================================================================
