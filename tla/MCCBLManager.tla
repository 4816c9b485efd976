---------------------------- MODULE MCCBLManager ----------------------------
(* CBLManager on a small instance.  The worker threads are interchangeable,  *)
(* but a liveness property is checked, so no symmetry is declared.           *)
EXTENDS CBLManager
=============================================================================
