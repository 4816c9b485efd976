------------------------------ MODULE MCDocuments ------------------------------
(* Documents of a server with two documents of two fields.                   *)
EXTENDS Documents, TLC

CONSTANTS d1, d2, a, b

Symmetry == Permutations(Docs) \cup Permutations(Fields)
=============================================================================
