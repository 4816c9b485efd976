----------------------------- MODULE MCLogSlurp -----------------------------
(* LogSlurp with two devices: three pieces come from one device, as one     *)
(* message or several, so that their order shows, or from both, so that the *)
(* pieces of one can come between those of the other's message.             *)
EXTENDS LogSlurp
=============================================================================
