------------------------------- MODULE SharedLog -------------------------------
(***************************************************************************)
(* What the log slurper promises to a test session: one log to which the   *)
(* devices append the pieces of their messages, each piece whole and known *)
(* by its device, in the order the device sent them and without a gap, until*)
(* the log is finished; then it is frozen.  A message of several pieces may *)
(* have pieces of other devices between them.                              *)
(***************************************************************************)
EXTENDS Naturals, Sequences

CONSTANT Devices

VARIABLES log,       \* the pieces, each with the device that wrote it
          count,     \* how many pieces each device has in the log
          finished

Piece(d, n) == [device |-> d, number |-> n]

Init ==
    /\ log = <<>>
    /\ count = [d \in Devices |-> 0]
    /\ finished = FALSE

AppendPiece(d) ==
    /\ ~finished
    /\ log' = Append(log, Piece(d, count[d] + 1))
    /\ count' = [count EXCEPT ![d] = count[d] + 1]
    /\ UNCHANGED finished

Finish ==
    /\ finished' = TRUE
    /\ UNCHANGED <<log, count>>

Next == Finish \/ \E d \in Devices : AppendPiece(d)

Spec == Init /\ [][Next]_<<log, count, finished>>
=============================================================================
