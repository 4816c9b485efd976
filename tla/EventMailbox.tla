------------------------------ MODULE EventMailbox ------------------------------
(***************************************************************************)
(* What /getReplicatorStatus promises to a test: the documents a replicator *)
(* has replicated wait at the server until an answer takes them, each goes  *)
(* into one answer, in order, and an answer that says STOPPED takes all     *)
(* that are left.  A lossy mailbox may also lose documents.                 *)
(***************************************************************************)
EXTENDS Naturals, Sequences

CONSTANTS Repls, Docs

VARIABLES lossy,
          waiting,    \* replicated documents the test has not seen, by replicator
          received,   \* those it has seen
          stopped,    \* the replicators that have stopped
          heard       \* those of which the test knows it

vars == <<lossy, waiting, received, stopped, heard>>

Init ==
    /\ lossy \in BOOLEAN
    /\ waiting = [r \in Repls |-> <<>>]
    /\ received = [r \in Repls |-> <<>>]
    /\ stopped = {}
    /\ heard = {}

Post(r, d) ==
    /\ r \notin stopped
    /\ waiting' = [waiting EXCEPT ![r] = Append(waiting[r], d)]
    /\ UNCHANGED <<lossy, received, stopped, heard>>

Stop(r) ==
    /\ stopped' = stopped \cup {r}
    /\ UNCHANGED <<lossy, waiting, received, heard>>

Deliver(r) ==
    \E k \in 0..Len(waiting[r]) :
        /\ received' = [received EXCEPT ![r] = received[r] \o SubSeq(waiting[r], 1, k)]
        /\ waiting' = [waiting EXCEPT ![r] = SubSeq(waiting[r], k + 1, Len(waiting[r]))]
        /\ \/ heard' = heard
           \/ r \in stopped /\ k = Len(waiting[r]) /\ heard' = heard \cup {r}
        /\ UNCHANGED <<lossy, stopped>>

Lose(r) ==
    /\ lossy
    /\ \E k \in 0..Len(waiting[r]) :
           waiting' = [waiting EXCEPT ![r] = SubSeq(waiting[r], 1, k)]
    /\ UNCHANGED <<lossy, received, stopped, heard>>

Next == \E r \in Repls : Stop(r) \/ Deliver(r) \/ Lose(r) \/ \E d \in Docs : Post(r, d)

Spec == Init /\ [][Next]_vars
=============================================================================
