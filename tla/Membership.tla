------------------------------ MODULE Membership ------------------------------
(***************************************************************************)
(* The membership of a Couchbase Server cluster as tests change it: add_node,*)
(* rebalance, failover, recover, ensure_cluster_healthy and what they wait   *)
(* for (client/src/cbltest/api/couchbaseserver.py).  A test makes one call   *)
(* at a time; meanwhile nodes go down and come up, the cluster fails nodes   *)
(* over, a rebalance takes its time and may fail, answers are lost.          *)
(* The cluster is modelled from how the calls use it: it refuses a rebalance *)
(* whose list of nodes is not the current one, and a rebalance removes the   *)
(* nodes that have failed over and are not set to recover.                   *)
(***************************************************************************)
EXTENDS Naturals, FiniteSets

CONSTANTS N,       \* Couchbase Server nodes; calls go to node 1
          MaxCalls \* bound: calls made

\* With a single node ensure_cluster_healthy has nothing to do.
ASSUME ConstantsAreCounts == N \in Nat \ {0, 1} /\ MaxCalls \in Nat

VARIABLES
    member,  \* clusterMembership of each node, "out" if it is in no cluster
    flagged, \* the failed nodes with a recovery type
    named,   \* the nodes listed by the hostname the tests know
    up,      \* the nodes that run
    ejects,  \* the nodes the rebalance in progress removes
    running, \* a rebalance is in progress
    call,    \* the call in progress, or how the last one ended
    calls,   \* calls made
    mishap   \* history: a rebalance has failed, a node has failed over by itself, or a
             \* rebalance of an earlier call was still running, since it began

cluster == <<member, flagged, named, up, ejects, running>>
vars == <<cluster, call, calls, mishap>>

Self    == 1
Nodes   == 1..N
Others  == Nodes \ {Self}
InCluster == {n \in Nodes : member[n] # "out"}
\* The nodes that a request finds by the hostname of a CouchbaseServer.
Visible == InCluster \cap named

NoCall  == [op |-> "none", node |-> Self, at |-> "end",
            seen |-> [n \in Nodes |-> "out"], \* what ensure_cluster_healthy went by
            known |-> {}, eject |-> {}]        \* what the rebalance asks for

Init ==
    /\ member \in [Nodes -> {"active", "out"}] /\ member[Self] = "active"
    /\ flagged = {}
    /\ named = Nodes
    /\ up = Nodes
    /\ ejects = {}
    /\ running = FALSE
    /\ call = NoCall
    /\ calls = 0
    /\ mishap = FALSE

At(at)   == call.at = at
Goto(at) == call' = [call EXCEPT !.at = at]
Fail     == Goto("failed")

Begin(op, n) ==
    /\ call.at \in {"end", "done", "failed"} /\ calls < MaxCalls
    /\ calls' = calls + 1
    /\ mishap' = running
    /\ call' = [NoCall EXCEPT !.op = op, !.node = n,
                              !.at = CASE op = "ensure" -> "snapshot"
                                       [] op \in {"rebalance", "eject", "eject_failed"} -> "rebalance"
                                       [] OTHER -> op]
    /\ UNCHANGED cluster

----------------------------------------------------------------------------
\* ensure_cluster_healthy

\* It goes by the state of the cluster when it began.
Snapshot ==
    /\ At("snapshot")
    /\ \/ call' = [call EXCEPT !.at = "decide", !.node = 2,
                               !.seen = [n \in Nodes |-> IF n \in Visible THEN member[n] ELSE "out"]]
       \/ Fail
    /\ UNCHANGED <<cluster, calls, mishap>>

\* Bug: a node that has failed over is in the cluster, so nothing is done.
Decide_AnyMember ==
    /\ At("decide")
    /\ IF call.node > N THEN Goto("healthy")
       ELSE IF call.seen[call.node] = "out" THEN Goto("add")
       ELSE call' = [call EXCEPT !.node = @ + 1]
    /\ UNCHANGED <<cluster, calls, mishap>>

\* The next of cbs_servers: recover it, add it, or leave it.
Decide ==
    /\ At("decide")
    /\ \/ call.node > N /\ Goto("healthy")
       \/ call.node <= N /\ call.seen[call.node] = "inactiveFailed" /\ Goto("recover")
       \/ call.node <= N /\ call.seen[call.node] = "out" /\ Goto("add")
       \/ /\ call.node <= N /\ call.seen[call.node] \in {"active", "inactiveAdded"}
          /\ call' = [call EXCEPT !.node = @ + 1]
    /\ UNCHANGED <<cluster, calls, mishap>>

\* What follows adding or recovering a node, and a rebalance.
Changed == IF call.op = "ensure" THEN Goto("rebalance") ELSE Goto("done")
Balanced == IF call.op = "ensure" THEN call' = [call EXCEPT !.at = "decide", !.node = @ + 1]
            ELSE Goto("done")

\* wait_for_cluster_healthy: the nodes, then the buckets; it starts over until
\* both are right or its time is up.
NodesHealthy ==
    /\ At("healthy")
    /\ \/ ~running /\ (\A n \in Nodes : member[n] = "active" => n \in up) /\ Goto("buckets")
       \/ (running \/ \E n \in Nodes : member[n] = "active" /\ n \notin up) /\ Fail
    /\ UNCHANGED <<cluster, calls, mishap>>

BucketsHealthy ==
    /\ At("buckets")
    /\ Goto("done") \/ Goto("healthy") \/ Fail
    /\ UNCHANGED <<cluster, calls, mishap>>

----------------------------------------------------------------------------
\* add_node, failover, recover

\* The node is added by its internal hostname if it tells it, and then gets the
\* alternate address that the tests know it by, if that works.  A retry after a
\* lost answer fails.
AddNode ==
    LET n == call.node IN
    /\ At("add")
    /\ \/ /\ n \in up /\ n \notin InCluster /\ ~running
          /\ member' = [member EXCEPT ![n] = "inactiveAdded"]
          /\ \/ Changed /\ \E set \in BOOLEAN : named' = IF set THEN named \cup {n} ELSE named \ {n}
             \/ Fail /\ named' = named \ {n}
       \/ Fail /\ UNCHANGED <<member, named>>
    /\ UNCHANGED <<flagged, up, ejects, running, calls, mishap>>

Failover ==
    LET n == call.node IN
    /\ At("failover")
    /\ \/ /\ n \in Visible /\ member[n] = "active" /\ ~running
          /\ member' = [member EXCEPT ![n] = "inactiveFailed"]
          /\ Goto("done") \/ Fail
       \/ Fail /\ UNCHANGED member
    /\ UNCHANGED <<flagged, named, up, ejects, running, calls, mishap>>

Recover ==
    LET n == call.node IN
    /\ At("recover")
    /\ \/ /\ n \in Visible /\ member[n] = "inactiveFailed" /\ n \in up
          /\ flagged' = flagged \cup {n}
          /\ Changed \/ Fail
       \/ Fail /\ UNCHANGED flagged
    /\ UNCHANGED <<member, named, up, ejects, running, calls, mishap>>

----------------------------------------------------------------------------
\* rebalance

\* The nodes to be ejected: the one that is named, or all that have failed over.
Ejected ==
    CASE call.op = "eject"        -> {call.node} \cap Visible
      [] call.op = "eject_failed" -> {n \in Nodes : member[n] = "inactiveFailed"}
      [] OTHER                    -> {}

RebalanceRead ==
    /\ At("rebalance")
    /\ \/ /\ call.op = "eject" => Ejected # {}
          /\ call' = [call EXCEPT !.at = "start", !.known = InCluster, !.eject = Ejected]
       \/ Fail
    /\ UNCHANGED <<cluster, calls, mishap>>

\* It is tried again when its answer is lost, with the same lists.
RebalanceStart ==
    /\ At("start")
    /\ \/ /\ call.known = InCluster /\ ~running
          /\ running' = TRUE
          /\ ejects' = call.eject
          /\ Goto("wait") \/ UNCHANGED call
       \/ Fail /\ UNCHANGED <<running, ejects>>
    /\ UNCHANGED <<member, flagged, named, up, calls, mishap>>

\* Bug: the call returns when the rebalance has started.
RebalanceWait_Skip ==
    /\ At("wait") /\ Balanced
    /\ UNCHANGED <<cluster, calls, mishap>>

\* _wait_for_rebalance_completion: also a rebalance that failed has completed.
RebalanceWait ==
    /\ At("wait")
    /\ \/ ~running /\ Balanced
       \/ running /\ Fail
    /\ UNCHANGED <<cluster, calls, mishap>>

----------------------------------------------------------------------------
\* The cluster.

RebalanceEnds ==
    LET leave == ejects \cup {n \in Nodes : member[n] = "inactiveFailed" /\ n \notin flagged}
        stay  == InCluster \ leave
    IN
    /\ running /\ running' = FALSE /\ ejects' = {}
    /\ \/ /\ stay \subseteq up
          /\ member' = [n \in Nodes |-> IF n \in stay THEN "active" ELSE "out"]
          /\ flagged' = {}
          /\ named' = named \cup leave
          /\ UNCHANGED mishap
       \/ mishap' = TRUE /\ UNCHANGED <<member, flagged, named>>
    /\ UNCHANGED <<up, call, calls>>

AutoFailover(n) ==
    /\ n \in Others \ up /\ member[n] = "active" /\ ~running
    /\ member' = [member EXCEPT ![n] = "inactiveFailed"]
    /\ mishap' = TRUE
    /\ UNCHANGED <<flagged, named, up, ejects, running, call, calls>>

\* stop_server, start_server, or a crash.
Down(n) == n \in up \ {Self} /\ up' = up \ {n} /\ UNCHANGED <<member, flagged, named, ejects, running, call, calls, mishap>>
Up(n)   == n \in Nodes \ up /\ up' = up \cup {n} /\ UNCHANGED <<member, flagged, named, ejects, running, call, calls, mishap>>

Next ==
    \/ Begin("ensure", Self) \/ Begin("rebalance", Self) \/ Begin("eject_failed", Self)
    \/ \E op \in {"eject", "add", "failover", "recover"}, n \in Others : Begin(op, n)
    \/ Snapshot \/ Decide \/ NodesHealthy \/ BucketsHealthy
    \/ AddNode \/ Failover \/ Recover
    \/ RebalanceRead \/ RebalanceStart \/ RebalanceWait
    \/ RebalanceEnds
    \/ \E n \in Nodes : AutoFailover(n) \/ Down(n) \/ Up(n)

Spec == Init /\ [][Next]_vars

----------------------------------------------------------------------------
Done(ops) == call.op \in ops /\ At("done") /\ ~mishap

\* When ensure_cluster_healthy returns, every node is an active member that was
\* there at the last look, whatever was missing or had failed when it began: also
\* when the rebalance for one node has removed another one, or a node went down
\* meanwhile.  Not so for a node that was added and never rebalanced in, and not
\* when the cluster changed by itself.
EnsureMeansAllIn ==
    Done({"ensure"}) /\ (\A n \in Nodes : call.seen[n] # "inactiveAdded")
        => \A n \in Nodes : member[n] = "active"

\* When rebalance returns, the cluster is what was asked for: nobody waits to be
\* added, no node that has failed over is left, and the node to be ejected is out,
\* also if the rebalance was asked for twice because its answer was lost.
RebalanceIsDone ==
    Done({"rebalance", "eject", "eject_failed"})
        => /\ \A n \in Nodes : member[n] \in {"active", "out"}
           /\ call.op = "eject" => member[call.node] = "out"
=============================================================================
