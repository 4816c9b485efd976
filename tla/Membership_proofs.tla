--------------------------- MODULE Membership_proofs ---------------------------
(***************************************************************************)
(* For every number of nodes and of calls: what ensure_cluster_healthy and   *)
(* rebalance mean when they return.                                          *)
(***************************************************************************)
EXTENDS Membership, TLAPS

States  == {"active", "inactiveAdded", "inactiveFailed", "out"}
RebOps  == {"rebalance", "eject", "eject_failed"}
NodeOps == {"add", "failover", "recover"}

Ats     == {"end", "snapshot", "decide", "add", "failover", "recover", "rebalance",
            "start", "wait", "healthy", "buckets", "done", "failed"}

CallType ==
    [op : {"none", "ensure"} \cup RebOps \cup NodeOps,
     node : Nat,
     at : Ats,
     seen : [Nodes -> States], known : SUBSET Nodes, eject : SUBSET Others]

TypeOK ==
    /\ member \in [Nodes -> States]
    /\ flagged \subseteq Nodes /\ named \subseteq Nodes /\ up \subseteq Nodes
    /\ ejects \subseteq Others
    /\ running \in BOOLEAN
    /\ call \in CallType
    /\ calls \in Nat
    /\ mishap \in BOOLEAN

\* Which steps belong to which call, and where it names another node.
Place(op, at, n) ==
    /\ op = "none" => at = "end"
    /\ op = "ensure" =>
          at \notin {"end", "failover"} /\ (at \in {"decide", "healthy", "buckets", "done"}
                                                 => n \in Others \cup {N + 1})
    /\ op \in RebOps => at \in {"rebalance", "start", "wait", "done", "failed"}
    /\ op \in NodeOps => at \in {op, "done", "failed"} /\ n \in Others
    /\ op = "eject" => n \in Others
    /\ op = "ensure" /\ at \in {"add", "recover", "rebalance", "start", "wait"} => n \in Others

PlaceInv == Place(call.op, call.at, call.node)

\* The node that is asked is in the cluster for good.
SelfInv == member[Self] = "active"

TypeInv == TypeOK /\ PlaceInv /\ SelfInv

\* A node that the next rebalance makes an active member, unless it is ejected.
Rebalanceable(n) ==
    \/ member[n] \in {"active", "inactiveAdded"}
    \/ member[n] = "inactiveFailed" /\ n \in flagged

\* ensure_cluster_healthy: the nodes it has passed are in, and so is the one at
\* hand, once its rebalance has ended.
EnsureInv ==
    call.op = "ensure" /\ ~mishap =>
        /\ running => ejects = {} /\ call.at \in {"start", "wait", "failed"}
        /\ call.eject = {}
        /\ call.at \notin {"snapshot", "failed"} =>
              /\ \A n \in Nodes : call.seen[n] = "active" => member[n] = "active"
              /\ \A n \in Nodes : n < call.node /\ call.seen[n] # "inactiveAdded"
                                     => member[n] = "active"
        /\ call.at \in {"rebalance", "start", "wait"} => Rebalanceable(call.node)
        /\ call.at = "wait" => running \/ member[call.node] = "active"
        /\ call.at \in {"healthy", "buckets", "done"} => call.node = N + 1

\* What a rebalance by itself is asked for.
Settled ==
    /\ \A n \in Nodes : member[n] \in {"active", "out"}
    /\ call.op = "eject" => member[call.node] = "out"

RebInv ==
    call.op \in RebOps /\ ~mishap =>
        /\ running => call.at \in {"start", "wait", "failed"}
        /\ running /\ call.at \in {"start", "wait"} => ejects = call.eject
        /\ call.op = "eject" /\ call.at \in {"start", "wait"} => call.node \in call.eject
        /\ call.at \in {"wait", "done"} => running \/ Settled

USE ConstantsAreCounts DEF Nodes, Others, Self

LEMMA NoCallType == NoCall \in CallType
<1>1. [n \in Nodes |-> "out"] \in [Nodes -> States]
    BY DEF States
<1>2. {} \in SUBSET Nodes /\ {} \in SUBSET Others /\ 1 \in Nat
    OBVIOUS
<1> HIDE DEF Nodes, Others
<1> QED BY <1>1, <1>2 DEF NoCall, CallType, Ats

LEMMA TypeInit == Init => TypeInv
<1> SUFFICES ASSUME Init PROVE TypeInv
    OBVIOUS
<1>1. member \in [Nodes -> States]
    <2>1. {"active", "out"} \subseteq States
        BY DEF States
    <2> HIDE DEF Nodes
    <2> QED BY <2>1 DEF Init
<1>2. TypeOK
    BY <1>1, NoCallType DEF Init, TypeOK
<1>3. call.op = "none" /\ call.at = "end"
    BY DEF Init, NoCall
<1>4. PlaceInv
    BY <1>3 DEF PlaceInv, Place, RebOps, NodeOps
<1> QED BY <1>2, <1>4 DEF TypeInv, Init, SelfInv

\* The steps of Next, without their parameters.
Steps ==
    \/ Snapshot \/ Decide \/ NodesHealthy \/ BucketsHealthy
    \/ AddNode \/ Failover \/ Recover
    \/ RebalanceRead \/ RebalanceStart \/ RebalanceWait

LEMMA TypeBegin ==
    ASSUME TypeInv, NEW op \in {"ensure"} \cup RebOps \cup NodeOps, NEW n \in Nodes,
           op \in NodeOps \cup {"eject"} => n \in Others, Begin(op, n)
    PROVE  TypeInv'
<1> DEFINE at == CASE op = "ensure" -> "snapshot"
                   [] op \in {"rebalance", "eject", "eject_failed"} -> "rebalance"
                   [] OTHER -> op
<1>1. call' = [NoCall EXCEPT !.op = op, !.node = n, !.at = at] /\ calls' = calls + 1
      /\ mishap' = running /\ UNCHANGED cluster
    BY DEF Begin
<1>2. /\ op = "ensure" => at = "snapshot"
      /\ op \in RebOps => at = "rebalance"
      /\ op \in NodeOps => at = op
    BY DEF RebOps, NodeOps
<1> HIDE DEF at
<1>3. /\ call'.op = op /\ call'.node = n /\ call'.at = at
      /\ call' \in CallType
    <2>1. at \in {"snapshot", "rebalance", "add", "failover", "recover"}
        BY <1>2 DEF RebOps, NodeOps
    <2>2. op \in {"none", "ensure"} \cup RebOps \cup NodeOps /\ n \in Nat
        OBVIOUS
    <2>3. NoCall.op = "none" /\ call' = [op |-> op, node |-> n, at |-> at, seen |-> NoCall.seen,
                                         known |-> NoCall.known, eject |-> NoCall.eject]
        BY <1>1 DEF NoCall
    <2> HIDE DEF Nodes, Others
    <2> QED BY <2>1, <2>2, <2>3, NoCallType DEF CallType, Ats
<1>4. TypeOK'
    BY <1>1, <1>3 DEF TypeInv, TypeOK, cluster
<1>5. PlaceInv'
    BY <1>2, <1>3 DEF PlaceInv, Place, RebOps, NodeOps
<1> QED BY <1>1, <1>4, <1>5 DEF TypeInv, SelfInv, cluster

\* A step that only takes the call elsewhere, or to the next node.
LEMMA Goes ==
    ASSUME call \in CallType, NEW at, Goto(at)
    PROVE  /\ call'.at = at /\ call'.op = call.op /\ call'.node = call.node
           /\ call'.seen = call.seen /\ call'.eject = call.eject /\ call'.known = call.known
           /\ at \in Ats => call' \in CallType
<1> HIDE DEF Nodes, Others
<1> QED BY DEF Goto, CallType

LEMMA Advances ==
    ASSUME call \in CallType, NEW at \in Ats, call' = [call EXCEPT !.at = at, !.node = call.node + 1]
    PROVE  /\ call'.at = at /\ call'.op = call.op /\ call'.node = call.node + 1
           /\ call'.seen = call.seen /\ call'.eject = call.eject
           /\ call' \in CallType
<1>1. call.node + 1 \in Nat
    BY DEF CallType
<1> HIDE DEF Nodes, Others
<1> QED BY <1>1 DEF CallType

\* A step of a call changes the cluster no more than its types allow.
Typed ==
    /\ member' \in [Nodes -> States] /\ member'[Self] = "active"
    /\ flagged' \subseteq Nodes /\ named' \subseteq Nodes /\ up' \subseteq Nodes
    /\ ejects' \subseteq Others
    /\ running' \in BOOLEAN /\ calls' \in Nat /\ mishap' \in BOOLEAN

LEMMA TypedStep ==
    ASSUME TypeInv, Typed, call' \in CallType, Place(call'.op, call'.at, call'.node)
    PROVE  TypeInv'
<1> HIDE DEF Nodes, Others
<1> QED BY DEF TypeInv, TypeOK, PlaceInv, SelfInv, Typed

LEMMA TypedGoto ==
    ASSUME TypeInv, Typed, NEW at \in Ats, Goto(at), Place(call.op, at, call.node)
    PROVE  TypeInv'
<1>1. call \in CallType
    BY DEF TypeInv, TypeOK
<1>2. call' \in CallType /\ Place(call'.op, call'.at, call'.node)
    BY <1>1, Goes
<1> QED BY <1>2, TypedStep

LEMMA TypedFail ==
    ASSUME TypeInv, Typed, Fail, call.op # "none"
    PROVE  TypeInv'
<1>1. Place(call.op, "failed", call.node)
    <2>1. Place(call.op, call.at, call.node)
        BY DEF TypeInv, PlaceInv
    <2> HIDE DEF Nodes, Others
    <2> QED BY <2>1 DEF Place, RebOps, NodeOps
<1> QED BY <1>1, TypedGoto DEF Fail, Ats

LEMMA TypeStep ==
    ASSUME TypeInv, Steps
    PROVE  TypeInv'
<1>0. /\ TypeOK /\ member[Self] = "active" /\ call \in CallType
      /\ Place(call.op, call.at, call.node)
    BY DEF TypeInv, TypeOK, PlaceInv, SelfInv
<1>a. /\ member \in [Nodes -> States] /\ flagged \subseteq Nodes /\ named \subseteq Nodes
      /\ up \subseteq Nodes /\ ejects \subseteq Others /\ running \in BOOLEAN
      /\ calls \in Nat /\ mishap \in BOOLEAN
    BY <1>0 DEF TypeOK
<1>b. call.op \in {"none", "ensure"} \cup RebOps \cup NodeOps /\ call.node \in Nat
    BY <1>0 DEF CallType
<1>c. UNCHANGED <<cluster, calls, mishap>> => Typed
    BY <1>0, <1>a DEF cluster, Typed
<1>d. ~At("end") => call.op # "none"
    BY <1>0 DEF Place, At
<1>1. CASE Snapshot
    <2> DEFINE look == [n \in Nodes |-> IF n \in Visible THEN member[n] ELSE "out"]
    <2>1. look \in [Nodes -> States]
        BY <1>a DEF States
    <2>2. call' = [call EXCEPT !.at = "decide", !.node = 2, !.seen = look] \/ Fail
        BY <1>1 DEF Snapshot
    <2>3. Typed /\ call.at = "snapshot" /\ call.op # "none"
        BY <1>1, <1>c, <1>d DEF Snapshot, At
    <2>4. call.op = "ensure" /\ 2 \in Others /\ 2 \in Nat
        BY <1>0, <1>b, <2>3 DEF Place, RebOps, NodeOps
    <2>5. CASE Fail
        BY <2>3, <2>5, TypedFail
    <2>6. CASE call' = [call EXCEPT !.at = "decide", !.node = 2, !.seen = look]
        <3> HIDE DEF look, Nodes, Others
        <3>1. call'.at = "decide" /\ call'.node = 2 /\ call'.op = "ensure" /\ call' \in CallType
            BY <1>0, <2>1, <2>4, <2>6 DEF CallType, Ats
        <3>2. Place("ensure", "decide", 2)
            BY <2>4 DEF Place, RebOps, NodeOps
        <3> QED BY <2>3, <3>1, <3>2, TypedStep
    <2> QED BY <2>2, <2>5, <2>6
<1>2. CASE Decide
    <2>1. Typed /\ call.at = "decide" /\ call.op # "none"
        BY <1>2, <1>c, <1>d DEF Decide, At
    <2>2. call.op = "ensure" /\ call.node \in Others \cup {N + 1}
        BY <1>0, <1>b, <2>1 DEF Place, RebOps, NodeOps
    <2>3. CASE call.node > N /\ Goto("healthy")
        <3>1. Place(call.op, "healthy", call.node)
            BY <2>2 DEF Place, RebOps, NodeOps
        <3> QED BY <2>1, <2>3, <3>1, TypedGoto DEF Ats
    <2>4. CASE call.node <= N /\ (Goto("recover") \/ Goto("add"))
        <3>1. Place(call.op, "recover", call.node) /\ Place(call.op, "add", call.node)
            BY <2>2, <2>4 DEF Place, RebOps, NodeOps
        <3> QED BY <2>1, <2>4, <3>1, TypedGoto DEF Ats
    <2>5. CASE call.node <= N /\ call' = [call EXCEPT !.node = @ + 1]
        <3>1. call' = [call EXCEPT !.at = "decide", !.node = call.node + 1]
            <4> HIDE DEF Nodes, Others
            <4> QED BY <1>0, <2>1, <2>5 DEF CallType
        <3>2. /\ call'.at = "decide" /\ call'.op = "ensure" /\ call'.node = call.node + 1
              /\ call' \in CallType
            BY <1>0, <2>2, <3>1, Advances DEF Ats
        <3>3. Place("ensure", "decide", call.node + 1)
            BY <1>b, <2>2, <2>5 DEF Place, RebOps, NodeOps
        <3> QED BY <2>1, <3>2, <3>3, TypedStep
    <2> QED BY <1>2, <2>3, <2>4, <2>5 DEF Decide
<1>3. CASE NodesHealthy
    <2>1. Typed /\ call.at = "healthy" /\ call.op # "none" /\ (Goto("buckets") \/ Fail)
        BY <1>3, <1>c, <1>d DEF NodesHealthy, At
    <2>2. Place(call.op, "buckets", call.node)
        BY <1>0, <1>b, <2>1 DEF Place, RebOps, NodeOps
    <2> QED BY <2>1, <2>2, TypedGoto, TypedFail DEF Ats
<1>4. CASE BucketsHealthy
    <2>1. Typed /\ call.at = "buckets" /\ call.op # "none" /\ (Goto("done") \/ Goto("healthy") \/ Fail)
        BY <1>4, <1>c, <1>d DEF BucketsHealthy, At
    <2>2. Place(call.op, "done", call.node) /\ Place(call.op, "healthy", call.node)
        BY <1>0, <1>b, <2>1 DEF Place, RebOps, NodeOps
    <2> QED BY <2>1, <2>2, TypedGoto, TypedFail DEF Ats
<1>e. ASSUME Changed, Typed, call.at \in {"add", "recover"}, call.op # "none" PROVE TypeInv'
    <2>1. IF call.op = "ensure" THEN Goto("rebalance") ELSE Goto("done")
        BY <1>e DEF Changed
    <2>2. IF call.op = "ensure" THEN Place(call.op, "rebalance", call.node)
          ELSE Place(call.op, "done", call.node)
        BY <1>0, <1>b, <1>e DEF Place, RebOps, NodeOps
    <2> QED BY <1>e, <2>1, <2>2, TypedGoto DEF Ats
<1>f. call.at \in {"add", "failover", "recover"} => call.node \in Others
    BY <1>0, <1>b DEF Place, RebOps, NodeOps
<1>5. CASE AddNode
    <2>1. /\ call.at = "add" /\ call.op # "none" /\ (Changed \/ Fail) /\ call.node \in Others
          /\ UNCHANGED <<flagged, up, ejects, running, calls, mishap>>
        BY <1>5, <1>d, <1>f DEF AddNode, At
    <2>2. named' \subseteq Nodes
        <3>1. named' \subseteq named \cup {call.node}
            BY <1>5, Zenon DEF AddNode
        <3> QED BY <1>a, <2>1, <3>1
    <2>3. member' \in [Nodes -> States] /\ member'[Self] = "active"
        <3>1. member' = member \/ member' = [member EXCEPT ![call.node] = "inactiveAdded"]
            BY <1>5 DEF AddNode
        <3>2. call.node # Self /\ Self \in Nodes
            BY <2>1
        <3> HIDE DEF Nodes, Others, Self
        <3> QED BY <1>0, <1>a, <3>1, <3>2 DEF States
    <2>4. Typed
        BY <1>a, <2>1, <2>2, <2>3 DEF Typed
    <2> QED BY <1>e, <2>1, <2>4, TypedFail
<1>6. CASE Failover
    <2>1. /\ call.at = "failover" /\ call.op # "none" /\ (Goto("done") \/ Fail) /\ call.node \in Others
          /\ UNCHANGED <<flagged, named, up, ejects, running, calls, mishap>>
        BY <1>6, <1>d, <1>f DEF Failover, At
    <2>2. member' \in [Nodes -> States] /\ member'[Self] = "active"
        <3>1. member' = member \/ member' = [member EXCEPT ![call.node] = "inactiveFailed"]
            BY <1>6 DEF Failover
        <3>2. call.node # Self /\ Self \in Nodes
            BY <2>1
        <3> HIDE DEF Nodes, Others, Self
        <3> QED BY <1>0, <1>a, <3>1, <3>2 DEF States
    <2>3. Typed
        BY <1>a, <2>1, <2>2 DEF Typed
    <2>4. Place(call.op, "done", call.node)
        BY <1>0, <1>b, <2>1 DEF Place, RebOps, NodeOps
    <2> QED BY <2>1, <2>3, <2>4, TypedGoto, TypedFail DEF Ats
<1>7. CASE Recover
    <2>1. /\ call.at = "recover" /\ call.op # "none" /\ (Changed \/ Fail) /\ call.node \in Others
          /\ UNCHANGED <<member, named, up, ejects, running, calls, mishap>>
          /\ (flagged' = flagged \cup {call.node} \/ flagged' = flagged)
        BY <1>7, <1>d, <1>f DEF Recover, At
    <2>2. Typed
        BY <1>0, <1>a, <2>1 DEF Typed
    <2> QED BY <1>e, <2>1, <2>2, TypedFail
<1>8. CASE RebalanceRead
    <2>1. InCluster \in SUBSET Nodes
        BY DEF InCluster
    <2>2. Ejected \in SUBSET Others
        <3>1. CASE call.op = "eject"
            BY <1>0, <3>1 DEF Ejected, Place
        <3>2. CASE call.op = "eject_failed"
            BY <1>0, <3>2 DEF Ejected
        <3> QED BY <3>1, <3>2 DEF Ejected
    <2>3. Typed /\ call.at = "rebalance" /\ call.op # "none"
        BY <1>8, <1>c, <1>d DEF RebalanceRead, At
    <2>4. CASE Fail
        BY <2>3, <2>4, TypedFail
    <2>5. CASE call' = [call EXCEPT !.at = "start", !.known = InCluster, !.eject = Ejected]
        <3>1. /\ call' \in CallType /\ call'.op = call.op /\ call'.at = "start"
              /\ call'.node = call.node
            <4> HIDE DEF Nodes, Others
            <4> QED BY <1>0, <2>1, <2>2, <2>5 DEF CallType, Ats
        <3>2. Place(call.op, "start", call.node)
            BY <1>0, <1>b, <2>3 DEF Place, RebOps, NodeOps
        <3> QED BY <2>3, <3>1, <3>2, TypedStep
    <2> QED BY <1>8, <2>4, <2>5 DEF RebalanceRead
<1>9. CASE RebalanceStart
    <2>1. /\ call.at = "start" /\ call.op # "none"
          /\ UNCHANGED <<member, flagged, named, up, calls, mishap>>
          /\ Goto("wait") \/ UNCHANGED call \/ Fail
        BY <1>9, <1>d DEF RebalanceStart, At
    <2>2. call.eject \subseteq Others
        BY <1>0 DEF CallType
    <2>3. Typed
        BY <1>9, <1>0, <1>a, <2>1, <2>2 DEF RebalanceStart, Typed
    <2>4. Place(call.op, "wait", call.node)
        BY <1>0, <1>b, <2>1 DEF Place, RebOps, NodeOps
    <2>5. CASE UNCHANGED call
        BY <1>0, <2>3, <2>5, TypedStep
    <2> QED BY <2>1, <2>3, <2>4, <2>5, TypedGoto, TypedFail DEF Ats
<1>10. CASE RebalanceWait
    <2>1. Typed /\ call.at = "wait" /\ call.op # "none" /\ (Balanced \/ Fail)
        BY <1>10, <1>c, <1>d DEF RebalanceWait, At
    <2>2. CASE Fail
        BY <2>1, <2>2, TypedFail
    <2>3. CASE Balanced /\ call.op # "ensure"
        <3>1. Place(call.op, "done", call.node)
            BY <1>0, <1>b, <2>1, <2>3 DEF Place, RebOps, NodeOps
        <3> QED BY <2>1, <2>3, <3>1, TypedGoto DEF Balanced, Ats
    <2>4. CASE Balanced /\ call.op = "ensure"
        <3>1. call.node \in Others
            BY <1>0, <2>1, <2>4 DEF Place
        <3>2. /\ call'.at = "decide" /\ call'.op = "ensure" /\ call'.node = call.node + 1
              /\ call' \in CallType
            BY <1>0, <2>4, Advances DEF Balanced, Ats
        <3>3. Place("ensure", "decide", call.node + 1)
            BY <3>1 DEF Place, RebOps, NodeOps
        <3> QED BY <2>1, <3>2, <3>3, TypedStep
    <2> QED BY <2>1, <2>2, <2>3, <2>4
<1> QED BY <1>1, <1>2, <1>3, <1>4, <1>5, <1>6, <1>7, <1>8, <1>9, <1>10 DEF Steps

\* What the cluster does by itself.
Cluster == RebalanceEnds \/ \E n \in Nodes : AutoFailover(n) \/ Down(n) \/ Up(n)

LEMMA TypeCluster ==
    ASSUME TypeInv, Cluster
    PROVE  TypeInv'
<1> USE DEF TypeInv, TypeOK, PlaceInv, SelfInv, States
<1>1. CASE RebalanceEnds
    <2> DEFINE leave == ejects \cup {n \in Nodes : member[n] = "inactiveFailed" /\ n \notin flagged}
               stay  == InCluster \ leave
               after == [n \in Nodes |-> IF n \in stay THEN "active" ELSE "out"]
    <2>1. ejects' = {} /\ running' = FALSE /\ UNCHANGED <<up, call, calls>>
        BY <1>1 DEF RebalanceEnds
    <2>2. CASE mishap' = TRUE /\ UNCHANGED <<member, flagged, named>>
        BY <2>1, <2>2
    <2>3. CASE member' = after /\ flagged' = {} /\ named' = named \cup leave /\ UNCHANGED mishap
        <3>1. leave \subseteq Nodes
            OBVIOUS
        <3>2. Self \in Nodes /\ Self \notin ejects
            OBVIOUS
        <3>3. member[Self] = "active"
            BY DEF SelfInv
        <3>4. Self \in stay
            BY <3>2, <3>3 DEF InCluster
        <3>5. after \in [Nodes -> States] /\ after[Self] = "active"
            BY <3>2, <3>4
        <3>6. named' \subseteq Nodes
            BY <2>3, <3>1
        <3> HIDE DEF leave, stay, after, Nodes, Others
        <3> QED BY <2>1, <2>3, <3>5, <3>6
    <2> QED BY <1>1, <2>2, <2>3 DEF RebalanceEnds
<1>2. ASSUME NEW n \in Nodes, AutoFailover(n) PROVE TypeInv'
    BY <1>2 DEF AutoFailover
<1>3. ASSUME NEW n \in Nodes, Down(n) \/ Up(n) PROVE TypeInv'
    BY <1>3 DEF Down, Up
<1> QED BY <1>1, <1>2, <1>3 DEF Cluster

\* Every step is the beginning of a call, a step of one, or of the cluster.
LEMMA NextCases ==
    ASSUME Next
    PROVE  \/ \E op \in {"ensure"} \cup RebOps \cup NodeOps, n \in Nodes :
                 (op \in NodeOps \cup {"eject"} => n \in Others) /\ Begin(op, n)
           \/ Steps \/ Cluster
<1>1. CASE Begin("ensure", Self) \/ Begin("rebalance", Self) \/ Begin("eject_failed", Self)
    BY <1>1 DEF RebOps, NodeOps
<1>2. CASE \E op \in {"eject", "add", "failover", "recover"}, n \in Others : Begin(op, n)
    BY <1>2 DEF RebOps, NodeOps
<1> QED BY <1>1, <1>2 DEF Next, Steps, Cluster

LEMMA TypeNext ==
    ASSUME TypeInv, [Next]_vars
    PROVE  TypeInv'
<1>1. CASE Next
    BY <1>1, NextCases, TypeBegin, TypeStep, TypeCluster
<1>2. CASE UNCHANGED vars
    BY <1>2 DEF vars, cluster, TypeInv, TypeOK, PlaceInv, SelfInv
<1> QED BY <1>1, <1>2

(***************************************************************************)
(* ensure_cluster_healthy.                                                  *)
(***************************************************************************)
\* A step that leaves the cluster alone.
LEMMA EnsureGoto ==
    ASSUME EnsureInv, call \in CallType, call.op = "ensure", ~mishap,
           UNCHANGED <<member, flagged, ejects, running, mishap>>,
           NEW at, Goto(at),
           running => at \in {"start", "wait", "failed"},
           at \notin {"snapshot", "failed"} => call.at \notin {"snapshot", "failed"},
           at \in {"rebalance", "start", "wait"} => Rebalanceable(call.node),
           at = "wait" => running \/ member[call.node] = "active",
           at \in {"healthy", "buckets", "done"} => call.node = N + 1
    PROVE  EnsureInv'
<1>1. /\ call'.at = at /\ call'.op = call.op /\ call'.node = call.node
      /\ call'.seen = call.seen /\ call'.eject = call.eject
    BY Goes
<1> HIDE DEF Nodes, Others
<1> QED BY <1>1 DEF EnsureInv, Rebalanceable

LEMMA EnsureFail ==
    ASSUME EnsureInv, call \in CallType, call.op = "ensure", ~mishap, Fail,
           UNCHANGED <<ejects, running, mishap>>
    PROVE  EnsureInv'
<1>1. /\ call'.at = "failed" /\ call'.op = call.op /\ call'.eject = call.eject
    BY Goes DEF Fail
<1> HIDE DEF Nodes, Others
<1> QED BY <1>1 DEF EnsureInv

\* The call comes to its next node.
LEMMA EnsureAdvance ==
    ASSUME EnsureInv, call \in CallType, call.op = "ensure", ~mishap, ~running,
           call.at \notin {"snapshot", "failed"}, call.node \in Others,
           UNCHANGED <<member, flagged, ejects, running, mishap>>,
           call.seen[call.node] # "inactiveAdded" => member[call.node] = "active",
           call' = [call EXCEPT !.at = "decide", !.node = call.node + 1]
    PROVE  EnsureInv'
<1>1. /\ call'.at = "decide" /\ call'.op = "ensure" /\ call'.node = call.node + 1
      /\ call'.seen = call.seen /\ call'.eject = call.eject
    BY Advances DEF Ats
<1>2. /\ \A n \in Nodes : call.seen[n] = "active" => member[n] = "active"
      /\ \A n \in Nodes : n < call.node /\ call.seen[n] # "inactiveAdded" => member[n] = "active"
      /\ call.eject = {}
    BY DEF EnsureInv
<1>3. \A n \in Nodes : n < call.node + 1 /\ call.seen[n] # "inactiveAdded" => member[n] = "active"
    BY <1>2
<1> HIDE DEF Nodes, Others
<1> QED BY <1>1, <1>2, <1>3 DEF EnsureInv

\* The steps of a call are of the same call.
LEMMA SameCall ==
    ASSUME call \in CallType, Steps
    PROVE  call'.op = call.op /\ mishap' = mishap
<1>1. mishap' = mishap
    BY DEF Steps, Snapshot, Decide, NodesHealthy, BucketsHealthy, AddNode, Failover,
           Recover, RebalanceRead, RebalanceStart, RebalanceWait
<1>2. \/ \E at : Goto(at)
      \/ \E at, n, m : call' = [call EXCEPT !.at = at, !.node = n, !.seen = m]
      \/ \E at, n, m : call' = [call EXCEPT !.at = at, !.known = n, !.eject = m]
      \/ \E at, n : call' = [call EXCEPT !.at = at, !.node = n]
      \/ \E n : call' = [call EXCEPT !.node = n]
      \/ call' = call
    BY Zenon DEF Steps, Snapshot, Decide, NodesHealthy, BucketsHealthy, AddNode, Failover,
       Recover, RebalanceRead, RebalanceStart, RebalanceWait, Fail, Changed, Balanced
<1> HIDE DEF Nodes, Others
<1> QED BY <1>1, <1>2, Goes DEF CallType

LEMMA EnsureStep ==
    ASSUME TypeInv, EnsureInv, Steps
    PROVE  EnsureInv'
<1>0. /\ call \in CallType /\ member[Self] = "active" /\ member \in [Nodes -> States]
      /\ Place(call.op, call.at, call.node)
    BY DEF TypeInv, TypeOK, PlaceInv, SelfInv
<1> SUFFICES ASSUME call.op = "ensure", ~mishap
             PROVE  EnsureInv'
    BY <1>0, SameCall DEF EnsureInv
<1>e. /\ running => ejects = {} /\ call.at \in {"start", "wait", "failed"}
      /\ call.eject = {}
      /\ call.at \notin {"snapshot", "failed"} =>
            \A n \in Nodes : call.seen[n] = "active" => member[n] = "active"
      /\ call.at \in {"rebalance", "start", "wait"} => Rebalanceable(call.node)
      /\ call.at = "wait" => running \/ member[call.node] = "active"
      /\ call.at \in {"healthy", "buckets", "done"} => call.node = N + 1
    BY DEF EnsureInv
<1>s. UNCHANGED cluster => UNCHANGED <<member, flagged, ejects, running>>
    BY DEF cluster
<1>1. CASE Snapshot
    <2> DEFINE look == [n \in Nodes |-> IF n \in Visible THEN member[n] ELSE "out"]
    <2>1. UNCHANGED <<member, flagged, ejects, running, mishap>> /\ ~running /\ call.at = "snapshot"
        BY <1>1, <1>e, <1>s DEF Snapshot, At
    <2>2. CASE Fail
        BY <1>0, <2>1, <2>2, EnsureFail
    <2>3. CASE call' = [call EXCEPT !.at = "decide", !.node = 2, !.seen = look]
        <3>1. \A n \in Nodes : look[n] = "active" => member[n] = "active"
            OBVIOUS
        <3>2. \A n \in Nodes : n < 2 => member[n] = "active"
            BY <1>0
        <3> HIDE DEF look, Nodes, Others
        <3>3. /\ call'.at = "decide" /\ call'.node = 2 /\ call'.eject = {} /\ call'.op = "ensure"
              /\ call'.seen = look
            BY <1>0, <1>e, <2>3 DEF CallType
        <3> QED BY <2>1, <3>1, <3>2, <3>3 DEF EnsureInv
    <2> QED BY <1>1, <2>2, <2>3 DEF Snapshot
<1>2. CASE Decide
    <2>1. UNCHANGED <<member, flagged, ejects, running, mishap>> /\ call.at = "decide" /\ ~running
        BY <1>2, <1>e, <1>s DEF Decide, At
    <2>2. call.node \in Others \cup {N + 1}
        BY <1>0, <2>1 DEF Place
    <2>3. CASE call.node > N /\ Goto("healthy")
        BY <1>0, <2>1, <2>2, <2>3, EnsureGoto
    <2>4. CASE Goto("recover") \/ Goto("add")
        BY <1>0, <2>1, <2>4, EnsureGoto
    <2>5. CASE /\ call.node <= N /\ call.seen[call.node] \in {"active", "inactiveAdded"}
               /\ call' = [call EXCEPT !.node = @ + 1]
        <3>1. call' = [call EXCEPT !.at = "decide", !.node = call.node + 1]
            <4> HIDE DEF Nodes, Others
            <4> QED BY <1>0, <2>1, <2>5 DEF CallType
        <3>2. call.node \in Others /\ call.node \in Nodes
            BY <2>2, <2>5
        <3>3. call.seen[call.node] # "inactiveAdded" => member[call.node] = "active"
            BY <1>e, <2>1, <2>5, <3>2
        <3> QED BY <1>0, <2>1, <3>1, <3>2, <3>3, EnsureAdvance
    <2> QED BY <1>2, <2>3, <2>4, <2>5 DEF Decide
<1>3. CASE NodesHealthy
    <2>1. UNCHANGED <<member, flagged, ejects, running, mishap>> /\ call.at = "healthy"
          /\ (Goto("buckets") \/ Fail)
        BY <1>3, <1>s DEF NodesHealthy, At
    <2>2. ~running /\ call.node = N + 1
        BY <1>e, <2>1
    <2> QED BY <1>0, <2>1, <2>2, EnsureGoto, EnsureFail
<1>4. CASE BucketsHealthy
    <2>1. UNCHANGED <<member, flagged, ejects, running, mishap>> /\ call.at = "buckets"
          /\ (Goto("done") \/ Goto("healthy") \/ Fail)
        BY <1>4, <1>s DEF BucketsHealthy, At
    <2>2. ~running /\ call.node = N + 1
        BY <1>e, <2>1
    <2> QED BY <1>0, <2>1, <2>2, EnsureGoto, EnsureFail
<1>5. CASE AddNode
    <2>1. call.at = "add" /\ UNCHANGED <<flagged, ejects, running, mishap>> /\ ~running
        BY <1>5, <1>e DEF AddNode, At
    <2>2. CASE Fail
        BY <1>0, <2>1, <2>2, EnsureFail
    <2>3. CASE /\ call.node \notin InCluster /\ Changed
               /\ member' = [member EXCEPT ![call.node] = "inactiveAdded"]
        <3>1. call.node \in Nodes /\ member[call.node] = "out"
            BY <1>0, <2>1, <2>3 DEF Place, InCluster
        <3>2. member'[call.node] = "inactiveAdded" /\ \A n \in Nodes : member[n] = "active" => member'[n] = "active"
            <4> HIDE DEF Nodes
            <4> QED BY <1>0, <2>3, <3>1
        <3>3. Goto("rebalance")
            BY <2>3 DEF Changed
        <3>4. /\ call'.at = "rebalance" /\ call'.op = call.op /\ call'.node = call.node
              /\ call'.seen = call.seen /\ call'.eject = call.eject
            BY <1>0, <3>3, Goes
        <3> HIDE DEF Nodes, Others
        <3> QED BY <2>1, <3>2, <3>4 DEF EnsureInv, Rebalanceable
    <2> QED BY <1>5, <2>2, <2>3, Zenon DEF AddNode
<1>6. CASE Failover
    BY <1>0, <1>6 DEF Failover, At, Place
<1>7. CASE Recover
    <2>1. call.at = "recover" /\ UNCHANGED <<member, ejects, running, mishap>> /\ ~running
        BY <1>7, <1>e DEF Recover, At
    <2>2. CASE Fail
        BY <1>0, <2>1, <2>2, EnsureFail
    <2>3. CASE /\ member[call.node] = "inactiveFailed" /\ Changed
               /\ flagged' = flagged \cup {call.node}
        <3>1. Goto("rebalance")
            BY <2>3 DEF Changed
        <3>2. /\ call'.at = "rebalance" /\ call'.op = call.op /\ call'.node = call.node
              /\ call'.seen = call.seen /\ call'.eject = call.eject
            BY <1>0, <3>1, Goes
        <3> HIDE DEF Nodes, Others
        <3> QED BY <2>1, <2>3, <3>2 DEF EnsureInv, Rebalanceable
    <2> QED BY <1>7, <2>2, <2>3 DEF Recover
<1>8. CASE RebalanceRead
    <2>1. Ejected = {}
        BY DEF Ejected
    <2>2. UNCHANGED <<member, flagged, ejects, running, mishap>> /\ call.at = "rebalance" /\ ~running
        BY <1>8, <1>e, <1>s DEF RebalanceRead, At
    <2>3. CASE Fail
        BY <1>0, <2>2, <2>3, EnsureFail
    <2>4. CASE call' = [call EXCEPT !.at = "start", !.known = InCluster, !.eject = {}]
        <3> HIDE DEF Nodes, Others
        <3>1. /\ call'.at = "start" /\ call'.op = call.op /\ call'.node = call.node
              /\ call'.seen = call.seen /\ call'.eject = {}
            BY <1>0, <2>4 DEF CallType
        <3> QED BY <2>2, <3>1 DEF EnsureInv, Rebalanceable
    <2> QED BY <1>8, <2>1, <2>3, <2>4 DEF RebalanceRead
<1>9. CASE RebalanceStart
    <2>1. call.at = "start" /\ UNCHANGED <<member, flagged, mishap>>
        BY <1>9 DEF RebalanceStart, At
    <2>2. CASE running' = TRUE /\ ejects' = call.eject /\ (Goto("wait") \/ UNCHANGED call)
        <3>1. /\ call'.at \in {"wait", "start"} /\ call'.op = call.op /\ call'.node = call.node
              /\ call'.seen = call.seen /\ call'.eject = call.eject
            BY <1>0, <2>1, <2>2, Goes
        <3> HIDE DEF Nodes, Others
        <3> QED BY <1>e, <2>1, <2>2, <3>1 DEF EnsureInv, Rebalanceable
    <2>3. CASE Fail /\ UNCHANGED <<running, ejects>>
        BY <1>0, <2>1, <2>3, EnsureFail
    <2> QED BY <1>9, <2>2, <2>3 DEF RebalanceStart
<1>10. CASE RebalanceWait
    <2>1. UNCHANGED <<member, flagged, ejects, running, mishap>> /\ call.at = "wait"
        BY <1>10, <1>s DEF RebalanceWait, At
    <2>2. CASE Fail
        BY <1>0, <2>1, <2>2, EnsureFail
    <2>3. CASE ~running /\ call' = [call EXCEPT !.at = "decide", !.node = call.node + 1]
        <3>1. member[call.node] = "active" /\ call.node \in Others
            BY <1>0, <1>e, <2>1, <2>3 DEF Place
        <3> QED BY <1>0, <2>1, <2>3, <3>1, EnsureAdvance
    <2> QED BY <1>10, <2>2, <2>3 DEF RebalanceWait, Balanced
<1> QED BY <1>1, <1>2, <1>3, <1>4, <1>5, <1>6, <1>7, <1>8, <1>9, <1>10 DEF Steps

LEMMA EnsureCluster ==
    ASSUME TypeInv, EnsureInv, Cluster
    PROVE  EnsureInv'
<1> USE DEF EnsureInv, TypeInv, TypeOK, PlaceInv, SelfInv, CallType, Rebalanceable
<1>1. CASE RebalanceEnds
    <2>1. running /\ running' = FALSE /\ call' = call
        BY <1>1 DEF RebalanceEnds
    <2>2. CASE mishap'
        BY <2>1, <2>2
    <2>3. CASE ~mishap'
        <3> DEFINE stay == InCluster \ (ejects \cup {n \in Nodes : member[n] = "inactiveFailed" /\ n \notin flagged})
        <3>1. member' = [n \in Nodes |-> IF n \in stay THEN "active" ELSE "out"] /\ mishap' = mishap
            BY <1>1, <2>3 DEF RebalanceEnds
        <3>2. SUFFICES ASSUME call.op = "ensure" PROVE EnsureInv'
            BY <2>1
        <3>3. ejects = {} /\ call.at \in {"start", "wait", "failed"}
            BY <2>1, <2>3, <3>1, <3>2
        <3>4. \A n \in Nodes : member[n] = "active" => member'[n] = "active"
            BY <3>1, <3>3 DEF InCluster
        <3>5. call.at # "failed" => call.node \in Nodes /\ Rebalanceable(call.node)
            BY <2>3, <3>1, <3>2, <3>3 DEF Place
        <3>6. call.at # "failed" => member'[call.node] = "active"
            BY <3>1, <3>3, <3>5 DEF InCluster
        <3>7. EnsureInv
            OBVIOUS
        <3> HIDE DEF stay, Nodes, Others, TypeInv
        <3> QED BY <2>1, <2>3, <3>1, <3>2, <3>3, <3>4, <3>6, <3>7
    <2> QED BY <2>2, <2>3
<1>2. ASSUME NEW n \in Nodes, AutoFailover(n) PROVE EnsureInv'
    BY <1>2 DEF AutoFailover
<1>3. ASSUME NEW n \in Nodes, Down(n) \/ Up(n) PROVE EnsureInv'
    <2>1. UNCHANGED <<member, flagged, ejects, running, call, mishap>>
        BY <1>3 DEF Down, Up
    <2> HIDE DEF Nodes, Others, TypeInv, CallType
    <2> QED BY <2>1
<1> QED BY <1>1, <1>2, <1>3 DEF Cluster

\* When a call begins, a rebalance that still runs is a mishap for it.
LEMMA BeginInv ==
    ASSUME TypeInv, NEW op \in {"ensure"} \cup RebOps \cup NodeOps, NEW n \in Nodes, Begin(op, n)
    PROVE  EnsureInv' /\ RebInv'
<1> DEFINE at == CASE op = "ensure" -> "snapshot"
                   [] op \in {"rebalance", "eject", "eject_failed"} -> "rebalance"
                   [] OTHER -> op
<1>1. call' = [NoCall EXCEPT !.op = op, !.node = n, !.at = at]
      /\ mishap' = running /\ UNCHANGED cluster
    BY DEF Begin
<1>2. /\ op = "ensure" => at = "snapshot"
      /\ op \in RebOps => at = "rebalance"
    BY DEF RebOps
<1> HIDE DEF at
<1>3. call'.op = op /\ call'.at = at /\ call'.eject = {} /\ running' = running
    BY <1>1 DEF NoCall, cluster
<1>4. EnsureInv'
    BY <1>1, <1>2, <1>3 DEF EnsureInv
<1>5. RebInv'
    BY <1>1, <1>2, <1>3 DEF RebInv
<1> QED BY <1>4, <1>5

LEMMA EnsureNext ==
    ASSUME TypeInv, EnsureInv, TypeInv', [Next]_vars
    PROVE  EnsureInv'
<1>1. CASE Next
    BY <1>1, NextCases, BeginInv, EnsureStep, EnsureCluster
<1>2. CASE UNCHANGED vars
    BY <1>2 DEF vars, cluster, EnsureInv, Rebalanceable
<1> QED BY <1>1, <1>2

\* ensure_cluster_healthy returns only when every node is an active member, unless
\* it was waiting to be rebalanced in when the call began or the cluster changed
\* by itself.
THEOREM EnsureMeansAllInCorrect == Spec => []EnsureMeansAllIn
<1>1. Init => EnsureInv
    BY DEF Init, NoCall, EnsureInv
<1>2. TypeInv /\ EnsureInv => EnsureMeansAllIn
    BY DEF TypeInv, TypeOK, CallType, EnsureInv, EnsureMeansAllIn, Done, At
<1> QED BY TypeInit, TypeNext, EnsureNext, <1>1, <1>2, PTL DEF Spec

(***************************************************************************)
(* rebalance.                                                               *)
(***************************************************************************)
LEMMA RebStep ==
    ASSUME TypeInv, RebInv, Steps
    PROVE  RebInv'
<1>0. /\ call \in CallType /\ Place(call.op, call.at, call.node)
    BY DEF TypeInv, TypeOK, PlaceInv
<1> SUFFICES ASSUME call.op \in RebOps, ~mishap
             PROVE  RebInv'
    BY <1>0, SameCall DEF RebInv
<1>e. /\ running => call.at \in {"start", "wait", "failed"}
      /\ running /\ call.at \in {"start", "wait"} => ejects = call.eject
      /\ call.op = "eject" /\ call.at \in {"start", "wait"} => call.node \in call.eject
      /\ call.at \in {"wait", "done"} => running \/ Settled
    BY DEF RebInv
<1>f. ASSUME Fail, UNCHANGED <<running, ejects, mishap>> PROVE RebInv'
    <2>1. call'.at = "failed" /\ call'.op = call.op
        BY <1>0, <1>f, Goes DEF Fail
    <2> QED BY <2>1 DEF RebInv
<1>1. CASE RebalanceRead
    <2>1. UNCHANGED <<member, running, ejects, mishap>> /\ call.at = "rebalance" /\ ~running
        BY <1>1, <1>e DEF RebalanceRead, cluster, At
    <2>2. call.op = "eject" /\ Ejected # {} => call.node \in Ejected
        BY DEF Ejected
    <2>3. CASE Fail
        BY <2>1, <2>3, <1>f
    <2>4. CASE /\ call.op = "eject" => Ejected # {}
               /\ call' = [call EXCEPT !.at = "start", !.known = InCluster, !.eject = Ejected]
        <3> HIDE DEF Nodes, Others
        <3>1. /\ call'.at = "start" /\ call'.op = call.op /\ call'.node = call.node
              /\ call'.eject = Ejected
            BY <1>0, <2>4 DEF CallType
        <3> QED BY <2>1, <2>2, <2>4, <3>1 DEF RebInv
    <2> QED BY <1>1, <2>3, <2>4 DEF RebalanceRead
<1>2. CASE RebalanceStart
    <2>1. call.at = "start" /\ UNCHANGED <<member, mishap>>
        BY <1>2 DEF RebalanceStart, At
    <2>2. CASE running' = TRUE /\ ejects' = call.eject /\ (Goto("wait") \/ UNCHANGED call)
        <3>1. /\ call'.at \in {"wait", "start"} /\ call'.op = call.op /\ call'.node = call.node
              /\ call'.eject = call.eject
            BY <1>0, <2>1, <2>2, Goes
        <3> HIDE DEF Nodes, Others
        <3> QED BY <1>e, <2>1, <2>2, <3>1 DEF RebInv
    <2>3. CASE Fail /\ UNCHANGED <<running, ejects>>
        BY <2>1, <2>3, <1>f
    <2> QED BY <1>2, <2>2, <2>3 DEF RebalanceStart
<1>3. CASE RebalanceWait
    <2>1. UNCHANGED <<member, running, ejects, mishap>> /\ call.at = "wait"
        BY <1>3 DEF RebalanceWait, At, cluster
    <2>2. CASE ~running /\ Goto("done")
        <3>1. /\ call'.at = "done" /\ call'.op = call.op /\ call'.node = call.node
              /\ call'.eject = call.eject
            BY <1>0, <2>2, Goes
        <3>2. Settled /\ Settled'
            BY <1>e, <2>1, <2>2, <3>1 DEF Settled
        <3> QED BY <2>1, <2>2, <3>1, <3>2 DEF RebInv
    <2>3. CASE Fail
        BY <2>1, <2>3, <1>f
    <2> QED BY <1>3, <2>2, <2>3 DEF RebalanceWait, Balanced, RebOps
<1>4. call.at \in {"rebalance", "start", "wait", "done", "failed"}
    BY <1>0 DEF Place
<1> QED BY <1>1, <1>2, <1>3, <1>4 DEF Steps, Snapshot, Decide, NodesHealthy, BucketsHealthy, AddNode,
                                      Failover, Recover, At

LEMMA RebCluster ==
    ASSUME TypeInv, RebInv, Cluster
    PROVE  RebInv'
<1> USE DEF RebInv, RebOps, TypeInv, TypeOK, PlaceInv, CallType, Settled
<1>1. CASE RebalanceEnds
    BY <1>1 DEF RebalanceEnds, InCluster, States
<1>2. ASSUME NEW n \in Nodes, AutoFailover(n) PROVE RebInv'
    BY <1>2 DEF AutoFailover
<1>3. ASSUME NEW n \in Nodes, Down(n) \/ Up(n) PROVE RebInv'
    BY <1>3 DEF Down, Up
<1> QED BY <1>1, <1>2, <1>3 DEF Cluster

LEMMA RebNext ==
    ASSUME TypeInv, RebInv, [Next]_vars
    PROVE  RebInv'
<1>1. CASE Next
    BY <1>1, NextCases, BeginInv, RebStep, RebCluster
<1>2. CASE UNCHANGED vars
    BY <1>2 DEF vars, cluster, RebInv, Settled
<1> QED BY <1>1, <1>2

\* rebalance returns only when the cluster is what was asked for, also when the
\* request was sent twice, unless a rebalance failed or the cluster changed by itself.
THEOREM RebalanceIsDoneCorrect == Spec => []RebalanceIsDone
<1>1. Init => RebInv
    BY DEF Init, NoCall, RebInv, RebOps
<1>2. TypeInv /\ RebInv => RebalanceIsDone
    BY DEF RebInv, RebOps, Settled, RebalanceIsDone, Done, At
<1> QED BY TypeInit, TypeNext, RebNext, <1>1, <1>2, PTL DEF Spec
=============================================================================
