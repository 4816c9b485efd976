------------------------------- MODULE MCBackend -------------------------------
(* Backend with two topologies that share instances, so that the load        *)
(* balancer of one is met by the other: a cluster of two nodes with two       *)
(* gateways behind it, and two clusters of one node with a gateway of the     *)
(* second behind it and two Edge Servers.                                     *)
EXTENDS Backend

Sgw(cluster, version) == [cluster |-> cluster, version |-> version]

MCTopologies ==
    {[clusters |-> <<2>>, sgw |-> <<Sgw(1, "3.3"), Sgw(1, "3.3")>>, es |-> 0, lb |-> <<<<1, 2>>>>, ls |-> TRUE],
     [clusters |-> <<1, 1>>, sgw |-> <<Sgw(2, "4.0")>>, es |-> 2, lb |-> <<<<1>>>>, ls |-> FALSE]}

MCAll == {"apply", "cbs", "sgw", "es", "lb", "ls", "ts"}

MCStepSets == {MCAll, MCAll \ {"apply", "cbs"}, {"apply", "es", "lb"}}

MCDestroys == {[kinds |-> {"all"}, index |-> 0], [kinds |-> {"cbs", "ls"}, index |-> 0],
               [kinds |-> {"sgw"}, index |-> 1]}
=============================================================================
