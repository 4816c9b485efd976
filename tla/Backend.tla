-------------------------------- MODULE Backend --------------------------------
(***************************************************************************)
(* start_backend.py and stop_backend.py (environment/aws): what the scripts  *)
(* create with terraform, how the addresses of the instances get into the    *)
(* topology, how each kind of server is provisioned, and the configuration   *)
(* that the tests are given.  Scripts run one after the other with a         *)
(* topology and a choice of steps; each may fail, or be interrupted, at any  *)
(* point and leave the rest to the next one.  Couchbase Server configures    *)
(* itself in its container (configure-node.sh) while the script goes on.     *)
(* An address is the instance it belongs to: kind, terraform index, and the  *)
(* script that created it.                                                   *)
(***************************************************************************)
EXTENDS Naturals, Sequences, FiniteSets

CONSTANTS Topologies,  \* [clusters, sgw, es, lb, ls]: sizes, cluster and version, count, gateways, flag
          StepSets,    \* the choices of --no-... of the starts
          Destroys,    \* the choices of --destroy-... of the stops
          Releases,    \* versions that are releases: their packages are not downloaded here
          NewerImages, \* the architectures for which newer machine images appear
          MaxSlots,    \* bound: instances of a kind
          MaxScripts,  \* bound: scripts run
          None         \* no address, no process, no file

VARIABLES
    born,    \* terraform's state: the script that created each instance, or 0
    node,    \* the container of each Couchbase Server, and how far it is
    gateway, \* what each Sync Gateway host has installed, and runs
    edge,    \* the certificate files on each Edge Server, by the CA they belong to
    lb,      \* the upstreams of each load balancer
    slurp,   \* LogSlurp runs
    local,   \* the packages downloaded to the script's machine
    ca,      \* those in ~/.cbl_certs
    cas,     \* CAs created so far
    script,  \* the script, its step, the hosts in its topology
    config,  \* the last configuration written
    outcome, \* how the last script ended
    scripts  \* how many scripts have run

remote == <<born, node, gateway, edge, lb, slurp>>
here   == <<local, ca, cas>>
backendVars == <<remote, here, script, config, outcome, scripts>>

Kinds    == {"cbs", "sgw", "es", "lb", "ls"}
Slots    == 1..MaxSlots
Packages == UNION {{t.sgw[i].version : i \in DOMAIN t.sgw} : t \in Topologies} \cup {"es"}
NoHosts  == [cbs |-> <<>>, sgw |-> <<>>, es |-> <<>>, lb |-> <<>>, ls |-> None]
Idle     == [kind |-> "idle", topology |-> None, steps |-> {}, index |-> 0, at |-> "end",
             i |-> 1, hosts |-> NoHosts, failed |-> FALSE]
NewNode    == [parent |-> None, state |-> "none"]
NewGateway == [package |-> None, server |-> None, runs |-> None]

\* The files of certificates and keys in the order in which they are written: in
\* ~/.cbl_certs the client's and ca_cert.pem, on the Edge Server es_cert.pem,
\* es_key.pem and ca_cert.pem.  0 is a file that there is not.
Kept    == 1..2
OnEdge  == 3..5
NewEdge == [f \in OnEdge |-> 0]

BackendInit ==
    /\ born = [k \in Kinds |-> [s \in Slots |-> 0]]
    /\ node = [s \in Slots |-> NewNode]
    /\ gateway = [s \in Slots |-> NewGateway]
    /\ edge = [s \in Slots |-> NewEdge]
    /\ lb = [s \in Slots |-> None]
    /\ slurp = FALSE
    /\ local = [p \in Packages |-> "none"]
    /\ ca = [f \in Kept |-> 0]
    /\ cas = 0
    /\ script = Idle
    /\ config = None
    /\ outcome = "none"
    /\ scripts = 0

----------------------------------------------------------------------------
\* The topology and the instances.

\* total_cbs_count and the other counts.
Offset(t, c) == Cardinality(UNION {{i} \X (1..t.clusters[i]) : i \in 1..c - 1})
Count(t, k) ==
    CASE k = "cbs" -> Offset(t, Len(t.clusters) + 1)
      [] k = "sgw" -> Len(t.sgw)
      [] k = "es"  -> t.es
      [] k = "lb"  -> Len(t.lb)
      [] k = "ls"  -> IF t.ls THEN 1 ELSE 0

HasResources(t) == \E k \in Kinds : Count(t, k) > 0

\* The JSON schema of topologies and the checks of TopologyConfig; the bounds
\* leave room for every instance, and None is none of them.
ASSUME TopologyAssumption ==
    \A t \in Topologies :
        /\ t.clusters \in Seq(Nat \ {0})
        /\ t.sgw \in Seq([cluster : DOMAIN t.clusters, version : Packages])
        /\ t.es \in Nat
        /\ t.lb \in Seq(Seq(DOMAIN t.sgw))
        /\ t.ls \in BOOLEAN
ASSUME BackendBounds ==
    /\ MaxSlots \in Nat /\ MaxScripts \in Nat
    /\ \A t \in Topologies, k \in Kinds : Count(t, k) <= MaxSlots
    /\ None \notin Topologies \cup (Kinds \X Slots \X (0..MaxScripts))

Address(k, s) == <<k, s, born[k][s]>>
Alive(a) == a # None /\ born[a[1]][a[2]] = a[3]

\* The outputs of terraform list the instances there are, without gaps.
Outputs(k) ==
    LET there  == {s \in Slots : born[k][s] # 0}
        nth(j) == CHOOSE s \in there : Cardinality({r \in there : r <= s}) = j
    IN [j \in 1..Cardinality(there) |-> Address(k, nth(j))]

\* apply_server_hostnames takes slices, which may turn out short.
Cluster(t, c) ==
    LET all == Outputs("cbs")
        last == Offset(t, c) + t.clusters[c]
    IN SubSeq(all, Offset(t, c) + 1, IF last > Len(all) THEN Len(all) ELSE last)

\* read_from_terraform raises when a list is too short to pop from.
Readable(t) ==
    /\ Len(Outputs("sgw")) >= Len(t.sgw)
    /\ \A i \in DOMAIN t.sgw : Cluster(t, t.sgw[i].cluster) # <<>>
    /\ Len(Outputs("es")) >= t.es
    /\ Outputs("lb") = <<>> \/ (t.sgw # <<>> /\ Len(Outputs("lb")) >= Len(t.lb))
    /\ t.ls => born["ls"][1] # 0

\* apply_server_hostnames, apply_sgw_hostnames, apply_es_hostnames, and
\* apply_lb_hostnames, which does nothing without a hostname.
Servers(t)  == [c \in DOMAIN t.clusters |-> Cluster(t, c)]
Gateways(t) == [i \in DOMAIN t.sgw |->
                  [host |-> Outputs("sgw")[i], version |-> t.sgw[i].version,
                   cluster |-> t.sgw[i].cluster, server |-> Cluster(t, t.sgw[i].cluster)[1]]]
EdgeServers(t) == SubSeq(Outputs("es"), 1, t.es)
Balancers(t) ==
    IF Outputs("lb") = <<>> THEN <<>>
    ELSE [i \in DOMAIN t.lb |-> [host |-> Outputs("lb")[i],
                                 upstreams |-> [j \in DOMAIN t.lb[i] |-> Outputs("sgw")[t.lb[i][j]]]]]

Read(t) ==
    [cbs |-> Servers(t), sgw |-> Gateways(t), es |-> EdgeServers(t), lb |-> Balancers(t),
     ls |-> IF t.ls THEN Address("ls", 1) ELSE None]

\* The instances change: what is gone or new has nothing on it.
Become(new) ==
    LET same(k, s) == new[k][s] = born[k][s] IN
    /\ born' = new
    /\ node' = [s \in Slots |-> IF same("cbs", s) THEN node[s] ELSE NewNode]
    /\ gateway' = [s \in Slots |-> IF same("sgw", s) THEN gateway[s] ELSE NewGateway]
    /\ edge' = [s \in Slots |-> IF same("es", s) THEN edge[s] ELSE NewEdge]
    /\ lb' = [s \in Slots |-> IF same("lb", s) THEN lb[s] ELSE None]
    /\ slurp' = (slurp /\ same("ls", 1))

----------------------------------------------------------------------------
\* The script.

At(at)    == script.at = at
Goto(at)  == script' = [script EXCEPT !.at = at, !.i = 1] /\ UNCHANGED outcome
Stay(at)  == script' = [script EXCEPT !.at = at] /\ UNCHANGED outcome
Exit(how)  == script' = Idle /\ outcome' = how
Fail      == Exit("failed")

\* The provisioning steps in order; one that is not asked for is skipped.
Order == <<"cbs", "sgw", "es", "lb", "ls", "ts", "write">>
Step(j) == LET asked == {n \in j..Len(Order) : Order[n] \in script.steps \cup {"write"}}
           IN Order[CHOOSE n \in asked : \A m \in asked : n <= m]
After(at) == Goto(Step(1 + CHOOSE n \in DOMAIN Order : Order[n] = at))

\* The next host of a step, or the next step.
NextHost(at, hosts) ==
    IF script.i < Len(hosts)
    THEN script' = [script EXCEPT !.i = @ + 1, !.at = at] /\ UNCHANGED outcome
    ELSE After(at)

BeginStart(t, steps) ==
    /\ script = Idle /\ scripts < MaxScripts
    /\ scripts' = scripts + 1
    /\ \/ /\ script' = [Idle EXCEPT !.kind = "start", !.topology = t, !.steps = steps,
                                    !.at = IF "apply" \in steps THEN "apply" ELSE "read"]
          /\ outcome' = "none"
       \/ Exit("no credentials")
    /\ UNCHANGED <<remote, here, config>>

\* What terraform makes of the instances there are.  Each is of the most recent
\* image for its architecture; one of an older image is replaced.
Image(k) == IF k = "es" THEN "x86_64" ELSE "arm64"
Wanted(t, newer) ==
    [k \in Kinds |-> [s \in Slots |-> IF s > Count(t, k) THEN 0
                                      ELSE IF born[k][s] # 0 /\ Image(k) \notin newer THEN born[k][s]
                                      ELSE scripts]]

\* What a failure half way leaves of it: some is done, and of the instances that
\* are replaced some are only gone.
Changed(new)  == {x \in Kinds \X Slots : new[x[1]][x[2]] # born[x[1]][x[2]]}
Replaced(new) == {x \in Changed(new) : new[x[1]][x[2]] # 0 /\ born[x[1]][x[2]] # 0}
Halfway(new, done, gone) ==
    [k \in Kinds |-> [s \in Slots |-> IF <<k, s>> \in done THEN new[k][s]
                                      ELSE IF <<k, s>> \in gone THEN 0 ELSE born[k][s]]]

\* Bug: the exit status of terraform is not looked at.
Apply_Unchecked ==
    LET new == Wanted(script.topology, {}) IN
    /\ At("apply") /\ Goto("read")
    /\ \E done \in SUBSET Changed(new) : Become(Halfway(new, done, {}))
    /\ UNCHANGED <<here, config, scripts>>

\* terraform_apply
Apply ==
    LET t == script.topology IN
    /\ At("apply")
    /\ \/ ~HasResources(t) /\ Goto("resolve") /\ UNCHANGED remote
       \/ /\ HasResources(t)
          /\ \E newer \in SUBSET NewerImages :
                LET new == Wanted(t, newer) IN
                \/ Become(new) /\ Goto("read")
                \/ /\ Fail
                   /\ \E done \in SUBSET Changed(new), gone \in SUBSET Replaced(new) :
                          Become(Halfway(new, done, gone))
    /\ UNCHANGED <<here, config, scripts>>

\* read_from_terraform
ReadOutputs ==
    LET t == script.topology IN
    /\ At("read")
    /\ \/ ~HasResources(t) /\ Goto("resolve")
       \/ /\ HasResources(t) /\ Readable(t)
          /\ script' = [script EXCEPT !.at = "resolve", !.hosts = Read(t)] /\ UNCHANGED outcome
       \/ HasResources(t) /\ ~Readable(t) /\ Fail
    /\ UNCHANGED <<remote, here, config, scripts>>

\* resolve_test_servers
Resolve ==
    /\ At("resolve") /\ (Goto(Step(1)) \/ Fail)
    /\ UNCHANGED <<remote, here, config, scripts>>

----------------------------------------------------------------------------
\* Couchbase Server

\* The order in which main sets the nodes up, and what each one joins.
Nodes(cbs) ==
    LET flat[c \in 0..Len(cbs)] ==
            IF c = 0 THEN <<>>
            ELSE flat[c - 1] \o (IF cbs[c] = <<>> THEN <<[host |-> None, parent |-> None]>>
                                 ELSE [j \in DOMAIN cbs[c] |-> [host |-> cbs[c][j],
                                                                parent |-> IF j = 1 THEN None ELSE cbs[c][1]]])
    IN flat[Len(cbs)]

\* setup_node: start_container with replace_existing stops the container, whose
\* data goes with it, and runs another.
ProvisionNode ==
    LET all == Nodes(script.hosts.cbs)
        it == all[script.i]
    IN
    /\ At("cbs")
    /\ \/ all = <<>> /\ After("cbs") /\ UNCHANGED node
       \/ /\ all # <<>> /\ it.host # None
          /\ \/ NextHost("cbs", all) /\ node' = [node EXCEPT ![it.host[2]] = [parent |-> it.parent, state |-> "starting"]]
             \/ Fail /\ node' = [node EXCEPT ![it.host[2]] = NewNode]
       \/ all # <<>> /\ Fail /\ UNCHANGED node
    /\ UNCHANGED <<born, gateway, edge, lb, slurp, here, config, scripts>>

Configured(a) == Alive(a) /\ node[a[2]].state = "configured"

\* configure-node.sh: the first node of a cluster initialises it; another adds
\* itself to it and rebalances.  It starts over when a command fails, which it
\* cannot get through once it has been added.
ConfigureNode(s) ==
    /\ node[s].state = "starting"
    /\ \/ /\ node[s].parent = None \/ Configured(node[s].parent)
          /\ node' = [node EXCEPT ![s].state = "configured"]
       \/ /\ node[s].parent # None /\ Configured(node[s].parent)
          /\ node' = [node EXCEPT ![s].state = "added"]
    /\ UNCHANGED <<born, gateway, edge, lb, slurp, here, script, config, outcome, scripts>>

----------------------------------------------------------------------------
\* Sync Gateway and Edge Server

Gateway == script.hosts.sgw[script.i]
Edge    == script.hosts.es[script.i]

\* SgwDownloadInfo, EsDownloadInfo: which package a version means; the service
\* that tells may not answer.
IsRelease(package) == package \in Releases

\* download_sgw_package, download_es_package: a release is left to its host, and
\* a file that exists is kept, also one that an interrupted download has left.
Download(at, package) ==
    /\ \/ IsRelease(package) /\ (Stay(at) \/ Fail) /\ UNCHANGED local
       \/ ~IsRelease(package) /\ local[package] # "none" /\ Stay(at) /\ UNCHANGED local
       \/ /\ ~IsRelease(package) /\ local[package] = "none"
          /\ \/ Stay(at) /\ local' = [local EXCEPT ![package] = "whole"]
             \/ Fail /\ \E got \in {"none", "partial"} : local' = [local EXCEPT ![package] = got]
    /\ UNCHANGED <<remote, ca, cas, config, scripts>>

DownloadGateway ==
    /\ At("sgw")
    /\ \/ script.hosts.sgw = <<>> /\ After("sgw") /\ UNCHANGED <<remote, here, config, scripts>>
       \/ script.hosts.sgw # <<>> /\ Download("sgw_install", Gateway.version)

DownloadEdge ==
    /\ At("es")
    /\ \/ script.hosts.es = <<>> /\ After("es") /\ UNCHANGED <<remote, here, config, scripts>>
       \/ script.hosts.es # <<>> /\ Download("es_install", "es")

Installable(package) == IsRelease(package) \/ local[package] = "whole"

\* setup_config: the files that go over hold the address of the server.
WithConfig(g) == [g EXCEPT !.server = Gateway.server]

\* setup_server: the package is removed and installed.
InstallGateway ==
    LET s == Gateway.host[2] IN
    /\ At("sgw_install")
    /\ \/ /\ Installable(Gateway.version) /\ Stay("sgw_start")
          /\ gateway' = [gateway EXCEPT ![s] = [WithConfig(@) EXCEPT !.package = Gateway.version]]
       \/ Fail /\ UNCHANGED gateway
       \/ Fail /\ \E kept \in {gateway[s].package, None} :
                     gateway' = [gateway EXCEPT ![s] = [WithConfig(@) EXCEPT !.package = kept]]
    /\ UNCHANGED <<born, node, edge, lb, slurp, here, config, scripts>>

\* Bug: start-sgw.sh does not wait for the server.
StartGateway_NoWait ==
    LET s == Gateway.host[2] IN
    /\ At("sgw_start") /\ NextHost("sgw", script.hosts.sgw)
    /\ gateway' = [gateway EXCEPT ![s].runs = [version |-> gateway[s].package, server |-> gateway[s].server]]
    /\ UNCHANGED <<born, node, edge, lb, slurp, here, config, scripts>>

\* start-sgw.sh kills the gateway, waits for the query service of its server
\* (as long as it takes), starts it and waits for its port, which opens once the
\* gateway gets through to the server as the user that configure-node.sh adds last.
StartGateway ==
    LET s == Gateway.host[2]
        g == gateway[s]
    IN
    /\ At("sgw_start")
    /\ \/ /\ Configured(g.server) /\ NextHost("sgw", script.hosts.sgw)
          /\ gateway' = [gateway EXCEPT ![s].runs = [version |-> g.package, server |-> g.server]]
       \/ Fail /\ \E runs \in {g.runs, None} : gateway' = [gateway EXCEPT ![s].runs = runs]
    /\ UNCHANGED <<born, node, edge, lb, slurp, here, config, scripts>>

\* The first j files are of a new CA.
Written(certs, j) == [f \in DOMAIN certs |-> IF f <= j THEN cas + 1 ELSE certs[f]]

\* Bug: what an earlier run has left in ~/.cbl_certs is kept.
InstallEdge_KeepsCerts ==
    LET s == Edge[2] IN
    /\ At("es_install") /\ cas' = cas + 1
    /\ \E j \in 0..5 :
        /\ ca' = IF ca[2] = 0 THEN Written(ca, j) ELSE ca
        /\ edge' = [edge EXCEPT ![s] = Written(@, j)]
        /\ Fail \/ (j = 5 /\ Installable("es") /\ NextHost("es", script.hosts.es))
    /\ UNCHANGED <<born, node, gateway, lb, slurp, local, config, scripts>>

\* setup_server of the Edge Server: a new CA and its files, the package, the start.
\* (The configuration it is started with has no https section: the certificates
\* are for the tests that configure one.)
InstallEdge ==
    LET s == Edge[2] IN
    /\ At("es_install") /\ cas' = cas + 1
    /\ \E j \in 0..5 :
        /\ ca' = Written(ca, j)
        /\ edge' = [edge EXCEPT ![s] = Written(@, j)]
        /\ Fail \/ (j = 5 /\ Installable("es") /\ NextHost("es", script.hosts.es))
    /\ UNCHANGED <<born, node, gateway, lb, slurp, local, config, scripts>>

----------------------------------------------------------------------------
\* Load balancer, LogSlurp, Test Servers, configuration

\* Bug: nothing is done for a load balancer that runs.
ProvisionBalancer_KeepsRunning ==
    LET all == script.hosts.lb
        s == all[script.i].host[2]
    IN
    /\ At("lb")
    /\ \/ all = <<>> /\ After("lb") /\ UNCHANGED lb
       \/ all # <<>> /\ NextHost("lb", all)
          /\ lb' = IF lb[s] # None THEN lb ELSE [lb EXCEPT ![s] = all[script.i].upstreams]
    /\ UNCHANGED <<born, node, gateway, edge, slurp, here, config, scripts>>

\* create_traefik_config, upload, start_container: one that runs is left to read
\* its new file, which Traefik watches.
ProvisionBalancer ==
    LET all == script.hosts.lb
        s == all[script.i].host[2]
    IN
    /\ At("lb")
    /\ \/ all = <<>> /\ After("lb") /\ UNCHANGED lb
       \/ all # <<>> /\ (NextHost("lb", all) \/ Fail)
          /\ lb' = [lb EXCEPT ![s] = all[script.i].upstreams]
       \/ all # <<>> /\ Fail /\ UNCHANGED lb
    /\ UNCHANGED <<born, node, gateway, edge, slurp, here, config, scripts>>

ProvisionLogSlurp ==
    /\ At("ls")
    /\ \/ script.hosts.ls = None /\ After("ls") /\ UNCHANGED slurp
       \/ script.hosts.ls # None /\ After("ls") /\ slurp' = TRUE
       \/ script.hosts.ls # None /\ Fail /\ UNCHANGED slurp
    /\ UNCHANGED <<born, node, gateway, edge, lb, here, config, scripts>>

\* run_test_servers
RunTestServers ==
    /\ At("ts") /\ (After("ts") \/ Fail)
    /\ UNCHANGED <<remote, here, config, scripts>>

\* write_config, into a file that has been emptied.
WriteConfig ==
    /\ At("write")
    /\ \/ /\ Exit("started")
          /\ config' = [topology |-> script.topology, steps |-> script.steps, hosts |-> script.hosts]
       \/ Fail /\ config' \in {None, config}
    /\ UNCHANGED <<remote, here, scripts>>

----------------------------------------------------------------------------
\* stop_backend.py

\* index is --sgw-index, counted from 1, or 0.
BeginStop(t, targets, index) ==
    /\ script = Idle /\ scripts < MaxScripts
    /\ scripts' = scripts + 1
    /\ script' = [Idle EXCEPT !.kind = "stop", !.topology = t, !.steps = targets, !.index = index,
                              !.at = IF "all" \in targets THEN "destroy" ELSE "stop_read"]
    /\ outcome' = "none"
    /\ UNCHANGED <<remote, here, config>>

\* A partial destroy needs the topology to be read.
StopReads ==
    /\ At("stop_read")
    /\ IF Readable(script.topology) THEN Goto("destroy") ELSE Fail
    /\ UNCHANGED <<remote, here, config, scripts>>

Targeted(k, s) ==
    \/ "all" \in script.steps
    \/ /\ k \in script.steps
       /\ IF k = "sgw" /\ script.index # 0 THEN s = script.index ELSE s <= Count(script.topology, k)

\* terraform destroy, if there is a target; a failure, which may leave some of
\* them, is a warning, and the exit code.
Destroy ==
    LET targets == {x \in Kinds \X Slots : Targeted(x[1], x[2])} IN
    /\ At("destroy")
    /\ \E left \in SUBSET {x \in targets : born[x[1]][x[2]] # 0}, failed \in BOOLEAN :
        /\ left # {} => failed
        /\ failed => targets # {}
        /\ Become([k \in Kinds |-> [s \in Slots |-> IF <<k, s>> \in targets \ left THEN 0 ELSE born[k][s]]])
        /\ script' = [script EXCEPT !.at = "stop_ts", !.failed = failed]
    /\ UNCHANGED <<outcome, here, config, scripts>>

\* stop_test_servers, and the exit.
StopTestServers ==
    /\ At("stop_ts")
    /\ Fail \/ Exit(IF script.failed THEN "failed" ELSE "stopped")
    /\ UNCHANGED <<remote, here, config, scripts>>

BackendNext ==
    \/ \E t \in Topologies, steps \in StepSets : BeginStart(t, steps)
    \/ \E t \in Topologies, d \in Destroys : BeginStop(t, d.kinds, d.index)
    \/ Apply \/ ReadOutputs \/ Resolve \/ ProvisionNode
    \/ DownloadGateway \/ InstallGateway \/ StartGateway \/ DownloadEdge \/ InstallEdge
    \/ ProvisionBalancer \/ ProvisionLogSlurp \/ RunTestServers \/ WriteConfig
    \/ StopReads \/ Destroy \/ StopTestServers
    \/ \E s \in Slots : ConfigureNode(s)

BackendSpec == BackendInit /\ [][BackendNext]_backendVars

----------------------------------------------------------------------------
\* The last script was a start that took this step and raised nothing.
Started(step) == script = Idle /\ outcome = "started" /\ step \in config.steps

\* start_backend with terraform: the configuration it has written names as many
\* hosts of each kind as the topology, and none that is gone, whatever earlier
\* scripts have created, destroyed, or left half done.
ConfigNamesLiveHosts ==
    Started("apply") =>
        LET h == config.hosts
            t == config.topology
        IN
        /\ \A c \in DOMAIN t.clusters : Len(h.cbs[c]) = t.clusters[c]
        /\ \A c \in DOMAIN h.cbs : \A j \in DOMAIN h.cbs[c] : Alive(h.cbs[c][j])
        /\ Len(h.sgw) = Len(t.sgw) /\ \A i \in DOMAIN h.sgw : Alive(h.sgw[i].host)
        /\ Len(h.es) = t.es /\ \A i \in DOMAIN h.es : Alive(h.es[i])
        /\ Len(h.lb) = Len(t.lb) /\ \A i \in DOMAIN h.lb : Alive(h.lb[i].host)
        /\ t.ls => Alive(h.ls)

\* start_backend with Sync Gateway: every gateway in the configuration runs, at
\* the version asked for, against the first node of the cluster that the
\* configuration puts it in, and that node has finished configuring itself.
GatewaysReachTheirCluster ==
    Started("sgw") =>
        \A i \in DOMAIN config.hosts.sgw :
            LET g == config.hosts.sgw[i] IN
            /\ Alive(g.host)
            /\ gateway[g.host[2]].runs = [version |-> g.version, server |-> config.hosts.cbs[g.cluster][1]]
            /\ Configured(g.server)

\* start_backend with load balancers: the upstreams of each are the gateways of
\* this environment, though its container is not replaced when it runs.
BalancersReachTheirGateways ==
    Started("lb") =>
        \A i \in DOMAIN config.hosts.lb :
            LET b == config.hosts.lb[i]
                asked == config.topology.lb[i]
            IN lb[b.host[2]] = [j \in DOMAIN asked |-> config.hosts.sgw[asked[j]].host]

\* start_backend with Edge Servers: on the last of them the certificate, its key and
\* the CA that clients are checked with belong to the CA in ~/.cbl_certs, and so
\* does the certificate of the client there, whatever earlier starts and a failed
\* one have written of each.  (Of several Edge Servers only the last is trusted.)
LastEdgeServerIsTrusted ==
    Started("es") /\ config.hosts.es # <<>> =>
        LET last == edge[config.hosts.es[Len(config.hosts.es)][2]] IN
        \A f \in OnEdge, g \in Kept : last[f] = ca[g]
=============================================================================
