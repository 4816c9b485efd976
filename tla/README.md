# couchbase-lite-tests: a TLA+ model, its checks and its proofs

couchbase-lite-tests runs one Python test client (the TDK) against several Test
Servers, one per platform of Couchbase Lite, against Sync Gateway, Couchbase
Server and Edge Server, and collects the logs of all of them in a log slurper.
A test is only worth something if this machinery reports what really happened:
if a document event is lost between a replicator and the client, if a reset
leaves a replicator of the former test running, if a request is never
answered, if the build under test is not the one that was asked for, or if the
database still holds a former test's documents, then a test fails (or passes) for
a reason that is not in the product.
These modules state what the machinery promises and check it against its code.

## 1. Inventory

| Component | State | Operations | Interacts with | Hard part |
|---|---|---|---|---|
| **C Test Server, object manager** (`servers/c/src/cbl/CBLManager`) | databases, replicator contexts with their document events, listeners, two mutexes | reset, create, startReplicator, getReplicatorStatus, startListener, stopListener, the document callback | HTTP worker threads, the library's threads | threads, callbacks under locks, failures in the middle of reset |
| C Test Server, sessions and remote logger (`SessionManager`, `RemoteLogger`) | the one session, the logger's connection | newSession, connect, log, close | request threads, the log slurper | replacing a session that is in use; joining a thread under a lock |
| C Test Server, documents and snapshots | snapshots | updateDatabase, snapshotDocuments, verifyDocuments | library | pure comparison and key-path logic |
| **Test client, WebSocket router** (`cbltest/websocket_router.py`) | connections by server, futures by message number, a semaphore | start, send, handler, stop | browser pages, concurrent tests | lost and reloaded pages, stop against running requests |
| Test client, replicators (`api/replicator.py`) | document events seen so far | get_status, wait_for, wait_for_doc_events | every Test Server | polling against a queue that is emptied by reading |
| Test client, requests and facade | message numbers | one call per API | Test Servers | version negotiation only |
| **Test client, drivers of the services** (`api/syncgateway.py`, `couchbaseserver.py`, `edgeserver.py`, `cluster.py`) | none of their own: the cluster, the buckets, the documents are the services' | configure_dataset and the cleanup after a test; add_node, rebalance, failover, recover, ensure_cluster_healthy; updates, upserts, deletions of documents | Sync Gateway, Couchbase Server, Edge Server, other writers | several requests per call, services that act later than they answer, lost answers and retries |
| **Log slurper** (`environment/LogSlurp`) | writers by log id, files | startNewLog, openLogStream, finishLog, retrieveLog | test client, every Test Server | concurrent writers, finish against writers and readers |
| JavaScript Test Server | databases, replicators, snapshots | the same API, as promises on one thread | the router | state used across `await` |
| .NET Test Server | databases, disposables | the same API | thread pool | a timed-out reset leaves loads behind |
| iOS, Java/Android Test Servers | the same | the same | dispatch queues, executors | order of activity and documents in a status |
| **Orchestrator, Test Servers** (`environment/aws/topology_setup`) | libraries, build outputs, downloaded packages, installed apps, processes, pid files | build, download, install, run, stop | devices, the build service | what a script that failed half way leaves to the next one |
| **Orchestrator, backend** (`start_backend.py`, `stop_backend.py`, the `*_setup` directories) | Terraform's instances, what each has installed and runs, packages, certificates | create, provision each kind of server, write the configuration, destroy all or some | Terraform, containers over ssh | the same, and servers that configure themselves while the script goes on |
| tests, spec, dataset, jenkins, scripts | none | | | no program logic of their own |

What makes each correct: a request finds only live objects, and reset leaves
nothing of the former test (object manager); every document event is reported
exactly once, and STOPPED completes the report (servers and replicator
polling); every request ends (router); a log keeps apart what different devices
sent piece by piece, and is complete for
everyone who closed properly, and frozen when finished (slurper); a test starts
from its dataset and nothing else, a call that returns has had its effect and no
other (drivers); the servers that run are those of this script's topology
(orchestrator). The places
where this can go wrong are the `hazards` of `PROJECT.json`, each at its line.

## 2. Modules

| Module | Models | State and actions |
|---|---|---|
| `CBLManager` | `CBLManager.cpp` and the handlers that call it, with `CBLReplicator` and `CBLDatabase_Delete` as external library | `databases`, `contexts`, `replicatedDocs`, `listeners` are the private members of that name; `handle` and `repl` are the library's objects; `req[t]` is the request of worker thread `t` and where it is. One action per critical section or per step at which the library can interfere |
| `CBLManager_proofs` | theorems about it | |
| `WebSocketRouter` | `WebSocketRouter`, `_RequestWebSocketTransport.send` and the page (`testServer.ts`) | `connections`, `pending`, `conn_sem` and `stop` are the router's fields; `toPage`/`toRouter` the two directions of each connection. One action per stretch between two awaits |
| `WebSocketRouter_proofs` | theorems about it | |
| `SharedLog` | the abstract log of a session: append pieces, each with the tag of its device, then finish | |
| `LogSlurp` | `LogController`, `SerializedStreamWriter`, the devices as clients | `registered` is the entry of `FileLoggers`, `holder`/`waiters` the writer's `SemaphoreSlim`, `written`/`flushed` the `StreamWriter` and its file; one action per stretch of a handler in which nobody can interfere |
| `EventMailbox` | what `/getReplicatorStatus` promises: documents wait in order until an answer takes them, and STOPPED takes the last | |
| `ReplicatorEvents` | `replicator.py` with the status handler and the document listener of the Java server (`DocReplListener`, `ReplicatorManager`) or of the .NET one (`ReplicatorDocumentListener`, `ReplicatorStatusHandler`) | `updates`, `id` are the client's fields; `request` is the one status request and where it is, `wait` the local variables of the wait; `replicatedDocs` the listener's list, `adding` a .NET callback between its two steps. One action per stretch between two awaits, per critical section, per read of the library |
| `ReplicatorEvents_proofs` | theorems about it | |
| `Dataset` | `configure_dataset` and what it calls, `cleanup_all_test_resources` of the QE suite, with the bucket, its indexes and the gateways' polling as external | `bucket` by its incarnation, `index` the indexes the database relies on, `loaded` what each gateway has the database on; `call.at` is the request the call is at. One action per request, and per thing the services do by themselves |
| `Membership` | cluster membership in `couchbaseserver.py`, with the cluster as external | `member` is `clusterMembership`, `named` the nodes listed by the name the tests know, `running`/`ejects` the rebalance; `call` the call in progress with what it has read (`seen`, `known`, `eject`). One action per request |
| `Documents` | the calls of `syncgateway.py` and `edgeserver.py` that write documents | `store` is the server's; `call.put` what is to be written, `call.todo` the documents still to be read; `stale` records those whose read failed or that others changed before the second read. One action per request |
| `TestServers` | `run_test_servers`, `stop_test_servers`, the `TestServer` classes, the bridges, `build_test_server.py` as the machine that uploads | `library`, `artifact`, `fetched`, `marked`, `app`, `procs`, `pidfile` are the files, the devices and the processes; `script` the script running, the server it is at and the step. One action per step that can fail on its own |
| `Backend` | `start_backend.py`, `stop_backend.py` and the provisioning of each kind of server, `configure-node.sh` in its container | `born` is Terraform's state, `node`, `gateway`, `edge`, `lb`, `slurp` the hosts, `config` the configuration written last |
| `Environment_proofs` | theorems about `LogSlurp` and `Backend` | |
| `Dataset_proofs`, `Membership_proofs`, `Documents_proofs`, `TestServers_proofs` | theorems about the modules of those names | |
| `MC...` | the instances TLC checks | |

Operators whose names end in `_Something` after the name of an action are that
action with a bug that would be easy to write; no specification uses them. They
are there to show that each property can fail: with the action replaced by its
bug the property is violated.

### How the code is read

*Object manager.* civetweb serves requests on several threads. A handler is a
sequence of critical sections; a section that calls nothing that blocks is one
step. `reset` is not one section: it deletes the databases under `_mutex`
(`ResetLock` to `ClearDatabases`), frees the contexts under `_replicatorMutex`
(`ReleaseReplicators`), the listeners under `_mutex` again (`ReleaseListeners`),
and the handler then creates the databases of the next test one by one.
`CBLDatabase_Delete` asks the database's replicators to stop and returns when
they have, and a replicator does not stop while it is inside its document
callback; that, and that a replicator reports documents only while busy, is all
that is assumed of the library. The replicators are those started with the document
listener enabled (the others report no events). `CreateCollectionFail` and `DeleteFail` are the
error paths that leave something behind: the first a handle nobody closes, the
second released databases in `_databases`; deleting such a database again is
undefined and may succeed or fail. `/stopReplicator` has a handler file but
no route in this server; it is not modelled.

*Router.* asyncio switches tasks only at `await`, so a step is what a task does
between two of them: `send` registers the future, looks the connection up and
writes in one step, then waits. `stop` awaits the closing of each connection;
everything else may happen in between. A page may never come, introduce itself
wrongly, be reloaded, or go away with requests and replies in flight. The
sender's number is unique, so an identifier of `Ids` is used once.

*Slurper.* One log id: logs share nothing but the `FileLoggers` dictionary, whose
accesses are atomic in the model (it is a plain `Dictionary` used by several
threads, see the hazards). `SemaphoreSlim` serves asynchronous waiters in order,
a release hands it over, and disposing it forgets the waiters: their tasks never
complete. That the writer's buffer may also spill to the file when it is full is
left out, it only brings text into the file earlier. `ReadLogs` receives into 4096
bytes and writes what each `ReceiveAsync` returns, without a look at `EndOfMessage`
(`LogController.cs:137-142`): a longer message, or one that comes in parts, becomes several
texts, each with a prologue and under a hold of the semaphore of its own. So the unit of the
model is a piece: a device sends messages of one or more pieces (`SendMessage`), and a
piece stands for its bytes. Each byte is cast to a `char`, which garbles what is not ASCII;
no property is about that.

*Replicator polling.* One `Replicator` object is used by one test task, as the tests
do; the task waits for one answer at a time. A document event stands for what the
client compares (collection, id, direction, flags). Every wait is modelled:
`wait_for_all_doc_events` and `wait_for_any_doc_event` call `wait_for(IDLE)` in a
loop, so their first poll goes on where that one returns. `start()` keeps
`__document_updates`; a test calls it again once it knows that the replicator has
stopped. `server` picks the listener. The Java one appends and drains under one
lock. The .NET one has none: `HandleChange` reads the reference, another thread may
exchange it and enumerate the list, and the callback then adds to a list that is
enumerated later (`taken`), makes the enumeration fail (`EnumerateFails`, the
request is answered with an error), or was enumerated already (`dropped`). Assumed of
the library: it reports documents while it is busy, one callback at a time, all
before it is STOPPED, and only a continuous replicator becomes idle.
Which replicator object a `start()` creates does not
matter and is chosen (`NewRepl`). `CONNECTING` stands for OFFLINE too, the client does not tell them apart. That an
answer is lost on its way after the list was emptied is not modelled.

*Drivers of the services.* A test makes one call at a time; a call is its requests
in order, each of which may fail before or after it has taken effect, and between
two of them the services and others go on. Of the services only what the calls rely
on is modelled. In `Dataset` a bucket comes and goes some time after it is asked for and its
indexes later still, the database's configuration is in the bucket, and the gateways
other than the one that was called read it when they next poll. In `Membership` the
cluster refuses a rebalance whose list of nodes is not the current one, a rebalance
removes the nodes that have failed over and are not set to recover, and nodes go
down, come up or are failed over at any time. In `Documents` a document has one number for its
revision ID and its version vector, a field the number of the revision that wrote
it, and other writers, deletions and expiry change documents at any time. Of a
`_bulk_docs` the server may refuse any document, for its revision or for a reason of its
own (the sync function, an error), and the drivers do not read which (`syncgateway.py:1189-1195`).

*Orchestrator.* One script runs at a time, on a list of servers or on a topology, and
may end at any step with what it has done so far; the next script finds that. A
CBL version is the build it stands for. In `TestServers` the version service may
answer a newer build each time it is asked, and another machine builds and uploads
packages meanwhile. The lists of servers are not empty. A process is known by its
platform, its place and the bridge that started it (`Own`), and a bridge that looks for one by
name finds those of all platforms of that name (`Namesakes`): `c_macos`, `c_linux_x86_64` and
`dotnet_macos` are all `testserver`, of which `ExeBridge.stop` ends the first
(`exe_bridge.py:126-130`) and the macOS bridge every one (`killall`). `gradlew appStop`
ends the web service that gradle has started, not one that runs from a downloaded jar. In `Backend` an
address is the instance it belongs to, so that an instance that was replaced is not
taken for the former one; a node of Couchbase Server goes through
`configure-node.sh` while the script provisions the gateways. Terraform and a destroy may
fail between any two instances. `main.tf` takes the most recent image of an architecture and
ignores changes of one tag only, so an `apply` replaces the instances of an image for which there is a newer one
(`NewerImages`); one that fails may have removed some without their successors.
`start-sgw.sh` waits for the server's ping and then for its own port 4984, which the gateway
opens once it gets through to the server as the user that `configure-node.sh` adds last: hence the guard
of `StartGateway`. Traefik reads the file it is given again when that changes (it watches
it by default); this is assumed of it. The certificates are modelled by the files they are
in (`Kept` in `~/.cbl_certs`, `OnEdge` on an Edge Server), each by the CA it belongs to, and
a failure may come between any two. The Edge Server itself is started with
`es_setup/config/config.json`, which has no `https` section: it uses none of these files until a test
configures it to. `tdk_config_out` is opened for writing before the configuration is known
(`start_backend.py:324`), so that a failure may leave an empty file. The topologies are
what `TopologyConfig` makes of a file, its includes resolved.

## 3. What is checked

| Run | Bounds | Result |
|---|---|---|
| `cblmanager` | 2 threads, 2 databases, 2 handles, 2 replicators with 2 events each, 1 listener, 4 requests | passes, about 436,000 states |
| `wsrouter` | 2 servers, 2 requests, 4 connections | passes, about 73,000 states |
| `logslurp` | 2 devices, 3 pieces in all, in one message or several, a start (`c0`), a finish (`c1`), and a call of any kind (`c2`) | passes, about 356,000 states |
| `logslurp_finish` | 1 device, one start, one finish | the README's statement is violated |
| `replicator_events` | 2 replicators with 2 documents and 2 events between them, 2 calls, waits for one or both documents, 2 retries | passes, about 1,020,000 states |
| `stale_events`, `dotnet_lost_event` | the same | what the docs and a test say is violated |
| `dataset` | 2 gateways or one that keeps its own buckets, 3 calls of `configure_dataset` | passes, about 140,000 states |
| `membership` | 3 nodes, 5 calls | passes, about 256,000 states |
| `documents` | 2 documents with 2 fields, 3 revisions, 3 calls; documents and fields are symmetric | passes, about 360,000 states |
| `test_servers` | 7 lists of one or two servers, 2 builds and a release, 2 scripts | passes, about 4,193,000 states |
| `backend` | 2 topologies on 2 instances of each kind, 3 choices of steps, 3 of what to destroy, newer images for one architecture, 3 scripts | passes, about 1,835,000 states |

**`cblmanager`.** `ActiveReplicatorHasDatabase` and `MapHoldsOpenDatabases`: no
request and no replicator meets a released database. `ReleasedContextsAreStopped`:
reset frees a context, which callbacks point into, only when its replicator has
stopped. `ResetForgetsFormerTest`: when the databases of the next test are
created, nothing of the former one is known to the manager. All four exclude,
each in its statement, what the code really leaves behind: after a deletion that
failed (`resetFailed`) the map does hold released databases, and a database whose
collection could not be created is leaked. `EventsExactlyOnce` and
`StoppedStatusIsComplete`: the events that status requests return are, in order
and without loss or repetition, those the library reported, and an answer that
says STOPPED returns the last of them. `EveryRequestIsAnswered`: no circle of
waiting threads. Two threads suffice for a race between any two handlers; with
four requests a reset, a start, a status and a second reset fit in one behaviour;
two replicators are one of the former and one of the next test.

**`wsrouter`.** `NobodyWaitsAfterStop`, `StopReturns`, `RequestEnds`: a request
ends with its reply, or is failed by `stop`, unless its connection was lost: the
router does nothing for those until `stop` is called, and `RequestEnds` says so.
`StartedMeansConnected` holds only if no page introduced itself twice: the
semaphore counts hellos, not servers. With four connections each page can
reload, or one of them three times.

**`logslurp`.** `ImplementsSharedLog` is the refinement: read as its reader reads
it (a text belongs to the tag before it), the output is a behaviour of
`SharedLog`. That log is one of pieces, not of messages: the pieces of a long message stand in it
in order and each with its device's tag, but those of another device may come between, and
the line format `{tag}: {timestamp} {message}` of the slurper's README holds of pieces, not of long messages. Three
pieces allow a message of two with one of another device in its middle. `ClosedStreamIsLogged` is what the test client relies on when it
closes its stream before it calls `/finishLog`. `FinishedLogIsInFile`,
`RetrievedLogIsFresh`, `CallsAreAnswered` concern finishing and retrieving. The
third call, `c2`, makes the races of two calls of any two kinds possible: two starts,
two finishes, a retrieval during a finish. The properties state
two exceptions the code has: a retrieval that arrives between the removal of the
log and the disposal of the writer may return a log without its end, and one that
waits for the semaphore when the writer is disposed is never answered.

**`logslurp_finish`.** The slurper's README says that `/finishLog` closes all the
WebSockets of the session. The code does not: a device that stays silent keeps its
stream for ever (and one that sends another message has it aborted by an exception).

**`replicator_events`.** `ImplementsMailbox` is the refinement: what is in the
request, in the listener's list and in a callback's hands is the mailbox's `waiting`.
With the Java server nothing is ever lost, repeated or reordered; the .NET server may
lose documents but repeats and reorders none. `TrueIsRight` and `FalseIsRight` relate
the answer of a wait to what the library did: an answer `True` means that this
replicator reported the documents, if its updates were cleared before the start;
`False`, with the Java server, that it has stopped and did not.
`StoppedIsComplete`: after `wait_for(STOPPED)` the updates are all there is, as the
tests that inspect `document_updates` assume. `WaitEnds`: `wait_for_doc_events`, which
has no timeout, ends once the replicator stops or has reported the documents. Two
calls are a wait and the wait after it, on the same replicator or after a restart on
the other one; two events are enough for one to be taken and one to be left behind,
and with two retries the continuous waits take both exits of their loops.

**`stale_events`** shows that a wait after a second `start()` is satisfied by events
of the first replication, which `tests/QE/test_delta_sync.py` does and takes for
evidence that the second one processed documents. **`dotnet_lost_event`** shows the
race of the .NET listener: `api.yaml` deletes documents after they are returned, this
listener loses one that never was.

**`dataset`.** `OnlyTheDataset`: the docstring of `configure_dataset` says "ensuring
that it is in an empty state"; the database holds no document of a former test if the
call met HTTP 412 and dropped the bucket, or if a cleanup without failure came
before. Otherwise it may: a database that was deleted without its bucket, as
`tests/dev_e2e/edge_server/test_jwt_rotation.py:60` does, comes back with its
documents, and the property says so. `NodesServeTheDataset`: with several gateways
each that runs serves the bucket the call has made, again if a 412 or a cleanup came
before; if not, a node that still has the former database passes for one that has
the new one. `IndexesExist` is CBL-4977: the indexes are the database's own and not
those of the dropped bucket that are yet to go; only the path of the 412 waits for
that. `CleanupCleans`: a cleanup that has printed no failure leaves no gateway with
the database and no bucket that stays. Two gateways are one that is called and one
that polls; three calls allow a leftover, its repair, and a call after that. (That the cleanup waits
for the database to go on every node is not needed for the properties: the
next `configure_dataset` has a wait of its own on the path that matters.)

**`membership`.** `EnsureMeansAllIn` is the docstring of `ensure_cluster_healthy`
("Ensures all CBS nodes are in the cluster and healthy") with its exceptions: a node
that was added and never rebalanced in stays so, and the cluster may change by
itself during the call. `RebalanceIsDone`: a rebalance that returns has done what was
asked, also when a lost answer made it ask twice. The model shows in passing what the
properties except: a rebalance for one node removes another one that has failed
over, so that a later `recover` of it raises; a rebalance that failed reads as one that
is over; a retry of `add_node` after a lost answer fails; a node without its
alternate address is not recognised. Three nodes are the one that is called and two
that can be missing or failed at the same time; five calls are a fault in each and the repair.

**`documents`.** `NamedRevisionIsReplaced`: an update or deletion of one document
replaces the revision the test named, also when the version vector had to be turned
into a revision ID by a request of its own. `UpsertMerges`: what `upsert_documents`
writes of a document sets the given fields and keeps all others the document has at that moment,
whatever others change between the look for the revisions and the write, in every order
of the batch and of refusals; without a revision it creates and replaces nothing. It
excepts what the code does lose: the `except Exception` (`syncgateway.py:1185`) takes a
read that failed for a document that is not there, and the latest revision then lets the new
fields overwrite all of it; a change between the read and the look for the revision is
overwritten as well. So the docstring (`syncgateway.py:1154-1158`: "It will preserve
the existing body fields and only add / update whatever is being passed") is kept only
within these limits, and not at all for a document that exists when the test
names no revision (as in `tests/QE/test_system_multipeer.py:411`): the server refuses it with a 409 in the
answer that is not read, and nothing is added. That a call returns says nothing about
what was written, since any document may have been refused; the property is therefore about what
is written and not about what a return means. Three revisions are one of the test, one of another
writer and one of the call; three calls are a creation, a deletion or update, and an upsert.

**`test_servers`.** `ServesWhatWasAsked`: after a start without failure whoever
answers for a server is of the platform and build that was asked for, whatever a former
script has left, with the exceptions that the code has. A server that was still running
may answer in place of the new one where the bridge does not stop it: a jar or a browser
server of any kind, and on a device the app of another platform, since
an installation ends only the app it replaces (`jak_android` after `c_android`
on one phone, which share a port). And the `.version` of the iOS library, which is beside
it, may be about a library that was replaced. `OneBuildPerScript`:
"latest" is resolved once. `MarkedPackageIsWhole`: `.downloaded` marks only whole
packages, whatever was interrupted. `StopStops`: after a stop that raised nothing, nothing
that the bridge has started for the server runs. Excepted are the executables and `bun` as long as
several processes of the name run: the stop ends the first one, which may be one of
the browser servers that several starts have left, or a .NET server in place of the C one; and the iOS devices that
`devicectl` finds, since its bridge goes on when `devicectl` fails (on the old devices it does not find the bridge
goes by a pid file, and those the property covers). A web service that was
downloaded runs as a jar and survives the stop of one that was built. The model keeps the `return` in the loop of `run_test_servers`
after which the servers behind a JavaScript one are not started, and the
`server.pid` that a second start of a jar overwrites. The seven lists cover every
bridge, built and downloaded, with and without a build number, a C and a .NET server of one name
together, and a web service of both kinds; two scripts are one that leaves something and one that
finds it.

**`backend`.** `ConfigNamesLiveHosts`: the configuration that a start with Terraform
has written names as many hosts of each kind as the topology, and none that is gone.
`GatewaysReachTheirCluster`: after a start with gateways each runs at the version that was asked for, against a
node that has finished configuring itself, though it does so while the script goes on.
`BalancersReachTheirGateways`: a balancer's upstreams are gateways of this topology,
though its container is not replaced. `LastEdgeServerIsTrusted`: the certificate, key and CA files on the last Edge
Server are all of the CA in `~/.cbl_certs`, which `edgeserver.py:165` uses, and so is the client's certificate there,
whatever a start that failed between two files has left. It is about starts that provision the Edge Servers: after one that
failed there, a start without that step leaves the files of two CAs as they are. With
several Edge Servers, as in the topologies `2es_1sgw` and `3es_1sgw`, only the last is trusted. After a partial
destroy (`--sgw-index`; the code counts from 0, the model from 1) reading the
addresses fails, so that neither another partial stop nor a start without `apply`
works; a start without AWS credentials ends with exit code 0 and the former
configuration in place; one that fails as it writes leaves an empty one. All are in the model. A newer image for one
architecture replaces some instances and keeps others. Three scripts are a start, a partial
stop or a start with other steps, and a start.

Deadlock is checked for `cblmanager` (a final state in which all requests are
answered stutters explicitly, `Rest`), `dataset` and `membership`. `wsrouter`,
`logslurp` and `replicator_events` may simply stop when
nobody connects, sends or calls; `documents`, `test_servers` and `backend` stop at
their bounds. Their runs do not check it.

### Fairness

Only what the program's own scheduler does is fair: a thread, task or pool thread
that can go on does (`Work`, `Handler`, `Stop`, `HandleStream`, ...); a callback
that can proceed does, and the library stops a replicator it was asked to stop. A
page that is connected reads and answers. In `ReplicatorEvents` the server handles a request, the
test task runs and a callback ends; nothing makes a replicator stop or report.
Nobody is obliged to send a request, to
connect, to reload, to stop, to log or to close. `Dataset`, `Membership`, `Documents`,
`TestServers` and `Backend` state no fairness: a test, a script or a service may stop at any
point, and what they promise is safety.

## 4. What is proved

All theorems hold for every value of the constants that satisfies the modules'
assumptions; the runs show the same properties on small instances first.

- `CBLManager_proofs!TypeCorrect`: `Spec => []TypeOK`. The inductive invariant is
  `TypeInv`, the type together with who may own the two mutexes (`LockInv`):
  without it a step could index a handle the request does not have.
- `CBLManager_proofs!EventsExactlyOnceCorrect`: `Spec => []EventsExactlyOnce`. The
  invariant `EventInv` adds that a replicator that was never created has no
  events and that a live context is one of those created, so that a new context
  starts with the empty history.
- `CBLManager_proofs!StoppedStatusIsCompleteCorrect`: the action property, from
  `StatusInv`: a request that read STOPPED still owns `_replicatorMutex`, so that
  its context cannot be freed before it drains, and a stopped replicator is in no
  callback. `EventsExactlyOnce` then says that what was drained and what waits are
  all the events.
- `CBLManager_proofs!MapHoldsOpenDatabasesCorrect` and `ActiveReplicatorHasDatabaseCorrect`.
  Both hold only as long as no deletion failed, and neither is inductive: inside a
  reset the map does hold databases that were deleted. `MapInv` says which ones
  (`OpenInMap`: those the reset that owns `_mutex` has dealt with), that a request
  which deletes a database or starts a replicator has an open one in hand, and that
  this one is no longer among those still to be deleted (`OpenInHand`). With the
  mutex free nobody deletes, so that the whole map is open.
- `CBLManager_proofs!ResetForgetsFormerTestCorrect`, whether or not deletions failed.
  `OpenInv` says that every open database is in the map and that a reset has closed the
  part it has dealt with, so that none is open once it is through. What happens
  between that moment and the creation of the databases only adds higher
  identifiers (`Later`), and `FormerInv` carries what is gone from one part of the reset
  to the next.
- `CBLManager_proofs!ReleasedContextsAreStoppedCorrect`: the action property, from all of
  the above. When the last database is deleted none is open, hence no replicator is active
  (`MapInv`), hence every context that exists has stopped (`ReleaseInv`); one added
  afterwards has a higher identifier than those in use when the reset began.
- `WebSocketRouter_proofs!TypeCorrect` and `NobodyWaitsAfterStopCorrect`. `StopInv`
  says that who waits is pending (so that `stop` finds it), and that after the
  clean-up no connection is up (so that nobody can begin to wait).
  `StartedMeansConnectedCorrect` counts: as long as no page said hello twice, what
  `conn_sem` holds and what `start` has yet to take is one more than the number of servers that were
  greeted, and each of these has a connection (`HelloInv`); so `start` can be through only when
  the number is that of all the servers.
- `Environment_proofs!ClosedStreamIsLoggedCorrect`, `FinishedLogIsInFileCorrect` and
  `RetrievedLogIsFreshCorrect`, for any devices and messages in any number of pieces, rest on one chain. A
  device between the tag and the text of a piece holds the semaphore, which a writer that was
  disposed leaves with its disposer for good (`HolderInv`); hence the file is
  made of whole pairs (`PairInv`); hence the pieces of a device are those it has sent, in
  their order (`OrderInv`, `PieceInv`); hence what is flushed is a
  prefix of what was written and all of it when someone has just flushed (`FileInv`).
  `ImplementsSharedLogCorrect` maps each step to one of `SharedLog` or a
  stutter: the text of a piece appends it, the disposal finishes the log.

- `ReplicatorEvents_proofs!TypeCorrect` and `ImplementsMailboxCorrect`: the refinement
  of `EventMailbox`, each step a mailbox step or a stutter. `EventInv` adds
  `RequestInv` (a request carries documents only between the server's reading and the
  client's, and one that read STOPPED finds the listener's list empty from the
  moment it is drained) and `AddingInv` (a callback that has yet to add keeps its
  replicator from stopping, and a list that was taken from under it is the
  request's). The lemma `SplitConcat` says that cutting a concatenation where it was
  put together gives its parts back; with it an answer is the first part of what
  waits, and what `Enumerate` leaves out is the last.
- `ReplicatorEvents_proofs!TrueIsRightCorrect`, `FalseIsRightCorrect` and
  `StoppedIsCompleteCorrect`. `DeliveryInv`: what the client has received and what waits for
  it are, in this order, a part of what the replicator reported (all of it for the Java
  server), and after an answer STOPPED nothing waits. `UpdatesInv`: `document_updates` ends with
  what was received from the replicator started last. `WaitInv`: the events a wait still misses
  are not among the entries it has looked at. The result is then read off (`ResultInv`): True, and all were
  among the entries; False, and STOPPED was heard before the last look.
- `Membership_proofs!EnsureMeansAllInCorrect` and `RebalanceIsDoneCorrect`, for any number of nodes
  above one (`ConstantsAreCounts`). `EnsureInv` follows the loop: without a mishap the nodes before
  the one it is at are active, its rebalance ejects nothing and makes the node at hand
  active; the decision rests on what was seen at the beginning, which the invariant ties to what is.
  `RebInv` says what the cluster is while a rebalance that was asked for, perhaps
  twice, is running or over. `TypeInv` places each call (`PlaceInv`) and keeps node 1 in.
- `Documents_proofs!NamedRevisionIsReplacedCorrect` and `UpsertMergesCorrect`, for any documents and fields
  (`BoundsAreCounts`). `SingleInv` ties the revision the call goes by to the one
  that was named until the server has compared it. `UpsertInv` follows an upsert through
  its three requests: a document that was read keeps in `put` every field it has in the store
  (`Merged`) as long as nobody changes it before its revision is taken, and `stale` takes those that are changed out. From then on
  the revision vouches for the body (`Held`): as long as the store has the revision in `put`, it has that
  body's fields, and with any other revision the server refuses.
- `Dataset_proofs!OnlyTheDatasetCorrect` and `IndexesExistCorrect`, for any number of gateways and
  calls. `DocsInv`: after a 412 or a clean cleanup the bucket is empty, or on its way out and
  never usable again, up to the step that loads the dataset. `IndexInv`: no index is relied on until
  those of the dropped bucket are gone, and none comes back after that.
- `Dataset_proofs!NodesServeTheDatasetCorrect` and `CleanupCleansCorrect`, with gateways that
  poll, stop and start at any time. The first gateway that runs has the configured incarnation of the
  database (`FirstInv`); once it was cleaned none can get a former one back, and those the loop has
  passed have not got it (`CleanInv`); after the wait for "no databases", or after a clean
  cleanup, none is left before the put, and from the put on each has the new one or none (`KnownInv`).
- `TestServers_proofs!OneBuildPerScriptCorrect` and `MarkedPackageIsWholeCorrect`, for any lists of
  servers (`TopologiesAreLists`), builds and scripts, if the value for "no build" is none
  (`NoneIsNoBuild`). `AskedInv` says that what was asked for under "latest" is what
  `resolved` holds, which keeps its first answer as long as the script runs (`BuildInv`).
  `MarkedPackageIsWhole` is inductive by itself once the domain of `fetched` is known.
- `TestServers_proofs!ServesWhatWasAskedCorrect`, for any lists of servers in which every server has an
  address and port of its own (`OneServerPerAddress`, as in every topology of the repository), is of a
  registered platform (`PlatformsAreRegistered`: `TestServer.create` raises otherwise) and names
  a build, "latest" or none. `DiskInv`: a package that is marked or an application that was built is of its
  platform and build. `StepInv`: what the script has established for the server it is at, step by
  step. `ListInv`: the servers it has passed are served, or were running before where the
  bridge does not stop them. `ProcsInv`: every process is one that some server of some list started.
- `TestServers_proofs!StopStopsCorrect`, the action property. `PortInv`: two processes never
  listen on one port, except those of `bun`, so that whoever holds the port of a server is all there
  is of it; of an executable's name there may be several processes, which is why the property has its premise. `PidInv`: the process a pid file names is one of a server that writes that file, which
  rests on identifiers that were given before not being given again (`IdInv`). All jars
  share `server.pid`, which does no harm since `JarBridge` raises unless its server is for this machine
  (`HostServersAreLocal`, which says the same of all bridges of this machine, so that one port there is one server). The servers at one old iOS device share `ios_pid_<location>.txt`, and nothing
  in the code keeps the stop of one from ending another: the theorem is about lists in which they have one
  port (`OnePortPerOldDevice`), so that they never run together. So it is in the repository's
  topologies, where .NET is tested on newer devices only.

- `Environment_proofs!ConfigNamesLiveHostsCorrect`, `GatewaysReachTheirClusterCorrect`,
  `BalancersReachTheirGatewaysCorrect` and `LastEdgeServerIsTrustedCorrect`, for any topologies that the schema
  and `TopologyConfig` accept (`TopologyAssumption`: a cluster has a node, gateways and balancers name what
  the topology has), any choices of steps and destroys and any number of scripts, on as many
  instances as the topologies need (`BackendBounds`, which gives room to every instance of a kind and
  keeps `None` apart). None of the four is inductive: a configuration is
  written at the end of a script and made of what its steps have left behind. The argument has three parts.

  *Addresses.* `Outputs` lists the instances that there are by rank, and `Offset` counts the nodes of the clusters
  before one. `OutputsList` says that `Outputs` names each instance once and that they are alive
  (`RankIsOnto`), `OutputsWhole` that it has as many as the topology after terraform
  succeeded, `OffsetNext` and `OffsetGrows` that the slices of the clusters do not run over. From these
  `ReadIsKnown` follows for every list that can be read (the hosts of different gateways and of different
  balancers are different instances, each gateway's server is the first of its cluster, the upstreams are
  gateways) and `ReadIsNamed` when terraform has just been applied. Without `apply` the slices
  may be short, which is why `Named` depends on the steps and `Known` does not.

  *Loops.* `GatewayInv`: the gateways before the one the script is at run as they should (`Reach`), and this
  one, once installed, has its package and the address of its server. `BalancerInv` and `EdgeInv` say the same
  of balancers and of the files of the last Edge Server (`Trusted`). That a step does not undo what it did for an
  earlier host rests on the hosts being different (`OtherGateway`). The lemma `NextStep` says which steps can follow which,
  so that one that was asked for cannot be passed over, and `AdvanceInv` carries the results of the former steps into the next one.

  *What happens meanwhile.* Containers configure themselves at any time, also after the script. A node that
  is configured stays so (`ConfiguredStays`), so `Reach` survives. `ScriptInv` says that while a script
  runs the result is not "started" (`Going`): the steps that change instances need not keep what is said of
  the last configuration, and the first of the next script withdraws it. The four properties are read off from
  `ConfigInv`. Of `node` the invariant
  says no more than its domain: what a container is given comes from `Nodes`, a recursive function, and nothing here depends on it.

Not proved, only model-checked: liveness (`EveryRequestIsAnswered`, `RequestEnds`,
`StopReturns`, `CallsAreAnswered`, `WaitEnds`), which is outside the prover's reach. Every
invariant and every action property of a passing run is a theorem.

## 5. Not modelled, and what is left

- *C server: sessions, remote logger, snapshots, documents.* Replacing a session that
  is in use, the logger's connect and close, and the read handlers' raw database
  pointers are listed as hazards without a property; they need the lifetime of C++
  objects across three files and would be a module of their own (`TestSession`). The
  updates, snapshots and key paths are sequential functions on one document.
- *.NET server.* The reset with its 5 s timeout and the loads it leaves behind (`NetReset`);
  its listener and its status are in `ReplicatorEvents`.
- *JavaScript server.* The handlers of `tdk.ts` as tasks between awaits (`Tdk`); its
  connection is in `WebSocketRouter`.
- *iOS server.* It runs document callbacks and status requests on one serial queue
  to which the library posts; in which order the library posts and changes its status
  is not to be seen in the repository.
- *Java servers.* Sessions, databases and listeners; `DocReplListener` and the status are in
  `ReplicatorEvents`.
- *Test client.* The marshalling of requests, the versions of the API and the facade
  keep no state. The multipeer replicator polls as `Replicator` does, without documents
  to take from a list.
- *Drivers.* Users, roles and sessions but for what `configure_dataset` does; replications
  between gateways and of Edge Servers, XDCR, change feeds, sgcollect; calls that
  only read. Of the writing calls, `new_edits=False` and the documents with an
  identifier the server makes up are left out, since nobody else can write those.
- *Orchestrator.* Parsing a topology file and including others (the model begins with
  the result: the indices of clusters and gateways are checked against the file's own
  lists and are not shifted when an included file's are put behind them, and the default
  version of Edge Server is not taken from an included file,
  `setup_topology.py:161`); the local environment; the content of the files that go over.
- *Tests, `spec/`, `dataset/`, `jenkins/`, `scripts/`.* Inputs, documentation and
  pipelines without a state of their own.

Left to do, in this order: `TestSession`, `NetReset`, `Tdk`.
