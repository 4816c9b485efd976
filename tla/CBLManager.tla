------------------------------ MODULE CBLManager ------------------------------
(***************************************************************************)
(* The object manager of the C Test Server (servers/c/src/cbl/CBLManager). *)
(* civetweb worker threads run request handlers concurrently on the one    *)
(* manager of the session; the manager's databases and listeners are       *)
(* guarded by _mutex, its replicator contexts by _replicatorMutex.  The    *)
(* replicators of the Couchbase Lite library run on threads of their own   *)
(* and call back into the manager with the documents they replicated.      *)
(*                                                                         *)
(* A critical section of _replicatorMutex that calls nothing that blocks   *)
(* is one step; the status request keeps the mutex over two steps, because *)
(* the library may change the replicator's activity between its two reads. *)
(***************************************************************************)
EXTENDS Naturals, Sequences, FiniteSets

CONSTANTS Threads,         \* the worker threads of the HTTP server
          NoThread,        \* owner of a free mutex
          DbNames,         \* names of databases
          MaxHandles,      \* bound: databases opened in a behaviour
          MaxReplicators,  \* bound: replicators created
          MaxListeners,    \* bound: URL endpoint listeners created
          MaxEvents,       \* bound: document events of one replicator
          MaxRequests      \* bound: requests received

ASSUME ManagerAssumption ==
    /\ NoThread \notin Threads
    /\ {MaxHandles, MaxReplicators, MaxListeners, MaxEvents, MaxRequests} \subseteq Nat

Handles     == 1 .. MaxHandles
Replicators == 1 .. MaxReplicators
Listeners   == 1 .. MaxListeners
NoHandle    == 0

VARIABLES
    mutex,           \* owner of _mutex
    replMutex,       \* owner of _replicatorMutex
    databases,       \* _databases: name -> handle, NoHandle when absent
    handle,          \* the library's view of each CBLDatabase object
    lastHandle,
    contexts,        \* keys of _contextMaps
    replicatorID,    \* _replicatorID
    repl,            \* the library's replicators: database and activity
    emitted,         \* document events the library has produced
    inCallback,      \* the last event is still inside the listener callback
    replicatedDocs,  \* _contextMaps[r]->replicatedDocs
    drained,         \* history: events returned by status requests
    listeners,       \* keys of _listeners
    listenerID,      \* _listenerID
    listening,       \* listeners that accept connections
    req,             \* the request each worker thread runs
    budget,          \* requests still to be received
    resetFailed      \* history: some CBLDatabase_Delete of a reset failed

manager == <<databases, handle, lastHandle>>
replication == <<contexts, replicatorID, repl, emitted, inCallback, replicatedDocs, drained>>
listening_vars == <<listeners, listenerID, listening>>
vars == <<mutex, replMutex, manager, replication, listening_vars, req, budget, resetFailed>>

\* doomed: databases reset has still to delete; wanted: databases to create;
\* since: the identifiers in use when reset took _mutex.
NoMark == [repl |-> 0, handle |-> 0, listener |-> 0]
Idle == [pc |-> "idle", doomed |-> {}, wanted |-> {}, db |-> NoHandle,
         repl |-> 0, status |-> "none", since |-> NoMark]

Active == {"busy", "stopping"}

Init ==
    /\ mutex = NoThread
    /\ replMutex = NoThread
    /\ databases = [n \in DbNames |-> NoHandle]
    /\ handle = [h \in Handles |-> "unused"]
    /\ lastHandle = 0
    /\ contexts = {}
    /\ replicatorID = 0
    /\ repl = [r \in Replicators |-> [db |-> NoHandle, state |-> "none"]]
    /\ emitted = [r \in Replicators |-> 0]
    /\ inCallback = [r \in Replicators |-> FALSE]
    /\ replicatedDocs = [r \in Replicators |-> <<>>]
    /\ drained = [r \in Replicators |-> <<>>]
    /\ listeners = {}
    /\ listenerID = 0
    /\ listening = {}
    /\ req = [t \in Threads |-> Idle]
    /\ budget = MaxRequests
    /\ resetFailed = FALSE

-----------------------------------------------------------------------------
(* POST /reset: CBLManager::reset, then one create per requested database. *)

At(t, label) == req[t].pc = label
\* The thread goes on with r as the state of its request.
Become(t, r) == req' = [req EXCEPT ![t] = r]
Answer(t) == Become(t, Idle)

Accept(t, r) ==
    /\ At(t, "idle")
    /\ budget > 0
    /\ budget' = budget - 1
    /\ Become(t, r)

ReceiveReset(t) ==
    /\ \E names \in SUBSET DbNames : Accept(t, [Idle EXCEPT !.pc = "reset", !.wanted = names])
    /\ UNCHANGED <<mutex, replMutex, manager, replication, listening_vars, resetFailed>>

Loaded == {n \in DbNames : databases[n] # NoHandle}
InUse == [repl |-> replicatorID, handle |-> lastHandle, listener |-> listenerID]

\* Bug: the databases are forgotten without being deleted.
ResetLock_NoDelete(t) ==
    /\ At(t, "reset")
    /\ mutex = NoThread
    /\ mutex' = t
    /\ Become(t, [req[t] EXCEPT !.pc = "delete", !.since = InUse])
    /\ UNCHANGED <<replMutex, manager, replication, listening_vars, budget, resetFailed>>

ResetLock(t) ==
    /\ At(t, "reset")
    /\ mutex = NoThread
    /\ mutex' = t
    /\ Become(t, [req[t] EXCEPT !.pc = "delete", !.doomed = Loaded, !.since = InUse])
    /\ UNCHANGED <<replMutex, manager, replication, listening_vars, budget, resetFailed>>

\* CBLDatabase_Delete first asks the database's replicators to stop ...
DeleteBegin(t) ==
    /\ At(t, "delete")
    /\ \E n \in req[t].doomed :
         /\ Become(t, [req[t] EXCEPT !.pc = "deleting", !.db = databases[n],
                                    !.doomed = req[t].doomed \ {n}])
         /\ repl' = [r \in Replicators |->
                        IF repl[r].db = databases[n] /\ repl[r].state = "busy"
                        THEN [repl[r] EXCEPT !.state = "stopping"] ELSE repl[r]]
    /\ UNCHANGED <<mutex, replMutex, manager, contexts, replicatorID, emitted, inCallback,
                   replicatedDocs, drained, listening_vars, budget, resetFailed>>

Quiet(h) == \A r \in Replicators : repl[r].db = h => repl[r].state \notin Active

\* ... and returns once they have; the handle is released either way.
DeleteEnd(t) ==
    /\ At(t, "deleting")
    /\ Quiet(req[t].db)
    /\ handle' = [handle EXCEPT ![req[t].db] = "released"]
    /\ Become(t, [req[t] EXCEPT !.pc = "delete", !.db = NoHandle])
    /\ UNCHANGED <<mutex, replMutex, databases, lastHandle, replication, listening_vars,
                   budget, resetFailed>>

\* The exception leaves the loop before _databases.clear(): nothing is erased.
DeleteFail(t) ==
    /\ At(t, "deleting")
    /\ Quiet(req[t].db)
    /\ handle' = [handle EXCEPT ![req[t].db] = "released"]
    /\ mutex' = NoThread
    /\ resetFailed' = TRUE
    /\ Answer(t)
    /\ UNCHANGED <<replMutex, databases, lastHandle, replication, listening_vars, budget>>

\* Bug: the deleted databases stay in the map.
ClearDatabases_KeepMap(t) ==
    /\ At(t, "delete")
    /\ req[t].doomed = {}
    /\ mutex' = NoThread
    /\ Become(t, [req[t] EXCEPT !.pc = "release"])
    /\ UNCHANGED <<replMutex, manager, replication, listening_vars, budget, resetFailed>>

ClearDatabases(t) ==
    /\ At(t, "delete")
    /\ req[t].doomed = {}
    /\ databases' = [n \in DbNames |-> NoHandle]
    /\ mutex' = NoThread
    /\ Become(t, [req[t] EXCEPT !.pc = "release"])
    /\ UNCHANGED <<replMutex, handle, lastHandle, replication, listening_vars, budget, resetFailed>>

ReleaseReplicators(t) ==
    /\ At(t, "release")
    /\ replMutex = NoThread
    /\ contexts' = {}
    /\ replicatedDocs' = [r \in Replicators |-> <<>>]
    /\ Become(t, [req[t] EXCEPT !.pc = "unlisten"])
    /\ UNCHANGED <<mutex, replMutex, manager, replicatorID, repl, emitted, inCallback, drained,
                   listening_vars, budget, resetFailed>>

\* Bug: the listeners are released but their identifiers stay known.
ReleaseListeners_KeepMap(t) ==
    /\ At(t, "unlisten")
    /\ mutex = NoThread
    /\ listening' = {}
    /\ Become(t, [req[t] EXCEPT !.pc = "create"])
    /\ UNCHANGED <<mutex, replMutex, manager, replication, listeners, listenerID, budget,
                   resetFailed>>

ReleaseListeners(t) ==
    /\ At(t, "unlisten")
    /\ mutex = NoThread
    /\ listeners' = {}
    /\ listening' = {}
    /\ Become(t, [req[t] EXCEPT !.pc = "create"])
    /\ UNCHANGED <<mutex, replMutex, manager, replication, listenerID, budget, resetFailed>>

\* createDatabaseWithDataset / createDatabaseWithCollections, under _mutex.
CreateDatabase(t) ==
    /\ At(t, "create")
    /\ mutex = NoThread
    /\ lastHandle < MaxHandles
    /\ \E n \in req[t].wanted :
         /\ databases[n] = NoHandle
         /\ databases' = [databases EXCEPT ![n] = lastHandle + 1]
         /\ Become(t, [req[t] EXCEPT !.wanted = req[t].wanted \ {n}])
    /\ handle' = [handle EXCEPT ![lastHandle + 1] = "open"]
    /\ lastHandle' = lastHandle + 1
    /\ UNCHANGED <<mutex, replMutex, replication, listening_vars, budget, resetFailed>>

\* A collection that cannot be created: the open database is not recorded.
CreateCollectionFail(t) ==
    /\ At(t, "create")
    /\ mutex = NoThread
    /\ lastHandle < MaxHandles
    /\ \E n \in req[t].wanted : databases[n] = NoHandle
    /\ handle' = [handle EXCEPT ![lastHandle + 1] = "leaked"]
    /\ lastHandle' = lastHandle + 1
    /\ Answer(t)
    /\ UNCHANGED <<mutex, replMutex, databases, replication, listening_vars, budget, resetFailed>>

\* The body is malformed, the name is already loaded or the copy fails.
CreateFail(t) ==
    /\ At(t, "create")
    /\ mutex = NoThread
    /\ req[t].wanted # {}
    /\ Answer(t)
    /\ UNCHANGED <<mutex, replMutex, manager, replication, listening_vars, budget, resetFailed>>

ResetDone(t) ==
    /\ At(t, "create")
    /\ req[t].wanted = {}
    /\ Answer(t)
    /\ UNCHANGED <<mutex, replMutex, manager, replication, listening_vars, budget, resetFailed>>

-----------------------------------------------------------------------------
(* POST /startReplicator: _mutex throughout, _replicatorMutex inside it.   *)

ReceiveStart(t) ==
    /\ \E n \in DbNames : Accept(t, [Idle EXCEPT !.pc = "start", !.wanted = {n}])
    /\ UNCHANGED <<mutex, replMutex, manager, replication, listening_vars, resetFailed>>

\* Bug: the database is looked up under _mutex, which is then unlocked.
StartLock_Unlocks(t) ==
    /\ At(t, "start")
    /\ mutex = NoThread
    /\ replicatorID < MaxReplicators
    /\ \E n \in req[t].wanted :
         /\ databases[n] # NoHandle
         /\ Become(t, [req[t] EXCEPT !.pc = "register", !.db = databases[n]])
    /\ UNCHANGED <<mutex, replMutex, manager, replication, listening_vars, budget, resetFailed>>

StartLock(t) ==
    /\ At(t, "start")
    /\ mutex = NoThread
    /\ replicatorID < MaxReplicators
    /\ \E n \in req[t].wanted :
         /\ databases[n] # NoHandle
         /\ Become(t, [req[t] EXCEPT !.pc = "register", !.db = databases[n]])
    /\ mutex' = t
    /\ UNCHANGED <<replMutex, manager, replication, listening_vars, budget, resetFailed>>

\* No such database or collection, or the library refuses the configuration.
StartFail(t) ==
    /\ At(t, "start")
    /\ mutex = NoThread
    /\ Answer(t)
    /\ UNCHANGED <<mutex, replMutex, manager, replication, listening_vars, budget, resetFailed>>

StartRegister(t) ==
    /\ At(t, "register")
    /\ replMutex = NoThread
    /\ replicatorID' = replicatorID + 1
    /\ contexts' = contexts \cup {replicatorID + 1}
    /\ repl' = [repl EXCEPT ![replicatorID + 1] = [db |-> req[t].db, state |-> "busy"]]
    /\ mutex' = NoThread
    /\ Answer(t)
    /\ UNCHANGED <<replMutex, manager, emitted, inCallback, replicatedDocs, drained,
                   listening_vars, budget, resetFailed>>

-----------------------------------------------------------------------------
(* POST /getReplicatorStatus: the activity first, then the documents.      *)

ReceiveStatus(t) ==
    /\ \E r \in 1 .. replicatorID : Accept(t, [Idle EXCEPT !.pc = "status", !.repl = r])
    /\ UNCHANGED <<mutex, replMutex, manager, replication, listening_vars, resetFailed>>

StatusNotFound(t) ==
    /\ At(t, "status")
    /\ replMutex = NoThread
    /\ req[t].repl \notin contexts
    /\ Answer(t)
    /\ UNCHANGED <<mutex, replMutex, manager, replication, listening_vars, budget, resetFailed>>

StatusRead(t) ==
    /\ At(t, "status")
    /\ replMutex = NoThread
    /\ req[t].repl \in contexts
    /\ replMutex' = t
    /\ Become(t, [req[t] EXCEPT !.pc = "drain", !.status = repl[req[t].repl].state])
    /\ UNCHANGED <<mutex, manager, replication, listening_vars, budget, resetFailed>>

\* Bug: the documents are returned and kept.
StatusDrain_KeepDocs(t) ==
    /\ At(t, "drain")
    /\ drained' = [drained EXCEPT ![req[t].repl] = @ \o replicatedDocs[req[t].repl]]
    /\ replMutex' = NoThread
    /\ Answer(t)
    /\ UNCHANGED <<mutex, manager, contexts, replicatorID, repl, emitted, inCallback,
                   replicatedDocs, listening_vars, budget, resetFailed>>

StatusDrain(t) ==
    /\ At(t, "drain")
    /\ LET r == req[t].repl IN
         /\ drained' = [drained EXCEPT ![r] = drained[r] \o replicatedDocs[r]]
         /\ replicatedDocs' = [replicatedDocs EXCEPT ![r] = <<>>]
    /\ replMutex' = NoThread
    /\ Answer(t)
    /\ UNCHANGED <<mutex, manager, contexts, replicatorID, repl, emitted, inCallback,
                   listening_vars, budget, resetFailed>>

-----------------------------------------------------------------------------
(* POST /startListener and /stopListener, each under _mutex.               *)

\* Bug: the identifier is taken before it is incremented.
StartListener_PostIncrement(t) ==
    /\ Accept(t, Idle)
    /\ mutex = NoThread
    /\ listenerID < MaxListeners
    /\ \E n \in DbNames : databases[n] # NoHandle
    /\ listenerID' = listenerID + 1
    /\ listeners' = listeners \cup {listenerID}
    /\ listening' = listening \cup {listenerID}
    /\ UNCHANGED <<mutex, replMutex, manager, replication, resetFailed>>

StartListener(t) ==
    /\ Accept(t, Idle)
    /\ mutex = NoThread
    /\ listenerID < MaxListeners
    /\ \E n \in DbNames : databases[n] # NoHandle
    /\ listenerID' = listenerID + 1
    /\ listeners' = listeners \cup {listenerID + 1}
    /\ listening' = listening \cup {listenerID + 1}
    /\ UNCHANGED <<mutex, replMutex, manager, replication, resetFailed>>

StopListener(t) ==
    /\ Accept(t, Idle)
    /\ mutex = NoThread
    /\ \E l \in listeners : listening' = listening \ {l}
    /\ UNCHANGED <<mutex, replMutex, manager, replication, listeners, listenerID, resetFailed>>

-----------------------------------------------------------------------------
(* The replicators of the library.                                         *)

\* A batch of documents was replicated: the library enters the callback.
Replicate(r) ==
    /\ repl[r].state = "busy"
    /\ ~inCallback[r]
    /\ emitted[r] < MaxEvents
    /\ emitted' = [emitted EXCEPT ![r] = emitted[r] + 1]
    /\ inCallback' = [inCallback EXCEPT ![r] = TRUE]
    /\ UNCHANGED <<mutex, replMutex, manager, contexts, replicatorID, repl, replicatedDocs,
                   drained, listening_vars, req, budget, resetFailed>>

Notify(r) ==
    /\ inCallback[r]
    /\ inCallback' = [inCallback EXCEPT ![r] = FALSE]
    /\ replicatedDocs' = IF r \in contexts
                         THEN [replicatedDocs EXCEPT ![r] = Append(replicatedDocs[r], emitted[r])]
                         ELSE replicatedDocs
    /\ UNCHANGED <<mutex, replMutex, manager, contexts, replicatorID, repl, emitted, drained,
                   listening_vars, req, budget, resetFailed>>

\* Bug: the callback takes _mutex, as the manager once did.
AddDocumentReplication_TakesMutex(r) == mutex = NoThread /\ replMutex = NoThread /\ Notify(r)

\* Bug: the callback gives the documents up when _replicatorMutex is taken.
AddDocumentReplication_TryLock(r) ==
    \/ replMutex = NoThread /\ Notify(r)
    \/ /\ replMutex # NoThread /\ inCallback[r]
       /\ inCallback' = [inCallback EXCEPT ![r] = FALSE]
       /\ UNCHANGED <<mutex, replMutex, manager, contexts, replicatorID, repl, emitted,
                      replicatedDocs, drained, listening_vars, req, budget, resetFailed>>

AddDocumentReplication(r) == replMutex = NoThread /\ Notify(r)

StopAt(r, state) ==
    /\ repl[r].state = state
    /\ ~inCallback[r]
    /\ repl' = [repl EXCEPT ![r].state = "stopped"]
    /\ UNCHANGED <<mutex, replMutex, manager, contexts, replicatorID, emitted, inCallback,
                   replicatedDocs, drained, listening_vars, req, budget, resetFailed>>

\* A one-shot replicator is done, or a continuous one fails for good.
Finish(r) == StopAt(r, "busy")
\* The library honours the request to stop.
Halt(r) == StopAt(r, "stopping")

-----------------------------------------------------------------------------
Reset(t) ==
    \/ ResetLock(t) \/ DeleteBegin(t) \/ DeleteEnd(t) \/ DeleteFail(t) \/ ClearDatabases(t)
    \/ ReleaseReplicators(t) \/ ReleaseListeners(t)
    \/ CreateDatabase(t) \/ CreateCollectionFail(t) \/ CreateFail(t) \/ ResetDone(t)

Start(t) == StartLock(t) \/ StartFail(t) \/ StartRegister(t)

Status(t) == StatusNotFound(t) \/ StatusRead(t) \/ StatusDrain(t)

\* A worker thread with a request, whatever step it is at.
Work(t) == Reset(t) \/ Start(t) \/ Status(t)

Receive(t) ==
    ReceiveReset(t) \/ ReceiveStart(t) \/ ReceiveStatus(t) \/ StartListener(t) \/ StopListener(t)

Library(r) == Replicate(r) \/ AddDocumentReplication(r) \/ Finish(r) \/ Halt(r)

\* Every request has been answered and every replicator is still.
Rest ==
    /\ budget = 0
    /\ \A t \in Threads : At(t, "idle")
    /\ \A r \in Replicators : ~inCallback[r]
    /\ UNCHANGED vars

Next ==
    \/ \E t \in Threads : Work(t) \/ Receive(t)
    \/ \E r \in Replicators : Library(r)
    \/ Rest

\* Running threads are scheduled, a callback that can proceed does, and the
\* library stops a replicator it was asked to stop.  Nothing obliges a client
\* to send a request or a replicator to replicate.
Fairness ==
    /\ \A t \in Threads : WF_vars(Work(t))
    /\ \A r \in Replicators : WF_vars(AddDocumentReplication(r)) /\ WF_vars(Halt(r))

Spec == Init /\ [][Next]_vars /\ Fairness

-----------------------------------------------------------------------------
Labels == {"idle", "reset", "delete", "deleting", "release", "unlisten", "create",
           "start", "register", "status", "drain"}
Request == [pc : Labels, doomed : SUBSET DbNames, wanted : SUBSET DbNames,
            db : Handles \cup {NoHandle}, repl : Replicators \cup {0},
            status : {"none", "busy", "stopping", "stopped"},
            since : [repl : Replicators \cup {0}, handle : Handles \cup {NoHandle},
                     listener : Listeners \cup {0}]]

ManagerType ==
    /\ mutex \in Threads \cup {NoThread}
    /\ databases \in [DbNames -> Handles \cup {NoHandle}]
    /\ handle \in [Handles -> {"unused", "open", "released", "leaked"}]
    /\ lastHandle \in Handles \cup {0}

ReplicationType ==
    /\ replMutex \in Threads \cup {NoThread}
    /\ contexts \subseteq Replicators
    /\ replicatorID \in Replicators \cup {0}
    /\ repl \in [Replicators -> [db : Handles \cup {NoHandle},
                                 state : {"none", "busy", "stopping", "stopped"}]]
    /\ emitted \in [Replicators -> Nat]
    /\ inCallback \in [Replicators -> BOOLEAN]
    /\ replicatedDocs \in [Replicators -> Seq(Nat)]
    /\ drained \in [Replicators -> Seq(Nat)]

ListeningType ==
    /\ listeners \subseteq Listeners
    /\ listenerID \in Listeners \cup {0}
    /\ listening \subseteq Listeners

RequestType ==
    /\ req \in [Threads -> Request]
    /\ budget \in Nat
    /\ resetFailed \in BOOLEAN

\* Every variable keeps its shape: the state of the manager, of the library's
\* objects and of the threads' requests (CBLManager.h, the private members).
TypeOK == ManagerType /\ ReplicationType /\ ListeningType /\ RequestType

-----------------------------------------------------------------------------
(* What the manager promises.                                              *)

Events(n) == [i \in 1 .. n |-> i]

\* Every document event of a live replicator reaches the client exactly once
\* and in order: what status requests returned, then what waits in
\* replicatedDocs, then the event still in its callback (drain in
\* replicatorStatus against push_back in addDocumentReplication).
EventsExactlyOnce ==
    \A r \in contexts :
        drained[r] \o replicatedDocs[r] =
            Events(IF inCallback[r] THEN emitted[r] - 1 ELSE emitted[r])

\* A status that says STOPPED carries the last of the replicator's events: the
\* client may stop polling (replicatorStatus reads the activity before it
\* drains the documents; wait_for_doc_events gives up on STOPPED).
StoppedStatusIsComplete ==
    [][\A t \in Threads :
          At(t, "drain") /\ ~At(t, "drain")' /\ req[t].status = "stopped" =>
              drained'[req[t].repl] = Events(emitted'[req[t].repl])]_vars

\* Unless the deletion of a database failed in some reset, the map never offers
\* a request a database object that was released: outside of a reset's own
\* critical section every entry of _databases is open (reset clears the map in
\* the critical section that deletes the databases).
MapHoldsOpenDatabases ==
    mutex = NoThread /\ ~resetFailed =>
        \A n \in DbNames : databases[n] # NoHandle => handle[databases[n]] = "open"

\* No replicator is active on a released database: the library's threads never
\* work on freed objects.  startReplicator earns this by keeping _mutex from the
\* look-up of the database to the start of the replicator, so that no reset
\* deletes the database in between.  (A reset whose deletion failed leaves
\* released databases in the map, see DeleteFail.)
ActiveReplicatorHasDatabase ==
    ~resetFailed => \A r \in Replicators : repl[r].state \in Active => handle[repl[r].db] = "open"

\* reset releases a replicator context, which the callbacks point into, only
\* after the replicator stopped; the exception is a replicator that another
\* request started after this reset cleared the databases.
ReleasedContextsAreStopped ==
    [][\A t \in Threads :
          At(t, "release") /\ ~At(t, "release")' /\ ~resetFailed =>
              \A r \in contexts : r <= req[t].since.repl => repl[r].state = "stopped"]_vars

\* When a reset starts to create the new databases, nothing of the former test
\* is left in the manager: its databases are closed (those leaked by a failed
\* create aside), its replicators and listeners are forgotten.
ResetForgetsFormerTest ==
    \A t \in Threads : At(t, "create") =>
        /\ \A h \in 1 .. req[t].since.handle : handle[h] # "open"
        /\ \A r \in 1 .. req[t].since.repl : r \notin contexts
        /\ \A l \in 1 .. req[t].since.listener : l \notin listeners

\* Every request is answered: the handlers, the callbacks and the deletion of
\* a database with active replicators never wait for each other in a circle
\* (the note on _mutex in replicatorStatus).
EveryRequestIsAnswered == \A t \in Threads : ~At(t, "idle") ~> At(t, "idle")
=============================================================================
