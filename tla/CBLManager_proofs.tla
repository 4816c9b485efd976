-------------------------- MODULE CBLManager_proofs --------------------------
(***************************************************************************)
(* Theorems about the object manager of the C Test Server, for any number  *)
(* of threads, databases, replicators, events and requests.                *)
(***************************************************************************)
EXTENDS CBLManager, SequenceTheorems, TLAPS

LEMMA ConstantsAreNaturals ==
    /\ MaxHandles \in Nat /\ MaxReplicators \in Nat /\ MaxListeners \in Nat
    /\ MaxEvents \in Nat /\ MaxRequests \in Nat
    /\ NoThread \notin Threads
BY ManagerAssumption

USE ConstantsAreNaturals DEF Handles, Replicators, Listeners, NoHandle

(***************************************************************************)
(* Mutual exclusion.  A thread inside a critical section that spans several *)
(* steps owns the mutex of that section.                                   *)
(***************************************************************************)
InMutex == {"delete", "deleting", "register"}

LockInv ==
    \A t \in Threads :
        /\ req[t].pc \in InMutex => mutex = t
        /\ req[t].pc = "drain" => replMutex = t
        /\ req[t].pc \in {"status", "drain"} => req[t].repl \in Replicators
        /\ req[t].pc \in {"delete", "deleting"} =>
              \A n \in req[t].doomed : databases[n] # NoHandle
        /\ req[t].pc = "deleting" => req[t].db \in Handles
        /\ req[t].pc = "register" => req[t].db \in Handles /\ replicatorID < MaxReplicators

TypeInv == TypeOK /\ LockInv

Since == [repl : Replicators \cup {0}, handle : Handles \cup {NoHandle},
          listener : Listeners \cup {0}]

LEMMA IdleType == Idle \in Request
BY DEF Idle, Request, Labels, NoMark

\* A request that becomes r is the only one that changes.
LEMMA BecomeType ==
    ASSUME RequestType, NEW t \in Threads, NEW r \in Request, Become(t, r),
           budget' \in Nat, resetFailed' \in BOOLEAN
    PROVE  /\ RequestType'
           /\ req'[t] = r
           /\ \A u \in Threads \ {t} : req'[u] = req[u]
BY DEF RequestType, Become

\* A thread that takes no part in a critical section afterwards keeps the locks
\* of the others.
LEMMA LockKept ==
    ASSUME LockInv, NEW t \in Threads,
           \A u \in Threads \ {t} : req'[u] = req[u],
           UNCHANGED <<databases, replicatorID>>,
           \A u \in Threads \ {t} : /\ mutex = u => mutex' = u
                                    /\ replMutex = u => replMutex' = u,
           req'[t].pc \notin InMutex \cup {"status", "drain"}
    PROVE  LockInv'
<1>1. ASSUME NEW u \in Threads \ {t}
      PROVE  /\ req'[u].pc \in InMutex => mutex' = u
             /\ req'[u].pc = "drain" => replMutex' = u
    BY <1>1 DEF LockInv
<1> QED BY <1>1 DEF LockInv, InMutex

LEMMA TypeInit == Init => TypeInv
<1> SUFFICES ASSUME Init PROVE TypeInv
    OBVIOUS
<1>1. ManagerType
    BY DEF Init, ManagerType
<1>2. ReplicationType
    <2>1. <<>> \in Seq(Nat)
        OBVIOUS
    <2> QED BY <2>1 DEF Init, ReplicationType
<1>3. ListeningType
    BY DEF Init, ListeningType
<1>4. RequestType
    BY IdleType DEF Init, RequestType
<1>5. LockInv
    BY DEF Init, LockInv, InMutex, Idle
<1> QED BY <1>1, <1>2, <1>3, <1>4, <1>5 DEF TypeInv, TypeOK

\* Every update the handlers make to a request keeps it a request.
LEMMA UpdateType ==
    ASSUME NEW q \in Request, NEW l \in Labels
    PROVE  /\ [q EXCEPT !.pc = l] \in Request
           /\ \A w \in SUBSET DbNames : /\ [q EXCEPT !.wanted = w] \in Request
                                        /\ [q EXCEPT !.pc = l, !.wanted = w] \in Request
           /\ \A h \in Handles \cup {NoHandle} : [q EXCEPT !.pc = l, !.db = h] \in Request
           /\ \A r \in Replicators \cup {0} : [q EXCEPT !.pc = l, !.repl = r] \in Request
           /\ \A s \in {"none", "busy", "stopping", "stopped"} :
                  [q EXCEPT !.pc = l, !.status = s] \in Request
           /\ \A h \in Handles \cup {NoHandle}, d \in SUBSET DbNames :
                  [q EXCEPT !.pc = l, !.db = h, !.doomed = d] \in Request
           /\ \A d \in SUBSET DbNames, m \in Since :
                  [q EXCEPT !.pc = l, !.doomed = d, !.since = m] \in Request
<1>1. [q EXCEPT !.pc = l] \in Request
    BY DEF Request
<1>2. ASSUME NEW w \in SUBSET DbNames
      PROVE  [q EXCEPT !.wanted = w] \in Request /\ [q EXCEPT !.pc = l, !.wanted = w] \in Request
    <2>1. [q EXCEPT !.wanted = w] \in Request
        BY DEF Request
    <2>2. [q EXCEPT !.pc = l, !.wanted = w] \in Request
        BY DEF Request
    <2> QED BY <2>1, <2>2
<1>3. ASSUME NEW h \in Handles \cup {NoHandle}
      PROVE  [q EXCEPT !.pc = l, !.db = h] \in Request
    BY DEF Request
<1>4. ASSUME NEW r \in Replicators \cup {0}
      PROVE  [q EXCEPT !.pc = l, !.repl = r] \in Request
    BY DEF Request
<1>5. ASSUME NEW s \in {"none", "busy", "stopping", "stopped"}
      PROVE  [q EXCEPT !.pc = l, !.status = s] \in Request
    BY DEF Request
<1>6. ASSUME NEW h \in Handles \cup {NoHandle}, NEW d \in SUBSET DbNames
      PROVE  [q EXCEPT !.pc = l, !.db = h, !.doomed = d] \in Request
    BY DEF Request
<1>7. ASSUME NEW d \in SUBSET DbNames, NEW m \in Since
      PROVE  [q EXCEPT !.pc = l, !.doomed = d, !.since = m] \in Request
    BY DEF Request, Since
<1> QED BY <1>1, <1>2, <1>3, <1>4, <1>5, <1>6, <1>7, Zenon

\* The steps of POST /reset keep the type invariant.
LEMMA TypeReset ==
    ASSUME TypeInv, NEW t \in Threads, Reset(t)
    PROVE  TypeInv'
<1> USE DEF TypeInv, TypeOK, At, manager, replication, listening_vars
<1>1. CASE ResetLock(t)
    <2>1. Become(t, [req[t] EXCEPT !.pc = "delete", !.doomed = Loaded, !.since = InUse])
        BY <1>1 DEF ResetLock
    <2>2. "delete" \in Labels /\ req[t] \in Request
        BY DEF Labels, RequestType
    <2>3. Loaded \in SUBSET DbNames /\ InUse \in Since
        BY  DEF Loaded, InUse, Since, ManagerType, ReplicationType, ListeningType
    <2>4. [req[t] EXCEPT !.pc = "delete", !.doomed = Loaded, !.since = InUse] \in Request
        BY <2>3, <2>2, IdleType, UpdateType, Zenon
    <2>a. /\ [req[t] EXCEPT !.pc = "delete", !.doomed = Loaded, !.since = InUse].pc = "delete"
          /\ [req[t] EXCEPT !.pc = "delete", !.doomed = Loaded, !.since = InUse].doomed = Loaded
        BY <2>2 DEF Request
    <2>5. budget' \in Nat /\ resetFailed' \in BOOLEAN
        BY <1>1 DEF ResetLock, RequestType
    <2>6. /\ RequestType'
          /\ req'[t] = [req[t] EXCEPT !.pc = "delete", !.doomed = Loaded, !.since = InUse]
          /\ \A u \in Threads \ {t} : req'[u] = req[u]
        BY <2>4, <2>1, <2>5, BecomeType, Zenon
    <2>7. ManagerType' /\ ReplicationType' /\ ListeningType'
        BY <1>1 DEF ResetLock, ManagerType, ReplicationType, ListeningType
    <2>8. LockInv'
        <3>1. mutex = NoThread /\ mutex' = t /\ UNCHANGED <<replMutex, databases, replicatorID>>
            BY <1>1 DEF ResetLock
        <3>2. req'[t].pc = "delete" /\ \A n \in req'[t].doomed : databases[n] # NoHandle
            BY <2>6, <2>a DEF Loaded
        <3>3. \A u \in Threads : mutex # u
            BY <3>1
        <3> QED BY <2>6, <3>1, <3>2, <3>3 DEF LockInv, InMutex
    <2> QED BY <2>6, <2>7, <2>8
<1>2. CASE DeleteBegin(t)
    <2>1. PICK n \in req[t].doomed :
             Become(t, [req[t] EXCEPT !.pc = "deleting", !.db = databases[n], !.doomed = req[t].doomed \ {n}])
        BY <1>2 DEF DeleteBegin
    <2>2. "deleting" \in Labels /\ req[t] \in Request
        BY DEF Labels, RequestType
    <2>3. databases[n] \in Handles \cup {NoHandle} /\ req[t].doomed \ {n} \in SUBSET DbNames
        BY <2>1 DEF ManagerType, RequestType, Request
    <2>4. [req[t] EXCEPT !.pc = "deleting", !.db = databases[n], !.doomed = req[t].doomed \ {n}] \in Request
        BY <2>3, <2>2, IdleType, UpdateType, Zenon
    <2>a. /\ [req[t] EXCEPT !.pc = "deleting", !.db = databases[n], !.doomed = req[t].doomed \ {n}].pc = "deleting"
          /\ [req[t] EXCEPT !.pc = "deleting", !.db = databases[n], !.doomed = req[t].doomed \ {n}].doomed = req[t].doomed \ {n}
          /\ [req[t] EXCEPT !.pc = "deleting", !.db = databases[n], !.doomed = req[t].doomed \ {n}].db = databases[n]
        BY <2>2 DEF Request
    <2>5. budget' \in Nat /\ resetFailed' \in BOOLEAN
        BY <1>2 DEF DeleteBegin, RequestType
    <2>6. /\ RequestType'
          /\ req'[t] = [req[t] EXCEPT !.pc = "deleting", !.db = databases[n], !.doomed = req[t].doomed \ {n}]
          /\ \A u \in Threads \ {t} : req'[u] = req[u]
        BY <2>4, <2>1, <2>5, BecomeType, Zenon
    <2>7. ManagerType' /\ ReplicationType' /\ ListeningType'
        <3>1. UNCHANGED <<mutex, replMutex, manager, contexts, replicatorID, emitted, inCallback,
                          replicatedDocs, drained, listening_vars>>
            BY <1>2 DEF DeleteBegin
        <3>2. repl' \in [Replicators -> [db : Handles \cup {NoHandle},
                                         state : {"none", "busy", "stopping", "stopped"}]]
            <4>1. PICK m \in req[t].doomed :
                     repl' = [r \in Replicators |->
                                 IF repl[r].db = databases[m] /\ repl[r].state = "busy"
                                 THEN [repl[r] EXCEPT !.state = "stopping"] ELSE repl[r]]
                BY <1>2 DEF DeleteBegin
            <4> QED BY <4>1 DEF ReplicationType
        <3>3. ManagerType'
            BY <3>1 DEF ManagerType
        <3>4. ReplicationType'
            BY <3>1, <3>2 DEF ReplicationType
        <3>5. ListeningType'
            BY <3>1 DEF ListeningType
        <3> QED BY <3>3, <3>4, <3>5
    <2>8. LockInv'
        <3>1. databases[n] \in Handles
            BY <1>2, <2>1 DEF DeleteBegin, LockInv, ManagerType, RequestType, Request
        <3>2. mutex = t /\ UNCHANGED <<mutex, replMutex, databases, replicatorID>>
            BY <1>2 DEF DeleteBegin, LockInv, InMutex
        <3>3. \A m \in req'[t].doomed : databases[m] # NoHandle
            BY <1>2, <2>6, <2>a DEF DeleteBegin, LockInv
        <3> QED BY <2>6, <2>a, <3>1, <3>2, <3>3 DEF LockInv, InMutex
    <2> QED BY <2>6, <2>7, <2>8
<1>3. CASE DeleteEnd(t)
    <2>1. Become(t, [req[t] EXCEPT !.pc = "delete", !.db = NoHandle])
        BY <1>3 DEF DeleteEnd
    <2>2. "delete" \in Labels /\ req[t] \in Request
        BY DEF Labels, RequestType
    <2>3. NoHandle \in Handles \cup {NoHandle}
        OBVIOUS
    <2>4. [req[t] EXCEPT !.pc = "delete", !.db = NoHandle] \in Request
        BY <2>3, <2>2, IdleType, UpdateType, Zenon
    <2>a. /\ [req[t] EXCEPT !.pc = "delete", !.db = NoHandle].pc = "delete"
          /\ [req[t] EXCEPT !.pc = "delete", !.db = NoHandle].doomed = req[t].doomed
        BY <2>2 DEF Request
    <2>5. budget' \in Nat /\ resetFailed' \in BOOLEAN
        BY <1>3 DEF DeleteEnd, RequestType
    <2>6. /\ RequestType'
          /\ req'[t] = [req[t] EXCEPT !.pc = "delete", !.db = NoHandle]
          /\ \A u \in Threads \ {t} : req'[u] = req[u]
        BY <2>4, <2>1, <2>5, BecomeType, Zenon
    <2>7. ManagerType' /\ ReplicationType' /\ ListeningType'
        BY <1>3 DEF DeleteEnd, ManagerType, ReplicationType, ListeningType
    <2>8. LockInv'
        <3>1. mutex = t /\ UNCHANGED <<mutex, replMutex, databases, replicatorID>>
            BY <1>3 DEF DeleteEnd, LockInv, InMutex
        <3>2. \A m \in req'[t].doomed : databases[m] # NoHandle
            BY <1>3, <2>6, <2>a DEF DeleteEnd, LockInv
        <3> QED BY <2>6, <2>a, <3>1, <3>2 DEF LockInv, InMutex
    <2> QED BY <2>6, <2>7, <2>8
<1>4. CASE DeleteFail(t)
    <2>1. Become(t, Idle)
        BY <1>4 DEF Answer, DeleteFail
    <2>5. budget' \in Nat /\ resetFailed' \in BOOLEAN
        BY <1>4 DEF Answer, DeleteFail, RequestType
    <2>6. /\ RequestType'
          /\ req'[t] = Idle
          /\ \A u \in Threads \ {t} : req'[u] = req[u]
        BY IdleType, <2>1, <2>5, BecomeType, Zenon
    <2>7. ManagerType' /\ ReplicationType' /\ ListeningType'
        BY <1>4 DEF DeleteFail, ManagerType, ReplicationType, ListeningType
    <2>8. LockInv'
        <3>1. /\ mutex = t /\ mutex' = NoThread /\ req'[t].pc = "idle"
              /\ UNCHANGED <<replMutex, databases, replicatorID>>
            BY <1>4, <2>6 DEF DeleteFail, LockInv, InMutex, Idle
        <3> QED BY <2>6, <3>1, LockKept DEF InMutex
    <2> QED BY <2>6, <2>7, <2>8
<1>5. CASE ClearDatabases(t)
    <2>1. Become(t, [req[t] EXCEPT !.pc = "release"])
        BY <1>5 DEF ClearDatabases
    <2>2. "release" \in Labels /\ req[t] \in Request
        BY DEF Labels, RequestType
    <2>4. [req[t] EXCEPT !.pc = "release"] \in Request
        BY <2>2, IdleType, UpdateType, Zenon
    <2>5. budget' \in Nat /\ resetFailed' \in BOOLEAN
        BY <1>5 DEF ClearDatabases, RequestType
    <2>6. /\ RequestType'
          /\ req'[t] = [req[t] EXCEPT !.pc = "release"]
          /\ \A u \in Threads \ {t} : req'[u] = req[u]
        BY <2>4, <2>1, <2>5, BecomeType, Zenon
    <2>7. ManagerType' /\ ReplicationType' /\ ListeningType'
        BY <1>5 DEF ClearDatabases, ManagerType, ReplicationType, ListeningType
    <2>8. LockInv'
        BY <1>5, <2>6 DEF ClearDatabases, LockInv, InMutex, RequestType, Request, Idle
    <2> QED BY <2>6, <2>7, <2>8
<1>6. CASE ReleaseReplicators(t)
    <2>1. Become(t, [req[t] EXCEPT !.pc = "unlisten"])
        BY <1>6 DEF ReleaseReplicators
    <2>2. "unlisten" \in Labels /\ req[t] \in Request
        BY DEF Labels, RequestType
    <2>4. [req[t] EXCEPT !.pc = "unlisten"] \in Request
        BY <2>2, IdleType, UpdateType, Zenon
    <2>5. budget' \in Nat /\ resetFailed' \in BOOLEAN
        BY <1>6 DEF ReleaseReplicators, RequestType
    <2>6. /\ RequestType'
          /\ req'[t] = [req[t] EXCEPT !.pc = "unlisten"]
          /\ \A u \in Threads \ {t} : req'[u] = req[u]
        BY <2>4, <2>1, <2>5, BecomeType, Zenon
    <2>7. ManagerType' /\ ReplicationType' /\ ListeningType'
        BY <1>6 DEF ReleaseReplicators, ManagerType, ReplicationType, ListeningType
    <2>8. LockInv'
        BY <1>6, <2>6 DEF ReleaseReplicators, LockInv, InMutex, RequestType, Request, Idle
    <2> QED BY <2>6, <2>7, <2>8
<1>7. CASE ReleaseListeners(t)
    <2>1. Become(t, [req[t] EXCEPT !.pc = "create"])
        BY <1>7 DEF ReleaseListeners
    <2>2. "create" \in Labels /\ req[t] \in Request
        BY DEF Labels, RequestType
    <2>4. [req[t] EXCEPT !.pc = "create"] \in Request
        BY <2>2, IdleType, UpdateType, Zenon
    <2>5. budget' \in Nat /\ resetFailed' \in BOOLEAN
        BY <1>7 DEF ReleaseListeners, RequestType
    <2>6. /\ RequestType'
          /\ req'[t] = [req[t] EXCEPT !.pc = "create"]
          /\ \A u \in Threads \ {t} : req'[u] = req[u]
        BY <2>4, <2>1, <2>5, BecomeType, Zenon
    <2>7. ManagerType' /\ ReplicationType' /\ ListeningType'
        BY <1>7 DEF ReleaseListeners, ManagerType, ReplicationType, ListeningType
    <2>8. LockInv'
        BY <1>7, <2>6 DEF ReleaseListeners, LockInv, InMutex, RequestType, Request, Idle
    <2> QED BY <2>6, <2>7, <2>8
<1>8. CASE CreateDatabase(t)
    <2>1. PICK n \in req[t].wanted :
             Become(t, [req[t] EXCEPT !.wanted = req[t].wanted \ {n}])
        BY <1>8 DEF CreateDatabase
    <2>2. "create" \in Labels /\ req[t] \in Request
        BY DEF Labels, RequestType
    <2>3. req[t].wanted \ {n} \in SUBSET DbNames
        BY <2>1 DEF RequestType, Request
    <2>4. [req[t] EXCEPT !.wanted = req[t].wanted \ {n}] \in Request
        BY <2>3, <2>2, IdleType, UpdateType, Zenon
    <2>5. budget' \in Nat /\ resetFailed' \in BOOLEAN
        BY <1>8 DEF CreateDatabase, RequestType
    <2>6. /\ RequestType'
          /\ req'[t] = [req[t] EXCEPT !.wanted = req[t].wanted \ {n}]
          /\ \A u \in Threads \ {t} : req'[u] = req[u]
        BY <2>4, <2>1, <2>5, BecomeType, Zenon
    <2>7. ManagerType' /\ ReplicationType' /\ ListeningType'
        <3>1. lastHandle + 1 \in Handles
            BY <1>8 DEF CreateDatabase, ManagerType
        <3>2. ManagerType'
            BY <1>8, <3>1 DEF CreateDatabase, ManagerType
        <3> QED BY <1>8, <3>2 DEF CreateDatabase, ReplicationType, ListeningType
    <2>8. LockInv'
        BY <1>8, <2>1, <2>6 DEF CreateDatabase, LockInv, InMutex, RequestType, Request, Idle
    <2> QED BY <2>6, <2>7, <2>8
<1>9. CASE CreateCollectionFail(t)
    <2>1. Become(t, Idle)
        BY <1>9 DEF Answer, CreateCollectionFail
    <2>5. budget' \in Nat /\ resetFailed' \in BOOLEAN
        BY <1>9 DEF Answer, CreateCollectionFail, RequestType
    <2>6. /\ RequestType'
          /\ req'[t] = Idle
          /\ \A u \in Threads \ {t} : req'[u] = req[u]
        BY IdleType, <2>1, <2>5, BecomeType, Zenon
    <2>7. ManagerType' /\ ReplicationType' /\ ListeningType'
        <3>1. lastHandle + 1 \in Handles
            BY <1>9 DEF CreateCollectionFail, ManagerType
        <3>2. ManagerType'
            BY <1>9, <3>1 DEF CreateCollectionFail, ManagerType
        <3>3. UNCHANGED <<replMutex, replication, listening_vars>>
            BY <1>9 DEF CreateCollectionFail
        <3> QED BY <3>2, <3>3 DEF ReplicationType, ListeningType
    <2>8. LockInv'
        BY <1>9, <2>6 DEF Answer, CreateCollectionFail, LockInv, InMutex, RequestType, Request, Idle
    <2> QED BY <2>6, <2>7, <2>8
<1>10. CASE CreateFail(t)
    <2>1. Become(t, Idle)
        BY <1>10 DEF Answer, CreateFail
    <2>5. budget' \in Nat /\ resetFailed' \in BOOLEAN
        BY <1>10 DEF Answer, CreateFail, RequestType
    <2>6. /\ RequestType'
          /\ req'[t] = Idle
          /\ \A u \in Threads \ {t} : req'[u] = req[u]
        BY IdleType, <2>1, <2>5, BecomeType, Zenon
    <2>7. ManagerType' /\ ReplicationType' /\ ListeningType'
        BY <1>10 DEF CreateFail, ManagerType, ReplicationType, ListeningType
    <2>8. LockInv'
        BY <1>10, <2>6 DEF Answer, CreateFail, LockInv, InMutex, RequestType, Request, Idle
    <2> QED BY <2>6, <2>7, <2>8
<1>11. CASE ResetDone(t)
    <2>1. Become(t, Idle)
        BY <1>11 DEF Answer, ResetDone
    <2>5. budget' \in Nat /\ resetFailed' \in BOOLEAN
        BY <1>11 DEF Answer, ResetDone, RequestType
    <2>6. /\ RequestType'
          /\ req'[t] = Idle
          /\ \A u \in Threads \ {t} : req'[u] = req[u]
        BY IdleType, <2>1, <2>5, BecomeType, Zenon
    <2>7. ManagerType' /\ ReplicationType' /\ ListeningType'
        BY <1>11 DEF ResetDone, ManagerType, ReplicationType, ListeningType
    <2>8. LockInv'
        BY <1>11, <2>6 DEF Answer, ResetDone, LockInv, InMutex, RequestType, Request, Idle
    <2> QED BY <2>6, <2>7, <2>8
<1> QED BY <1>1, <1>2, <1>3, <1>4, <1>5, <1>6, <1>7, <1>8, <1>9, <1>10, <1>11 DEF Reset

\* So do those of POST /startReplicator, ...
LEMMA TypeStart ==
    ASSUME TypeInv, NEW t \in Threads, Start(t)
    PROVE  TypeInv'
<1> USE DEF TypeInv, TypeOK, At, manager, replication, listening_vars
<1>1. CASE StartLock(t)
    <2>1. PICK n \in req[t].wanted :
             databases[n] # NoHandle /\ Become(t, [req[t] EXCEPT !.pc = "register", !.db = databases[n]])
        BY <1>1 DEF StartLock
    <2>2. "register" \in Labels /\ req[t] \in Request
        BY DEF Labels, RequestType
    <2>3. databases[n] \in Handles \cup {NoHandle}
        BY <2>1 DEF ManagerType, RequestType, Request
    <2>4. [req[t] EXCEPT !.pc = "register", !.db = databases[n]] \in Request
        BY <2>3, <2>2, IdleType, UpdateType, Zenon
    <2>a. /\ [req[t] EXCEPT !.pc = "register", !.db = databases[n]].pc = "register"
          /\ [req[t] EXCEPT !.pc = "register", !.db = databases[n]].db = databases[n]
        BY <2>2 DEF Request
    <2>5. budget' \in Nat /\ resetFailed' \in BOOLEAN
        BY <1>1 DEF StartLock, RequestType
    <2>6. /\ RequestType'
          /\ req'[t] = [req[t] EXCEPT !.pc = "register", !.db = databases[n]]
          /\ \A u \in Threads \ {t} : req'[u] = req[u]
        BY <2>4, <2>1, <2>5, BecomeType, Zenon
    <2>7. ManagerType' /\ ReplicationType' /\ ListeningType'
        BY <1>1, <2>1 DEF StartLock, ManagerType, ReplicationType, ListeningType
    <2>8. LockInv'
        <3>1. databases[n] \in Handles
            BY <2>1, <2>3
        <3>2. /\ mutex = NoThread /\ mutex' = t /\ replicatorID < MaxReplicators
              /\ UNCHANGED <<replMutex, databases, replicatorID>>
            BY <1>1 DEF StartLock
        <3> QED BY <2>6, <2>a, <3>1, <3>2 DEF LockInv, InMutex
    <2> QED BY <2>6, <2>7, <2>8
<1>2. CASE StartFail(t)
    <2>1. Become(t, Idle)
        BY <1>2 DEF Answer, StartFail
    <2>5. budget' \in Nat /\ resetFailed' \in BOOLEAN
        BY <1>2 DEF Answer, StartFail, RequestType
    <2>6. /\ RequestType'
          /\ req'[t] = Idle
          /\ \A u \in Threads \ {t} : req'[u] = req[u]
        BY IdleType, <2>1, <2>5, BecomeType, Zenon
    <2>7. ManagerType' /\ ReplicationType' /\ ListeningType'
        BY <1>2 DEF StartFail, ManagerType, ReplicationType, ListeningType
    <2>8. LockInv'
        BY <1>2, <2>6 DEF Answer, StartFail, LockInv, InMutex, RequestType, Request, Idle
    <2> QED BY <2>6, <2>7, <2>8
<1>3. CASE StartRegister(t)
    <2>1. Become(t, Idle)
        BY <1>3 DEF Answer, StartRegister
    <2>5. budget' \in Nat /\ resetFailed' \in BOOLEAN
        BY <1>3 DEF Answer, StartRegister, RequestType
    <2>6. /\ RequestType'
          /\ req'[t] = Idle
          /\ \A u \in Threads \ {t} : req'[u] = req[u]
        BY IdleType, <2>1, <2>5, BecomeType, Zenon
    <2>7. ManagerType' /\ ReplicationType' /\ ListeningType'
        <3>1. replicatorID + 1 \in Replicators /\ req[t].db \in Handles
            BY <1>3 DEF StartRegister, LockInv, ReplicationType
        <3>2. ReplicationType'
            BY <1>3, <3>1 DEF StartRegister, ReplicationType
        <3> QED BY <1>3, <3>2 DEF StartRegister, ManagerType, ListeningType
    <2>8. LockInv'
        BY <1>3, <2>6 DEF Answer, StartRegister, LockInv, InMutex, RequestType, Request, Idle
    <2> QED BY <2>6, <2>7, <2>8
<1> QED BY <1>1, <1>2, <1>3 DEF Start

\* ... those of POST /getReplicatorStatus ...
LEMMA TypeStatus ==
    ASSUME TypeInv, NEW t \in Threads, Status(t)
    PROVE  TypeInv'
<1> USE DEF TypeInv, TypeOK, At, manager, replication, listening_vars
<1>1. CASE StatusNotFound(t)
    <2>1. Become(t, Idle)
        BY <1>1 DEF Answer, StatusNotFound
    <2>5. budget' \in Nat /\ resetFailed' \in BOOLEAN
        BY <1>1 DEF Answer, StatusNotFound, RequestType
    <2>6. /\ RequestType'
          /\ req'[t] = Idle
          /\ \A u \in Threads \ {t} : req'[u] = req[u]
        BY IdleType, <2>1, <2>5, BecomeType, Zenon
    <2>7. ManagerType' /\ ReplicationType' /\ ListeningType'
        BY <1>1 DEF StatusNotFound, ManagerType, ReplicationType, ListeningType
    <2>8. LockInv'
        BY <1>1, <2>6 DEF Answer, StatusNotFound, LockInv, InMutex, RequestType, Request, Idle
    <2> QED BY <2>6, <2>7, <2>8
<1>2. CASE StatusRead(t)
    <2>1. Become(t, [req[t] EXCEPT !.pc = "drain", !.status = repl[req[t].repl].state])
        BY <1>2 DEF StatusRead
    <2>2. "drain" \in Labels /\ req[t] \in Request
        BY DEF Labels, RequestType
    <2>3. repl[req[t].repl].state \in {"none", "busy", "stopping", "stopped"}
        BY <1>2 DEF ReplicationType, LockInv, StatusRead
    <2>4. [req[t] EXCEPT !.pc = "drain", !.status = repl[req[t].repl].state] \in Request
        BY <2>3, <2>2, IdleType, UpdateType, Zenon
    <2>a. /\ [req[t] EXCEPT !.pc = "drain", !.status = repl[req[t].repl].state].pc = "drain"
          /\ [req[t] EXCEPT !.pc = "drain", !.status = repl[req[t].repl].state].repl = req[t].repl
        BY <2>2 DEF Request
    <2>5. budget' \in Nat /\ resetFailed' \in BOOLEAN
        BY <1>2 DEF StatusRead, RequestType
    <2>6. /\ RequestType'
          /\ req'[t] = [req[t] EXCEPT !.pc = "drain", !.status = repl[req[t].repl].state]
          /\ \A u \in Threads \ {t} : req'[u] = req[u]
        BY <2>4, <2>1, <2>5, BecomeType, Zenon
    <2>7. ManagerType' /\ ReplicationType' /\ ListeningType'
        BY <1>2 DEF StatusRead, ManagerType, ReplicationType, ListeningType
    <2>8. LockInv'
        <3>1. /\ replMutex = NoThread /\ replMutex' = t /\ At(t, "status")
              /\ UNCHANGED <<mutex, databases, replicatorID>>
            BY <1>2 DEF StatusRead
        <3>2. req'[t].pc = "drain" /\ req'[t].repl \in Replicators
            BY <2>6, <2>a, <3>1 DEF LockInv
        <3>3. \A u \in Threads : replMutex # u
            BY <3>1
        <3> QED BY <2>6, <3>1, <3>2, <3>3 DEF LockInv, InMutex
    <2> QED BY <2>6, <2>7, <2>8
<1>3. CASE StatusDrain(t)
    <2>1. Become(t, Idle)
        BY <1>3 DEF Answer, StatusDrain
    <2>5. budget' \in Nat /\ resetFailed' \in BOOLEAN
        BY <1>3 DEF Answer, StatusDrain, RequestType
    <2>6. /\ RequestType'
          /\ req'[t] = Idle
          /\ \A u \in Threads \ {t} : req'[u] = req[u]
        BY IdleType, <2>1, <2>5, BecomeType, Zenon
    <2>7. ManagerType' /\ ReplicationType' /\ ListeningType'
        <3>1. req[t].repl \in Replicators
            BY <1>3 DEF StatusDrain, LockInv
        <3>2. drained[req[t].repl] \o replicatedDocs[req[t].repl] \in Seq(Nat)
            BY <3>1, ConcatProperties DEF ReplicationType
        <3>3. <<>> \in Seq(Nat)
            OBVIOUS
        <3>4. ReplicationType'
            BY <1>3, <3>1, <3>2, <3>3 DEF StatusDrain, ReplicationType
        <3> QED BY <1>3, <3>4 DEF StatusDrain, ManagerType, ListeningType
    <2>8. LockInv'
        <3>1. /\ replMutex = t /\ UNCHANGED <<mutex, databases, replicatorID>>
            BY <1>3 DEF StatusDrain, LockInv
        <3>2. req'[t].pc = "idle"
            BY <2>6 DEF Idle
        <3> QED BY <2>6, <3>1, <3>2 DEF LockInv, InMutex
    <2> QED BY <2>6, <2>7, <2>8
<1> QED BY <1>1, <1>2, <1>3 DEF Status

\* ... and the arrival of a request (the listener requests are one step).
LEMMA TypeReceive ==
    ASSUME TypeInv, NEW t \in Threads, Receive(t)
    PROVE  TypeInv'
<1> USE DEF TypeInv, TypeOK, At, manager, replication, listening_vars
<1>1. CASE ReceiveReset(t)
    <2>1. PICK names \in SUBSET DbNames :
             Become(t, [Idle EXCEPT !.pc = "reset", !.wanted = names])
        BY <1>1 DEF Accept, ReceiveReset
    <2>2. "reset" \in Labels /\ req[t] \in Request
        BY DEF Labels, RequestType
    <2>3. names \in SUBSET DbNames
        BY <2>1
    <2>4. [Idle EXCEPT !.pc = "reset", !.wanted = names] \in Request
        BY <2>3, <2>2, IdleType, UpdateType, Zenon
    <2>5. budget' \in Nat /\ resetFailed' \in BOOLEAN
        BY <1>1 DEF Accept, ReceiveReset, RequestType
    <2>6. /\ RequestType'
          /\ req'[t] = [Idle EXCEPT !.pc = "reset", !.wanted = names]
          /\ \A u \in Threads \ {t} : req'[u] = req[u]
        BY <2>4, <2>1, <2>5, BecomeType, Zenon
    <2>7. ManagerType' /\ ReplicationType' /\ ListeningType'
        BY <1>1, <2>1 DEF ReceiveReset, ManagerType, ReplicationType, ListeningType
    <2>8. LockInv'
        <3>1. req'[t].pc = "reset"
            BY <2>6, IdleType DEF Request
        <3>2. UNCHANGED <<mutex, replMutex, databases, replicatorID>>
            BY <1>1 DEF ReceiveReset
        <3> QED BY <2>6, <3>1, <3>2, LockKept DEF InMutex
    <2> QED BY <2>6, <2>7, <2>8
<1>2. CASE ReceiveStart(t)
    <2>1. PICK n \in DbNames :
             Become(t, [Idle EXCEPT !.pc = "start", !.wanted = {n}])
        BY <1>2 DEF Accept, ReceiveStart
    <2>2. "start" \in Labels /\ req[t] \in Request
        BY DEF Labels, RequestType
    <2>3. {n} \in SUBSET DbNames
        BY <2>1
    <2>4. [Idle EXCEPT !.pc = "start", !.wanted = {n}] \in Request
        BY <2>3, <2>2, IdleType, UpdateType, Zenon
    <2>5. budget' \in Nat /\ resetFailed' \in BOOLEAN
        BY <1>2 DEF Accept, ReceiveStart, RequestType
    <2>6. /\ RequestType'
          /\ req'[t] = [Idle EXCEPT !.pc = "start", !.wanted = {n}]
          /\ \A u \in Threads \ {t} : req'[u] = req[u]
        BY <2>4, <2>1, <2>5, BecomeType, Zenon
    <2>7. ManagerType' /\ ReplicationType' /\ ListeningType'
        BY <1>2, <2>1 DEF ReceiveStart, ManagerType, ReplicationType, ListeningType
    <2>8. LockInv'
        <3>1. req'[t].pc = "start"
            BY <2>6, IdleType DEF Request
        <3>2. UNCHANGED <<mutex, replMutex, databases, replicatorID>>
            BY <1>2 DEF ReceiveStart
        <3> QED BY <2>6, <3>1, <3>2, LockKept DEF InMutex
    <2> QED BY <2>6, <2>7, <2>8
<1>3. CASE ReceiveStatus(t)
    <2>1. PICK r \in 1 .. replicatorID :
             Become(t, [Idle EXCEPT !.pc = "status", !.repl = r])
        BY <1>3 DEF Accept, ReceiveStatus
    <2>2. "status" \in Labels /\ req[t] \in Request
        BY DEF Labels, RequestType
    <2>3. r \in Replicators \cup {0}
        BY <2>1 DEF ReplicationType
    <2>4. [Idle EXCEPT !.pc = "status", !.repl = r] \in Request
        BY <2>3, <2>2, IdleType, UpdateType, Zenon
    <2>5. budget' \in Nat /\ resetFailed' \in BOOLEAN
        BY <1>3 DEF Accept, ReceiveStatus, RequestType
    <2>6. /\ RequestType'
          /\ req'[t] = [Idle EXCEPT !.pc = "status", !.repl = r]
          /\ \A u \in Threads \ {t} : req'[u] = req[u]
        BY <2>4, <2>1, <2>5, BecomeType, Zenon
    <2>7. ManagerType' /\ ReplicationType' /\ ListeningType'
        BY <1>3, <2>1 DEF ReceiveStatus, ManagerType, ReplicationType, ListeningType
    <2>8. LockInv'
        <3>1. r \in Replicators
            BY DEF ReplicationType
        <3>2. UNCHANGED <<mutex, replMutex, databases, replicatorID>>
            BY <1>3 DEF ReceiveStatus
        <3>3. req'[t].pc = "status" /\ req'[t].repl = r
            BY <2>6, IdleType DEF Request
        <3> QED BY <2>6, <3>1, <3>2, <3>3 DEF LockInv, InMutex
    <2> QED BY <2>6, <2>7, <2>8
<1>4. CASE StartListener(t)
    <2>1. Become(t, Idle)
        BY <1>4 DEF Accept, StartListener
    <2>5. budget' \in Nat /\ resetFailed' \in BOOLEAN
        BY <1>4 DEF Accept, StartListener, RequestType
    <2>6. /\ RequestType'
          /\ req'[t] = Idle
          /\ \A u \in Threads \ {t} : req'[u] = req[u]
        BY IdleType, <2>1, <2>5, BecomeType, Zenon
    <2>7. ManagerType' /\ ReplicationType' /\ ListeningType'
        <3>1. UNCHANGED <<mutex, replMutex, manager, replication>>
            BY <1>4 DEF StartListener
        <3>2. ManagerType' /\ ReplicationType'
            BY <3>1 DEF ManagerType, ReplicationType
        <3>3. ListeningType'
            BY <1>4 DEF StartListener, ListeningType
        <3> QED BY <3>2, <3>3
    <2>8. LockInv'
        BY <1>4, <2>6 DEF Accept, StartListener, LockInv, InMutex, RequestType, Request, Idle
    <2> QED BY <2>6, <2>7, <2>8
<1>5. CASE StopListener(t)
    <2>1. Become(t, Idle)
        BY <1>5 DEF Accept, StopListener
    <2>5. budget' \in Nat /\ resetFailed' \in BOOLEAN
        BY <1>5 DEF Accept, StopListener, RequestType
    <2>6. /\ RequestType'
          /\ req'[t] = Idle
          /\ \A u \in Threads \ {t} : req'[u] = req[u]
        BY IdleType, <2>1, <2>5, BecomeType, Zenon
    <2>7. ManagerType' /\ ReplicationType' /\ ListeningType'
        BY <1>5 DEF StopListener, ManagerType, ReplicationType, ListeningType
    <2>8. LockInv'
        BY <1>5, <2>6 DEF Accept, StopListener, LockInv, InMutex, RequestType, Request, Idle
    <2> QED BY <2>6, <2>7, <2>8
<1> QED BY <1>1, <1>2, <1>3, <1>4, <1>5 DEF Receive

\* The replicators of the library keep it too.
LEMMA TypeLibrary ==
    ASSUME TypeInv, NEW r \in Replicators, Library(r)
    PROVE  TypeInv'
<1> USE DEF TypeInv, TypeOK, manager, replication, listening_vars
<1>1. /\ UNCHANGED <<mutex, replMutex, manager, replicatorID, listening_vars, req, budget,
                     resetFailed>>
      /\ UNCHANGED contexts
    BY DEF Library, Replicate, AddDocumentReplication, Notify, Finish, Halt, StopAt
<1>2. ManagerType' /\ ListeningType' /\ RequestType' /\ LockInv'
    BY <1>1 DEF ManagerType, ListeningType, RequestType, LockInv
<1>3. CASE Replicate(r)
    <2>1. emitted[r] + 1 \in Nat
        BY DEF ReplicationType
    <2>2. /\ emitted' = [emitted EXCEPT ![r] = emitted[r] + 1]
          /\ inCallback' = [inCallback EXCEPT ![r] = TRUE]
          /\ UNCHANGED <<repl, replicatedDocs, drained>>
        BY <1>3 DEF Replicate
    <2>3. ReplicationType'
        BY <1>1, <2>1, <2>2 DEF ReplicationType
    <2> QED BY <1>2, <2>3
<1>4. CASE AddDocumentReplication(r)
    <2>1. Append(replicatedDocs[r], emitted[r]) \in Seq(Nat)
        BY AppendProperties DEF ReplicationType
    <2> QED BY <1>1, <1>2, <1>4, <2>1 DEF AddDocumentReplication, Notify, ReplicationType
<1>5. CASE StopAt(r, "busy") \/ StopAt(r, "stopping")
    <2>1. /\ repl' = [repl EXCEPT ![r].state = "stopped"]
          /\ UNCHANGED <<emitted, inCallback, replicatedDocs, drained>>
        BY <1>5 DEF StopAt
    <2>2. ReplicationType'
        BY <1>1, <2>1 DEF ReplicationType
    <2> QED BY <1>2, <2>2
<1> QED BY <1>3, <1>4, <1>5 DEF Library, Finish, Halt

LEMMA TypeStutter ==
    ASSUME TypeInv, UNCHANGED vars
    PROVE  TypeInv'
BY DEF TypeInv, TypeOK, ManagerType, ReplicationType, ListeningType, RequestType, LockInv,
       vars, manager, replication, listening_vars

LEMMA TypeStep == TypeInv /\ [Next]_vars => TypeInv'
<1> SUFFICES ASSUME TypeInv, [Next]_vars PROVE TypeInv'
    OBVIOUS
<1>1. ASSUME NEW t \in Threads, Work(t) PROVE TypeInv'
    BY <1>1, TypeReset, TypeStart, TypeStatus DEF Work
<1>2. ASSUME NEW t \in Threads, Receive(t) PROVE TypeInv'
    BY <1>2, TypeReceive
<1>3. ASSUME NEW r \in Replicators, Library(r) PROVE TypeInv'
    BY <1>3, TypeLibrary
<1>4. CASE Rest \/ UNCHANGED vars
    BY <1>4, TypeStutter DEF Rest
<1> QED BY <1>1, <1>2, <1>3, <1>4 DEF Next

\* The manager keeps its type: for any number of threads, databases and
\* replicators every variable of CBLManager has the shape TypeOK gives it.
THEOREM TypeCorrect == Spec => []TypeOK
<1>1. Spec => []TypeInv
    BY TypeInit, TypeStep, PTL DEF Spec
<1>2. TypeInv => TypeOK
    BY DEF TypeInv
<1> QED BY <1>1, <1>2, PTL

(***************************************************************************)
(* Document events.  Of a replicator that was not created there are none;  *)
(* an event inside the callback was counted; a stopped replicator is not   *)
(* inside its callback; and the events of every replicator the manager     *)
(* knows are where EventsExactlyOnce says.                                 *)
(***************************************************************************)
Fresh(r) ==
    /\ emitted[r] = 0 /\ inCallback[r] = FALSE
    /\ replicatedDocs[r] = <<>> /\ drained[r] = <<>>
    /\ repl[r].state = "none"

EventInv ==
    /\ \A r \in contexts : r <= replicatorID
    /\ \A r \in Replicators : r > replicatorID => Fresh(r)
    /\ \A r \in Replicators : inCallback[r] => emitted[r] > 0 /\ repl[r].state \in Active
    /\ EventsExactlyOnce

\* A status request that holds _replicatorMutex works on a replicator the
\* manager knows, and a stopped replicator stays stopped under it.
StatusInv ==
    \A t \in Threads : req[t].pc = "drain" =>
        /\ req[t].repl \in contexts
        /\ req[t].status = "stopped" => repl[req[t].repl].state = "stopped"

LEMMA EventsType == \A n \in Nat : Events(n) \in Seq(Nat) /\ Len(Events(n)) = n
BY DEF Events

LEMMA EventsAppend ==
    ASSUME NEW n \in Nat, n > 0
    PROVE  Append(Events(n - 1), n) = Events(n)
<1>1. Events(n - 1) \in Seq(Nat) /\ Len(Events(n - 1)) = n - 1 /\ Events(n) \in Seq(Nat)
    BY EventsType
<1>2. Append(Events(n - 1), n) \in Seq(Nat) /\ Len(Append(Events(n - 1), n)) = n
    BY <1>1, AppendProperties
<1>3. ASSUME NEW i \in 1 .. n PROVE Append(Events(n - 1), n)[i] = Events(n)[i]
    BY <1>1, AppendProperties DEF Events
<1>4. Len(Events(n)) = n
    BY EventsType
<1> HIDE DEF Events
<1> QED BY <1>1, <1>2, <1>3, <1>4, SeqEqual

\* An event appended to the second of two queues is appended to both together.
LEMMA AppendToSecond ==
    ASSUME NEW s \in Seq(Nat), NEW q \in Seq(Nat), NEW e \in Nat
    PROVE  s \o Append(q, e) = Append(s \o q, e)
<1>1. <<e>> \in Seq(Nat) /\ s \o q \in Seq(Nat)
    BY ConcatProperties
<1>2. Append(q, e) = q \o <<e>> /\ Append(s \o q, e) = (s \o q) \o <<e>>
    BY <1>1, AppendIsConcat
<1> QED BY <1>1, <1>2, ConcatAssociative

LEMMA EventInit == Init => EventInv /\ StatusInv
<1> SUFFICES ASSUME Init PROVE EventInv /\ StatusInv
    OBVIOUS
<1>1. EventInv
    BY DEF Init, EventInv, EventsExactlyOnce, Fresh
<1>2. StatusInv
    BY DEF Init, StatusInv, Idle
<1> QED BY <1>1, <1>2

LEMMA EventFrame ==
    ASSUME EventInv, UNCHANGED replication
    PROVE  EventInv'
BY DEF EventInv, EventsExactlyOnce, Fresh, replication

\* The handlers keep the event invariant.  Only four of their steps touch the
\* replicators, their contexts or their documents.
LEMMA EventWork ==
    ASSUME TypeInv, EventInv, NEW t \in Threads, Work(t) \/ Receive(t)
    PROVE  EventInv'
<1> USE DEF TypeInv, TypeOK, At
<1>1. CASE DeleteBegin(t)
    <2>1. /\ UNCHANGED <<contexts, replicatorID, emitted, inCallback, replicatedDocs, drained>>
          /\ \A r \in Replicators :
                 \/ repl'[r].state = repl[r].state
                 \/ repl[r].state = "busy" /\ repl'[r].state = "stopping"
        <3>1. PICK n \in DbNames :
                 repl' = [r \in Replicators |->
                             IF repl[r].db = databases[n] /\ repl[r].state = "busy"
                             THEN [repl[r] EXCEPT !.state = "stopping"] ELSE repl[r]]
            BY <1>1 DEF DeleteBegin, RequestType, Request
        <3>2. \A r \in Replicators :
                 \/ repl'[r].state = repl[r].state
                 \/ repl[r].state = "busy" /\ repl'[r].state = "stopping"
            <4> TAKE r \in Replicators
            <4>1. CASE repl[r].db = databases[n] /\ repl[r].state = "busy"
                BY <3>1, <4>1 DEF ReplicationType
            <4>2. CASE ~(repl[r].db = databases[n] /\ repl[r].state = "busy")
                <5>1. repl'[r] = repl[r]
                    BY <3>1, <4>2, Zenon
                <5> QED BY <5>1
            <4> QED BY <4>1, <4>2
        <3> QED BY <1>1, <3>2 DEF DeleteBegin
    <2> QED BY <2>1 DEF EventInv, EventsExactlyOnce, Fresh, Active
<1>2. CASE ReleaseReplicators(t)
    <2>1. /\ contexts' = {} /\ replicatedDocs' = [r \in Replicators |-> <<>>]
          /\ UNCHANGED <<replicatorID, repl, emitted, inCallback, drained>>
        BY <1>2 DEF ReleaseReplicators
    <2> QED BY <2>1 DEF EventInv, EventsExactlyOnce, Fresh
<1>3. CASE StartRegister(t)
    <2> DEFINE new == replicatorID + 1
    <2>1. new \in Replicators /\ Fresh(new)
        BY <1>3 DEF StartRegister, LockInv, InMutex, ReplicationType, EventInv
    <2>2. /\ replicatorID' = new /\ contexts' = contexts \cup {new}
          /\ \A r \in Replicators \ {new} : repl'[r] = repl[r]
          /\ UNCHANGED <<emitted, inCallback, replicatedDocs, drained>>
        BY <1>3, <2>1 DEF StartRegister, ReplicationType
    <2>3. drained[new] \o replicatedDocs[new] = Events(0)
        BY <2>1 DEF Fresh, Events
    <2>4. EventsExactlyOnce'
        BY <2>1, <2>2, <2>3 DEF EventInv, EventsExactlyOnce, Fresh
    <2>5. \A r \in Replicators : r > replicatorID' => r # new /\ Fresh(r)'
        BY <2>2 DEF EventInv, Fresh, ReplicationType
    <2>6. \A r \in Replicators : inCallback'[r] => emitted'[r] > 0 /\ repl'[r].state \in Active
        BY <2>1, <2>2 DEF EventInv, Fresh
    <2>7. \A r \in contexts' : r <= replicatorID'
        BY <2>2 DEF EventInv, ReplicationType
    <2> QED BY <2>4, <2>5, <2>6, <2>7 DEF EventInv
<1>4. CASE StatusDrain(t)
    <2> DEFINE r == req[t].repl
    <2>1. r \in Replicators
        BY <1>4 DEF StatusDrain, LockInv
    <2>2. drained[r] \in Seq(Nat) /\ replicatedDocs[r] \in Seq(Nat)
        BY <2>1 DEF ReplicationType
    <2>3. (drained[r] \o replicatedDocs[r]) \o <<>> = drained[r] \o replicatedDocs[r]
        BY <2>2, ConcatProperties, ConcatEmptySeq
    <2>4. /\ drained'[r] = drained[r] \o replicatedDocs[r] /\ replicatedDocs'[r] = <<>>
          /\ \A q \in Replicators \ {r} :
                 drained'[q] = drained[q] /\ replicatedDocs'[q] = replicatedDocs[q]
          /\ UNCHANGED <<contexts, replicatorID, repl, emitted, inCallback>>
        BY <1>4, <2>1 DEF StatusDrain, ReplicationType
    <2>5. Fresh(r) => drained'[r] = <<>>
        BY <2>4 DEF Fresh
    <2> HIDE DEF r
    <2>6. EventsExactlyOnce'
        BY <2>1, <2>3, <2>4 DEF EventInv, EventsExactlyOnce, ReplicationType
    <2> QED BY <2>1, <2>4, <2>5, <2>6 DEF EventInv, Fresh, ReplicationType
<1>5. CASE UNCHANGED replication
    BY <1>5, EventFrame
<1>6. DeleteBegin(t) \/ ReleaseReplicators(t) \/ StartRegister(t) \/ StatusDrain(t)
         \/ UNCHANGED replication
    BY DEF Work, Reset, Start, Status, Receive, ResetLock, DeleteEnd, DeleteFail, ClearDatabases,
           ReleaseListeners, CreateDatabase, CreateCollectionFail, CreateFail, ResetDone,
           StartLock, StartFail, StatusNotFound, StatusRead, ReceiveReset, ReceiveStart,
           ReceiveStatus, StartListener, StopListener
<1> QED BY <1>1, <1>2, <1>3, <1>4, <1>5, <1>6

\* The replicators keep the event invariant.
LEMMA EventLibrary ==
    ASSUME TypeInv, EventInv, NEW r \in Replicators, Library(r)
    PROVE  EventInv'
<1> USE DEF TypeInv, TypeOK
<1>1. contexts' = contexts /\ replicatorID' = replicatorID /\ drained' = drained
    BY DEF Library, Replicate, AddDocumentReplication, Notify, Finish, Halt, StopAt
<1>2. \A q \in Replicators \ {r} :
          /\ emitted'[q] = emitted[q] /\ inCallback'[q] = inCallback[q]
          /\ replicatedDocs'[q] = replicatedDocs[q] /\ repl'[q] = repl[q]
    BY DEF Library, Replicate, AddDocumentReplication, Notify, Finish, Halt, StopAt, ReplicationType
<1>3. ~Fresh(r)
    BY DEF Library, Replicate, AddDocumentReplication, Notify, Finish, Halt, StopAt, Fresh,
           ReplicationType
<1>4. r <= replicatorID
    BY <1>3 DEF EventInv, ReplicationType
<1>5. SUFFICES /\ inCallback'[r] => emitted'[r] > 0 /\ repl'[r].state \in Active
               /\ r \in contexts =>
                    drained[r] \o replicatedDocs'[r] =
                        Events(IF inCallback'[r] THEN emitted'[r] - 1 ELSE emitted'[r])
    <2> DEFINE Settled == /\ inCallback'[r] => emitted'[r] > 0 /\ repl'[r].state \in Active
                          /\ r \in contexts =>
                               drained[r] \o replicatedDocs'[r] =
                                 Events(IF inCallback'[r] THEN emitted'[r] - 1 ELSE emitted'[r])
    <2>1. Settled => EventsExactlyOnce'
        BY <1>1, <1>2 DEF EventInv, EventsExactlyOnce, ReplicationType
    <2>2. \A q \in Replicators : q > replicatorID' => Fresh(q)'
        <3> SUFFICES ASSUME NEW q \in Replicators, q > replicatorID PROVE Fresh(q)'
            BY <1>1
        <3>1. q # r /\ Fresh(q)
            BY <1>4 DEF EventInv, ReplicationType
        <3> QED BY <1>1, <1>2, <3>1 DEF Fresh
    <2>3. Settled => \A q \in Replicators :
                        inCallback'[q] => emitted'[q] > 0 /\ repl'[q].state \in Active
        BY <1>2 DEF EventInv
    <2>4. \A q \in contexts' : q <= replicatorID'
        BY <1>1 DEF EventInv
    <2> QED BY <2>1, <2>2, <2>3, <2>4 DEF EventInv
<1>6. CASE Replicate(r)
    <2>1. /\ emitted'[r] = emitted[r] + 1 /\ inCallback'[r] = TRUE /\ inCallback[r] = FALSE
          /\ emitted'[r] - 1 = emitted[r] /\ emitted[r] \in Nat
          /\ replicatedDocs' = replicatedDocs /\ repl'[r].state = "busy"
        BY <1>6 DEF Replicate, ReplicationType
    <2>2. r \in contexts => drained[r] \o replicatedDocs[r] = Events(emitted[r])
        BY <2>1 DEF EventInv, EventsExactlyOnce
    <2>3. (IF inCallback'[r] THEN emitted'[r] - 1 ELSE emitted'[r]) = emitted[r]
        BY <2>1
    <2>4. replicatedDocs'[r] = replicatedDocs[r] /\ emitted'[r] > 0 /\ repl'[r].state \in Active
        BY <2>1 DEF Active
    <2> QED BY <2>2, <2>3, <2>4, Zenon
<1>7. CASE AddDocumentReplication(r)
    <2>1. inCallback[r] /\ ~inCallback'[r] /\ emitted' = emitted /\ emitted[r] > 0
        BY <1>7 DEF AddDocumentReplication, Notify, EventInv, ReplicationType
    <2>2. ASSUME r \in contexts
          PROVE  drained[r] \o replicatedDocs'[r] = Events(emitted[r])
        <3>1. replicatedDocs'[r] = Append(replicatedDocs[r], emitted[r])
            BY <1>7, <2>2 DEF AddDocumentReplication, Notify, ReplicationType
        <3>2. drained[r] \o replicatedDocs[r] = Events(emitted[r] - 1)
            BY <2>1, <2>2 DEF EventInv, EventsExactlyOnce
        <3>3. /\ drained[r] \in Seq(Nat) /\ replicatedDocs[r] \in Seq(Nat)
              /\ emitted[r] \in Nat
            BY DEF ReplicationType
        <3>4. drained[r] \o Append(replicatedDocs[r], emitted[r]) =
                  Append(drained[r] \o replicatedDocs[r], emitted[r])
            BY <3>3, AppendToSecond
        <3>5. Append(Events(emitted[r] - 1), emitted[r]) = Events(emitted[r])
            BY <2>1, <3>3, EventsAppend
        <3> QED BY <3>1, <3>2, <3>4, <3>5, Zenon
    <2> QED BY <2>1, <2>2
<1>8. CASE StopAt(r, "busy") \/ StopAt(r, "stopping")
    BY <1>8 DEF StopAt, EventInv, EventsExactlyOnce
<1> QED BY <1>6, <1>7, <1>8 DEF Library, Finish, Halt

LEMMA EventStep == TypeInv /\ EventInv /\ [Next]_vars => EventInv'
<1> SUFFICES ASSUME TypeInv, EventInv, [Next]_vars PROVE EventInv'
    OBVIOUS
<1>1. ASSUME NEW t \in Threads, Work(t) \/ Receive(t) PROVE EventInv'
    BY <1>1, EventWork
<1>2. ASSUME NEW r \in Replicators, Library(r) PROVE EventInv'
    BY <1>2, EventLibrary
<1>3. CASE Rest \/ UNCHANGED vars
    BY <1>3, EventFrame DEF Rest, vars
<1> QED BY <1>1, <1>2, <1>3 DEF Next

\* No document event is lost, duplicated or reordered between the library's
\* callback and the status requests, however addDocumentReplication,
\* replicatorStatus and reset interleave.
THEOREM EventsExactlyOnceCorrect == Spec => []EventsExactlyOnce
<1>1. Spec => [](TypeInv /\ EventInv)
    BY TypeInit, TypeStep, EventInit, EventStep, PTL DEF Spec
<1>2. EventInv => EventsExactlyOnce
    BY DEF EventInv
<1> QED BY <1>1, <1>2, PTL

(***************************************************************************)
(* The status of a stopped replicator.                                     *)
(***************************************************************************)
LEMMA StatusFrame ==
    ASSUME StatusInv, contexts \subseteq contexts', contexts \subseteq Replicators,
           \A r \in contexts : repl[r].state = "stopped" => repl'[r].state = "stopped",
           \A t \in Threads : req'[t].pc = "drain" => req'[t] = req[t]
    PROVE  StatusInv'
BY DEF StatusInv

\* Handlers other than that of /getReplicatorStatus never enter its section.
LEMMA OnlyStatusDrains ==
    ASSUME TypeInv, NEW t \in Threads, Work(t) \/ Receive(t), ~StatusRead(t)
    PROVE  \A u \in Threads : req'[u].pc = "drain" => req'[u] = req[u]
<1> DEFINE Outside == \A u \in Threads : req'[u].pc = "drain" => req'[u] = req[u]
<1> USE DEF TypeInv, TypeOK
<1>1. ASSUME NEW q, Become(t, q), q.pc # "drain" PROVE Outside
    BY <1>1 DEF Become, RequestType
<1>2. Idle.pc # "drain" /\ req[t] \in Request
    BY DEF Idle, RequestType
<1>3. ASSUME Answer(t) PROVE Outside
    BY <1>1, <1>2, <1>3 DEF Answer
<1>4. ASSUME NEW q \in Request, NEW l, l # "drain",
             \/ Become(t, [q EXCEPT !.pc = l])
             \/ \E d : Become(t, [q EXCEPT !.pc = l, !.db = d])
             \/ \E d : Become(t, [q EXCEPT !.pc = l, !.repl = d])
             \/ \E d : Become(t, [q EXCEPT !.pc = l, !.wanted = d])
             \/ \E d, e : Become(t, [q EXCEPT !.pc = l, !.db = d, !.doomed = e])
             \/ \E d, e : Become(t, [q EXCEPT !.pc = l, !.doomed = d, !.since = e])
      PROVE  Outside
    <2>1. /\ [q EXCEPT !.pc = l].pc = l
          /\ \A d : /\ [q EXCEPT !.pc = l, !.db = d].pc = l
                    /\ [q EXCEPT !.pc = l, !.repl = d].pc = l
                    /\ [q EXCEPT !.pc = l, !.wanted = d].pc = l
          /\ \A d, e : /\ [q EXCEPT !.pc = l, !.db = d, !.doomed = e].pc = l
                       /\ [q EXCEPT !.pc = l, !.doomed = d, !.since = e].pc = l
        BY DEF Request
    <2> HIDE DEF Outside
    <2> QED BY <1>1, <1>4, <2>1, Zenon
<1> SUFFICES Outside
    OBVIOUS
<1> HIDE DEF Outside
<1>5. CASE CreateDatabase(t)
    <2>1. PICK n : Become(t, [req[t] EXCEPT !.wanted = req[t].wanted \ {n}])
        BY <1>5 DEF CreateDatabase
    <2>2. [req[t] EXCEPT !.wanted = req[t].wanted \ {n}].pc = "create"
        BY <1>2, <1>5 DEF CreateDatabase, At, Request
    <2>3. [req[t] EXCEPT !.wanted = req[t].wanted \ {n}].pc # "drain"
        BY <2>2
    <2> QED BY <1>1, <2>1, <2>3, Zenon
<1>6. CASE ResetLock(t) \/ DeleteBegin(t) \/ DeleteEnd(t) \/ ClearDatabases(t)
             \/ ReleaseReplicators(t) \/ ReleaseListeners(t) \/ StartLock(t)
    <2>1. \A l \in {"delete", "deleting", "release", "unlisten", "create", "register"} : l # "drain"
        OBVIOUS
    <2>2. CASE ResetLock(t)
        BY <1>2, <1>4, <2>1, <2>2, Zenon DEF ResetLock
    <2>3. CASE DeleteBegin(t)
        BY <1>2, <1>4, <2>1, <2>3, Zenon DEF DeleteBegin
    <2>4. CASE DeleteEnd(t)
        BY <1>2, <1>4, <2>1, <2>4, Zenon DEF DeleteEnd
    <2>5. CASE ClearDatabases(t)
        BY <1>2, <1>4, <2>1, <2>5, Zenon DEF ClearDatabases
    <2>6. CASE ReleaseReplicators(t)
        BY <1>2, <1>4, <2>1, <2>6, Zenon DEF ReleaseReplicators
    <2>7. CASE ReleaseListeners(t)
        BY <1>2, <1>4, <2>1, <2>7, Zenon DEF ReleaseListeners
    <2>8. CASE StartLock(t)
        BY <1>2, <1>4, <2>1, <2>8, Zenon DEF StartLock
    <2> QED BY <1>6, <2>2, <2>3, <2>4, <2>5, <2>6, <2>7, <2>8
<1>7. CASE DeleteFail(t) \/ CreateCollectionFail(t) \/ CreateFail(t) \/ ResetDone(t)
             \/ StartFail(t) \/ StartRegister(t) \/ StatusNotFound(t) \/ StatusDrain(t)
    BY <1>3, <1>7 DEF DeleteFail, CreateCollectionFail, CreateFail, ResetDone, StartFail,
                            StartRegister, StatusNotFound, StatusDrain
<1>8. CASE Receive(t)
    <2>1. CASE ReceiveReset(t) \/ ReceiveStart(t) \/ ReceiveStatus(t)
        <3>1. \A l \in {"reset", "start", "status"} : l # "drain"
            OBVIOUS
        <3>2. CASE ReceiveReset(t)
            BY <1>4, <3>1, <3>2, IdleType, Zenon DEF ReceiveReset, Accept
        <3>3. CASE ReceiveStart(t)
            BY <1>4, <3>1, <3>3, IdleType, Zenon DEF ReceiveStart, Accept
        <3>4. CASE ReceiveStatus(t)
            BY <1>4, <3>1, <3>4, IdleType, Zenon DEF ReceiveStatus, Accept
        <3> QED BY <2>1, <3>2, <3>3, <3>4
    <2>2. CASE StartListener(t) \/ StopListener(t)
        BY <1>1, <1>2, <2>2 DEF StartListener, StopListener, Accept
    <2> QED BY <1>8, <2>1, <2>2 DEF Receive
<1> QED BY <1>5, <1>6, <1>7, <1>8 DEF Work, Reset, Start, Status

LEMMA StatusStep == TypeInv /\ EventInv /\ StatusInv /\ [Next]_vars => StatusInv'
<1> SUFFICES ASSUME TypeInv, EventInv, StatusInv, [Next]_vars PROVE StatusInv'
    OBVIOUS
<1> USE DEF TypeInv, TypeOK
<1>1. ASSUME NEW t \in Threads, Work(t) \/ Receive(t), ~StatusRead(t), ~ReleaseReplicators(t)
      PROVE  StatusInv'
    <2>1. contexts \subseteq contexts'
        BY <1>1 DEF Work, Reset, Start, Status, Receive, ResetLock, DeleteBegin, DeleteEnd,
               DeleteFail, ClearDatabases, ReleaseListeners, CreateDatabase,
               CreateCollectionFail, CreateFail, ResetDone, StartLock, StartFail, StartRegister,
               StatusNotFound, StatusDrain, ReceiveReset, ReceiveStart, ReceiveStatus,
               StartListener, StopListener, replication
    <2>2. ASSUME NEW r \in contexts, repl[r].state = "stopped" PROVE repl'[r] = repl[r]
        <3>1. CASE DeleteBegin(t)
            BY <2>2, <3>1 DEF DeleteBegin, ReplicationType
        <3>2. CASE StartRegister(t)
            <4>1. r # replicatorID + 1
                BY DEF EventInv, ReplicationType
            <4> QED BY <3>2, <4>1 DEF StartRegister, ReplicationType
        <3>3. CASE ~DeleteBegin(t) /\ ~StartRegister(t)
            BY <1>1, <3>3 DEF Work, Reset, Start, Status, Receive, ResetLock, DeleteEnd,
                DeleteFail, ClearDatabases, ReleaseListeners, CreateDatabase,
                CreateCollectionFail, CreateFail, ResetDone, StartLock, StartFail,
                StatusNotFound, StatusDrain, ReceiveReset, ReceiveStart, ReceiveStatus,
                StartListener, StopListener, replication
        <3> QED BY <3>1, <3>2, <3>3
    <2>3. \A u \in Threads : req'[u].pc = "drain" => req'[u] = req[u]
        BY <1>1, OnlyStatusDrains
    <2> QED BY <2>1, <2>2, <2>3, StatusFrame DEF ReplicationType
<1>2. ASSUME NEW t \in Threads, StatusRead(t)
      PROVE  StatusInv'
    <2>1. /\ UNCHANGED <<contexts, repl>> /\ req[t].repl \in contexts
          /\ Become(t, [req[t] EXCEPT !.pc = "drain", !.status = repl[req[t].repl].state])
        BY <1>2 DEF StatusRead, replication
    <2>2. /\ req'[t].repl = req[t].repl /\ req'[t].status = repl[req[t].repl].state
          /\ \A u \in Threads \ {t} : req'[u] = req[u]
        BY <2>1 DEF Become, RequestType, Request
    <2> QED BY <2>1, <2>2 DEF StatusInv
<1>3. ASSUME NEW t \in Threads, ReleaseReplicators(t)
      PROVE  StatusInv'
    <2>1. replMutex = NoThread /\ At(t, "release")
        BY <1>3 DEF ReleaseReplicators
    <2>2. \A u \in Threads : req[u].pc # "drain"
        BY <2>1 DEF LockInv
    <2>3. \A u \in Threads : req'[u].pc # "drain"
        BY <1>3, <2>2 DEF ReleaseReplicators, Become, RequestType, Request
    <2> QED BY <2>3 DEF StatusInv
<1>4. ASSUME NEW r \in Replicators, Library(r) PROVE StatusInv'
    <2>1. UNCHANGED <<contexts, req>>
        BY <1>4 DEF Library, Replicate, AddDocumentReplication, Notify, Finish, Halt, StopAt
    <2>2. \A q \in contexts : repl[q].state = "stopped" => repl'[q].state = "stopped"
        BY <1>4 DEF Library, Replicate, AddDocumentReplication, Notify, Finish, Halt, StopAt,
                    ReplicationType
    <2> QED BY <2>1, <2>2, StatusFrame DEF ReplicationType
<1>5. CASE Rest \/ UNCHANGED vars
    BY <1>5 DEF Rest, vars, replication, StatusInv
<1> QED BY <1>1, <1>2, <1>3, <1>4, <1>5 DEF Next, Work, Reset, Status

\* The step that answers a status request drains all the events of a replicator
\* it found stopped.
LEMMA StoppedStep ==
    ASSUME TypeInv, EventInv, StatusInv, Next, NEW t \in Threads,
           At(t, "drain"), ~At(t, "drain")', req[t].status = "stopped"
    PROVE  drained'[req[t].repl] = Events(emitted'[req[t].repl])
<1> DEFINE r == req[t].repl
<1> USE DEF TypeInv, TypeOK
<1>1. StatusDrain(t)
    <2>1. ASSUME NEW u \in Threads, Work(u) \/ Receive(u), u # t PROVE FALSE
        <3>1. \E q : Become(u, q)
            BY <2>1, Zenon DEF Work, Receive, Reset, Start, Status, Accept, Answer, ResetLock,
               DeleteBegin, DeleteEnd, DeleteFail, ClearDatabases, ReleaseReplicators,
               ReleaseListeners, CreateDatabase, CreateCollectionFail, CreateFail, ResetDone,
               StartLock, StartFail, StartRegister, StatusNotFound, StatusRead, StatusDrain,
               ReceiveReset, ReceiveStart, ReceiveStatus, StartListener, StopListener
        <3>2. req'[t] = req[t]
            BY <2>1, <3>1 DEF Become, RequestType
        <3> QED BY <3>2 DEF At
    <2>2. ASSUME Work(t) \/ Receive(t) PROVE StatusDrain(t)
        BY <2>2 DEF Work, Receive, Reset, Start, Status, Accept, ResetLock, DeleteBegin, DeleteEnd,
               DeleteFail, ClearDatabases, ReleaseReplicators, ReleaseListeners, CreateDatabase,
               CreateCollectionFail, CreateFail, ResetDone, StartLock, StartFail, StartRegister,
               StatusNotFound, StatusRead, ReceiveReset, ReceiveStart, ReceiveStatus,
               StartListener, StopListener, At
    <2>3. ASSUME NEW q \in Replicators, Library(q) PROVE FALSE
        BY <2>3 DEF Library, Replicate, AddDocumentReplication, Notify, Finish, Halt, StopAt, At
    <2>4. ~Rest
        BY DEF Rest, At, vars
    <2> QED BY <2>1, <2>2, <2>3, <2>4 DEF Next
<1>2. r \in contexts /\ r \in Replicators /\ repl[r].state = "stopped"
    BY DEF StatusInv, At, ReplicationType
<1>3. ~inCallback[r]
    BY <1>2 DEF EventInv, Active
<1>4. drained[r] \o replicatedDocs[r] = Events(emitted[r])
    BY <1>2, <1>3 DEF EventInv, EventsExactlyOnce
<1>5. drained'[r] = drained[r] \o replicatedDocs[r] /\ emitted' = emitted
    BY <1>1, <1>2 DEF StatusDrain, ReplicationType
<1> QED BY <1>4, <1>5

\* A status that says the replicator stopped comes with the last of its document
\* events, so the client loses nothing by giving up on STOPPED.
THEOREM StoppedStatusIsCompleteCorrect == Spec => StoppedStatusIsComplete
<1>1. Spec => [](TypeInv /\ EventInv /\ StatusInv)
    BY TypeInit, TypeStep, EventInit, EventStep, StatusStep, PTL DEF Spec
<1>2. TypeInv /\ EventInv /\ StatusInv /\ [Next]_vars =>
          [\A t \in Threads :
              At(t, "drain") /\ ~At(t, "drain")' /\ req[t].status = "stopped" =>
                  drained'[req[t].repl] = Events(emitted'[req[t].repl])]_vars
    BY StoppedStep
<1> QED BY <1>1, <1>2, PTL DEF Spec, StoppedStatusIsComplete

(***************************************************************************)
(* The databases.  What the map says of the library's objects, and what a  *)
(* reset has left behind when it comes to its next part.                   *)
(***************************************************************************)
Deleting == {"delete", "deleting"}

\* Handles are given out in order.
FreshHandles == \A h \in Handles : h > lastHandle => handle[h] = "unused"

\* Two names do not share a database, and the database of a name is open, but for
\* those that the reset which owns _mutex has deleted.
OpenInMap ==
    /\ \A m, n \in DbNames : m # n /\ databases[m] = databases[n] => databases[n] = NoHandle
    /\ \A n \in DbNames : databases[n] # NoHandle =>
          \/ handle[databases[n]] = "open"
          \/ \E t \in Threads : req[t].pc \in Deleting /\ n \notin req[t].doomed

\* So is the one that a request holds: one about to be deleted, which is no longer
\* among those still to be deleted, or one about to get a replicator.
OpenInHand ==
    \A t \in Threads :
        /\ req[t].pc \in {"deleting", "register"} => handle[req[t].db] = "open"
        /\ req[t].pc = "deleting" => \A n \in req[t].doomed : databases[n] # req[t].db

OpenAtWork ==
    \A r \in Replicators : repl[r].state \in Active =>
        repl[r].db \in Handles /\ handle[repl[r].db] = "open"

MapInv == ~resetFailed => FreshHandles /\ OpenInMap /\ OpenInHand /\ OpenAtWork

\* A request that has been received, or answered.
Quick(t) == req'[t].pc \in {"idle", "reset", "start", "status"} /\ req'[t].since = NoMark
Goes(t, l) == req'[t].pc = l /\ req'[t].since = req[t].since

\* What the steps of a thread do to its request, and which leave the manager alone.
Moves(t) ==
    \/ /\ ResetLock(t) /\ req'[t].pc = "delete" /\ req'[t].doomed = Loaded
       /\ req'[t].since = InUse
    \/ /\ DeleteBegin(t) /\ Goes(t, "deleting")
       /\ \E n \in req[t].doomed : /\ req'[t].db = databases[n]
                                   /\ req'[t].doomed = req[t].doomed \ {n}
    \/ DeleteEnd(t) /\ Goes(t, "delete") /\ req'[t].doomed = req[t].doomed
    \/ DeleteFail(t) /\ Quick(t)
    \/ ClearDatabases(t) /\ Goes(t, "release")
    \/ ReleaseReplicators(t) /\ Goes(t, "unlisten")
    \/ ReleaseListeners(t) /\ Goes(t, "create")
    \/ CreateDatabase(t) /\ Goes(t, "create")
    \/ CreateCollectionFail(t) /\ Quick(t)
    \/ /\ StartLock(t) /\ Goes(t, "register")
       /\ \E n \in DbNames : databases[n] # NoHandle /\ req'[t].db = databases[n]
    \/ StartRegister(t) /\ Quick(t)
    \/ StatusRead(t) /\ Goes(t, "drain")
    \/ StartListener(t) /\ Quick(t)
    \/ /\ Quick(t) /\ req[t].pc \notin InMutex
       /\ UNCHANGED <<mutex, manager, repl, contexts, replicatorID, resetFailed, listenerID, listeners>>

LEMMA QuickAnswer ==
    ASSUME RequestType, NEW t \in Threads, Answer(t)
    PROVE  Quick(t)
BY DEF Answer, Become, Idle, RequestType, Quick

LEMMA QuickAccept ==
    ASSUME RequestType, NEW t \in Threads, NEW r, Accept(t, r),
           r.pc \in {"idle", "reset", "start", "status"}, r.since = NoMark
    PROVE  Quick(t) /\ req[t].pc \notin InMutex
BY DEF Accept, At, Become, RequestType, Quick, InMutex

LEMMA StepMoves ==
    ASSUME TypeInv, NEW t \in Threads, Work(t) \/ Receive(t)
    PROVE  Moves(t) /\ \A u \in Threads \ {t} : req'[u] = req[u]
<1>0. RequestType /\ req[t] \in Request
    BY DEF TypeInv, TypeOK, RequestType
<1>1. \A u \in Threads \ {t} : req'[u] = req[u]
    <2>1. \E q : Become(t, q)
        BY Zenon DEF Work, Receive, Reset, Start, Status, Accept, Answer, ResetLock,
           DeleteBegin, DeleteEnd, DeleteFail, ClearDatabases, ReleaseReplicators,
           ReleaseListeners, CreateDatabase, CreateCollectionFail, CreateFail, ResetDone,
           StartLock, StartFail, StartRegister, StatusNotFound, StatusRead, StatusDrain,
           ReceiveReset, ReceiveStart, ReceiveStatus, StartListener, StopListener
    <2> QED BY <1>0, <2>1 DEF Become, RequestType
<1>2. ASSUME NEW r, Become(t, r) PROVE req'[t] = r
    BY <1>0, <1>2 DEF Become, RequestType
<1> HIDE DEF NoHandle
<1>3. CASE ResetLock(t)
    <2>1. req'[t] = [req[t] EXCEPT !.pc = "delete", !.doomed = Loaded, !.since = InUse]
        BY <1>2, <1>3 DEF ResetLock
    <2>2. req'[t].pc = "delete" /\ req'[t].doomed = Loaded /\ req'[t].since = InUse
        BY <1>0, <2>1 DEF Request
    <2> QED BY <1>1, <1>3, <2>2 DEF Moves
<1>4. CASE DeleteBegin(t)
    <2>1. PICK n \in req[t].doomed :
             Become(t, [req[t] EXCEPT !.pc = "deleting", !.db = databases[n], !.doomed = req[t].doomed \ {n}])
        BY <1>4 DEF DeleteBegin
    <2>2. Goes(t, "deleting") /\ req'[t].db = databases[n] /\ req'[t].doomed = req[t].doomed \ {n}
        BY <1>0, <1>2, <2>1 DEF Request, Goes
    <2> QED BY <1>1, <1>4, <2>2 DEF Moves
<1>5. CASE DeleteEnd(t)
    <2>1. req'[t] = [req[t] EXCEPT !.pc = "delete", !.db = NoHandle]
        BY <1>2, <1>5 DEF DeleteEnd
    <2>2. Goes(t, "delete") /\ req'[t].doomed = req[t].doomed
        BY <1>0, <2>1 DEF Request, Goes
    <2> QED BY <1>1, <1>5, <2>2 DEF Moves
<1>6. CASE ClearDatabases(t) \/ ReleaseReplicators(t) \/ ReleaseListeners(t)
    <2>1. ASSUME NEW l, Become(t, [req[t] EXCEPT !.pc = l]) PROVE Goes(t, l)
        BY <1>0, <1>2, <2>1 DEF Request, Goes
    <2>2. /\ ClearDatabases(t) => Goes(t, "release")
          /\ ReleaseReplicators(t) => Goes(t, "unlisten")
          /\ ReleaseListeners(t) => Goes(t, "create")
        BY <2>1 DEF ClearDatabases, ReleaseReplicators, ReleaseListeners
    <2> QED BY <1>1, <1>6, <2>2 DEF Moves
<1>7. CASE CreateDatabase(t)
    <2>1. PICK n : req'[t] = [req[t] EXCEPT !.wanted = req[t].wanted \ {n}]
        BY <1>2, <1>7 DEF CreateDatabase
    <2>2. Goes(t, "create")
        BY <1>0, <1>7, <2>1 DEF Request, Goes, CreateDatabase, At
    <2> QED BY <1>1, <1>7, <2>2 DEF Moves
<1>8. CASE StartLock(t)
    <2>1. PICK n \in req[t].wanted :
             /\ databases[n] # NoHandle
             /\ Become(t, [req[t] EXCEPT !.pc = "register", !.db = databases[n]])
        BY <1>8 DEF StartLock
    <2>2. Goes(t, "register") /\ req'[t].db = databases[n] /\ n \in DbNames
        BY <1>0, <1>2, <2>1 DEF Request, Goes
    <2> QED BY <1>1, <1>8, <2>1, <2>2 DEF Moves
<1>9. CASE StatusRead(t)
    <2>1. req'[t] = [req[t] EXCEPT !.pc = "drain", !.status = repl[req[t].repl].state]
        BY <1>2, <1>9 DEF StatusRead
    <2>2. Goes(t, "drain")
        BY <1>0, <2>1 DEF Request, Goes
    <2> QED BY <1>1, <1>9, <2>2 DEF Moves
<1>10. CASE DeleteFail(t) \/ CreateCollectionFail(t) \/ StartRegister(t)
    <2>1. Answer(t)
        BY <1>10 DEF DeleteFail, CreateCollectionFail, StartRegister
    <2> QED BY <1>0, <1>1, <1>10, <2>1, QuickAnswer DEF Moves
<1>11. CASE CreateFail(t) \/ ResetDone(t) \/ StartFail(t) \/ StatusNotFound(t) \/ StatusDrain(t)
    <2>1. Answer(t)
        BY <1>11 DEF CreateFail, ResetDone, StartFail, StatusNotFound, StatusDrain
    <2>2. /\ UNCHANGED <<mutex, manager, repl, contexts, replicatorID, resetFailed, listenerID, listeners>>
          /\ req[t].pc \in {"create", "start", "status", "drain"}
        BY <1>11 DEF CreateFail, ResetDone, StartFail, StatusNotFound, StatusDrain, At, replication,
                     listening_vars
    <2> QED BY <1>0, <1>1, <2>1, <2>2, QuickAnswer DEF Moves, InMutex
<1>12. CASE Receive(t)
    <2> DEFINE Short(q) == q.pc \in {"idle", "reset", "start", "status"} /\ q.since = NoMark
    <2>a. /\ Short(Idle)
          /\ \A d : /\ Short([Idle EXCEPT !.pc = "reset", !.wanted = d])
                    /\ Short([Idle EXCEPT !.pc = "start", !.wanted = d])
                    /\ Short([Idle EXCEPT !.pc = "status", !.repl = d])
        BY DEF Idle
    <2>b. ASSUME NEW q, Accept(t, q), Short(q) PROVE Quick(t) /\ req[t].pc \notin InMutex
        BY <1>0, <2>b, QuickAccept
    <2> HIDE DEF Short
    <2>2. Quick(t) /\ req[t].pc \notin InMutex
        <3>1. CASE ReceiveReset(t)
            BY <2>a, <2>b, <3>1, Zenon DEF ReceiveReset
        <3>2. CASE ReceiveStart(t)
            BY <2>a, <2>b, <3>2, Zenon DEF ReceiveStart
        <3>3. CASE ReceiveStatus(t)
            BY <2>a, <2>b, <3>3, Zenon DEF ReceiveStatus
        <3>4. CASE StartListener(t) \/ StopListener(t)
            BY <2>a, <2>b, <3>4, Zenon DEF StartListener, StopListener
        <3> QED BY <1>12, <3>1, <3>2, <3>3, <3>4 DEF Receive
    <2>3. StartListener(t) \/ UNCHANGED <<mutex, manager, repl, contexts, replicatorID, resetFailed,
                                          listenerID, listeners>>
        BY <1>12 DEF Receive, ReceiveReset, ReceiveStart, ReceiveStatus, StopListener, Accept,
                     replication, listening_vars
    <2> QED BY <1>1, <2>2, <2>3 DEF Moves
<1> QED BY <1>3, <1>4, <1>5, <1>6, <1>7, <1>8, <1>9, <1>10, <1>11, <1>12 DEF Work, Reset, Start, Status

LEMMA NobodyInside ==
    ASSUME TypeInv, mutex = NoThread
    PROVE  \A u \in Threads : req[u].pc \notin InMutex
BY DEF TypeInv, LockInv

LEMMA AloneInside ==
    ASSUME TypeInv, NEW t \in Threads, req[t].pc \in InMutex
    PROVE  \A u \in Threads \ {t} : req[u].pc \notin InMutex
BY DEF TypeInv, LockInv

\* Outside of a reset's critical section all databases of the map are open.
LEMMA AllOpen ==
    ASSUME TypeInv, OpenInMap, mutex = NoThread
    PROVE  \A n \in DbNames : databases[n] # NoHandle => handle[databases[n]] = "open"
BY NobodyInside DEF OpenInMap, InMutex, Deleting

\* A step that has nothing to do with the databases.
LEMMA MapFrame ==
    ASSUME MapInv, UNCHANGED <<databases, handle, lastHandle, resetFailed>>,
           \A u \in Threads : req'[u].pc \in InMutex => req'[u] = req[u],
           \A u \in Threads : req[u].pc \in Deleting => req'[u] = req[u],
           \A r \in Replicators : repl'[r].state \in Active =>
               repl[r].state \in Active /\ repl'[r].db = repl[r].db
    PROVE  MapInv'
<1>1. FreshHandles => FreshHandles'
    BY DEF FreshHandles
<1>2. OpenInMap => OpenInMap'
    BY DEF OpenInMap
<1>3. OpenInHand => OpenInHand'
    BY DEF OpenInHand, InMutex
<1>4. OpenAtWork => OpenAtWork'
    BY DEF OpenAtWork
<1> QED BY <1>1, <1>2, <1>3, <1>4 DEF MapInv

LEMMA MapInit == Init => MapInv
<1> SUFFICES ASSUME Init PROVE MapInv
    OBVIOUS
<1>1. \A t \in Threads : req[t].pc = "idle"
    BY DEF Init, Idle
<1>2. \A r \in Replicators : repl[r].state = "none"
    BY DEF Init
<1>3. FreshHandles /\ OpenInMap
    BY DEF Init, FreshHandles, OpenInMap
<1> QED BY <1>1, <1>2, <1>3 DEF MapInv, OpenInHand, OpenAtWork, Active

LEMMA MapWork ==
    ASSUME TypeInv, MapInv, NEW t \in Threads, Work(t) \/ Receive(t)
    PROVE  MapInv'
<1>0. Moves(t) /\ \A u \in Threads \ {t} : req'[u] = req[u]
    BY StepMoves
<1>t. /\ databases \in [DbNames -> Handles \cup {NoHandle}]
      /\ handle \in [Handles -> {"unused", "open", "released", "leaked"}]
      /\ lastHandle \in Handles \cup {0}
    BY DEF TypeInv, TypeOK, ManagerType
<1> SUFFICES ASSUME ~resetFailed, ~resetFailed' PROVE MapInv'
    <2>1. resetFailed => resetFailed'
        BY DEF Work, Receive, Reset, Start, Status, ResetLock,
           DeleteBegin, DeleteEnd, DeleteFail, ClearDatabases, ReleaseReplicators,
           ReleaseListeners, CreateDatabase, CreateCollectionFail, CreateFail, ResetDone,
           StartLock, StartFail, StartRegister, StatusNotFound, StatusRead, StatusDrain,
           ReceiveReset, ReceiveStart, ReceiveStatus, StartListener, StopListener
    <2> QED BY <2>1 DEF MapInv
<1>m. FreshHandles /\ OpenInMap /\ OpenInHand /\ OpenAtWork
    BY DEF MapInv
<1>o. ASSUME NEW h, h \in Handles, handle[h] = "open" PROVE h <= lastHandle
    BY <1>t, <1>m, <1>o DEF FreshHandles
<1> SUFFICES FreshHandles' /\ OpenInMap' /\ OpenInHand' /\ OpenAtWork'
    BY DEF MapInv
<1>1. CASE ResetLock(t) /\ req'[t].pc = "delete"
    <2>1. mutex = NoThread /\ UNCHANGED <<databases, handle, lastHandle, repl>>
        BY <1>1 DEF ResetLock, manager, replication
    <2>2. \A u \in Threads : req'[u].pc \notin {"deleting", "register"}
        BY <1>0, <1>1, <2>1, NobodyInside DEF InMutex
    <2>3. \A n \in DbNames : databases[n] # NoHandle => handle[databases[n]] = "open"
        BY <1>m, <2>1, AllOpen
    <2>4. FreshHandles' /\ OpenAtWork'
        BY <1>m, <2>1 DEF FreshHandles, OpenAtWork
    <2>5. OpenInMap'
        BY <1>m, <2>1, <2>3 DEF OpenInMap
    <2>6. OpenInHand'
        BY <2>2 DEF OpenInHand
    <2> QED BY <2>4, <2>5, <2>6
<1>2. CASE /\ DeleteBegin(t) /\ req'[t].pc = "deleting"
           /\ \E n \in req[t].doomed : req'[t].db = databases[n] /\ req'[t].doomed = req[t].doomed \ {n}
    <2>1. PICK n \in req[t].doomed : req'[t].db = databases[n] /\ req'[t].doomed = req[t].doomed \ {n}
        BY <1>2
    <2>2. req[t].pc = "delete" /\ UNCHANGED <<databases, handle, lastHandle>>
        BY <1>2 DEF DeleteBegin, manager, At
    <2>3. n \in DbNames /\ req[t].doomed \subseteq DbNames
        BY DEF TypeInv, TypeOK, RequestType, Request
    <2>4. databases[n] # NoHandle
        BY <2>2, <2>3 DEF TypeInv, LockInv
    <2>5. \A u \in Threads \ {t} : req[u].pc \notin InMutex
        BY <2>2, AloneInside DEF InMutex
    <2>6. handle[databases[n]] = "open"
        BY <1>m, <2>3, <2>4, <2>5 DEF OpenInMap, InMutex, Deleting
    <2>7. \A r \in Replicators : repl'[r].state \in Active =>
              repl[r].state \in Active /\ repl'[r].db = repl[r].db
        <3>1. PICK m \in DbNames :
                 repl' = [r \in Replicators |->
                             IF repl[r].db = databases[m] /\ repl[r].state = "busy"
                             THEN [repl[r] EXCEPT !.state = "stopping"] ELSE repl[r]]
            BY <1>2, <2>3 DEF DeleteBegin
        <3> TAKE r \in Replicators
        <3>2. CASE repl[r].db = databases[m] /\ repl[r].state = "busy"
            <4>1. repl[r] \in [db : Handles \cup {NoHandle}, state : {"none", "busy", "stopping", "stopped"}]
                BY DEF TypeInv, TypeOK, ReplicationType
            <4>2. repl'[r] = [repl[r] EXCEPT !.state = "stopping"]
                BY <3>1, <3>2
            <4>3. repl'[r].db = repl[r].db
                BY <4>1, <4>2
            <4> QED BY <3>2, <4>3 DEF Active
        <3>3. CASE ~(repl[r].db = databases[m] /\ repl[r].state = "busy")
            <4>1. repl'[r] = repl[r]
                BY <3>1, <3>3, Zenon
            <4> QED BY <4>1
        <3> QED BY <3>2, <3>3
    <2>8. FreshHandles' /\ OpenAtWork'
        BY <1>m, <2>2, <2>7 DEF FreshHandles, OpenAtWork
    <2>9. OpenInMap'
        <3>1. ASSUME NEW m \in DbNames, databases[m] # NoHandle, handle[databases[m]] # "open"
              PROVE  m \notin req[t].doomed
            BY <1>m, <2>5, <3>1 DEF OpenInMap, Deleting, InMutex
        <3>2. ASSUME NEW m \in DbNames, databases[m] # NoHandle, handle[databases[m]] # "open"
              PROVE  m \notin req'[t].doomed
            BY <2>1, <3>1, <3>2
        <3> QED BY <1>2, <1>m, <2>2, <3>2 DEF OpenInMap, Deleting
    <2>10. OpenInHand'
        <3>1. \A u \in Threads \ {t} : req'[u].pc \notin {"deleting", "register"}
            BY <1>0, <2>5 DEF InMutex
        <3>2. \A m \in req'[t].doomed : databases[m] # databases[n]
            BY <1>m, <2>1, <2>3, <2>4 DEF OpenInMap
        <3> QED BY <2>1, <2>2, <2>6, <3>1, <3>2 DEF OpenInHand
    <2> QED BY <2>8, <2>9, <2>10
<1>3. CASE DeleteEnd(t) /\ req'[t].pc = "delete" /\ req'[t].doomed = req[t].doomed
    <2> DEFINE d == req[t].db
    <2>1. /\ req[t].pc = "deleting" /\ Quiet(d) /\ handle' = [handle EXCEPT ![d] = "released"]
          /\ UNCHANGED <<databases, lastHandle, repl>>
        BY <1>3 DEF DeleteEnd, At, replication
    <2>2. d \in Handles /\ handle[d] = "open" /\ \A n \in req[t].doomed : databases[n] # d
        BY <1>m, <2>1 DEF TypeInv, LockInv, OpenInHand
    <2>3. \A u \in Threads \ {t} : req[u].pc \notin InMutex
        BY <2>1, AloneInside DEF InMutex
    <2>4. d <= lastHandle
        BY <1>o, <2>2
    <2> HIDE DEF d
    <2>5. \A h \in Handles \ {d} : handle'[h] = handle[h]
        BY <1>t, <2>1
    <2>6. FreshHandles'
        BY <1>t, <1>m, <2>1, <2>4, <2>5 DEF FreshHandles
    <2>7. OpenAtWork'
        BY <1>m, <2>1, <2>5 DEF OpenAtWork, Quiet
    <2>8. OpenInMap'
        <3>1. ASSUME NEW n \in DbNames, databases[n] # NoHandle, n \in req[t].doomed
              PROVE  handle'[databases[n]] = "open"
            <4>1. handle[databases[n]] = "open"
                BY <1>m, <2>3, <3>1 DEF OpenInMap, InMutex, Deleting
            <4> QED BY <1>t, <2>2, <2>5, <3>1, <4>1
        <3>2. \A n \in DbNames : databases[n] # NoHandle =>
                  handle'[databases[n]] = "open" \/ n \notin req'[t].doomed
            BY <1>3, <3>1
        <3>3. req'[t].pc \in Deleting
            BY <1>3 DEF Deleting
        <3> QED BY <1>m, <2>1, <3>2, <3>3 DEF OpenInMap
    <2>9. OpenInHand'
        BY <1>0, <1>3, <2>3 DEF OpenInHand, InMutex
    <2> QED BY <2>6, <2>7, <2>8, <2>9
<1>4. CASE DeleteFail(t)
    BY <1>4 DEF DeleteFail
<1>5. CASE ClearDatabases(t) /\ Goes(t, "release")
    <2>1. /\ databases' = [n \in DbNames |-> NoHandle] /\ UNCHANGED <<handle, lastHandle, repl>>
          /\ req[t].pc = "delete"
        BY <1>5 DEF ClearDatabases, At, replication
    <2>2. \A u \in Threads : req'[u].pc \notin InMutex
        <3>1. \A u \in Threads \ {t} : req'[u].pc \notin InMutex
            BY <1>0, <2>1, AloneInside DEF InMutex
        <3> QED BY <1>5, <3>1 DEF Goes, InMutex
    <2>3. FreshHandles' /\ OpenAtWork'
        BY <1>m, <2>1 DEF FreshHandles, OpenAtWork
    <2>4. OpenInMap' /\ OpenInHand'
        BY <2>1, <2>2 DEF OpenInMap, OpenInHand, InMutex
    <2> QED BY <2>3, <2>4
<1>6. CASE /\ ReleaseReplicators(t) \/ ReleaseListeners(t) \/ StatusRead(t) \/ StartListener(t)
              \/ (/\ req[t].pc \notin InMutex
                  /\ UNCHANGED <<mutex, manager, repl, contexts, replicatorID, resetFailed,
                                 listenerID, listeners>>)
           /\ req'[t].pc \notin InMutex
    <2>1. UNCHANGED <<databases, handle, lastHandle, repl, resetFailed>> /\ req[t].pc \notin InMutex
        BY <1>6 DEF ReleaseReplicators, ReleaseListeners, StatusRead, StartListener, Accept, At,
                    InMutex, manager, replication
    <2>2. \A u \in Threads : /\ req'[u].pc \in InMutex => req'[u] = req[u]
                             /\ req[u].pc \in Deleting => req'[u] = req[u]
        BY <1>0, <1>6, <2>1 DEF InMutex, Deleting
    <2>3. MapInv'
        BY <2>1, <2>2, MapFrame
    <2> QED BY <2>3 DEF MapInv
<1>7. CASE CreateDatabase(t) \/ CreateCollectionFail(t)
    <2> DEFINE new == lastHandle + 1
    <2>1. /\ mutex = NoThread /\ lastHandle' = new /\ UNCHANGED repl
          /\ new \in Handles
          /\ \E s \in {"open", "leaked"} : handle' = [handle EXCEPT ![new] = s]
          /\ \A u \in Threads : req'[u].pc \notin InMutex
        <3>1. \A u \in Threads : req[u].pc \notin InMutex
            BY <1>7, NobodyInside DEF CreateDatabase, CreateCollectionFail
        <3>2. req'[t].pc \notin InMutex
            BY <1>0, <1>7 DEF Moves, Goes, Quick, InMutex, CreateDatabase, CreateCollectionFail,
               ResetLock, DeleteBegin, DeleteEnd, StartLock, At, ClearDatabases
        <3>3. new \in Handles
            BY <1>7, <1>t DEF CreateDatabase, CreateCollectionFail
        <3> QED BY <1>0, <1>7, <3>1, <3>2, <3>3 DEF CreateDatabase, CreateCollectionFail, replication
    <2>2. \A n \in DbNames : databases[n] # NoHandle =>
              databases[n] \in Handles /\ handle[databases[n]] = "open" /\ databases[n] # new
        BY <1>m, <1>o, <1>t, <2>1, AllOpen
    <2>3. \A h \in Handles \ {new} : handle'[h] = handle[h]
        BY <1>t, <2>1
    <2>4. FreshHandles'
        BY <1>m, <1>t, <2>1, <2>3 DEF FreshHandles
    <2>5. OpenAtWork'
        <3>1. \A r \in Replicators : repl[r].state \in Active => repl[r].db # new
            BY <1>m, <1>o, <1>t DEF OpenAtWork
        <3> QED BY <1>m, <2>1, <2>3, <3>1 DEF OpenAtWork
    <2>6. OpenInHand'
        BY <2>1 DEF OpenInHand, InMutex
    <2>7. OpenInMap'
        <3>1. CASE CreateDatabase(t)
            <4>1. PICK n \in DbNames : databases' = [databases EXCEPT ![n] = new] /\ handle'[new] = "open"
                BY <1>t, <2>1, <3>1 DEF CreateDatabase, TypeInv, TypeOK, RequestType, Request
            <4>2. databases'[n] = new /\ \A m \in DbNames \ {n} : databases'[m] = databases[m]
                BY <1>t, <4>1
            <4> HIDE DEF new
            <4> QED BY <1>m, <2>2, <2>3, <4>1, <4>2 DEF OpenInMap
        <3>2. CASE CreateCollectionFail(t)
            <4>1. databases' = databases
                BY <3>2 DEF CreateCollectionFail
            <4> HIDE DEF new
            <4> QED BY <1>m, <2>2, <2>3, <4>1 DEF OpenInMap
        <3> QED BY <1>7, <3>1, <3>2
    <2> QED BY <2>4, <2>5, <2>6, <2>7
<1>8. CASE /\ StartLock(t) /\ req'[t].pc = "register"
           /\ \E n \in DbNames : databases[n] # NoHandle /\ req'[t].db = databases[n]
    <2>1. mutex = NoThread /\ UNCHANGED <<databases, handle, lastHandle, repl>>
        BY <1>8 DEF StartLock, manager, replication
    <2>2. \A u \in Threads : req[u].pc \notin InMutex
        BY <2>1, NobodyInside
    <2>3. handle[req'[t].db] = "open"
        BY <1>8, <1>m, <2>1, AllOpen
    <2>4. FreshHandles' /\ OpenAtWork'
        BY <1>m, <2>1 DEF FreshHandles, OpenAtWork
    <2>5. OpenInMap'
        BY <1>m, <2>1, AllOpen DEF OpenInMap
    <2>6. OpenInHand'
        BY <1>0, <1>8, <2>1, <2>2, <2>3 DEF OpenInHand, InMutex
    <2> QED BY <2>4, <2>5, <2>6
<1>9. CASE StartRegister(t) /\ Quick(t)
    <2> DEFINE new == replicatorID + 1
    <2>1. req[t].pc = "register" /\ UNCHANGED <<databases, handle, lastHandle, resetFailed>>
          /\ repl' = [repl EXCEPT ![new] = [db |-> req[t].db, state |-> "busy"]]
        BY <1>9 DEF StartRegister, At, manager
    <2>2. req[t].db \in Handles /\ handle[req[t].db] = "open"
        BY <1>m, <2>1 DEF TypeInv, LockInv, OpenInHand
    <2>3. \A u \in Threads : req'[u].pc \notin InMutex
        <3>1. \A u \in Threads \ {t} : req'[u].pc \notin InMutex
            BY <1>0, <2>1, AloneInside DEF InMutex
        <3> QED BY <1>9, <3>1 DEF Quick, InMutex
    <2>4. \A u \in Threads : req[u].pc \notin Deleting
        BY <2>1, AloneInside DEF InMutex, Deleting
    <2>5. OpenInMap'
        BY <1>m, <2>1, <2>4 DEF OpenInMap
    <2>6. OpenAtWork'
        <3>1. \A r \in Replicators : repl'[r] = repl[r] \/ repl'[r].db = req[t].db
            BY <2>1 DEF TypeInv, TypeOK, ReplicationType
        <3> QED BY <1>m, <2>1, <2>2, <3>1 DEF OpenAtWork
    <2>7. FreshHandles' /\ OpenInHand'
        BY <1>m, <2>1, <2>3 DEF FreshHandles, OpenInHand, InMutex
    <2> QED BY <2>5, <2>6, <2>7
<1> QED BY <1>0, <1>1, <1>2, <1>3, <1>4, <1>5, <1>6, <1>7, <1>8, <1>9 DEF Moves, Goes, Quick, InMutex

LEMMA MapStep == TypeInv /\ MapInv /\ [Next]_vars => MapInv'
<1> SUFFICES ASSUME TypeInv, MapInv, [Next]_vars PROVE MapInv'
    OBVIOUS
<1>1. ASSUME NEW t \in Threads, Work(t) \/ Receive(t) PROVE MapInv'
    BY <1>1, MapWork
<1>2. ASSUME NEW r \in Replicators, Library(r) PROVE MapInv'
    <2>1. UNCHANGED <<databases, handle, lastHandle, resetFailed, req>>
        BY <1>2 DEF Library, Replicate, AddDocumentReplication, Notify, Finish, Halt, StopAt, manager
    <2>2. \A q \in Replicators : repl'[q].state \in Active =>
              repl[q].state \in Active /\ repl'[q].db = repl[q].db
        BY <1>2 DEF Library, Replicate, AddDocumentReplication, Notify, Finish, Halt, StopAt, Active,
                    TypeInv, TypeOK, ReplicationType
    <2> QED BY <2>1, <2>2, MapFrame
<1>3. CASE Rest \/ UNCHANGED vars
    BY <1>3, MapFrame DEF Rest, vars, manager, replication
<1> QED BY <1>1, <1>2, <1>3 DEF Next

\* Unless a deletion failed, a request that has taken _mutex finds only open
\* databases in the map.
THEOREM MapHoldsOpenDatabasesCorrect == Spec => []MapHoldsOpenDatabases
<1>1. Spec => [](TypeInv /\ MapInv)
    BY TypeInit, TypeStep, MapInit, MapStep, PTL DEF Spec
<1>2. TypeInv /\ MapInv => MapHoldsOpenDatabases
    BY AllOpen DEF MapInv, MapHoldsOpenDatabases
<1> QED BY <1>1, <1>2, PTL

\* Unless a deletion failed, no replicator works on a database that was released:
\* startReplicator keeps _mutex from its look-up to the start of the replicator.
THEOREM ActiveReplicatorHasDatabaseCorrect == Spec => []ActiveReplicatorHasDatabase
<1>1. Spec => [](TypeInv /\ MapInv)
    BY TypeInit, TypeStep, MapInit, MapStep, PTL DEF Spec
<1>2. MapInv => ActiveReplicatorHasDatabase
    BY DEF MapInv, OpenAtWork, ActiveReplicatorHasDatabase
<1> QED BY <1>1, <1>2, PTL
(***************************************************************************)
(* A reset forgets the former test.  The databases that are open are those *)
(* of the map; so once a reset has deleted all of the map, none is open,   *)
(* and what is created afterwards has higher identifiers.                  *)
(***************************************************************************)

\* A reset has closed the databases it has dealt with, but for the one in hand.
ClosedByReset(t) ==
    req[t].pc \in Deleting =>
        \A n \in DbNames \ req[t].doomed : databases[n] # NoHandle =>
            \/ handle[databases[n]] # "open"
            \/ req[t].pc = "deleting" /\ databases[n] = req[t].db

KnownIfOpen == \A h \in Handles : handle[h] = "open" => \E n \in DbNames : databases[n] = h

OpenInv == KnownIfOpen /\ \A t \in Threads : ClosedByReset(t)

\* What is gone when a reset comes to its next part.
Former(t) ==
    /\ req[t].since.repl <= replicatorID
    /\ req[t].since.handle <= lastHandle
    /\ req[t].since.listener <= listenerID
    /\ req[t].pc \in {"release", "unlisten", "create"} =>
          \A h \in 1 .. req[t].since.handle : handle[h] # "open"
    /\ req[t].pc \in {"unlisten", "create"} => \A r \in 1 .. req[t].since.repl : r \notin contexts
    /\ req[t].pc = "create" => \A l \in 1 .. req[t].since.listener : l \notin listeners

FormerInv == \A t \in Threads : Former(t)

\* Whatever a step adds has an identifier that was not in use.
Later ==
    /\ replicatorID' \in Nat /\ replicatorID <= replicatorID'
    /\ lastHandle' \in Nat /\ lastHandle <= lastHandle'
    /\ listenerID' \in Nat /\ listenerID <= listenerID'
    /\ \A h \in Handles : handle'[h] = "open" => handle[h] = "open" \/ h > lastHandle
    /\ \A r \in contexts' : r \in contexts \/ r > replicatorID
    /\ \A l \in listeners' : l \in listeners \/ l > listenerID

LEMMA OpenFrame ==
    ASSUME OpenInv, UNCHANGED <<databases, handle>>,
           \A u \in Threads : req'[u].pc \in Deleting => req'[u] = req[u]
    PROVE  OpenInv'
<1>1. KnownIfOpen'
    BY DEF OpenInv, KnownIfOpen
<1>2. ASSUME NEW u \in Threads PROVE ClosedByReset(u)'
    BY <1>2 DEF OpenInv, ClosedByReset
<1> QED BY <1>1, <1>2 DEF OpenInv

LEMMA OpenWork ==
    ASSUME TypeInv, OpenInv, NEW t \in Threads, Work(t) \/ Receive(t)
    PROVE  OpenInv'
<1>0. Moves(t) /\ \A u \in Threads \ {t} : req'[u] = req[u]
    BY StepMoves
<1>t. /\ databases \in [DbNames -> Handles \cup {NoHandle}]
      /\ handle \in [Handles -> {"unused", "open", "released", "leaked"}]
      /\ lastHandle \in Handles \cup {0}
    BY DEF TypeInv, TypeOK, ManagerType
<1>m. KnownIfOpen /\ ClosedByReset(t)
    BY DEF OpenInv
<1> SUFFICES KnownIfOpen' /\ \A u \in Threads : ClosedByReset(u)'
    BY DEF OpenInv
<1>a. ASSUME req[t].pc \in InMutex, NEW u \in Threads \ {t} PROVE ClosedByReset(u)'
    <2>1. req'[u].pc \notin InMutex
        BY <1>0, <1>a, AloneInside
    <2> QED BY <2>1 DEF ClosedByReset, Deleting, InMutex
<1>b. ASSUME mutex = NoThread, NEW u \in Threads \ {t} PROVE ClosedByReset(u)'
    <2>1. req'[u].pc \notin InMutex
        BY <1>0, <1>b, NobodyInside
    <2> QED BY <2>1 DEF ClosedByReset, Deleting, InMutex
<1>c. ASSUME req'[t].pc \notin Deleting PROVE ClosedByReset(t)'
    BY <1>c DEF ClosedByReset
<1>1. CASE ResetLock(t) /\ req'[t].pc = "delete" /\ req'[t].doomed = Loaded
    <2>1. mutex = NoThread /\ UNCHANGED <<databases, handle>>
        BY <1>1 DEF ResetLock, manager
    <2>2. ClosedByReset(t)'
        BY <1>1, <2>1 DEF ClosedByReset, Loaded
    <2>3. KnownIfOpen'
        BY <1>m, <2>1 DEF KnownIfOpen
    <2> QED BY <1>b, <2>1, <2>2, <2>3
<1>2. CASE /\ DeleteBegin(t) /\ req'[t].pc = "deleting"
           /\ \E n \in req[t].doomed : req'[t].db = databases[n] /\ req'[t].doomed = req[t].doomed \ {n}
    <2>1. req[t].pc = "delete" /\ UNCHANGED <<databases, handle>>
        BY <1>2 DEF DeleteBegin, manager, At
    <2>2. PICK n \in req[t].doomed : req'[t].db = databases[n] /\ req'[t].doomed = req[t].doomed \ {n}
        BY <1>2
    <2>3. ASSUME NEW m \in DbNames \ req'[t].doomed, databases[m] # NoHandle, m # n
          PROVE  handle[databases[m]] # "open"
        BY <1>m, <2>1, <2>2, <2>3 DEF ClosedByReset, Deleting
    <2>4. ClosedByReset(t)'
        BY <1>2, <2>1, <2>2, <2>3 DEF ClosedByReset
    <2>5. KnownIfOpen'
        BY <1>m, <2>1 DEF KnownIfOpen
    <2> QED BY <1>a, <2>1, <2>4, <2>5 DEF InMutex
<1>3. CASE \/ DeleteEnd(t) /\ req'[t].pc = "delete" /\ req'[t].doomed = req[t].doomed
           \/ DeleteFail(t) /\ req'[t].pc \notin Deleting
    <2> DEFINE d == req[t].db
    <2>1. /\ req[t].pc = "deleting" /\ UNCHANGED databases
          /\ handle' = [handle EXCEPT ![d] = "released"]
        BY <1>3 DEF DeleteEnd, DeleteFail, At
    <2>2. d \in Handles
        BY <2>1 DEF TypeInv, LockInv
    <2> HIDE DEF d
    <2>3. handle'[d] = "released" /\ \A h \in Handles \ {d} : handle'[h] = handle[h]
        BY <1>t, <2>1, <2>2
    <2>4. KnownIfOpen'
        BY <1>m, <2>1, <2>3 DEF KnownIfOpen
    <2>5. ASSUME NEW m \in DbNames \ req[t].doomed, databases[m] # NoHandle
          PROVE  handle'[databases[m]] # "open"
        <3>1. handle[databases[m]] # "open" \/ databases[m] = d
            BY <1>m, <2>1, <2>5 DEF ClosedByReset, Deleting, d
        <3>2. databases[m] \in Handles
            BY <1>t, <2>5
        <3> QED BY <2>3, <3>1, <3>2
    <2>6. ClosedByReset(t)'
        BY <1>3, <2>1, <2>5 DEF ClosedByReset
    <2> QED BY <1>a, <2>1, <2>4, <2>6 DEF InMutex
<1>4. CASE ClearDatabases(t) /\ req'[t].pc = "release"
    <2>1. req[t].pc = "delete" /\ req[t].doomed = {} /\ handle' = handle
        BY <1>4 DEF ClearDatabases, At
    <2>2. \A h \in Handles : handle[h] # "open"
        BY <1>m, <2>1 DEF KnownIfOpen, ClosedByReset, Deleting
    <2>3. KnownIfOpen' /\ ClosedByReset(t)'
        BY <1>4, <2>1, <2>2 DEF KnownIfOpen, ClosedByReset, Deleting
    <2> QED BY <1>a, <2>1, <2>3 DEF InMutex
<1>5. CASE (CreateDatabase(t) \/ CreateCollectionFail(t)) /\ req'[t].pc \notin Deleting
    <2> DEFINE new == lastHandle + 1
    <2>1. new \in Handles /\ mutex = NoThread
        BY <1>5, <1>t DEF CreateDatabase, CreateCollectionFail
    <2>2. KnownIfOpen'
        <3>1. CASE CreateDatabase(t)
            <4>1. PICK n \in DbNames : /\ databases[n] = NoHandle
                                       /\ databases' = [databases EXCEPT ![n] = new]
                BY <3>1 DEF CreateDatabase, TypeInv, TypeOK, RequestType, Request
            <4>2. handle' = [handle EXCEPT ![new] = "open"]
                BY <3>1 DEF CreateDatabase
            <4> HIDE DEF new
            <4>3. databases'[n] = new /\ \A m \in DbNames \ {n} : databases'[m] = databases[m]
                BY <1>t, <4>1
            <4>4. \A h \in Handles \ {new} : handle'[h] = handle[h]
                BY <1>t, <4>2
            <4> QED BY <1>m, <4>1, <4>3, <4>4 DEF KnownIfOpen
        <3>2. CASE CreateCollectionFail(t)
            <4>1. databases' = databases /\ handle' = [handle EXCEPT ![new] = "leaked"]
                BY <3>2 DEF CreateCollectionFail
            <4> HIDE DEF new
            <4>2. handle'[new] = "leaked" /\ \A h \in Handles \ {new} : handle'[h] = handle[h]
                BY <1>t, <2>1, <4>1
            <4> QED BY <1>m, <4>1, <4>2 DEF KnownIfOpen
        <3> QED BY <1>5, <3>1, <3>2
    <2> QED BY <1>b, <1>c, <1>5, <2>1, <2>2
<1>6. CASE /\ UNCHANGED <<databases, handle>>
           /\ req'[t].pc \notin Deleting
    <2>1. \A u \in Threads : req'[u].pc \in Deleting => req'[u] = req[u]
        BY <1>0, <1>6
    <2>2. OpenInv'
        BY <1>6, <2>1, OpenFrame
    <2> QED BY <2>2 DEF OpenInv
<1>7. \/ StartLock(t) \/ StartRegister(t) \/ ReleaseReplicators(t) \/ ReleaseListeners(t)
      \/ StatusRead(t) \/ StartListener(t)
      => UNCHANGED <<databases, handle>>
    BY DEF StartLock, StartRegister, ReleaseReplicators, ReleaseListeners, StatusRead,
           StartListener, manager
<1> QED BY <1>0, <1>1, <1>2, <1>3, <1>4, <1>5, <1>6, <1>7 DEF Moves, Goes, Quick, Deleting, manager

LEMMA OpenInit == Init => OpenInv
BY DEF Init, OpenInv, KnownIfOpen, ClosedByReset, Deleting, Idle

LEMMA OpenStep == TypeInv /\ OpenInv /\ [Next]_vars => OpenInv'
<1> SUFFICES ASSUME TypeInv, OpenInv, [Next]_vars PROVE OpenInv'
    OBVIOUS
<1>1. ASSUME NEW t \in Threads, Work(t) \/ Receive(t) PROVE OpenInv'
    BY <1>1, OpenWork
<1>2. ASSUME NEW r \in Replicators, Library(r) PROVE OpenInv'
    <2>1. UNCHANGED <<databases, handle, req>>
        BY <1>2 DEF Library, Replicate, AddDocumentReplication, Notify, Finish, Halt, StopAt, manager
    <2> QED BY <2>1, OpenFrame
<1>3. CASE Rest \/ UNCHANGED vars
    BY <1>3, OpenFrame DEF Rest, vars, manager
<1> QED BY <1>1, <1>2, <1>3 DEF Next

\* When a reset has deleted the last database, none is open.
LEMMA NoneOpen ==
    ASSUME OpenInv, NEW t \in Threads, ClearDatabases(t)
    PROVE  \A h \in Handles : handle[h] # "open"
BY DEF OpenInv, KnownIfOpen, ClosedByReset, Deleting, ClearDatabases, At


LEMMA LaterKeeps ==
    ASSUME TypeInv, Later, NEW s \in Since,
           s.repl <= replicatorID, s.handle <= lastHandle, s.listener <= listenerID
    PROVE  /\ s.repl <= replicatorID' /\ s.handle <= lastHandle' /\ s.listener <= listenerID'
           /\ (\A h \in 1 .. s.handle : handle[h] # "open") =>
                  \A h \in 1 .. s.handle : handle'[h] # "open"
           /\ (\A r \in 1 .. s.repl : r \notin contexts) => \A r \in 1 .. s.repl : r \notin contexts'
           /\ (\A l \in 1 .. s.listener : l \notin listeners) =>
                  \A l \in 1 .. s.listener : l \notin listeners'
<1>1. s.repl \in Nat /\ s.handle \in Nat /\ s.listener \in Nat /\ s.handle <= MaxHandles
    BY DEF Since
<1>2. lastHandle \in Nat /\ replicatorID \in Nat /\ listenerID \in Nat
    BY DEF TypeInv, TypeOK, ManagerType, ReplicationType, ListeningType
<1>3. s.repl <= replicatorID' /\ s.handle <= lastHandle' /\ s.listener <= listenerID'
    BY <1>1, <1>2 DEF Later
<1>4. /\ \A h \in 1 .. s.handle : h \in Handles /\ ~(h > lastHandle)
      /\ \A r \in 1 .. s.repl : ~(r > replicatorID)
      /\ \A l \in 1 .. s.listener : ~(l > listenerID)
    BY <1>1, <1>2
<1> QED BY <1>3, <1>4 DEF Later

\* What a reset has closed stays closed until it comes to its next part.
LEMMA FormerFrame ==
    ASSUME TypeInv, Later, NEW u \in Threads, Former(u), req'[u].since = req[u].since,
           req'[u].pc \notin {"release", "unlisten", "create"} \/ req'[u].pc = req[u].pc
    PROVE  Former(u)'
<1> DEFINE s == req[u].since
<1>1. s \in Since
    BY DEF TypeInv, TypeOK, RequestType, Request, Since
<1>2. s.repl <= replicatorID /\ s.handle <= lastHandle /\ s.listener <= listenerID
    BY DEF Former
<1> QED BY <1>1, <1>2, LaterKeeps DEF Former

LEMMA LaterWork ==
    ASSUME TypeInv, NEW t \in Threads, Work(t) \/ Receive(t)
    PROVE  Later
<1>0. Moves(t)
    BY StepMoves
<1>t. /\ handle \in [Handles -> {"unused", "open", "released", "leaked"}]
      /\ lastHandle \in Nat /\ replicatorID \in Nat /\ listenerID \in Nat
    BY DEF TypeInv, TypeOK, ManagerType, ReplicationType, ListeningType
<1>1. CASE DeleteEnd(t) \/ DeleteFail(t)
    <2>1. handle' = [handle EXCEPT ![req[t].db] = "released"]
          /\ UNCHANGED <<lastHandle, replicatorID, listenerID, contexts, listeners>>
        BY <1>1 DEF DeleteEnd, DeleteFail, replication, listening_vars
    <2> QED BY <1>t, <2>1 DEF Later
<1>2. CASE ReleaseReplicators(t)
    BY <1>2, <1>t DEF ReleaseReplicators, Later, manager, listening_vars
<1>3. CASE ReleaseListeners(t)
    BY <1>3, <1>t DEF ReleaseListeners, Later, manager, replication
<1>4. CASE CreateDatabase(t) \/ CreateCollectionFail(t)
    <2>1. /\ lastHandle' = lastHandle + 1
          /\ UNCHANGED <<replicatorID, listenerID, contexts, listeners>>
          /\ \E s \in {"open", "leaked"} : handle' = [handle EXCEPT ![lastHandle + 1] = s]
        BY <1>4 DEF CreateDatabase, CreateCollectionFail, replication, listening_vars
    <2> QED BY <1>t, <2>1 DEF Later
<1>5. CASE StartRegister(t)
    <2>1. /\ replicatorID' = replicatorID + 1 /\ contexts' = contexts \cup {replicatorID + 1}
          /\ UNCHANGED <<handle, lastHandle, listenerID, listeners>>
        BY <1>5 DEF StartRegister, manager, listening_vars
    <2> QED BY <1>t, <2>1 DEF Later
<1>6. CASE StartListener(t)
    <2>1. /\ listenerID' = listenerID + 1 /\ listeners' = listeners \cup {listenerID + 1}
          /\ UNCHANGED <<handle, lastHandle, replicatorID, contexts>>
        BY <1>6 DEF StartListener, manager, replication
    <2> QED BY <1>t, <2>1 DEF Later
<1>7. CASE UNCHANGED <<handle, lastHandle, replicatorID, contexts, listenerID, listeners>>
    BY <1>7, <1>t DEF Later
<1>8. ResetLock(t) \/ DeleteBegin(t) \/ ClearDatabases(t) \/ StartLock(t) \/ StatusRead(t)
      => UNCHANGED <<handle, lastHandle, replicatorID, contexts, listenerID, listeners>>
    BY DEF ResetLock, DeleteBegin, ClearDatabases, StartLock, StatusRead, manager, replication,
           listening_vars
<1> QED BY <1>0, <1>1, <1>2, <1>3, <1>4, <1>5, <1>6, <1>7, <1>8 DEF Moves, manager

LEMMA FormerInit == Init => FormerInv
BY DEF Init, FormerInv, Former, Idle, NoMark

LEMMA FormerWork ==
    ASSUME TypeInv, OpenInv, FormerInv, NEW t \in Threads, Work(t) \/ Receive(t)
    PROVE  FormerInv'
<1>0. Moves(t) /\ \A u \in Threads \ {t} : req'[u] = req[u]
    BY StepMoves
<1>l. Later
    BY LaterWork
<1>1. ASSUME NEW u \in Threads \ {t} PROVE Former(u)'
    BY <1>0, <1>1, <1>l, FormerFrame DEF FormerInv
<1> SUFFICES Former(t)'
    BY <1>1 DEF FormerInv
<1>f. Former(t)
    BY DEF FormerInv
<1>2. CASE ResetLock(t) /\ req'[t].pc = "delete" /\ req'[t].since = InUse
    <2>1. UNCHANGED <<replicatorID, lastHandle, listenerID>>
        BY <1>2 DEF ResetLock, manager, replication, listening_vars
    <2>2. replicatorID <= replicatorID /\ lastHandle <= lastHandle /\ listenerID <= listenerID
        BY DEF TypeInv, TypeOK, ManagerType, ReplicationType, ListeningType
    <2> QED BY <1>2, <2>1, <2>2 DEF Former, InUse
<1>3. CASE Quick(t)
    BY <1>3, <1>l DEF Quick, Former, Later, NoMark
<1>4. CASE \E l \in {"deleting", "delete", "register", "drain"} : Goes(t, l)
    BY <1>4, <1>f, <1>l, FormerFrame DEF Goes
<1>5. CASE CreateDatabase(t) /\ Goes(t, "create")
    BY <1>5, <1>f, <1>l, FormerFrame DEF Goes, CreateDatabase, At
<1> DEFINE s == req[t].since
<1>s. s \in Since
    BY DEF TypeInv, TypeOK, RequestType, Request, Since
<1>b. /\ s.repl <= replicatorID /\ s.handle <= lastHandle /\ s.listener <= listenerID
      /\ s.repl <= replicatorID' /\ s.handle <= lastHandle' /\ s.listener <= listenerID'
    BY <1>f, <1>l, <1>s, LaterKeeps DEF Former
<1>6. CASE ClearDatabases(t) /\ Goes(t, "release")
    <2>1. handle' = handle
        BY <1>6 DEF ClearDatabases
    <2>2. \A h \in 1 .. s.handle : h \in Handles
        BY <1>s DEF Since
    <2>3. \A h \in 1 .. s.handle : handle'[h] # "open"
        BY <1>6, <2>1, <2>2, NoneOpen
    <2> QED BY <1>6, <1>b, <2>3 DEF Former, Goes
<1>7. CASE ReleaseReplicators(t) /\ Goes(t, "unlisten")
    <2>1. req[t].pc = "release" /\ handle' = handle /\ contexts' = {}
        BY <1>7 DEF ReleaseReplicators, At, manager
    <2> QED BY <1>7, <1>b, <1>f, <2>1 DEF Former, Goes
<1>8. CASE ReleaseListeners(t) /\ Goes(t, "create")
    <2>1. req[t].pc = "unlisten" /\ UNCHANGED <<handle, contexts>> /\ listeners' = {}
        BY <1>8 DEF ReleaseListeners, At, manager, replication
    <2> QED BY <1>8, <1>b, <1>f, <2>1 DEF Former, Goes
<1> QED BY <1>0, <1>2, <1>3, <1>4, <1>5, <1>6, <1>7, <1>8 DEF Moves

LEMMA FormerStep == TypeInv /\ OpenInv /\ FormerInv /\ [Next]_vars => FormerInv'
<1> SUFFICES ASSUME TypeInv, OpenInv, FormerInv, [Next]_vars PROVE FormerInv'
    OBVIOUS
<1>1. ASSUME NEW t \in Threads, Work(t) \/ Receive(t) PROVE FormerInv'
    BY <1>1, FormerWork
<1>2. ASSUME NEW r \in Replicators, Library(r) PROVE FormerInv'
    BY <1>2 DEF Library, Replicate, AddDocumentReplication, Notify, Finish, Halt, StopAt, manager,
                listening_vars, FormerInv, Former
<1>3. CASE Rest \/ UNCHANGED vars
    BY <1>3 DEF Rest, vars, manager, replication, listening_vars, FormerInv, Former
<1> QED BY <1>1, <1>2, <1>3 DEF Next

\* When a reset starts to create the new databases, nothing of the former test is
\* left: no database that was open, no replicator and no listener.
THEOREM ResetForgetsFormerTestCorrect == Spec => []ResetForgetsFormerTest
<1>1. Spec => [](TypeInv /\ OpenInv /\ FormerInv)
    BY TypeInit, TypeStep, OpenInit, OpenStep, FormerInit, FormerStep, PTL DEF Spec
<1>2. FormerInv => ResetForgetsFormerTest
    BY DEF FormerInv, Former, ResetForgetsFormerTest, At
<1> QED BY <1>1, <1>2, PTL

\* Contexts belong to replicators that were started, and those of the former test
\* have stopped once a reset has deleted its databases.
ReleaseInv ==
    /\ \A r \in contexts : r <= replicatorID /\ repl[r].state # "none"
    /\ ~resetFailed =>
          \A t \in Threads : req[t].pc = "release" =>
              \A r \in contexts : r <= req[t].since.repl => repl[r].state = "stopped"

\* Replicators that exist stay, and those that stopped remain so.
LEMMA ReleaseFrame ==
    ASSUME ReleaseInv, resetFailed => resetFailed', contexts' \subseteq contexts,
           UNCHANGED replicatorID,
           \A r \in contexts : /\ repl[r].state # "none" => repl'[r].state # "none"
                               /\ repl[r].state = "stopped" => repl'[r].state = "stopped",
           \A u \in Threads : req'[u].pc = "release" => req'[u] = req[u]
    PROVE  ReleaseInv'
BY DEF ReleaseInv

LEMMA ReleaseWork ==
    ASSUME TypeInv, MapInv, OpenInv, FormerInv, ReleaseInv, NEW t \in Threads, Work(t) \/ Receive(t)
    PROVE  ReleaseInv'
<1>0. Moves(t) /\ \A u \in Threads \ {t} : req'[u] = req[u]
    BY StepMoves
<1>t. /\ replicatorID \in Nat /\ contexts \subseteq Replicators
      /\ repl \in [Replicators -> [db : Handles \cup {NoHandle},
                                   state : {"none", "busy", "stopping", "stopped"}]]
    BY DEF TypeInv, TypeOK, ReplicationType
<1>1. CASE /\ UNCHANGED <<repl, replicatorID>> /\ contexts' \subseteq contexts
           /\ (resetFailed => resetFailed') /\ req'[t].pc # "release"
    BY <1>0, <1>1, ReleaseFrame
<1>2. CASE DeleteBegin(t) /\ req'[t].pc = "deleting"
    <2>1. UNCHANGED <<contexts, replicatorID, resetFailed>>
        BY <1>2 DEF DeleteBegin
    <2>2. PICK h : repl' = [r \in Replicators |->
                                IF repl[r].db = h /\ repl[r].state = "busy"
                                THEN [repl[r] EXCEPT !.state = "stopping"] ELSE repl[r]]
        BY <1>2 DEF DeleteBegin
    <2>3. \A r \in contexts : /\ repl[r].state # "none" => repl'[r].state # "none"
                              /\ repl[r].state = "stopped" => repl'[r].state = "stopped"
        <3> TAKE r \in contexts
        <3>0. r \in Replicators /\ repl[r] \in [db : Handles \cup {NoHandle},
                                               state : {"none", "busy", "stopping", "stopped"}]
            BY <1>t
        <3>1. CASE repl[r].db = h /\ repl[r].state = "busy"
            <4>1. repl'[r] = [repl[r] EXCEPT !.state = "stopping"]
                BY <2>2, <3>0, <3>1
            <4>2. repl'[r].state = "stopping"
                BY <3>0, <4>1
            <4> QED BY <3>1, <4>2
        <3>2. CASE ~(repl[r].db = h /\ repl[r].state = "busy")
            <4>1. repl'[r] = repl[r]
                BY <2>2, <3>0, <3>2, Zenon
            <4> QED BY <4>1
        <3> QED BY <3>1, <3>2
    <2> QED BY <1>0, <1>2, <2>1, <2>3, ReleaseFrame
<1>3. CASE ClearDatabases(t) /\ Goes(t, "release")
    <2>1. UNCHANGED <<contexts, replicatorID, repl, resetFailed>>
        BY <1>3 DEF ClearDatabases, replication
    <2>2. ASSUME ~resetFailed, NEW r \in contexts PROVE repl[r].state = "stopped"
        <3>1. repl[r].state \notin Active
            BY <1>3, <1>t, <2>2, NoneOpen DEF MapInv, OpenAtWork
        <3>2. repl[r].state \in {"none", "busy", "stopping", "stopped"} \ {"none"}
            BY <1>t DEF ReleaseInv
        <3> QED BY <3>1, <3>2 DEF Active
    <2> QED BY <1>0, <2>1, <2>2 DEF ReleaseInv
<1>4. CASE StartRegister(t) /\ Quick(t)
    <2> DEFINE new == replicatorID + 1
    <2>1. /\ replicatorID' = new /\ contexts' = contexts \cup {new} /\ UNCHANGED resetFailed
          /\ repl' = [repl EXCEPT ![new] = [db |-> req[t].db, state |-> "busy"]]
          /\ new \in Replicators
        BY <1>4, <1>t DEF StartRegister, TypeInv, LockInv, At
    <2>2. \A u \in Threads : req[u].since.repl \in Nat /\ req[u].since.repl <= replicatorID
        BY DEF FormerInv, Former, TypeInv, TypeOK, RequestType, Request
    <2>3. \A u \in Threads : new > req[u].since.repl
        BY <1>t, <2>2
    <2>4. \A r \in contexts : r # new /\ r <= new
        BY <1>t DEF ReleaseInv
    <2>5. new <= new
        BY <1>t
    <2>6. repl'[new].state = "busy" /\ \A r \in contexts : repl'[r] = repl[r]
        BY <1>t, <2>1, <2>4
    <2>7. \A u \in Threads : ~(new <= req[u].since.repl)
        BY <1>t, <2>2
    <2>8. \A u \in Threads : req'[u].pc = "release" => req'[u] = req[u]
        BY <1>0, <1>4 DEF Quick
    <2> HIDE DEF new
    <2> QED BY <2>1, <2>4, <2>5, <2>6, <2>7, <2>8 DEF ReleaseInv
<1>5. ReleaseReplicators(t) => UNCHANGED <<repl, replicatorID, resetFailed>> /\ contexts' = {}
    BY DEF ReleaseReplicators
<1>6. DeleteFail(t) => UNCHANGED <<repl, replicatorID, contexts>> /\ resetFailed'
    BY DEF DeleteFail, replication
<1>7. \/ ResetLock(t) \/ DeleteEnd(t) \/ ReleaseListeners(t) \/ CreateDatabase(t)
      \/ CreateCollectionFail(t) \/ StartLock(t) \/ StatusRead(t) \/ StartListener(t)
      => UNCHANGED <<repl, replicatorID, contexts, resetFailed>>
    BY DEF ResetLock, DeleteEnd, ReleaseListeners, CreateDatabase, CreateCollectionFail,
           StartLock, StatusRead, StartListener, replication
<1> QED BY <1>0, <1>1, <1>2, <1>3, <1>4, <1>5, <1>6, <1>7 DEF Moves, Goes, Quick

LEMMA ReleaseInit == Init => ReleaseInv
BY DEF Init, ReleaseInv, Idle

LEMMA ReleaseStep ==
    TypeInv /\ MapInv /\ OpenInv /\ FormerInv /\ ReleaseInv /\ [Next]_vars => ReleaseInv'
<1> SUFFICES ASSUME TypeInv, MapInv, OpenInv, FormerInv, ReleaseInv, [Next]_vars PROVE ReleaseInv'
    OBVIOUS
<1>1. ASSUME NEW t \in Threads, Work(t) \/ Receive(t) PROVE ReleaseInv'
    BY <1>1, ReleaseWork
<1>2. ASSUME NEW r \in Replicators, Library(r) PROVE ReleaseInv'
    <2>1. UNCHANGED <<contexts, replicatorID, resetFailed, req>>
        BY <1>2 DEF Library, Replicate, AddDocumentReplication, Notify, Finish, Halt, StopAt
    <2>2. \A q \in contexts : /\ repl[q].state # "none" => repl'[q].state # "none"
                              /\ repl[q].state = "stopped" => repl'[q].state = "stopped"
        BY <1>2 DEF Library, Replicate, AddDocumentReplication, Notify, Finish, Halt, StopAt,
                    TypeInv, TypeOK, ReplicationType
    <2> QED BY <2>1, <2>2, ReleaseFrame
<1>3. CASE Rest \/ UNCHANGED vars
    BY <1>3, ReleaseFrame DEF Rest, vars, replication
<1> QED BY <1>1, <1>2, <1>3 DEF Next

\* Unless a deletion failed, the contexts that a reset releases belong to
\* replicators that have stopped, but for those started since it took _mutex.
THEOREM ReleasedContextsAreStoppedCorrect == Spec => ReleasedContextsAreStopped
<1>1. Spec => [](TypeInv /\ MapInv /\ OpenInv /\ FormerInv /\ ReleaseInv)
    BY TypeInit, TypeStep, MapInit, MapStep, OpenInit, OpenStep, FormerInit, FormerStep,
       ReleaseInit, ReleaseStep, PTL DEF Spec
<1>2. ReleaseInv => \A t \in Threads :
          At(t, "release") /\ ~At(t, "release")' /\ ~resetFailed =>
              \A r \in contexts : r <= req[t].since.repl => repl[r].state = "stopped"
    BY DEF ReleaseInv, At
<1> QED BY <1>1, <1>2, PTL DEF ReleasedContextsAreStopped

=============================================================================
