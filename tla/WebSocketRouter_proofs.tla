------------------------ MODULE WebSocketRouter_proofs ------------------------
(***************************************************************************)
(* Theorems about the WebSocket router of the test client, for any number  *)
(* of servers, requests and connections.                                   *)
(***************************************************************************)
EXTENDS WebSocketRouter, SequenceTheorems, FiniteSetTheorems, TLAPS

USE RouterAssumption DEF Servers, Conns, None, Unknown

(***************************************************************************)
(* What stop() relies on: a task that waits is in the table of the pending *)
(* requests, and from the clean-up on there is no open connection a task   *)
(* could still write a request to.                                         *)
(***************************************************************************)
StopInv ==
    /\ \A id \in Ids : Waiting(id) => id \in pending
    /\ stop \in {"cleaned", "stopped"} => up = {}
    /\ NobodyWaitsAfterStop

LEMMA TypeInit == Init => TypeOK
BY EmptySeq DEF Init, TypeOK

\* The actions of the pages keep the type invariant.
LEMMA TypePage ==
    ASSUME TypeOK, NEW u \in Servers,
           PageConnect(u) \/ PageReceive(u) \/ PageReply(u) \/ PageLeave(u)
    PROVE  TypeOK'
<1> USE DEF TypeOK, router
<1>1. CASE PageConnect(u)
    <2>1. lastConn + 1 \in Conns
        BY <1>1 DEF PageConnect
    <2>2. PICK d \in {u, Unknown} :
             toRouter' = [toRouter EXCEPT ![lastConn + 1] = <<Hello(d)>>]
        BY <1>1 DEF PageConnect
    <2>3. <<Hello(d)>> \in Seq(Messages)
        BY DEF Hello, Messages
    <2>4. toRouter' \in [Conns -> Seq(Messages)]
        BY <2>1, <2>2, <2>3
    <2>5. /\ lastConn' \in 0 .. MaxConns /\ up' \subseteq Conns
          /\ page' \in [Servers -> Conns \cup {None}]
          /\ UNCHANGED <<router, toPage, handling, hellos>>
        BY <1>1, <2>1 DEF PageConnect
    <2> QED BY <2>4, <2>5
<1>2. CASE PageReceive(u)
    BY <1>2 DEF PageReceive
<1>3. CASE PageReply(u)
    <2>1. PICK id \in handling[u] :
             /\ handling' = [handling EXCEPT ![u] = handling[u] \ {id}]
             /\ toRouter' = [toRouter EXCEPT ![page[u]] = Append(toRouter[page[u]], Reply(id))]
        BY <1>3 DEF PageReply
    <2>2. page[u] \in Conns
        BY <1>3 DEF PageReply
    <2>3. Reply(id) \in Messages
        BY DEF Reply, Messages
    <2>4. Append(toRouter[page[u]], Reply(id)) \in Seq(Messages)
        BY <2>2, <2>3, AppendProperties
    <2> QED BY <1>3, <2>1, <2>2, <2>4 DEF PageReply
<1>4. CASE PageLeave(u)
    BY <1>4, EmptySeq DEF PageLeave, Drop
<1> QED BY <1>1, <1>2, <1>3, <1>4

\* So do start() and the requests ...
LEMMA TypeClient ==
    ASSUME TypeOK,
           \/ StartAcquire \/ StartTimeout
           \/ \E id \in Ids, u \in Servers : SendFail(id, u) \/ SendRequest(id, u)
    PROVE  TypeOK'
<1> USE DEF TypeOK, wire
<1>1. CASE StartAcquire
    BY <1>1 DEF StartAcquire
<1>2. CASE StartTimeout
    <2>1. 0 \in 0 .. Urls + 1
        OBVIOUS
    <2> QED BY <1>2, <2>1 DEF StartTimeout
<1>3. ASSUME NEW id \in Ids, NEW u \in Servers, SendFail(id, u) PROVE TypeOK'
    BY <1>3 DEF SendFail
<1>4. ASSUME NEW id \in Ids, NEW u \in Servers, SendRequest(id, u), up \subseteq Conns PROVE TypeOK'
    <2>1. connections[u] \in Conns
        BY <1>4 DEF SendRequest
    <2> QED BY <1>4, <2>1 DEF SendRequest
<1> QED BY <1>1, <1>2, <1>3, <1>4

\* ... the handlers of the connections ...
LEMMA TypeHandler ==
    ASSUME TypeOK, NEW c \in Conns, Handler(c)
    PROVE  TypeOK'
<1> USE DEF TypeOK, router
<1>1. CASE HandlerStops(c) \/ HandlerBadHello(c)
    <2>1. Drop(c) /\ UNCHANGED <<router, handling>>
        BY <1>1 DEF HandlerStops, HandlerBadHello
    <2>2. page' \in [Servers -> Conns \cup {None}]
        BY <2>1 DEF Drop
    <2>3. toRouter' \in [Conns -> Seq(Messages)] /\ toPage' \in [Conns -> SUBSET Ids]
        BY <2>1, EmptySeq DEF Drop
    <2> QED BY <2>1, <2>2, <2>3 DEF Drop
<1>2. ASSUME toRouter[c] # <<>>
      PROVE  /\ Head(toRouter[c]) \in Messages
             /\ [toRouter EXCEPT ![c] = Tail(toRouter[c])] \in [Conns -> Seq(Messages)]
    BY <1>2, HeadTailProperties
<1>3. CASE HandlerReply(c)
    <2>1. /\ pending' \subseteq Ids
          /\ future' \in [Ids -> {"none", "waiting", "abandoned", "result", "exception"}]
        BY <1>3 DEF HandlerReply
    <2>2. toRouter' \in [Conns -> Seq(Messages)]
        BY <1>2, <1>3 DEF HandlerReply, Read
    <2> QED BY <1>3, <2>1, <2>2 DEF HandlerReply
<1>4. CASE HandlerHello(c)
    <2>1. Head(toRouter[c]).device \in Servers
        BY <1>4 DEF HandlerHello
    <2>2. /\ connections' \in [Servers -> Conns \cup {None}]
          /\ hellos' \in [Servers -> Nat] /\ conn_sem' \in Nat
        <3> DEFINE d == Head(toRouter[c]).device
        <3>1. /\ connections' = [connections EXCEPT ![d] = c]
              /\ hellos' = [hellos EXCEPT ![d] = hellos[d] + 1]
              /\ conn_sem' = conn_sem + 1
            BY <1>4 DEF HandlerHello
        <3>2. d \in Servers
            BY <2>1
        <3> HIDE DEF d
        <3> QED BY <3>1, <3>2
    <2>3. toRouter' \in [Conns -> Seq(Messages)]
        BY <1>2, <1>4 DEF HandlerHello, Read
    <2> QED BY <1>4, <2>2, <2>3 DEF HandlerHello
<1> QED BY <1>1, <1>3, <1>4 DEF Handler

\* ... and stop().
LEMMA TypeStop ==
    ASSUME TypeOK, StopBegin \/ Stop
    PROVE  TypeOK'
<1> USE DEF TypeOK, wire
<1>1. CASE StopBegin
    BY <1>1 DEF StopBegin
<1>2. CASE StopClose
    BY <1>2, EmptySeq DEF StopClose, Drop
<1>3. CASE StopCleanup
    BY <1>3, EmptySeq DEF StopCleanup
<1>4. CASE StopFailPending
    BY <1>4 DEF StopFailPending
<1> QED BY <1>1, <1>2, <1>3, <1>4 DEF Stop

LEMMA TypeStep == TypeOK /\ [Next]_vars => TypeOK'
<1> SUFFICES ASSUME TypeOK, [Next]_vars PROVE TypeOK'
    OBVIOUS
<1>1. CASE UNCHANGED vars
    BY <1>1 DEF vars, router, wire, TypeOK
<1>2. CASE Next
    BY <1>2, TypePage, TypeClient, TypeHandler, TypeStop DEF Next
<1> QED BY <1>1, <1>2

\* The router keeps its type; the semaphore stays a natural number.
THEOREM TypeCorrect == Spec => []TypeOK
BY TypeInit, TypeStep, PTL DEF Spec

LEMMA StopInit == Init => StopInv
BY DEF Init, StopInv, NobodyWaitsAfterStop, Waiting

LEMMA StopStep == TypeOK /\ StopInv /\ [Next]_vars => StopInv'
<1> SUFFICES ASSUME TypeOK, StopInv, [Next]_vars PROVE StopInv'
    OBVIOUS
<1> USE DEF StopInv, NobodyWaitsAfterStop, Waiting
<1>1. ASSUME NEW u \in Servers,
             PageConnect(u) \/ PageReceive(u) \/ PageReply(u) \/ PageLeave(u)
      PROVE  StopInv'
    BY <1>1 DEF PageConnect, PageReceive, PageReply, PageLeave, Drop, router
<1>2. CASE StartAcquire \/ StartTimeout \/ StopBegin
    BY <1>2 DEF StartAcquire, StartTimeout, StopBegin, wire
<1>3. ASSUME NEW id \in Ids, NEW u \in Servers, SendFail(id, u) PROVE StopInv'
    BY <1>3 DEF SendFail, wire, TypeOK
<1>4. ASSUME NEW id \in Ids, NEW u \in Servers, SendRequest(id, u) PROVE StopInv'
    BY <1>4 DEF SendRequest, TypeOK
<1>5. ASSUME NEW c \in Conns, Handler(c) PROVE StopInv'
    <2>1. CASE HandlerReply(c)
        <3>1. /\ pending' = pending \ {Head(toRouter[c]).id}
              /\ future' = IF Head(toRouter[c]).id \in pending
                           THEN [future EXCEPT ![Head(toRouter[c]).id] = "result"] ELSE future
              /\ UNCHANGED <<stop, up>>
            BY <2>1 DEF HandlerReply
        <3> QED BY <3>1 DEF TypeOK
    <2>2. CASE HandlerStops(c) \/ HandlerHello(c) \/ HandlerBadHello(c)
        BY <2>2 DEF HandlerStops, HandlerHello, HandlerBadHello, Drop, router
    <2> QED BY <1>5, <2>1, <2>2 DEF Handler
<1>6. CASE StopClose \/ StopCleanup
    BY <1>6 DEF StopClose, StopCleanup, Drop
<1>7. CASE StopFailPending
    BY <1>7 DEF StopFailPending, wire
<1>8. CASE UNCHANGED vars
    BY <1>8 DEF vars, router, wire
<1> QED BY <1>1, <1>2, <1>3, <1>4, <1>5, <1>6, <1>7, <1>8 DEF Next, Stop

\* When stop() has returned nobody waits for a reply any more: the table it
\* goes through at the end holds every waiting task, those that registered
\* while it was closing the connections included.
THEOREM NobodyWaitsAfterStopCorrect == Spec => []NobodyWaitsAfterStop
<1>1. Spec => [](TypeOK /\ StopInv)
    BY TypeInit, TypeStep, StopInit, StopStep, PTL DEF Spec
<1>2. StopInv => NobodyWaitsAfterStop
    BY DEF StopInv
<1> QED BY <1>1, <1>2, PTL

(***************************************************************************)
(* What start() relies on: each hello releases the semaphore once, so that *)
(* as long as no page has said hello twice it counts the servers that      *)
(* introduced themselves and that start() has not yet gone past.           *)
(***************************************************************************)
Greeted == {u \in Servers : hellos[u] > 0}

HelloInv ==
    /\ \A u \in Greeted : connections[u] # None
    /\ starting # 0 /\ (\A u \in Servers : hellos[u] <= 1)
       => conn_sem + starting = Cardinality(Greeted) + 1

LEMMA GreetedFinite ==
    /\ IsFiniteSet(Greeted) /\ Cardinality(Greeted) \in Nat
    /\ Cardinality(Greeted) <= Urls
    /\ Cardinality(Greeted) = Urls => Greeted = Servers
<1>1. IsFiniteSet(Servers) /\ Cardinality(Servers) = Urls
    BY FS_Interval
<1>2. Greeted \subseteq Servers
    BY DEF Greeted
<1> QED BY <1>1, <1>2, FS_Subset, FS_CardinalityType

LEMMA HelloInit == Init => HelloInv
<1> SUFFICES ASSUME Init PROVE HelloInv
    OBVIOUS
<1>1. Greeted = {}
    BY DEF Init, Greeted
<1>2. Cardinality(Greeted) = 0
    BY <1>1, FS_EmptySet
<1> QED BY <1>1, <1>2 DEF Init, HelloInv

LEMMA HelloStep == TypeOK /\ HelloInv /\ [Next]_vars => HelloInv'
<1> SUFFICES ASSUME TypeOK, HelloInv, [Next]_vars PROVE HelloInv'
    OBVIOUS
<1>1. ASSUME UNCHANGED <<starting, conn_sem, connections, hellos>> PROVE HelloInv'
    BY <1>1 DEF HelloInv, Greeted
<1>2. ASSUME NEW u \in Servers,
             PageConnect(u) \/ PageReceive(u) \/ PageReply(u) \/ PageLeave(u)
      PROVE  HelloInv'
    BY <1>1, <1>2 DEF PageConnect, PageReceive, PageReply, PageLeave, Drop, router
<1>3. CASE StartAcquire
    <2>1. /\ conn_sem' = conn_sem - 1 /\ starting' = starting + 1 /\ starting # 0
          /\ UNCHANGED <<connections, hellos>>
        BY <1>3 DEF StartAcquire, wire
    <2>2. Greeted' = Greeted
        BY <2>1 DEF Greeted
    <2> QED BY <2>1, <2>2, GreetedFinite DEF HelloInv, TypeOK
<1>4. CASE StartTimeout
    BY <1>4 DEF StartTimeout, wire, HelloInv, Greeted
<1>5. ASSUME NEW id \in Ids, NEW u \in Servers, SendFail(id, u) \/ SendRequest(id, u) PROVE HelloInv'
    BY <1>1, <1>5 DEF SendFail, SendRequest, wire
<1>6. ASSUME NEW c \in Conns, HandlerHello(c) PROVE HelloInv'
    <2>1. PICK d \in Servers : /\ connections' = [connections EXCEPT ![d] = c]
                               /\ hellos' = [hellos EXCEPT ![d] = hellos[d] + 1]
        BY <1>6 DEF HandlerHello
    <2>2. conn_sem' = conn_sem + 1 /\ UNCHANGED starting
        BY <1>6 DEF HandlerHello
    <2>3. /\ hellos'[d] = hellos[d] + 1 /\ hellos[d] \in Nat
          /\ \A u \in Servers : u # d => hellos'[u] = hellos[u] /\ connections'[u] = connections[u]
          /\ connections'[d] = c /\ c # None
        BY <2>1 DEF TypeOK
    <2>4. Greeted' = Greeted \cup {d}
        BY <2>3 DEF Greeted
    <2>5. \A u \in Greeted' : connections'[u] # None
        BY <2>3, <2>4 DEF HelloInv, Greeted
    <2>6. ASSUME starting # 0, \A u \in Servers : hellos'[u] <= 1
          PROVE  conn_sem' + starting = Cardinality(Greeted') + 1
        <3>1. d \notin Greeted
            BY <2>3, <2>6 DEF Greeted
        <3>2. \A u \in Servers : hellos[u] <= 1
            BY <2>3, <2>6
        <3>3. Cardinality(Greeted') = Cardinality(Greeted) + 1
            BY <2>4, <3>1, GreetedFinite, FS_AddElement
        <3>4. conn_sem + starting = Cardinality(Greeted) + 1
            BY <2>6, <3>2 DEF HelloInv
        <3> QED BY <2>2, <3>3, <3>4, GreetedFinite DEF TypeOK
    <2> QED BY <2>2, <2>5, <2>6 DEF HelloInv
<1>7. ASSUME NEW c \in Conns, Handler(c) PROVE HelloInv'
    <2>1. CASE HandlerStops(c) \/ HandlerReply(c) \/ HandlerBadHello(c)
        BY <1>1, <2>1 DEF HandlerStops, HandlerReply, HandlerBadHello, Drop, router
    <2> QED BY <1>6, <1>7, <2>1 DEF Handler
<1>8. CASE StopBegin \/ Stop
    BY <1>1, <1>8 DEF StopBegin, Stop, StopClose, StopCleanup, StopFailPending, Drop, wire
<1>9. CASE UNCHANGED vars
    BY <1>1, <1>9 DEF vars, router, wire
<1> QED BY <1>2, <1>3, <1>4, <1>5, <1>7, <1>8, <1>9 DEF Next

\* When start() returns there is a connection for every server, unless a page has
\* said hello twice: what the semaphore counts are then the servers.
THEOREM StartedMeansConnectedCorrect == Spec => []StartedMeansConnected
<1>1. TypeOK /\ HelloInv => StartedMeansConnected
    <2> SUFFICES ASSUME TypeOK, HelloInv, Started, \A u \in Servers : hellos[u] <= 1
                 PROVE  \A u \in Servers : connections[u] # None
        BY DEF StartedMeansConnected
    <2>1. conn_sem + starting = Cardinality(Greeted) + 1 /\ starting = Urls + 1 /\ starting # 0
        BY DEF HelloInv, Started
    <2>2. Greeted = Servers
        BY <2>1, GreetedFinite DEF TypeOK
    <2> QED BY <2>2 DEF HelloInv
<1> QED BY TypeInit, TypeStep, HelloInit, HelloStep, <1>1, PTL DEF Spec

=============================================================================
