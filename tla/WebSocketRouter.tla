--------------------------- MODULE WebSocketRouter ---------------------------
(***************************************************************************)
(* The WebSocket side of the test client (cbltest/websocket_router.py and   *)
(* _RequestWebSocketTransport).  Test servers that run in a browser cannot  *)
(* listen, so the client listens and the pages connect to it.  Requests of  *)
(* concurrent tasks share a connection; the router matches the replies to   *)
(* the waiting tasks by their ts_id.                                        *)
(*                                                                         *)
(* asyncio runs one task at a time: a step is what a task does between two  *)
(* awaits.  A page (servers/javascript/src/testServer.ts) handles requests  *)
(* concurrently, answers in any order and may go away or be reloaded.       *)
(***************************************************************************)
EXTENDS Naturals, Sequences

CONSTANTS Urls,      \* number of test servers that use WebSockets
          Ids,       \* message numbers (ts_id), each used by one request
          MaxConns   \* bound: connections opened by pages

ASSUME RouterAssumption == Urls \in Nat /\ MaxConns \in Nat

Servers == 1 .. Urls
Conns   == 1 .. MaxConns
None    == 0
Unknown == 0          \* a device name that is not one of the router's

Hello(d)  == [type |-> "hello", device |-> d, id |-> None]
Reply(id) == [type |-> "reply", device |-> Unknown, id |-> id]

VARIABLES
    starting,     \* start(): the server it waits for, Urls + 1 when done, 0 when it raised
    conn_sem,     \* __conn_sem
    connections,  \* __connections: server -> connection, None when absent
    pending,      \* __pending: ts_ids with a registered future
    future,       \* the future of each request
    sentOn,       \* the connection each request was written to
    stop,         \* where stop() is; __stopping is stop # "off"
    closing,      \* connections that stop() has still to close
    lastConn,
    up,           \* connections that are open
    toPage,       \* requests on their way to the page
    toRouter,     \* messages on their way to the router
    page,         \* connection of the page of each server
    handling,     \* requests the page works on
    hellos        \* history: how often each page introduced itself

router == <<starting, conn_sem, connections, pending, future, sentOn, stop, closing>>
wire   == <<lastConn, up, toPage, toRouter, page, handling, hellos>>
vars   == <<router, wire>>

Init ==
    /\ starting = 1
    /\ conn_sem = 0
    /\ connections = [u \in Servers |-> None]
    /\ pending = {}
    /\ future = [id \in Ids |-> "none"]
    /\ sentOn = [id \in Ids |-> None]
    /\ stop = "off"
    /\ closing = {}
    /\ lastConn = 0
    /\ up = {}
    /\ toPage = [c \in Conns |-> {}]
    /\ toRouter = [c \in Conns |-> <<>>]
    /\ page = [u \in Servers |-> None]
    /\ handling = [u \in Servers |-> {}]
    /\ hellos = [u \in Servers |-> 0]

Started == starting = Urls + 1
Waiting(id) == future[id] = "waiting"

-----------------------------------------------------------------------------
(* The pages.                                                              *)

\* start() has opened the page of u, or somebody reloads it.  The page sends
\* its hello at once, with a device name that may be wrong.
PageConnect(u) ==
    /\ u <= starting
    /\ page[u] = None
    /\ stop \in {"off", "closing"}
    /\ lastConn < MaxConns
    /\ LET c == lastConn + 1 IN
         /\ lastConn' = c
         /\ up' = up \cup {c}
         /\ page' = [page EXCEPT ![u] = c]
         /\ \E d \in {u, Unknown} : toRouter' = [toRouter EXCEPT ![c] = <<Hello(d)>>]
    /\ UNCHANGED <<router, toPage, handling, hellos>>

PageReceive(u) ==
    /\ page[u] # None
    /\ \E id \in toPage[page[u]] :
         /\ toPage' = [toPage EXCEPT ![page[u]] = toPage[page[u]] \ {id}]
         /\ handling' = [handling EXCEPT ![u] = handling[u] \cup {id}]
    /\ UNCHANGED <<router, lastConn, up, toRouter, page, hellos>>

PageReply(u) ==
    /\ page[u] # None
    /\ \E id \in handling[u] :
         /\ handling' = [handling EXCEPT ![u] = handling[u] \ {id}]
         /\ toRouter' = [toRouter EXCEPT ![page[u]] = Append(toRouter[page[u]], Reply(id))]
    /\ UNCHANGED <<router, lastConn, up, toPage, page, hellos>>

\* The connection c is gone, with what was in flight on it.
Drop(c) ==
    /\ up' = up \ {c}
    /\ toPage' = [toPage EXCEPT ![c] = {}]
    /\ toRouter' = [toRouter EXCEPT ![c] = <<>>]
    /\ page' = [u \in Servers |-> IF page[u] = c THEN None ELSE page[u]]
    /\ UNCHANGED <<lastConn, hellos>>

\* (A page the router closed lives on, and answers when it connects again.)
\* The page is closed or reloaded, or crashes.
PageLeave(u) ==
    /\ page[u] # None
    /\ Drop(page[u])
    /\ handling' = [handling EXCEPT ![u] = {}]
    /\ UNCHANGED router

-----------------------------------------------------------------------------
(* start(): one page after the other.                                      *)

\* Bug: the hello is not waited for.
StartAcquire_NoWait ==
    /\ starting \in Servers
    /\ conn_sem' = conn_sem - 1
    /\ starting' = starting + 1
    /\ UNCHANGED <<connections, pending, future, sentOn, stop, closing, wire>>

StartAcquire ==
    /\ starting \in Servers
    /\ conn_sem > 0
    /\ conn_sem' = conn_sem - 1
    /\ starting' = starting + 1
    /\ UNCHANGED <<connections, pending, future, sentOn, stop, closing, wire>>

\* The page does not come in time: start() raises, and with it the fixture that
\* would have called stop().
StartTimeout ==
    /\ starting \in Servers
    /\ conn_sem = 0
    /\ starting' = 0
    /\ UNCHANGED <<conn_sem, connections, pending, future, sentOn, stop, closing, wire>>

-----------------------------------------------------------------------------
(* _RequestWebSocketTransport.send: register, look the connection up, write. *)

\* The look-up fails (no page ever introduced itself) or the write does.
SendFail(id, u) ==
    /\ Started
    /\ future[id] = "none"
    /\ connections[u] \notin up
    /\ pending' = pending \cup {id}
    /\ future' = [future EXCEPT ![id] = "abandoned"]
    /\ UNCHANGED <<starting, conn_sem, connections, sentOn, stop, closing, wire>>

SendRequest(id, u) ==
    /\ Started
    /\ future[id] = "none"
    /\ connections[u] \in up
    /\ pending' = pending \cup {id}
    /\ future' = [future EXCEPT ![id] = "waiting"]
    /\ sentOn' = [sentOn EXCEPT ![id] = connections[u]]
    /\ toPage' = [toPage EXCEPT ![connections[u]] = toPage[connections[u]] \cup {id}]
    /\ UNCHANGED <<starting, conn_sem, connections, stop, closing, lastConn, up, toRouter, page,
                   handling, hellos>>

-----------------------------------------------------------------------------
(* _websocket_handler of connection c: one message.                        *)

Read(c) ==
    /\ toRouter[c] # <<>>
    /\ toRouter' = [toRouter EXCEPT ![c] = Tail(toRouter[c])]

\* After stop() began the handler leaves its loop at the next message.
HandlerStops(c) ==
    /\ toRouter[c] # <<>>
    /\ stop # "off"
    /\ Drop(c)
    /\ UNCHANGED <<router, handling>>

\* Bug: the first reply clears the table of the waiting requests.
HandlerReply_ClearsAll(c) ==
    /\ Read(c)
    /\ stop = "off"
    /\ Head(toRouter[c]).id \in pending
    /\ pending' = {}
    /\ future' = [future EXCEPT ![Head(toRouter[c]).id] = "result"]
    /\ UNCHANGED <<starting, conn_sem, connections, sentOn, stop, closing, lastConn, up, toPage,
                   page, handling, hellos>>

\* (A reply nobody waits for would be ignored.)
HandlerReply(c) ==
    /\ Read(c)
    /\ stop = "off"
    /\ LET msg == Head(toRouter[c]) IN
         /\ msg.type = "reply"
         /\ pending' = pending \ {msg.id}
         /\ future' = IF msg.id \in pending THEN [future EXCEPT ![msg.id] = "result"] ELSE future
    /\ UNCHANGED <<starting, conn_sem, connections, sentOn, stop, closing, lastConn, up, toPage,
                   page, handling, hellos>>

HandlerHello(c) ==
    /\ Read(c)
    /\ stop = "off"
    /\ LET d == Head(toRouter[c]).device IN
         /\ Head(toRouter[c]).type = "hello"
         /\ d \in Servers
         /\ connections' = [connections EXCEPT ![d] = c]
         /\ hellos' = [hellos EXCEPT ![d] = hellos[d] + 1]
    /\ conn_sem' = conn_sem + 1
    /\ UNCHANGED <<starting, pending, future, sentOn, stop, closing, lastConn, up, toPage, page,
                   handling>>

\* Bug: the semaphore is released for any hello.
HandlerBadHello_Releases(c) ==
    /\ toRouter[c] # <<>>
    /\ stop = "off"
    /\ Head(toRouter[c]).type = "hello"
    /\ Head(toRouter[c]).device = Unknown
    /\ Drop(c)
    /\ conn_sem' = conn_sem + 1
    /\ UNCHANGED <<starting, connections, pending, future, sentOn, stop, closing, handling>>

HandlerBadHello(c) ==
    /\ toRouter[c] # <<>>
    /\ stop = "off"
    /\ Head(toRouter[c]).type = "hello"
    /\ Head(toRouter[c]).device = Unknown
    /\ Drop(c)
    /\ UNCHANGED <<router, handling>>

-----------------------------------------------------------------------------
(* stop(): close the connections one by one, then the listener and what is  *)
(* left of the handlers, then fail whoever still waits.                     *)

StopBegin ==
    /\ Started
    /\ stop = "off"
    /\ stop' = "closing"
    /\ closing' = {connections[u] : u \in Servers} \cap up
    /\ UNCHANGED <<starting, conn_sem, connections, pending, future, sentOn, wire>>

\* Bug: a connection that went away meanwhile cannot be closed.
StopClose_OnlyOpen ==
    /\ stop = "closing"
    /\ \E c \in closing \cap up :
         /\ closing' = closing \ {c}
         /\ Drop(c)
    /\ UNCHANGED <<starting, conn_sem, connections, pending, future, sentOn, stop, handling>>

\* The handlers, and requests of other tasks, run while a close is awaited.
StopClose ==
    /\ stop = "closing"
    /\ \E c \in closing :
         /\ closing' = closing \ {c}
         /\ Drop(c)
    /\ UNCHANGED <<starting, conn_sem, connections, pending, future, sentOn, stop, handling>>

StopCleanup ==
    /\ stop = "closing"
    /\ closing = {}
    /\ stop' = "cleaned"
    /\ up' = {}
    /\ toPage' = [c \in Conns |-> {}]
    /\ toRouter' = [c \in Conns |-> <<>>]
    /\ page' = [u \in Servers |-> None]
    /\ UNCHANGED <<starting, conn_sem, connections, pending, future, sentOn, closing, lastConn,
                   handling, hellos>>

\* Bug: the table is cleared, the futures in it are forgotten.
StopFailPending_Forgets ==
    /\ stop = "cleaned"
    /\ stop' = "stopped"
    /\ pending' = {}
    /\ UNCHANGED <<starting, conn_sem, connections, future, sentOn, closing, wire>>

StopFailPending ==
    /\ stop = "cleaned"
    /\ stop' = "stopped"
    /\ future' = [id \in Ids |-> IF id \in pending /\ Waiting(id) THEN "exception" ELSE future[id]]
    /\ pending' = {}
    /\ UNCHANGED <<starting, conn_sem, connections, sentOn, closing, wire>>

-----------------------------------------------------------------------------
Handler(c) ==
    HandlerStops(c) \/ HandlerReply(c) \/ HandlerHello(c) \/ HandlerBadHello(c)

Stop == StopClose \/ StopCleanup \/ StopFailPending

Next ==
    \/ \E u \in Servers : PageConnect(u) \/ PageReceive(u) \/ PageReply(u) \/ PageLeave(u)
    \/ StartAcquire \/ StartTimeout
    \/ \E id \in Ids, u \in Servers : SendFail(id, u) \/ SendRequest(id, u)
    \/ \E c \in Conns : Handler(c)
    \/ StopBegin \/ Stop

\* The event loop runs every handler and stop(); a page that is there reads its
\* socket and finishes its handlers.  Nobody promises that a page stays.
Fairness ==
    /\ \A u \in Servers : WF_vars(PageReceive(u)) /\ WF_vars(PageReply(u))
    /\ \A c \in Conns : WF_vars(Handler(c))
    /\ WF_vars(Stop)

Spec == Init /\ [][Next]_vars /\ Fairness

-----------------------------------------------------------------------------
Messages == [type : {"hello", "reply"}, device : Servers \cup {Unknown}, id : Ids \cup {None}]

\* Every variable of the router and of the wire keeps its shape; in particular
\* the semaphore is never acquired more often than it was released.
TypeOK ==
    /\ starting \in 0 .. Urls + 1
    /\ conn_sem \in Nat
    /\ connections \in [Servers -> Conns \cup {None}]
    /\ pending \subseteq Ids
    /\ future \in [Ids -> {"none", "waiting", "abandoned", "result", "exception"}]
    /\ sentOn \in [Ids -> Conns \cup {None}]
    /\ stop \in {"off", "closing", "cleaned", "stopped"}
    /\ closing \subseteq Conns
    /\ lastConn \in 0 .. MaxConns
    /\ up \subseteq Conns
    /\ toPage \in [Conns -> SUBSET Ids]
    /\ toRouter \in [Conns -> Seq(Messages)]
    /\ page \in [Servers -> Conns \cup {None}]
    /\ handling \in [Servers -> SUBSET Ids]
    /\ hellos \in [Servers -> Nat]

\* Once stop() has returned no task waits for a reply, whatever was sent, lost
\* or registered while it was closing the connections, and nobody can begin to.
NobodyWaitsAfterStop == stop = "stopped" => \A id \in Ids : ~Waiting(id)

\* A task that waits is known to the router, so that a reply or stop() finds it.
WaitingIsPending == \A id \in Ids : Waiting(id) => id \in pending

\* start() has a connection for every server when it returns, if no page said
\* hello twice: the semaphore counts hellos, not servers, so that a reloaded
\* page can stand in for one that never came ("Connected to test server", l. 58).
StartedMeansConnected ==
    Started /\ (\A u \in Servers : hellos[u] <= 1) =>
        \A u \in Servers : connections[u] # None

\* A request whose connection stays up is answered, or failed by stop(); the
\* router does nothing for the requests of a connection that is lost.
RequestEnds ==
    \A id \in Ids : Waiting(id) ~> (~Waiting(id) \/ sentOn[id] \notin up)

\* Once stop() was called it returns, and every waiting request has ended.
StopReturns == stop # "off" ~> stop = "stopped"
=============================================================================
