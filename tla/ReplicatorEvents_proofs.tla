------------------------- MODULE ReplicatorEvents_proofs -------------------------
(***************************************************************************)
(* Proofs about ReplicatorEvents, for any documents, replicators and bounds:*)
(* type correctness, that the Java listener is a reliable mailbox and the  *)
(* .NET one a lossy mailbox that repeats and reorders nothing, and that a  *)
(* test is told the truth by each of its waits.                            *)
(***************************************************************************)
EXTENDS ReplicatorEvents, SequenceTheorems, TLAPS

-----------------------------------------------------------------------------
(* The inductive invariant                                                 *)

\* The request carries documents only between the server's reading and the
\* client's, and what it says of a stopped replicator stays true.
RequestInv ==
    /\ id # Nothing => Started(id)
    /\ ~At("exchanged") => request.taken = <<>>
    /\ ~At("answered") => request.documents = <<>>
    /\ At("activity") \/ At("exchanged") \/ At("failed") => server = "dotnet"
    /\ At("none") => request.activity # "STOPPED"
    /\ request.activity = "STOPPED" =>
           /\ id # Nothing /\ Stopped(id)
           /\ At("exchanged") \/ At("answered") => replicatedDocs[id] = <<>>

\* A callback that has yet to add keeps its replicator from stopping, and from
\* calling back again.
AddingInv ==
    \A r \in Repls : adding[r] # Nothing =>
        /\ server = "dotnet"
        /\ Started(r) /\ ~Stopped(r)
        /\ adding[r].list = "taken" =>
               At("exchanged") /\ r = id /\ replicatedDocs[r] = <<>>

EventInv == TypeOK /\ RequestInv /\ AddingInv

-----------------------------------------------------------------------------
(* Types                                                                   *)

LEMMA Constants ==
    /\ MaxRetries \in Nat \ {0} /\ MaxEvents \in Nat /\ MaxCalls \in Nat
    /\ Nothing \notin Repls /\ Nothing \notin Docs
    /\ Nothing \notin Status /\ Nothing \notin Additions
    /\ Wanted \subseteq SUBSET Docs /\ Levels \subseteq Activities
BY EventsAssumption

LEMMA RecordTypes ==
    /\ NoRequest \in Requests /\ NoWait \in Waits
    /\ \A p \in Places : /\ [NoRequest EXCEPT !.at = p] \in Requests
                         /\ [NoRequest EXCEPT !.at = p].at = p
                         /\ [NoRequest EXCEPT !.at = p].taken = <<>>
                         /\ [NoRequest EXCEPT !.at = p].documents = <<>>
                         /\ [NoRequest EXCEPT !.at = p].activity = "CONNECTING"
<1>1. <<>> \in Seq(Docs)
    BY EmptySeq
<1>2. NoRequest \in Requests
    BY <1>1 DEF NoRequest, Requests, Places, Activities
<1>3. NoWait \in Waits
    <2>1. 0 \in 0..(MaxRetries - 1)
        BY Constants
    <2> QED
        BY <2>1 DEF NoWait, Waits, Activities
<1>4. ASSUME NEW p \in Places
      PROVE  /\ [NoRequest EXCEPT !.at = p] \in Requests
             /\ [NoRequest EXCEPT !.at = p].at = p
             /\ [NoRequest EXCEPT !.at = p].taken = <<>>
             /\ [NoRequest EXCEPT !.at = p].documents = <<>>
             /\ [NoRequest EXCEPT !.at = p].activity = "CONNECTING"
    BY <1>1, <1>2 DEF NoRequest, Requests
<1> QED
    BY <1>2, <1>3, <1>4

LEMMA RequestFields ==
    ASSUME TypeOK
    PROVE  /\ request.at \in Places /\ request.activity \in Activities
           /\ request.error \in BOOLEAN
           /\ request.taken \in Seq(Docs) /\ request.documents \in Seq(Docs)
BY DEF TypeOK, Requests

LEMMA EventInit == Init => EventInv
<1> SUFFICES ASSUME Init PROVE EventInv
    OBVIOUS
<1>1. <<>> \in Seq(Docs)
    BY EmptySeq
<1>2. TypeOK
    BY <1>1, Constants, RecordTypes DEF Init, TypeOK, Resting, At, NoRequest
<1>3. RequestInv
    BY DEF Init, RequestInv, At, NoRequest
<1>4. AddingInv
    BY DEF Init, AddingInv
<1> QED
    BY <1>2, <1>3, <1>4 DEF EventInv
-----------------------------------------------------------------------------
(* The steps of the library and of its callbacks                           *)

LEMMA InvChange ==
    ASSUME EventInv, NEW r \in Repls, Change(r)
    PROVE  EventInv'
<1> USE Constants DEF EventInv, library, listener, client, history, bounds
<1>1. PICK s \in Status :
         /\ s # status[r]
         /\ s.activity = "STOPPED" => adding[r] = Nothing
         /\ status' = [status EXCEPT ![r] = s]
    BY DEF Change
<1>2. /\ UNCHANGED <<server, continuous, bounds, reported, listener, request, client, history>>
      /\ Started(r) /\ ~Stopped(r)
    BY DEF Change
<1>3. status'[r] = s /\ \A q \in Repls \ {r} : status'[q] = status[q]
    BY <1>1 DEF TypeOK
<1>4. /\ \A q \in Repls : Started(q) => Started(q)'
      /\ \A q \in Repls : Stopped(q) => Stopped(q)'
      /\ \A q \in Repls : Stopped(q)' => Stopped(q) \/ adding[q] = Nothing
    BY <1>1, <1>2, <1>3 DEF Started, Stopped
<1>5. TypeOK'
    BY <1>1, <1>2 DEF TypeOK, Resting, At
<1>6. RequestInv'
    BY <1>2, <1>4 DEF RequestInv, TypeOK, At, Resting
<1>7. AddingInv'
    BY <1>2, <1>4 DEF AddingInv, TypeOK, At
<1> QED
    BY <1>5, <1>6, <1>7

LEMMA InvReplication ==
    ASSUME EventInv, NEW r \in Repls, NEW d \in Docs, Replication(r, d)
    PROVE  EventInv'
<1> USE Constants DEF EventInv, library, listener, client, history, bounds
<1>1. /\ UNCHANGED <<server, continuous, calls, status, adding, request, client, history>>
      /\ Report(r, d) /\ server = "jak"
      /\ replicatedDocs' = [replicatedDocs EXCEPT ![r] = Append(replicatedDocs[r], d)]
    BY DEF Replication
<1>2. ~Stopped(r) /\ events' \in 0..MaxEvents
    BY <1>1 DEF Report, Stopped, TypeOK
<1>3. Append(replicatedDocs[r], d) \in Seq(Docs) /\ Append(reported[r], d) \in Seq(Docs)
    BY DEF TypeOK
<1>4. TypeOK'
    BY <1>1, <1>2, <1>3 DEF TypeOK, Report, Resting, At
<1>5. RequestInv'
    BY <1>1, <1>2 DEF RequestInv, TypeOK, At, Started, Stopped
<1>6. AddingInv'
    BY <1>1 DEF AddingInv
<1> QED
    BY <1>4, <1>5, <1>6

LEMMA InvHandleChange ==
    ASSUME EventInv, NEW r \in Repls, NEW d \in Docs, HandleChange(r, d)
    PROVE  EventInv'
<1> USE Constants DEF EventInv, library, listener, client, history, bounds
<1>1. /\ UNCHANGED <<server, continuous, calls, status, replicatedDocs, request, client, history>>
      /\ Report(r, d) /\ server = "dotnet"
      /\ adding' = [adding EXCEPT ![r] = [doc |-> d, list |-> "current"]]
    BY DEF HandleChange
<1>2. Started(r) /\ ~Stopped(r) /\ events' \in 0..MaxEvents
    BY <1>1 DEF Report, Stopped, TypeOK
<1>3. Append(reported[r], d) \in Seq(Docs) /\ [doc |-> d, list |-> "current"] \in Additions
    BY DEF TypeOK, Additions
<1>4. TypeOK'
    BY <1>1, <1>2, <1>3 DEF TypeOK, Report, Resting, At
<1>5. RequestInv'
    BY <1>1 DEF RequestInv, At, Started, Stopped
<1>6. AddingInv'
    BY <1>1, <1>2 DEF AddingInv, TypeOK, Started, Stopped, At
<1> QED
    BY <1>4, <1>5, <1>6

LEMMA InvHandleChangeAdd ==
    ASSUME EventInv, NEW r \in Repls, HandleChangeAdd(r)
    PROVE  EventInv'
<1> USE Constants DEF EventInv, library, listener, client, history, bounds
<1>1. /\ UNCHANGED <<server, continuous, bounds, library, client, history>>
      /\ adding[r] # Nothing /\ adding[r] \in Additions
      /\ adding' = [adding EXCEPT ![r] = Nothing]
    BY DEF HandleChangeAdd, TypeOK
<1>2. /\ adding'[r] = Nothing /\ \A q \in Repls \ {r} : adding'[q] = adding[q]
      /\ Started(r) /\ ~Stopped(r) /\ adding[r].doc \in Docs
    BY <1>1 DEF TypeOK, AddingInv, Additions
<1>3. /\ replicatedDocs' \in [Repls -> Seq(Docs)]
      /\ \A q \in Repls \ {r} : replicatedDocs'[q] = replicatedDocs[q]
    <2>1. Append(replicatedDocs[r], adding[r].doc) \in Seq(Docs)
        BY <1>2 DEF TypeOK
    <2> QED
        BY <2>1 DEF HandleChangeAdd, TypeOK
<1>4. /\ request' \in Requests /\ request'.at = request.at
      /\ request'.activity = request.activity /\ request'.documents = request.documents
      /\ ~At("exchanged") => request'.taken = request.taken
    <2>1. Append(request.taken, adding[r].doc) \in Seq(Docs)
        BY <1>2, RequestFields
    <2>2. CASE adding[r].list = "taken"
        <3>1. request' = [request EXCEPT !.taken = Append(request.taken, adding[r].doc)]
            BY <2>2 DEF HandleChangeAdd
        <3>2. At("exchanged")
            BY <1>1, <2>2 DEF AddingInv
        <3> QED
            BY <2>1, <3>1, <3>2 DEF TypeOK, Requests
    <2>3. CASE adding[r].list # "taken"
        BY <2>3 DEF HandleChangeAdd, TypeOK
    <2> QED
        BY <2>2, <2>3
<1>5. TypeOK'
    BY <1>1, <1>2, <1>3, <1>4 DEF TypeOK, Resting, At
<1>6. RequestInv'
    BY <1>1, <1>2, <1>3, <1>4 DEF RequestInv, TypeOK, At, Started, Stopped
<1>7. AddingInv'
    BY <1>1, <1>2, <1>3, <1>4 DEF AddingInv, At, Started, Stopped
<1> QED
    BY <1>5, <1>6, <1>7
-----------------------------------------------------------------------------
(* The steps of the server's handler                                       *)

LEMMA InvHandle ==
    ASSUME EventInv, Handle
    PROVE  EventInv'
<1> USE Constants, RequestFields DEF EventInv, library, listener, client, history, bounds
<1>1. id \in Repls /\ Started(id) /\ status[id] \in Status
    BY DEF Handle, ReadStatus, ReadError, GetReplicatedDocs, Exchange, Enumerate,
           EnumerateFails, TypeOK, RequestInv, Resting, At, Started
<1>2. CASE ReadStatus
    <2>1. request' \in Requests /\ UNCHANGED <<request.taken, request.documents>>
        BY <1>1, <1>2 DEF ReadStatus, TypeOK, Requests, Places, Status
    <2>2. TypeOK' /\ ~Resting'
        BY <1>1, <1>2, <2>1 DEF ReadStatus, TypeOK, Resting, At, Requests
    <2>3. RequestInv'
        BY <1>1, <1>2, <2>1 DEF ReadStatus, RequestInv, TypeOK, At, Stopped, Started, Requests
    <2>4. AddingInv'
        BY <1>2 DEF ReadStatus, AddingInv, At, Stopped, Started
    <2> QED
        BY <2>2, <2>3, <2>4
<1>3. CASE ReadError
    <2>1. /\ request' \in Requests
          /\ UNCHANGED <<request.taken, request.documents, request.activity>>
          /\ request'.at = "read"
        BY <1>1, <1>3 DEF ReadError, TypeOK, Requests, Places, Status
    <2>2. TypeOK'
        BY <1>1, <1>3, <2>1 DEF ReadError, TypeOK, Resting, At
    <2>3. RequestInv'
        BY <1>1, <1>3, <2>1 DEF ReadError, RequestInv, TypeOK, At, Stopped, Started
    <2>4. AddingInv'
        BY <1>3 DEF ReadError, AddingInv, At, Stopped, Started
    <2> QED
        BY <2>2, <2>3, <2>4
<1>4. CASE GetReplicatedDocs
    <2>1. replicatedDocs[id] \in Seq(Docs) /\ <<>> \in Seq(Docs)
        BY <1>1, EmptySeq DEF TypeOK
    <2>2. /\ request' \in Requests
          /\ UNCHANGED <<request.taken, request.activity>>
          /\ request'.at = "answered"
          /\ replicatedDocs' \in [Repls -> Seq(Docs)] /\ replicatedDocs'[id] = <<>>
        BY <1>1, <1>4, <2>1 DEF GetReplicatedDocs, TypeOK, Requests, Places
    <2>3. TypeOK'
        BY <1>1, <1>4, <2>2 DEF GetReplicatedDocs, TypeOK, Resting, At
    <2>4. RequestInv'
        BY <1>1, <1>4, <2>2 DEF GetReplicatedDocs, RequestInv, TypeOK, At, Stopped, Started
    <2>5. AddingInv'
        BY <1>4 DEF GetReplicatedDocs, AddingInv
    <2> QED
        BY <2>3, <2>4, <2>5
<1>5. CASE Exchange
    <2>1. replicatedDocs[id] \in Seq(Docs) /\ <<>> \in Seq(Docs)
        BY <1>1, EmptySeq DEF TypeOK
    <2>2. /\ request' \in Requests
          /\ UNCHANGED <<request.documents, request.activity>>
          /\ request'.at = "exchanged"
          /\ replicatedDocs' \in [Repls -> Seq(Docs)] /\ replicatedDocs'[id] = <<>>
          /\ \A q \in Repls \ {id} : replicatedDocs'[q] = replicatedDocs[q]
        BY <1>1, <1>5, <2>1 DEF Exchange, TypeOK, Requests, Places
    <2>3. /\ adding' \in [Repls -> Additions \cup {Nothing}]
          /\ \A q \in Repls \ {id} : adding'[q] = adding[q]
          /\ \A q \in Repls : adding'[q] # Nothing => adding[q] # Nothing
        BY <1>1, <1>5 DEF Exchange, Move, TypeOK, Additions
    <2>4. TypeOK'
        BY <1>1, <1>5, <2>2, <2>3 DEF Exchange, TypeOK, Resting, At
    <2>5. RequestInv'
        BY <1>1, <1>5, <2>2 DEF Exchange, RequestInv, TypeOK, At, Stopped, Started
    <2>6. AddingInv'
        BY <1>1, <1>5, <2>2, <2>3 DEF Exchange, AddingInv, At, Stopped, Started
    <2> QED
        BY <2>4, <2>5, <2>6
<1>6. CASE Enumerate
    <2>1. <<>> \in Seq(Docs)
        BY EmptySeq
    <2>2. /\ request' \in Requests /\ request'.activity = request.activity
          /\ request'.at = "answered" /\ request'.taken = <<>>
        BY <1>6, <2>1 DEF Enumerate, TypeOK, Requests, Places
    <2>3. /\ adding' \in [Repls -> Additions \cup {Nothing}]
          /\ \A q \in Repls \ {id} : adding'[q] = adding[q]
          /\ \A q \in Repls : adding'[q] # Nothing => adding[q] # Nothing
          /\ adding'[id] # Nothing => adding'[id].list # "taken"
        BY <1>1, <1>6 DEF Enumerate, Move, TypeOK, Additions
    <2>4. TypeOK'
        BY <1>1, <1>6, <2>2, <2>3 DEF Enumerate, TypeOK, Resting, At
    <2>5. RequestInv'
        BY <1>1, <1>6, <2>2 DEF Enumerate, RequestInv, TypeOK, At, Stopped, Started
    <2>6. AddingInv'
        BY <1>1, <1>6, <2>2, <2>3 DEF Enumerate, AddingInv, At, Stopped, Started
    <2> QED
        BY <2>4, <2>5, <2>6
<1>7. CASE EnumerateFails
    <2>1. <<>> \in Seq(Docs)
        BY EmptySeq
    <2>2. /\ request' \in Requests /\ request'.activity = request.activity
          /\ request'.at = "failed" /\ request'.taken = <<>>
          /\ request'.documents = request.documents
        BY <1>7, <2>1 DEF EnumerateFails, TypeOK, Requests, Places
    <2>3. /\ adding' \in [Repls -> Additions \cup {Nothing}]
          /\ \A q \in Repls \ {id} : adding'[q] = adding[q]
          /\ adding'[id] = Nothing
        BY <1>1, <1>7 DEF EnumerateFails, TypeOK
    <2>4. TypeOK'
        BY <1>1, <1>7, <2>2, <2>3 DEF EnumerateFails, TypeOK, Resting, At
    <2>5. RequestInv'
        BY <1>1, <1>7, <2>2 DEF EnumerateFails, RequestInv, TypeOK, At, Stopped, Started
    <2>6. AddingInv'
        BY <1>1, <1>7, <2>2, <2>3 DEF EnumerateFails, AddingInv, At, Stopped, Started
    <2> QED
        BY <2>4, <2>5, <2>6
<1> QED
    BY <1>2, <1>3, <1>4, <1>5, <1>6, <1>7 DEF Handle

-----------------------------------------------------------------------------
(* The steps of the test                                                   *)

\* Where no answer is on its way, the invariant is about no request.
LEMMA InvQuiet ==
    ASSUME EventInv, TypeOK', NEW p \in Places, p \in {"none", "sent", "sleeping", "pausing"},
           request' = [NoRequest EXCEPT !.at = p], ~At("exchanged"),
           UNCHANGED <<server, listener, id, status>>
    PROVE  EventInv'
<1> USE RecordTypes DEF EventInv, listener
<1>1. RequestInv'
    BY DEF RequestInv, At, Started
<1>2. AddingInv'
    BY DEF AddingInv, At, Started, Stopped
<1> QED
    BY <1>1, <1>2

LEMMA InvStart ==
    ASSUME EventInv, Start
    PROVE  EventInv'
<1> USE Constants, RequestFields DEF EventInv, library, listener, client, history, bounds
<1>1. PICK r \in Repls :
         /\ ~Started(r) /\ id' = r
         /\ status' = [status EXCEPT ![r] = [activity |-> "CONNECTING", error |-> FALSE]]
    BY DEF Start
<1>2. /\ UNCHANGED <<server, continuous, bounds, reported, listener, request, updates, wait,
                     received, heard>>
      /\ Resting
    BY DEF Start
<1>3. [activity |-> "CONNECTING", error |-> FALSE] \in Status
    BY DEF Status, Activities
<1>4. /\ status'[r] \in Status /\ \A q \in Repls \ {r} : status'[q] = status[q]
    BY <1>1, <1>3 DEF TypeOK
<1>5. TypeOK'
    BY <1>1, <1>2, <1>3 DEF Start, TypeOK, Resting, At
<1>6. RequestInv'
    BY <1>1, <1>2, <1>4 DEF RequestInv, Resting, At, Started
<1>7. AddingInv'
    BY <1>1, <1>2, <1>4 DEF AddingInv, Resting, At, Started, Stopped
<1> QED
    BY <1>5, <1>6, <1>7

LEMMA InvClear ==
    ASSUME EventInv, ClearDocumentUpdates
    PROVE  EventInv'
<1> USE Constants DEF EventInv, library, listener, client, history, bounds
<1>1. /\ UNCHANGED <<server, continuous, bounds, library, listener, request, id, wait,
                     received, heard>>
      /\ updates # <<>> /\ updates' = <<>> /\ cleared' = Len(received[id])
      /\ clean' = TRUE /\ outcome' = "none"
    BY DEF ClearDocumentUpdates
<1>2. <<>> \in Seq(Docs)
    BY EmptySeq
<1>3. cleared' \in Nat
    BY <1>1 DEF TypeOK
<1>4. TypeOK'
    BY <1>1, <1>2, <1>3 DEF TypeOK, Resting, At
<1>5. RequestInv' /\ AddingInv'
    BY <1>1 DEF RequestInv, AddingInv, At, Started, Stopped
<1> QED
    BY <1>4, <1>5

LEMMA InvCall ==
    ASSUME EventInv, NEW w \in Waits, Call(w)
    PROVE  EventInv'
<1> USE Constants, RecordTypes DEF EventInv, library, listener, client, history, bounds
<1>1. /\ UNCHANGED <<server, continuous, events, library, listener, id, updates, history>>
      /\ request' = [NoRequest EXCEPT !.at = "sent"] /\ "sent" \in Places
      /\ Resting /\ id # Nothing /\ wait' = w /\ outcome' = "none"
      /\ calls > 0 /\ calls' = calls - 1
    BY DEF Call, Places
<1>2. calls' \in 0..MaxCalls
    BY <1>1 DEF TypeOK
<1>3. TypeOK'
    BY <1>1, <1>2 DEF TypeOK, Resting, At
<1> QED
    BY <1>1, <1>3, InvQuiet DEF Resting, At

LEMMA InvTest ==
    ASSUME EventInv, Test
    PROVE  EventInv'
<1> USE Constants, RecordTypes
<1>1. ASSUME NEW E \in SUBSET Docs,
             NEW c \in {"wait_for_doc_events", "wait_for_all_doc_events", "wait_for_any_doc_event"}
      PROVE  /\ [NoWait EXCEPT !.call = c, !.events = E, !.remaining = E] \in Waits
             /\ [NoWait EXCEPT !.call = c, !.level = "IDLE", !.events = E, !.remaining = E] \in Waits
    BY DEF NoWait, Waits, Activities
<1>2. CASE WaitFor
    <2>1. PICK a \in Levels : Call([NoWait EXCEPT !.call = "wait_for", !.level = a])
        BY <1>2 DEF WaitFor
    <2>2. [NoWait EXCEPT !.call = "wait_for", !.level = a] \in Waits
        BY DEF NoWait, Waits
    <2> QED
        BY <2>1, <2>2, InvCall
<1>3. CASE WaitForDocEvents
    BY <1>1, <1>3, InvCall DEF WaitForDocEvents
<1>4. CASE WaitForContinuous
    BY <1>1, <1>4, InvCall DEF WaitForContinuous
<1> QED
    BY <1>2, <1>3, <1>4, InvStart, InvClear DEF Test

LEMMA InvPoll ==
    ASSUME EventInv, Poll
    PROVE  EventInv'
<1> USE Constants, RecordTypes DEF EventInv, library, listener, client, history, bounds
<1>1. /\ UNCHANGED <<server, continuous, bounds, library, listener, client, history>>
      /\ request' = [NoRequest EXCEPT !.at = "sent"] /\ "sent" \in Places
      /\ ~Resting /\ ~At("exchanged")
    BY DEF Poll, Places, Resting, At
<1>2. TypeOK'
    BY <1>1 DEF TypeOK, Resting, At
<1> QED
    BY <1>1, <1>2, InvQuiet

\* A call that ends leaves its name, its level and its events.
LEMMA ReturnTypes ==
    ASSUME EventInv, NEW o \in {"status", "true", "false", "timeout", "error"}, Return(o)
    PROVE  /\ wait' \in Waits /\ Resting'
           /\ outcome' \in {"none", "status", "true", "false", "timeout", "error"}
           /\ request' = [NoRequest EXCEPT !.at = "none"] /\ request' \in Requests
<1>1. wait' \in Waits
    BY RecordTypes DEF EventInv, TypeOK, Return, Waits, NoWait
<1> QED
    BY <1>1, RecordTypes DEF Return, Resting, At, NoRequest

\* What the client receives are documents, of a replicator that has started.
LEMMA DeliverTypes ==
    ASSUME EventInv, Deliver
    PROVE  /\ updates' \in Seq(Docs) /\ received' \in [Repls -> Seq(Docs)]
           /\ heard' \in SUBSET Repls /\ id \in Repls
<1> USE Constants, RequestFields DEF EventInv
<1>1. id \in Repls
    BY DEF Deliver, TypeOK, Resting, At
<1>2. updates \o request.documents \in Seq(Docs) /\ received[id] \o request.documents \in Seq(Docs)
    BY <1>1, ConcatProperties DEF TypeOK
<1> QED
    BY <1>1, <1>2 DEF Deliver, TypeOK

LEMMA InvAnswered ==
    ASSUME EventInv, Deliver,
           NEW p \in {"none", "sleeping", "pausing"}, request' = [NoRequest EXCEPT !.at = p],
           wait' \in Waits,
           outcome' \in {"none", "status", "true", "false", "timeout", "error"}
    PROVE  EventInv'
<1> USE Constants, RecordTypes, DeliverTypes
        DEF EventInv, library, listener, client, history, bounds
<1>1. p \in Places /\ ~At("exchanged")
    BY DEF Deliver, Places, At
<1>2. TypeOK'
    BY <1>1 DEF Deliver, TypeOK, Resting, At
<1> QED
    BY <1>1, <1>2, InvQuiet DEF Deliver

LEMMA InvAnswer ==
    ASSUME EventInv, Answer
    PROVE  EventInv'
<1> USE DEF EventInv
<1>1. outcome \in {"none", "status", "true", "false", "timeout", "error"} /\ wait \in Waits
    BY DEF TypeOK
<1>2. CASE PollAgain
    BY <1>1, <1>2, InvAnswered DEF PollAgain, Again
<1>3. CASE WaitForReturns
    BY <1>3, InvAnswered, ReturnTypes DEF WaitForReturns
<1>4. CASE AssertFails
    BY <1>4, InvAnswered, ReturnTypes DEF AssertFails, Look
<1>5. CASE Seen
    BY <1>5, InvAnswered, ReturnTypes DEF Seen, Look
<1>6. CASE GiveUp
    BY <1>6, InvAnswered, ReturnTypes DEF GiveUp, NotSeen, Look
<1>7. CASE TryAgain
    <2>1. Deliver /\ Again("pausing") /\ Left \subseteq Docs
        BY <1>1, <1>7 DEF TryAgain, NotSeen, Look, Left, Waits
    <2>2. Len(updates') \in Nat
        BY <2>1, DeliverTypes
    <2>3. (IF Continuous THEN wait.iteration + 1 ELSE 0) \in 0..(MaxRetries - 1)
        BY <1>1, <1>7, Constants DEF TryAgain, LastTry, Waits
    <2>4. wait' \in Waits
        BY <1>1, <1>7, <2>1, <2>2, <2>3 DEF TryAgain, Waits
    <2> QED
        BY <1>1, <2>1, <2>4, InvAnswered DEF Again
<1>8. CASE RequestFails
    <2>1. /\ Return("error") /\ ~Resting /\ ~At("exchanged")
          /\ UNCHANGED <<server, continuous, bounds, library, listener, id, updates, history>>
        BY <1>8 DEF RequestFails, Resting, At
    <2>2. TypeOK'
        BY <2>1, ReturnTypes DEF TypeOK, library, listener, history, bounds
    <2> QED
        BY <2>1, <2>2, ReturnTypes, InvQuiet DEF Places, library
<1> QED
    BY <1>2, <1>3, <1>4, <1>5, <1>6, <1>7, <1>8 DEF Answer

LEMMA InvTimeOut ==
    ASSUME EventInv, WaitForTimesOut
    PROVE  EventInv'
<1> USE DEF EventInv
<1>1. /\ Return("timeout") /\ ~Resting /\ ~At("exchanged")
      /\ UNCHANGED <<server, continuous, bounds, library, listener, id, updates, history>>
    BY DEF WaitForTimesOut, Resting, At
<1>2. TypeOK'
    BY <1>1, ReturnTypes DEF TypeOK, library, listener, history, bounds
<1> QED
    BY <1>1, <1>2, ReturnTypes, InvQuiet DEF Places, library

LEMMA InvNext == EventInv /\ [Next]_vars => EventInv'
<1> SUFFICES ASSUME EventInv, [Next]_vars PROVE EventInv'
    OBVIOUS
<1>1. CASE UNCHANGED vars
    BY <1>1 DEF EventInv, TypeOK, RequestInv, AddingInv, vars, library, listener, client,
                history, bounds, Resting, At, Started, Stopped
<1> QED
    BY <1>1, InvChange, InvReplication, InvHandleChange, InvHandleChangeAdd, InvHandle,
       InvAnswer, InvPoll, InvTimeOut, InvTest DEF Next

\* Every reachable state is well typed, whatever the documents, the replicators
\* and the bounds: no poll asks about a replicator that was not started, and the
\* retries stay below max_retries.
THEOREM TypeCorrect == Spec => []TypeOK
<1>1. EventInv => TypeOK
    BY DEF EventInv
<1> QED
    BY <1>1, EventInit, InvNext, PTL DEF Spec
-----------------------------------------------------------------------------
(* Sequences                                                               *)

LEMMA ConcatParts ==
    ASSUME NEW s \in Seq(Docs), NEW t \in Seq(Docs), NEW d \in Docs
    PROVE  /\ <<d>> \in Seq(Docs) /\ <<>> \in Seq(Docs) /\ Append(t, d) \in Seq(Docs)
           /\ s \o t \in Seq(Docs)
           /\ s \o <<>> = s /\ <<>> \o s = s
           /\ s \o Append(t, d) = (s \o t) \o <<d>>
           /\ (s \o t) \o <<d>> = Append(s \o t, d)
<1>1. <<d>> \in Seq(Docs) /\ <<>> \in Seq(Docs) /\ Append(t, d) \in Seq(Docs)
    OBVIOUS
<1>2. s \o t \in Seq(Docs)
    BY ConcatProperties
<1>3. s \o <<>> = s /\ <<>> \o s = s
    BY ConcatEmptySeq
<1>4. Append(t, d) = t \o <<d>> /\ Append(s \o t, d) = (s \o t) \o <<d>>
    BY <1>2, AppendIsConcat
<1>5. s \o (t \o <<d>>) = (s \o t) \o <<d>>
    BY <1>1, ConcatAssociative
<1> QED
    BY <1>1, <1>2, <1>3, <1>4, <1>5

\* A concatenation falls apart where it was put together.
LEMMA SplitConcat ==
    ASSUME NEW s \in Seq(Docs), NEW t \in Seq(Docs)
    PROVE  /\ s \o t \in Seq(Docs) /\ Len(s \o t) = Len(s) + Len(t)
           /\ SubSeq(s \o t, 1, Len(s)) = s
           /\ SubSeq(s \o t, Len(s) + 1, Len(s \o t)) = t
<1>1. /\ s \o t \in Seq(Docs) /\ Len(s \o t) = Len(s) + Len(t)
      /\ \A i \in 1..Len(s) + Len(t) : (s \o t)[i] = IF i <= Len(s) THEN s[i] ELSE t[i - Len(s)]
    BY ConcatProperties
<1>2. /\ Len(s) \in Nat /\ Len(t) \in Nat
      /\ \A i \in 1..Len(s) + Len(t) : (s \o t)[i] \in Docs
    BY <1>1, LenProperties, ElementOfSeq
<1>3. SubSeq(s \o t, 1, Len(s)) = s
    <2> DEFINE u == SubSeq(s \o t, 1, Len(s))
    <2>1. \A i \in 1..Len(s) : (s \o t)[i] \in Docs
        BY <1>2
    <2>2. /\ u \in Seq(Docs) /\ Len(u) = IF 1 <= Len(s) THEN Len(s) - 1 + 1 ELSE 0
          /\ \A i \in 1..(Len(s) - 1 + 1) : u[i] = (s \o t)[1 + i - 1]
        BY <1>2, <2>1, SubSeqProperties
    <2> HIDE DEF u
    <2>3. Len(u) = Len(s) /\ \A i \in 1..Len(u) : u[i] = s[i]
        BY <1>1, <1>2, <2>2
    <2>4. u = s
        BY <2>2, <2>3, SeqEqual
    <2> QED
        BY <2>4 DEF u
<1>4. SubSeq(s \o t, Len(s) + 1, Len(s) + Len(t)) = t
    <2> DEFINE u == SubSeq(s \o t, Len(s) + 1, Len(s) + Len(t))
    <2>1. \A i \in (Len(s) + 1)..(Len(s) + Len(t)) : (s \o t)[i] \in Docs
        BY <1>2
    <2>2. Len(s) + 1 \in Int /\ Len(s) + Len(t) \in Int
        BY <1>2
    <2>3. /\ u \in Seq(Docs)
          /\ Len(u) = IF Len(s) + 1 <= Len(s) + Len(t)
                      THEN Len(s) + Len(t) - (Len(s) + 1) + 1 ELSE 0
          /\ \A i \in 1..(Len(s) + Len(t) - (Len(s) + 1) + 1) :
                 u[i] = (s \o t)[Len(s) + 1 + i - 1]
        BY <2>1, <2>2, SubSeqProperties
    <2> HIDE DEF u
    <2>4. Len(u) = Len(t)
        BY <1>2, <2>3
    <2>5. ASSUME NEW i \in 1..Len(u) PROVE u[i] = t[i]
        <3>1. /\ i \in 1..(Len(s) + Len(t) - (Len(s) + 1) + 1)
              /\ Len(s) + 1 + i - 1 = Len(s) + i
            BY <1>2, <2>4
        <3>2. u[i] = (s \o t)[Len(s) + i]
            BY <2>3, <3>1
        <3>3. Len(s) + i \in 1..Len(s) + Len(t) /\ ~(Len(s) + i <= Len(s)) /\ Len(s) + i - Len(s) = i
            BY <1>2, <2>4
        <3> QED
            BY <1>1, <3>2, <3>3
    <2>6. u = t
        BY <2>3, <2>4, <2>5, SeqEqual
    <2> QED
        BY <2>6 DEF u
<1> QED
    BY <1>1, <1>3, <1>4
-----------------------------------------------------------------------------
(* The refinement of EventMailbox                                          *)

\* What waits for the test is made of three parts.
Carried(r)  == IF r = id THEN request.documents \o request.taken ELSE <<>>
Addition(r) == IF adding[r] # Nothing /\ adding[r].list # "dropped" THEN <<adding[r].doc>> ELSE <<>>

\* A step of the mailbox that posts nothing.
Moves ==
    \/ UNCHANGED Mailbox!vars
    \/ \E r \in Repls : Mailbox!Stop(r) \/ Mailbox!Deliver(r) \/ Mailbox!Lose(r)

LEMMA PendingParts ==
    ASSUME TypeOK, NEW r \in Repls
    PROVE  /\ Pending(r) = (Carried(r) \o replicatedDocs[r]) \o Addition(r)
           /\ Carried(r) \in Seq(Docs) /\ Addition(r) \in Seq(Docs)
           /\ replicatedDocs[r] \in Seq(Docs) /\ Pending(r) \in Seq(Docs)
<1>1. Pending(r) = (Carried(r) \o replicatedDocs[r]) \o Addition(r)
    BY DEF Pending, Carried, Addition
<1>2. Carried(r) \in Seq(Docs)
    BY RequestFields, ConcatProperties, EmptySeq DEF Carried
<1>3. Addition(r) \in Seq(Docs)
    BY DEF Addition, TypeOK, Additions
<1>4. replicatedDocs[r] \in Seq(Docs)
    BY DEF TypeOK
<1> QED
    BY <1>1, <1>2, <1>3, <1>4, ConcatProperties

LEMMA PendingSame ==
    ASSUME NEW r \in Repls, Carried(r)' = Carried(r), replicatedDocs'[r] = replicatedDocs[r],
           adding'[r] = adding[r]
    PROVE  Pending(r)' = Pending(r)
BY DEF Pending, Carried

LEMMA MailboxStutters ==
    ASSUME \A r \in Repls : Pending(r)' = Pending(r) /\ (Stopped(r)' <=> Stopped(r)),
           UNCHANGED <<server, received, heard>>
    PROVE  Moves
<1>1. [r \in Repls |-> Pending(r)]' = [r \in Repls |-> Pending(r)]
    OBVIOUS
<1>2. {r \in Repls : Stopped(r)}' = {r \in Repls : Stopped(r)}
    OBVIOUS
<1> QED
    BY <1>1, <1>2 DEF Mailbox!vars, Moves

\* Where no answer is on its way, an answer carries nothing.
LEMMA CarriesNothing ==
    ASSUME RequestInv, ~At("exchanged"), ~At("answered"), NEW r
    PROVE  Carried(r) = <<>>
<1>1. <<>> \o <<>> = <<>>
    BY ConcatEmptySeq, EmptySeq
<1> QED
    BY <1>1 DEF RequestInv, Carried

LEMMA InitMailbox == Init => Mailbox!Init
<1> SUFFICES ASSUME Init PROVE Mailbox!Init
    OBVIOUS
<1>1. ASSUME NEW r \in Repls PROVE Pending(r) = <<>>
    <2>1. <<>> \o <<>> = <<>>
        BY ConcatEmptySeq, EmptySeq
    <2> QED
        BY <2>1 DEF Init, Pending, NoRequest
<1>2. {r \in Repls : Stopped(r)} = {}
    BY DEF Init, Stopped, Started
<1> QED
    BY <1>1, <1>2 DEF Init, Mailbox!Init

LEMMA StepChange ==
    ASSUME EventInv, NEW r \in Repls, Change(r)
    PROVE  Moves
<1> USE DEF EventInv, library, listener, client, history, bounds
<1>1. PICK s \in Status : status' = [status EXCEPT ![r] = s]
    BY DEF Change
<1>2. /\ UNCHANGED <<server, continuous, bounds, reported, listener, request, client, history>>
      /\ Started(r) /\ ~Stopped(r)
    BY DEF Change
<1>3. \A q \in Repls : Pending(q)' = Pending(q)
    BY <1>2 DEF Pending
<1>4. \A q \in Repls \ {r} : Stopped(q)' <=> Stopped(q)
    BY <1>1 DEF Stopped, Started, TypeOK
<1>5. CASE Stopped(r)'
    <2>1. {q \in Repls : Stopped(q)}' = {q \in Repls : Stopped(q)} \cup {r}
        BY <1>4, <1>5
    <2>2. [q \in Repls |-> Pending(q)]' = [q \in Repls |-> Pending(q)]
        BY <1>3
    <2>3. Mailbox!Stop(r)
        BY <1>2, <2>1, <2>2 DEF Mailbox!Stop
    <2> QED
        BY <2>3 DEF Moves
<1>6. CASE ~Stopped(r)'
    BY <1>2, <1>3, <1>4, <1>6, MailboxStutters
<1> QED
    BY <1>5, <1>6

\* A document that waits last has been posted.
LEMMA Posted ==
    ASSUME NEW r \in Repls, NEW d \in Docs, ~Stopped(r),
           Pending(r)' = Append(Pending(r), d),
           \A q \in Repls \ {r} : Pending(q)' = Pending(q),
           UNCHANGED <<server, status, received, heard>>
    PROVE  Mailbox!Post(r, d)
<1>1. [q \in Repls |-> Pending(q)]' =
          [[q \in Repls |-> Pending(q)] EXCEPT ![r] = Append([q \in Repls |-> Pending(q)][r], d)]
    OBVIOUS
<1>2. {q \in Repls : Stopped(q)}' = {q \in Repls : Stopped(q)}
    BY DEF Stopped, Started
<1> QED
    BY <1>1, <1>2 DEF Mailbox!Post

LEMMA StepReplication ==
    ASSUME EventInv, EventInv', NEW r \in Repls, NEW d \in Docs, Replication(r, d)
    PROVE  Mailbox!Post(r, d)
<1> USE DEF EventInv, library, listener, client, history, bounds
<1>1. /\ UNCHANGED <<server, status, adding, request, id, received, heard>>
      /\ ~Stopped(r) /\ adding[r] = Nothing
      /\ replicatedDocs' = [replicatedDocs EXCEPT ![r] = Append(replicatedDocs[r], d)]
    BY DEF Replication, Report, Stopped
<1>2. /\ replicatedDocs'[r] = Append(replicatedDocs[r], d)
      /\ \A q \in Repls \ {r} : replicatedDocs'[q] = replicatedDocs[q]
    BY <1>1 DEF TypeOK
<1>3. \A q \in Repls : Carried(q)' = Carried(q)
    BY <1>1 DEF Carried
<1>4. /\ Pending(r) = (Carried(r) \o replicatedDocs[r]) \o <<>>
      /\ Pending(r)' = (Carried(r) \o Append(replicatedDocs[r], d)) \o <<>>
    BY <1>1, <1>2, <1>3 DEF Pending, Carried
<1>5. Pending(r)' = Append(Pending(r), d)
    <2>1. Carried(r) \in Seq(Docs) /\ replicatedDocs[r] \in Seq(Docs)
        BY PendingParts
    <2> DEFINE u == Carried(r) \o replicatedDocs[r]
               v == Carried(r) \o Append(replicatedDocs[r], d)
    <2>2. u \in Seq(Docs) /\ v \in Seq(Docs) /\ v = Append(u, d)
        BY <2>1, ConcatParts, ConcatProperties
    <2>3. u \o <<>> = u /\ v \o <<>> = v
        BY <2>2, ConcatEmptySeq
    <2> QED
        BY <1>4, <2>2, <2>3
<1>6. \A q \in Repls \ {r} : Pending(q)' = Pending(q)
    BY <1>1, <1>2, <1>3, PendingSame
<1> QED
    BY <1>1, <1>5, <1>6, Posted

LEMMA StepHandleChange ==
    ASSUME EventInv, EventInv', NEW r \in Repls, NEW d \in Docs, HandleChange(r, d)
    PROVE  Mailbox!Post(r, d)
<1> USE DEF EventInv, library, listener, client, history, bounds
<1>1. /\ UNCHANGED <<server, status, replicatedDocs, request, id, received, heard>>
      /\ ~Stopped(r) /\ adding[r] = Nothing
      /\ adding' = [adding EXCEPT ![r] = [doc |-> d, list |-> "current"]]
    BY DEF HandleChange, Report, Stopped
<1>2. /\ adding'[r] = [doc |-> d, list |-> "current"]
      /\ \A q \in Repls \ {r} : adding'[q] = adding[q]
    BY <1>1 DEF TypeOK
<1>3. [doc |-> d, list |-> "current"] # Nothing
    BY Constants DEF Additions
<1>4. \A q \in Repls : Carried(q)' = Carried(q)
    BY <1>1 DEF Carried
<1>5. /\ Pending(r) = (Carried(r) \o replicatedDocs[r]) \o <<>>
      /\ Pending(r)' = (Carried(r) \o replicatedDocs[r]) \o <<d>>
    <2>1. Addition(r) = <<>> /\ Addition(r)' = <<d>>
        BY <1>1, <1>2, <1>3 DEF Addition
    <2>2. /\ Pending(r) = (Carried(r) \o replicatedDocs[r]) \o Addition(r)
          /\ Pending(r)' = (Carried(r)' \o replicatedDocs'[r]) \o Addition(r)'
        BY DEF Pending, Carried, Addition
    <2> QED
        BY <1>1, <1>4, <2>1, <2>2
<1>6. Pending(r)' = Append(Pending(r), d)
    <2>1. Carried(r) \in Seq(Docs) /\ replicatedDocs[r] \in Seq(Docs)
        BY PendingParts
    <2> DEFINE u == Carried(r) \o replicatedDocs[r]
    <2>2. u \in Seq(Docs) /\ u \o <<d>> = Append(u, d)
        BY <2>1, ConcatParts
    <2>3. u \o <<>> = u
        BY <2>2, ConcatEmptySeq
    <2> QED
        BY <1>5, <2>2, <2>3
<1>7. \A q \in Repls \ {r} : Pending(q)' = Pending(q)
    BY <1>1, <1>2, <1>4, PendingSame
<1> QED
    BY <1>1, <1>6, <1>7, Posted

LEMMA StepHandleChangeAdd ==
    ASSUME EventInv, EventInv', NEW r \in Repls, HandleChangeAdd(r)
    PROVE  Moves
<1> USE DEF EventInv, library, listener, client, history, bounds
<1>1. /\ UNCHANGED <<server, status, id, received, heard>>
      /\ adding[r] \in Additions /\ adding[r] # Nothing
      /\ adding'[r] = Nothing /\ \A q \in Repls \ {r} : adding'[q] = adding[q]
      /\ request'.documents = request.documents
    BY DEF HandleChangeAdd, TypeOK, Requests
<1>2. adding[r].doc \in Docs /\ adding[r].list \in {"current", "taken", "dropped"}
    BY <1>1 DEF Additions
<1> DEFINE d == adding[r].doc
<1>3. /\ request.documents \in Seq(Docs) /\ request.taken \in Seq(Docs)
      /\ replicatedDocs[r] \in Seq(Docs) /\ Carried(r) \in Seq(Docs)
    BY PendingParts, RequestFields
<1>4. /\ Pending(r) = (Carried(r) \o replicatedDocs[r]) \o Addition(r)
      /\ Pending(r)' = (Carried(r)' \o replicatedDocs'[r]) \o <<>>
    <2>1. Addition(r)' = <<>>
        BY <1>1 DEF Addition
    <2>2. /\ Pending(r) = (Carried(r) \o replicatedDocs[r]) \o Addition(r)
          /\ Pending(r)' = (Carried(r)' \o replicatedDocs'[r]) \o Addition(r)'
        BY DEF Pending, Carried, Addition
    <2> QED
        BY <2>1, <2>2
<1>5. CASE adding[r].list = "current"
    <2>1. /\ \A q \in Repls : Carried(q)' = Carried(q)
          /\ replicatedDocs'[r] = Append(replicatedDocs[r], d)
          /\ \A q \in Repls \ {r} : replicatedDocs'[q] = replicatedDocs[q]
          /\ Addition(r) = <<d>>
        BY <1>1, <1>5 DEF HandleChangeAdd, TypeOK, Carried, Addition
    <2>2. Pending(r)' = Pending(r)
        <3>1. Carried(r) \o Append(replicatedDocs[r], d) = (Carried(r) \o replicatedDocs[r]) \o <<d>>
            BY <1>2, <1>3, ConcatParts
        <3>2. (Carried(r) \o replicatedDocs[r]) \o <<d>> \in Seq(Docs)
            BY <1>2, <1>3, ConcatProperties, ConcatParts
        <3> QED
            BY <1>4, <2>1, <3>1, <3>2, ConcatEmptySeq
    <2>3. \A q \in Repls : Pending(q)' = Pending(q)
        BY <1>1, <2>1, <2>2, PendingSame
    <2> QED
        BY <1>1, <2>3, MailboxStutters DEF Stopped, Started
<1>6. CASE adding[r].list = "taken"
    <2>1. /\ r = id /\ At("exchanged") /\ replicatedDocs[r] = <<>> /\ request.documents = <<>>
          /\ replicatedDocs' = replicatedDocs
          /\ request'.taken = Append(request.taken, d)
          /\ Addition(r) = <<d>>
        BY <1>1, <1>6 DEF HandleChangeAdd, TypeOK, Requests, AddingInv, RequestInv, At, Addition
    <2>2. \A q \in Repls \ {r} : Carried(q)' = Carried(q)
        BY <1>1, <2>1 DEF Carried
    <2>3. Carried(r) = request.taken /\ Carried(r)' = Append(request.taken, d)
        <3>1. Append(request.taken, d) \in Seq(Docs)
            BY <1>2, <1>3
        <3>2. /\ Carried(r) = <<>> \o request.taken
              /\ Carried(r)' = <<>> \o Append(request.taken, d)
            BY <1>1, <2>1 DEF Carried
        <3> QED
            BY <1>3, <3>1, <3>2, ConcatEmptySeq
    <2>4. Pending(r)' = Pending(r)
        <3>1. /\ Append(request.taken, d) \in Seq(Docs)
              /\ Append(request.taken, d) = request.taken \o <<d>>
            BY <1>2, <1>3, AppendIsConcat
        <3>2. /\ Pending(r) = (request.taken \o <<>>) \o <<d>>
              /\ Pending(r)' = (Append(request.taken, d) \o <<>>) \o <<>>
            BY <1>4, <2>1, <2>3
        <3> QED
            BY <1>3, <3>1, <3>2, ConcatEmptySeq
    <2>5. \A q \in Repls : Pending(q)' = Pending(q)
        BY <1>1, <2>1, <2>2, <2>4, PendingSame
    <2> QED
        BY <1>1, <2>5, MailboxStutters DEF Stopped, Started
<1>7. CASE adding[r].list = "dropped"
    <2>1. /\ \A q \in Repls : Carried(q)' = Carried(q)
          /\ replicatedDocs' = replicatedDocs /\ Addition(r) = <<>>
        BY <1>1, <1>7 DEF HandleChangeAdd, Carried, Addition
    <2>2. \A q \in Repls : Pending(q)' = Pending(q)
        BY <1>1, <1>4, <2>1, PendingSame
    <2> QED
        BY <1>1, <2>2, MailboxStutters DEF Stopped, Started
<1> QED
    BY <1>2, <1>5, <1>6, <1>7

\* The handler of a request moves documents of the replicator it asks about.
LEMMA HandleElsewhere ==
    ASSUME EventInv, Handle
    PROVE  /\ id \in Repls /\ UNCHANGED <<server, status, id, received, heard>>
           /\ \A q \in Repls : Stopped(q)' <=> Stopped(q)
           /\ \A q \in Repls \ {id} : Pending(q)' = Pending(q)
<1> USE DEF EventInv, library, listener, client, history, bounds
<1>1. id \in Repls
    BY DEF Handle, ReadStatus, ReadError, GetReplicatedDocs, Exchange, Enumerate,
           EnumerateFails, TypeOK, Resting, At
<1>2. UNCHANGED <<server, status, id, received, heard>>
    BY DEF Handle, ReadStatus, ReadError, GetReplicatedDocs, Exchange, Enumerate, EnumerateFails
<1>3. \A q \in Repls \ {id} : replicatedDocs'[q] = replicatedDocs[q] /\ adding'[q] = adding[q]
    BY <1>1 DEF Handle, ReadStatus, ReadError, GetReplicatedDocs, Exchange, Enumerate,
                EnumerateFails, Move, TypeOK
<1>4. \A q \in Repls \ {id} : Carried(q)' = Carried(q)
    BY <1>2 DEF Carried
<1> QED
    BY <1>1, <1>2, <1>3, <1>4, PendingSame DEF Stopped, Started

\* A step of the handler that leaves what waits as it is.
LEMMA HandleKeeps ==
    ASSUME EventInv, Handle, Pending(id)' = Pending(id)
    PROVE  Moves
<1>1. \A q \in Repls : Pending(q)' = Pending(q)
    BY HandleElsewhere
<1> QED
    BY <1>1, HandleElsewhere, MailboxStutters

\* What waits is cut to its first documents.
LEMMA HandleLoses ==
    ASSUME EventInv, Handle, server = "dotnet", NEW t \in Seq(Docs),
           Pending(id)' \in Seq(Docs), Pending(id) = Pending(id)' \o t
    PROVE  Moves
<1> DEFINE W == [q \in Repls |-> Pending(q)]
<1>1. /\ id \in Repls /\ UNCHANGED <<server, status, id, received, heard>>
      /\ \A q \in Repls : Stopped(q)' <=> Stopped(q)
      /\ \A q \in Repls \ {id} : Pending(q)' = Pending(q)
    BY HandleElsewhere
<1> DEFINE k == Len(Pending(id)')
<1>2. /\ SubSeq(Pending(id), 1, k) = Pending(id)'
      /\ k \in Nat /\ Len(Pending(id)) = k + Len(t) /\ Len(t) \in Nat
    BY SplitConcat, LenProperties
<1>3. k \in 0..Len(Pending(id))
    BY <1>2
<1>4. W' = [W EXCEPT ![id] = SubSeq(W[id], 1, k)]
    BY <1>1, <1>2
<1>5. {q \in Repls : Stopped(q)}' = {q \in Repls : Stopped(q)}
    BY <1>1
<1>6. Mailbox!Lose(id)
    BY <1>1, <1>3, <1>4, <1>5 DEF Mailbox!Lose
<1> QED
    BY <1>1, <1>6 DEF Moves

LEMMA StepHandle ==
    ASSUME EventInv, EventInv', Handle
    PROVE  Moves
<1> USE DEF EventInv, library, listener, client, history, bounds
<1>1. id \in Repls /\ id' = id
    BY HandleElsewhere
<1>2. /\ request.documents \in Seq(Docs) /\ request.taken \in Seq(Docs)
      /\ replicatedDocs[id] \in Seq(Docs) /\ Addition(id) \in Seq(Docs)
      /\ <<>> \in Seq(Docs) /\ <<>> \o <<>> = <<>>
    BY <1>1, PendingParts, RequestFields, EmptySeq, ConcatEmptySeq
<1>3. /\ Pending(id) = (Carried(id) \o replicatedDocs[id]) \o Addition(id)
      /\ Pending(id)' = (Carried(id)' \o replicatedDocs'[id]) \o Addition(id)'
      /\ Pending(id)' \in Seq(Docs)
    <2>1. Pending(id)' = (Carried(id)' \o replicatedDocs'[id]) \o Addition(id)'
        BY <1>1 DEF Pending, Carried, Addition
    <2>2. Carried(id)' \in Seq(Docs)
        BY <1>1, ConcatProperties DEF TypeOK, Requests, Carried
    <2>3. replicatedDocs'[id] \in Seq(Docs)
        BY <1>1 DEF TypeOK
    <2>4. Addition(id)' \in Seq(Docs)
        BY <1>1 DEF Addition, TypeOK, Additions
    <2>5. Pending(id) = (Carried(id) \o replicatedDocs[id]) \o Addition(id)
        BY <1>1, PendingParts
    <2> QED
        BY <2>1, <2>2, <2>3, <2>4, <2>5, ConcatProperties
<1>4. ASSUME ReadStatus \/ ReadError PROVE Pending(id)' = Pending(id)
    <2>1. /\ UNCHANGED <<replicatedDocs, adding>>
          /\ request'.taken = request.taken /\ request'.documents = request.documents
        BY <1>4 DEF ReadStatus, ReadError, TypeOK, Requests
    <2> QED
        BY <1>1, <2>1 DEF Pending
<1>5. ASSUME GetReplicatedDocs PROVE Pending(id)' = Pending(id)
    <2>1. /\ request.documents = <<>> /\ request.taken = <<>>
          /\ request'.documents = replicatedDocs[id] /\ request'.taken = <<>>
          /\ replicatedDocs'[id] = <<>> /\ UNCHANGED adding
        BY <1>1, <1>5 DEF GetReplicatedDocs, TypeOK, Requests, RequestInv, At
    <2>2. Addition(id)' = Addition(id)
        BY <1>1, <2>1 DEF Addition
    <2>3. /\ Carried(id) = <<>> \o <<>> /\ Carried(id)' = replicatedDocs[id] \o <<>>
        BY <1>1, <2>1 DEF Carried
    <2> QED
        BY <1>2, <1>3, <2>1, <2>2, <2>3, ConcatEmptySeq
<1>6. ASSUME Exchange PROVE Pending(id)' = Pending(id)
    <2>1. /\ request.documents = <<>> /\ request.taken = <<>>
          /\ request'.documents = <<>> /\ request'.taken = replicatedDocs[id]
          /\ replicatedDocs'[id] = <<>>
        BY <1>1, <1>6 DEF Exchange, TypeOK, Requests, RequestInv, At
    <2>2. Addition(id)' = Addition(id)
        <3>1. CASE adding[id] # Nothing /\ adding[id].list = "current"
            <4>1. adding[id].doc \in Docs
                BY <1>1, <3>1 DEF TypeOK, Additions
            <4>2. [doc |-> adding[id].doc, list |-> "taken"] # Nothing
                BY <4>1, Constants DEF Additions
            <4>3. adding'[id] = [doc |-> adding[id].doc, list |-> "taken"]
                BY <1>1, <1>6, <3>1 DEF Exchange, Move, TypeOK
            <4> QED
                BY <1>1, <3>1, <4>2, <4>3 DEF Addition
        <3>2. CASE ~(adding[id] # Nothing /\ adding[id].list = "current")
            BY <1>1, <1>6, <3>2 DEF Exchange, Move, Addition
        <3> QED
            BY <3>1, <3>2
    <2>3. /\ Carried(id) = <<>> \o <<>> /\ Carried(id)' = <<>> \o replicatedDocs[id]
        BY <1>1, <2>1 DEF Carried
    <2> QED
        BY <1>2, <1>3, <2>1, <2>2, <2>3, ConcatEmptySeq
<1>7. ASSUME Enumerate PROVE Moves
    <2>1. /\ request.documents = <<>> /\ server = "dotnet"
          /\ request'.documents = request.taken /\ request'.taken = <<>>
          /\ UNCHANGED replicatedDocs
        BY <1>1, <1>7 DEF Enumerate, TypeOK, Requests, RequestInv, At
    <2>2. Carried(id) = request.taken /\ Carried(id)' = request.taken
        <3>1. Carried(id) = <<>> \o request.taken /\ Carried(id)' = request.taken \o <<>>
            BY <1>1, <2>1 DEF Carried
        <3> QED
            BY <1>2, <3>1, ConcatEmptySeq
    <2>3. CASE adding[id] # Nothing /\ adding[id].list = "taken"
        <3>1. adding[id].doc \in Docs
            BY <1>1, <2>3 DEF TypeOK, Additions
        <3>2. adding'[id] = [doc |-> adding[id].doc, list |-> "dropped"]
            BY <1>1, <1>7, <2>3 DEF Enumerate, Move, TypeOK
        <3>3. Addition(id)' = <<>>
            BY <1>1, <3>2 DEF Addition
        <3>4. replicatedDocs[id] = <<>>
            BY <1>1, <2>3 DEF AddingInv
        <3>5. Pending(id) = request.taken \o Addition(id) /\ Pending(id)' = request.taken
            BY <1>2, <1>3, <2>1, <2>2, <3>3, <3>4, ConcatEmptySeq
        <3> QED
            BY <1>2, <1>3, <2>1, <3>5, HandleLoses
    <2>4. CASE ~(adding[id] # Nothing /\ adding[id].list = "taken")
        <3>1. Addition(id)' = Addition(id)
            BY <1>1, <1>7, <2>4 DEF Enumerate, Move, Addition
        <3> QED
            BY <1>1, <1>3, <2>1, <2>2, <3>1, HandleKeeps
    <2> QED
        BY <2>3, <2>4
<1>8. ASSUME EnumerateFails PROVE Moves
    <2>1. /\ request.documents = <<>> /\ server = "dotnet"
          /\ request'.documents = <<>> /\ request'.taken = <<>>
          /\ UNCHANGED replicatedDocs
          /\ replicatedDocs[id] = <<>> /\ adding'[id] = Nothing
        BY <1>1, <1>8 DEF EnumerateFails, TypeOK, Requests, RequestInv, AddingInv, At
    <2>2. Carried(id)' = <<>> \o <<>> /\ Addition(id)' = <<>>
        BY <1>1, <2>1 DEF Carried, Addition
    <2>3. Pending(id)' = <<>>
        BY <1>2, <1>3, <2>1, <2>2
    <2>4. Pending(id) \in Seq(Docs) /\ Pending(id) = <<>> \o Pending(id)
        BY <1>1, PendingParts, ConcatEmptySeq
    <2> QED
        BY <1>3, <2>1, <2>3, <2>4, HandleLoses
<1> QED
    BY <1>4, <1>5, <1>6, <1>7, <1>8, HandleKeeps DEF Handle

\* Where no answer is on its way, before and after, the mailbox stutters.
LEMMA QuietStutters ==
    ASSUME EventInv, EventInv', ~At("exchanged"), ~At("answered"),
           ~At("exchanged")', ~At("answered")', UNCHANGED <<server, listener, received, heard>>,
           \A q \in Repls : Stopped(q)' <=> Stopped(q)
    PROVE  Moves
<1> USE DEF EventInv, listener
<1>1. ASSUME NEW q \in Repls PROVE Carried(q) = <<>> /\ Carried(q)' = <<>>
    <2>1. <<>> \o <<>> = <<>>
        BY ConcatEmptySeq, EmptySeq
    <2> QED
        BY <2>1 DEF RequestInv, Carried, At
<1>2. \A q \in Repls : Pending(q)' = Pending(q)
    BY <1>1, PendingSame
<1> QED
    BY <1>2, MailboxStutters

LEMMA StepQuiet ==
    ASSUME EventInv, EventInv', Test \/ Poll \/ WaitForTimesOut \/ RequestFails
    PROVE  Moves
<1> USE RecordTypes DEF library, listener, client, history, bounds
<1>1. ASSUME UNCHANGED status PROVE \A q \in Repls : Stopped(q)' <=> Stopped(q)
    BY <1>1 DEF Stopped, Started
<1>2. CASE Start
    <2>1. PICK r \in Repls :
             /\ ~Started(r)
             /\ status' = [status EXCEPT ![r] = [activity |-> "CONNECTING", error |-> FALSE]]
        BY <1>2 DEF Start
    <2>2. \A q \in Repls : Stopped(q)' <=> Stopped(q)
        BY <2>1 DEF Stopped, Started, EventInv, TypeOK
    <2> QED
        BY <1>2, <2>2, QuietStutters DEF Start, Resting, At
<1>3. CASE ClearDocumentUpdates
    BY <1>1, <1>3, QuietStutters DEF ClearDocumentUpdates, Resting, At
<1>4. CASE WaitFor \/ WaitForDocEvents \/ WaitForContinuous
    <2>1. /\ Resting /\ request' = [NoRequest EXCEPT !.at = "sent"] /\ "sent" \in Places
          /\ UNCHANGED <<server, library, listener, history>>
        BY <1>4 DEF WaitFor, WaitForDocEvents, WaitForContinuous, Call, Places
    <2> QED
        BY <1>1, <2>1, QuietStutters DEF Resting, At
<1>5. CASE Poll
    <2>1. "sent" \in Places
        BY DEF Places
    <2> QED
        BY <1>1, <1>5, <2>1, QuietStutters DEF Poll, At
<1>6. CASE WaitForTimesOut
    BY <1>1, <1>6, QuietStutters DEF WaitForTimesOut, Return, NoRequest, At
<1>7. CASE RequestFails
    BY <1>1, <1>7, QuietStutters DEF RequestFails, Return, NoRequest, At
<1> QED
    BY <1>2, <1>3, <1>4, <1>5, <1>6, <1>7 DEF Test

LEMMA ConcatThree ==
    ASSUME NEW s \in Seq(Docs), NEW t \in Seq(Docs), NEW u \in Seq(Docs)
    PROVE  /\ t \o u \in Seq(Docs)
           /\ ((s \o <<>>) \o t) \o u = s \o (t \o u)
<1>1. s \o <<>> = s
    BY ConcatEmptySeq
<1> QED
    BY <1>1, ConcatProperties, ConcatAssociative

\* An answer delivers the first documents that wait, and all if it says STOPPED.
LEMMA StepDeliver ==
    ASSUME EventInv, EventInv', Deliver, ~At("exchanged")', ~At("answered")'
    PROVE  Moves
<1> USE DEF EventInv, library, listener, history, bounds
<1> DEFINE W == [q \in Repls |-> Pending(q)]
           t == replicatedDocs[id] \o Addition(id)
<1>1. /\ id \in Repls /\ id' = id /\ UNCHANGED <<server, status, replicatedDocs, adding>>
      /\ request.documents \in Seq(Docs) /\ replicatedDocs[id] \in Seq(Docs)
      /\ Addition(id) \in Seq(Docs) /\ <<>> \in Seq(Docs) /\ <<>> \o <<>> = <<>>
      /\ request.taken = <<>>
      /\ request'.documents = <<>> /\ request'.taken = <<>>
    <2>1. id \in Repls
        BY DeliverTypes
    <2> QED
        BY <2>1, PendingParts, RequestFields, EmptySeq, ConcatEmptySeq
        DEF Deliver, RequestInv, At
<1>2. Pending(id)' = t
    <2>1. Pending(id)' = ((<<>> \o <<>>) \o replicatedDocs[id]) \o Addition(id)
        BY <1>1 DEF Pending, Addition
    <2> QED
        BY <1>1, <2>1, ConcatEmptySeq
<1>3. t \in Seq(Docs) /\ Pending(id) = request.documents \o t
    <2>1. Pending(id) = ((request.documents \o <<>>) \o replicatedDocs[id]) \o Addition(id)
        BY <1>1 DEF Pending, Addition
    <2> QED
        BY <1>1, <2>1, ConcatThree
<1> DEFINE k == Len(request.documents)
<1>4. /\ SubSeq(Pending(id), 1, k) = request.documents
      /\ SubSeq(Pending(id), k + 1, Len(Pending(id))) = t
      /\ k \in Nat /\ Len(t) \in Nat /\ Len(Pending(id)) = k + Len(t)
    <2>1. request.documents \in Seq(Docs)
        BY <1>1
    <2> HIDE DEF t
    <2>2. /\ SubSeq(request.documents \o t, 1, k) = request.documents
          /\ SubSeq(request.documents \o t, k + 1, Len(request.documents \o t)) = t
          /\ Len(request.documents \o t) = k + Len(t)
        BY <1>3, <2>1, SplitConcat
    <2>3. k \in Nat /\ Len(t) \in Nat
        BY <1>3, <2>1, LenProperties
    <2> QED
        BY <1>3, <2>2, <2>3
<1>5. k \in 0..Len(W[id])
    <2>1. W[id] = Pending(id)
        BY <1>1
    <2> HIDE DEF t, W, k
    <2> QED
        BY <1>4, <2>1
<1>6. received' = [received EXCEPT ![id] = received[id] \o SubSeq(W[id], 1, k)]
    BY <1>1, <1>4 DEF Deliver
<1>7. W' = [W EXCEPT ![id] = SubSeq(W[id], k + 1, Len(W[id]))]
    <2>1. \A q \in Repls \ {id} : Pending(q)' = Pending(q)
        BY <1>1 DEF Pending
    <2> QED
        BY <1>1, <1>2, <1>4, <2>1
<1>8. {q \in Repls : Stopped(q)}' = {q \in Repls : Stopped(q)}
    BY <1>1 DEF Stopped, Started
<1>9. heard' = heard \/ (id \in {q \in Repls : Stopped(q)} /\ k = Len(W[id]) /\ heard' = heard \cup {id})
    <2>1. CASE request.activity = "STOPPED"
        <3>1. Stopped(id) /\ replicatedDocs[id] = <<>>
            BY <2>1 DEF Deliver, RequestInv
        <3>2. Addition(id) = <<>>
            BY <1>1, <3>1 DEF AddingInv, Addition
        <3>3. t = <<>>
            BY <1>1, <3>1, <3>2
        <3>4. Len(t) = 0
            BY <3>3
        <3>5. k = Len(W[id])
            BY <1>1, <1>4, <3>4
        <3> QED
            BY <1>1, <2>1, <3>1, <3>5 DEF Deliver
    <2>2. CASE request.activity # "STOPPED"
        BY <2>2 DEF Deliver
    <2> QED
        BY <2>1, <2>2
<1>10. Mailbox!Deliver(id)
    BY <1>1, <1>5, <1>6, <1>7, <1>8, <1>9 DEF Mailbox!Deliver
<1> QED
    BY <1>1, <1>10 DEF Moves

LEMMA StepAnswer ==
    ASSUME EventInv, EventInv', Answer
    PROVE  Moves
<1> USE RecordTypes
<1>1. CASE RequestFails
    BY <1>1, StepQuiet
<1>2. CASE PollAgain
    <2>1. Deliver /\ ~At("exchanged")' /\ ~At("answered")'
        BY <1>2 DEF PollAgain, Again, At, Places
    <2> QED
        BY <2>1, StepDeliver
<1>3. CASE TryAgain
    <2>1. Deliver /\ ~At("exchanged")' /\ ~At("answered")'
        BY <1>3 DEF TryAgain, NotSeen, Look, Again, At, Places
    <2> QED
        BY <2>1, StepDeliver
<1>4. CASE WaitForReturns \/ AssertFails \/ Seen \/ GiveUp
    <2>1. Deliver /\ request' = NoRequest
        BY <1>4 DEF WaitForReturns, AssertFails, Seen, GiveUp, NotSeen, Look, Return
    <2> QED
        BY <2>1, StepDeliver DEF NoRequest, At
<1> QED
    BY <1>1, <1>2, <1>3, <1>4 DEF Answer

\* The library reports a document of r.
Reports(r, d) ==
    /\ Mailbox!Post(r, d) /\ Started(r)
    /\ reported' = [reported EXCEPT ![r] = Append(reported[r], d)]

\* What is reported is posted, and a step that reports nothing posts nothing.
LEMMA StepSplit ==
    ASSUME EventInv, EventInv', [Next]_vars
    PROVE  \/ Moves /\ reported' = reported
           \/ \E r \in Repls, d \in Docs : Reports(r, d)
<1>1. CASE UNCHANGED vars
    <2>1. \A q \in Repls : Pending(q)' = Pending(q) /\ (Stopped(q)' <=> Stopped(q))
        BY <1>1 DEF vars, library, listener, client, history, Pending, Stopped, Started
    <2> QED
        BY <1>1, <2>1, MailboxStutters DEF vars, library, history
<1>2. ASSUME NEW r \in Repls, Change(r) \/ HandleChangeAdd(r)
      PROVE  Moves /\ reported' = reported
    BY <1>2, StepChange, StepHandleChangeAdd DEF Change, HandleChangeAdd, library
<1>3. ASSUME NEW r \in Repls, NEW d \in Docs, Replication(r, d) \/ HandleChange(r, d)
      PROVE  Reports(r, d)
    BY <1>3, StepReplication, StepHandleChange DEF Reports, Replication, HandleChange, Report
<1>4. CASE Handle
    BY <1>4, StepHandle DEF Handle, ReadStatus, ReadError, GetReplicatedDocs, Exchange,
       Enumerate, EnumerateFails, library
<1>5. CASE Answer
    BY <1>5, StepAnswer DEF Answer, PollAgain, WaitForReturns, RequestFails, AssertFails, Seen,
       GiveUp, TryAgain, NotSeen, Look, Deliver, library
<1>6. CASE Poll \/ WaitForTimesOut \/ Test
    BY <1>6, StepQuiet DEF Poll, WaitForTimesOut, Test, Start, ClearDocumentUpdates, WaitFor,
       WaitForDocEvents, WaitForContinuous, Call, library
<1> QED
    BY <1>1, <1>2, <1>3, <1>4, <1>5, <1>6 DEF Next

LEMMA StepMailbox == EventInv /\ EventInv' /\ [Next]_vars => [Mailbox!Next]_(Mailbox!vars)
BY StepSplit DEF Moves, Reports, Mailbox!Next

\* The listener, the handler and the client's polling implement the mailbox: no
\* document is delivered twice or out of order, the Java server loses none, and
\* a test that has read STOPPED has got them all.
THEOREM ImplementsMailboxCorrect == Spec => ImplementsMailbox
<1>1. Spec => []EventInv
    BY EventInit, InvNext, PTL DEF Spec
<1> QED
    BY <1>1, InitMailbox, StepMailbox, PTL DEF Spec, ImplementsMailbox, Mailbox!Spec
-----------------------------------------------------------------------------
(* What is delivered of what is reported                                   *)

\* The items of s come from t, each from its own place or a later one.
Thins(s, t) ==
    /\ Len(s) <= Len(t)
    /\ \A i \in 1..Len(s) : \E j \in i..Len(t) : s[i] = t[j]

\* All that the server has kept or sent of what r reported.
Delivered(r) == received[r] \o Pending(r)

\* A document keeps its place or moves to an earlier one, by the loss of another;
\* the Java server loses none.  A test knows that a replicator has stopped when
\* nothing of it is left.
DeliveryInv ==
    \A r \in Repls :
        /\ Thins(Delivered(r), reported[r])
        /\ server = "jak" => Delivered(r) = reported[r]
        /\ r \in heard => Stopped(r) /\ Pending(r) = <<>>
        /\ ~Started(r) => reported[r] = <<>>

\* The two parts of a sequence that is cut after its first m items.
LEMMA CutParts ==
    ASSUME NEW s \in Seq(Docs), NEW m \in 0..Len(s)
    PROVE  /\ SubSeq(s, 1, m) \in Seq(Docs) /\ Len(SubSeq(s, 1, m)) = m
           /\ \A i \in 1..m : SubSeq(s, 1, m)[i] = s[i]
           /\ SubSeq(s, m + 1, Len(s)) \in Seq(Docs)
           /\ Len(SubSeq(s, m + 1, Len(s))) = Len(s) - m
           /\ \A i \in 1..(Len(s) - m) : SubSeq(s, m + 1, Len(s))[i] = s[m + i]
<1>1. Len(s) \in Nat /\ m \in Nat /\ m <= Len(s) /\ \A i \in 1..Len(s) : s[i] \in Docs
    BY LenProperties, ElementOfSeq
<1>2. /\ SubSeq(s, 1, m) \in Seq(Docs) /\ Len(SubSeq(s, 1, m)) = m
      /\ \A i \in 1..m : SubSeq(s, 1, m)[i] = s[i]
    <2> DEFINE u == SubSeq(s, 1, m)
    <2>1. \A i \in 1..m : s[i] \in Docs
        BY <1>1
    <2>2. /\ u \in Seq(Docs) /\ Len(u) = IF 1 <= m THEN m - 1 + 1 ELSE 0
          /\ \A i \in 1..(m - 1 + 1) : u[i] = s[1 + i - 1]
        BY <1>1, <2>1, SubSeqProperties
    <2> HIDE DEF u
    <2>3. Len(u) = m /\ \A i \in 1..m : u[i] = s[i]
        BY <1>1, <2>2
    <2> QED
        BY <2>2, <2>3 DEF u
<1>3. /\ SubSeq(s, m + 1, Len(s)) \in Seq(Docs) /\ Len(SubSeq(s, m + 1, Len(s))) = Len(s) - m
      /\ \A i \in 1..(Len(s) - m) : SubSeq(s, m + 1, Len(s))[i] = s[m + i]
    <2> DEFINE u == SubSeq(s, m + 1, Len(s))
    <2>1. \A i \in (m + 1)..Len(s) : s[i] \in Docs
        BY <1>1
    <2>2. m + 1 \in Int /\ Len(s) \in Int
        BY <1>1
    <2>3. /\ u \in Seq(Docs)
          /\ Len(u) = IF m + 1 <= Len(s) THEN Len(s) - (m + 1) + 1 ELSE 0
          /\ \A i \in 1..(Len(s) - (m + 1) + 1) : u[i] = s[m + 1 + i - 1]
        BY <2>1, <2>2, SubSeqProperties
    <2> HIDE DEF u
    <2>4. Len(u) = Len(s) - m
        BY <1>1, <2>3
    <2>5. ASSUME NEW i \in 1..(Len(s) - m) PROVE u[i] = s[m + i]
        <3>1. i \in 1..(Len(s) - (m + 1) + 1) /\ m + 1 + i - 1 = m + i
            BY <1>1
        <3> QED
            BY <2>3, <3>1
    <2> QED
        BY <2>3, <2>4, <2>5 DEF u
<1> QED
    BY <1>2, <1>3

LEMMA CutRestores ==
    ASSUME NEW s \in Seq(Docs), NEW m \in 0..Len(s)
    PROVE  SubSeq(s, 1, m) \o SubSeq(s, m + 1, Len(s)) = s
<1> DEFINE p == SubSeq(s, 1, m)
           q == SubSeq(s, m + 1, Len(s))
<1>1. /\ p \in Seq(Docs) /\ Len(p) = m /\ \A i \in 1..m : p[i] = s[i]
      /\ q \in Seq(Docs) /\ Len(q) = Len(s) - m
      /\ \A i \in 1..(Len(s) - m) : q[i] = s[m + i]
    BY CutParts
<1> HIDE DEF p, q
<1>2. /\ p \o q \in Seq(Docs) /\ Len(p \o q) = Len(p) + Len(q)
      /\ \A i \in 1..Len(p) + Len(q) : (p \o q)[i] = IF i <= Len(p) THEN p[i] ELSE q[i - Len(p)]
    BY <1>1, ConcatProperties
<1>3. Len(s) \in Nat /\ m \in Nat /\ Len(p) + Len(q) = Len(s)
    BY <1>1, LenProperties
<1>4. ASSUME NEW i \in 1..Len(s) PROVE (p \o q)[i] = s[i]
    <2>1. CASE i <= m
        BY <1>1, <1>2, <1>3, <2>1
    <2>2. CASE i > m
        <3>1. i - m \in 1..(Len(s) - m) /\ m + (i - m) = i
            BY <1>3, <2>2
        <3>2. (p \o q)[i] = q[i - m]
            BY <1>1, <1>2, <1>3, <2>2
        <3> QED
            BY <1>1, <3>1, <3>2
    <2> QED
        BY <1>3, <2>1, <2>2
<1>5. p \o q = s
    BY <1>2, <1>3, <1>4, SeqEqual
<1> QED
    BY <1>5 DEF p, q

LEMMA ThinsAppend ==
    ASSUME NEW s \in Seq(Docs), NEW t \in Seq(Docs), NEW d \in Docs, Thins(s, t)
    PROVE  Thins(Append(s, d), Append(t, d))
<1> DEFINE u == Append(s, d)
           v == Append(t, d)
<1>1. /\ Len(u) = Len(s) + 1 /\ u[Len(s) + 1] = d /\ \A i \in 1..Len(s) : u[i] = s[i]
      /\ Len(v) = Len(t) + 1 /\ v[Len(t) + 1] = d /\ \A i \in 1..Len(t) : v[i] = t[i]
    BY AppendProperties
<1>2. Len(s) \in Nat /\ Len(t) \in Nat /\ Len(s) <= Len(t)
    BY LenProperties DEF Thins
<1> HIDE DEF u, v
<1>3. ASSUME NEW i \in 1..Len(u) PROVE \E j \in i..Len(v) : u[i] = v[j]
    <2>1. CASE i = Len(s) + 1
        <3>1. Len(t) + 1 \in i..Len(v)
            BY <1>1, <1>2, <2>1
        <3> QED
            BY <1>1, <2>1, <3>1
    <2>2. CASE i # Len(s) + 1
        <3>1. i \in 1..Len(s)
            BY <1>1, <1>2, <2>2
        <3>2. PICK j \in i..Len(t) : s[i] = t[j]
            BY <3>1 DEF Thins
        <3>3. j \in i..Len(v) /\ j \in 1..Len(t)
            BY <1>1, <1>2
        <3> QED
            BY <1>1, <3>1, <3>2, <3>3
    <2> QED
        BY <2>1, <2>2
<1>4. Thins(u, v)
    BY <1>1, <1>2, <1>3 DEF Thins
<1> QED
    BY <1>4 DEF u, v

\* To thin out a sequence further leaves it thinned out.
LEMMA ThinsPart ==
    ASSUME NEW s \in Seq(Docs), NEW t \in Seq(Docs), NEW u \in Seq(Docs), NEW v \in Seq(Docs),
           s = u \o v, Thins(s, t)
    PROVE  Thins(u, t)
<1>1. /\ Len(s) = Len(u) + Len(v) /\ \A i \in 1..Len(u) : s[i] = u[i]
      /\ Len(u) \in Nat /\ Len(v) \in Nat /\ Len(t) \in Nat
    <2>1. /\ Len(s) = Len(u) + Len(v)
          /\ \A i \in 1..Len(u) + Len(v) : s[i] = IF i <= Len(u) THEN u[i] ELSE v[i - Len(u)]
        BY ConcatProperties
    <2>2. Len(u) \in Nat /\ Len(v) \in Nat /\ Len(t) \in Nat
        BY LenProperties
    <2> QED
        BY <2>1, <2>2
<1>2. Len(u) <= Len(t)
    BY <1>1 DEF Thins
<1>3. ASSUME NEW i \in 1..Len(u) PROVE \E j \in i..Len(t) : u[i] = t[j]
    BY <1>1 DEF Thins
<1> QED
    BY <1>2, <1>3 DEF Thins

LEMMA DeliveredType ==
    TypeOK => \A r \in Repls : /\ received[r] \in Seq(Docs) /\ Pending(r) \in Seq(Docs)
                               /\ Delivered(r) \in Seq(Docs) /\ reported[r] \in Seq(Docs)
<1> SUFFICES ASSUME TypeOK, NEW r \in Repls
             PROVE  /\ received[r] \in Seq(Docs) /\ Pending(r) \in Seq(Docs)
                    /\ Delivered(r) \in Seq(Docs) /\ reported[r] \in Seq(Docs)
    OBVIOUS
<1>1. received[r] \in Seq(Docs) /\ reported[r] \in Seq(Docs)
    BY DEF TypeOK
<1> QED
    BY <1>1, PendingParts, ConcatProperties DEF Delivered

LEMMA StartedStays ==
    ASSUME EventInv, [Next]_vars, NEW r \in Repls, Started(r)
    PROVE  Started(r)'
<1> USE DEF EventInv, library, listener, client, history, bounds
<1>1. ASSUME NEW q \in Repls, Change(q) PROVE Started(r)'
    <2>1. PICK s \in Status : status' = [status EXCEPT ![q] = s]
        BY <1>1 DEF Change
    <2> QED
        BY <2>1, Constants DEF Started, TypeOK
<1>2. CASE Start
    <2>1. PICK q \in Repls :
             status' = [status EXCEPT ![q] = [activity |-> "CONNECTING", error |-> FALSE]]
        BY <1>2 DEF Start
    <2>2. [activity |-> "CONNECTING", error |-> FALSE] \in Status
        BY DEF Status, Activities
    <2> QED
        BY <2>1, <2>2, Constants DEF Started, TypeOK
<1>3. CASE UNCHANGED status
    BY <1>3 DEF Started
<1>4. CASE Handle
    BY <1>3, <1>4, HandleElsewhere
<1>5. CASE Answer
    BY <1>3, <1>5 DEF Answer, PollAgain, WaitForReturns, RequestFails, AssertFails, Seen,
       GiveUp, TryAgain, NotSeen, Look, Deliver
<1>6. CASE Test /\ ~Start
    BY <1>3, <1>6 DEF Test, ClearDocumentUpdates, WaitFor, WaitForDocEvents, WaitForContinuous,
       Call
<1>7. CASE Poll \/ WaitForTimesOut
    BY <1>3, <1>7 DEF Poll, WaitForTimesOut
<1>8. ASSUME NEW q \in Repls, HandleChangeAdd(q) PROVE Started(r)'
    BY <1>3, <1>8 DEF HandleChangeAdd
<1>9. ASSUME NEW q \in Repls, NEW d \in Docs, Replication(q, d) \/ HandleChange(q, d)
      PROVE  Started(r)'
    BY <1>3, <1>9 DEF Replication, HandleChange
<1>10. CASE UNCHANGED vars
    BY <1>3, <1>10 DEF vars
<1> QED
    BY <1>1, <1>2, <1>4, <1>5, <1>6, <1>7, <1>8, <1>9, <1>10 DEF Next

LEMMA DeliveryInit == Init => DeliveryInv
<1> SUFFICES ASSUME Init, NEW r \in Repls
             PROVE  /\ Thins(Delivered(r), reported[r])
                    /\ Delivered(r) = reported[r] /\ r \notin heard /\ reported[r] = <<>>
    BY DEF DeliveryInv
<1>1. Pending(r) = <<>>
    <2>1. <<>> \o <<>> = <<>>
        BY ConcatEmptySeq, EmptySeq
    <2> QED
        BY <2>1 DEF Init, Pending, NoRequest
<1>2. Delivered(r) = <<>> /\ reported[r] = <<>> /\ heard = {}
    BY <1>1, ConcatEmptySeq, EmptySeq DEF Init, Delivered
<1>3. Thins(<<>>, <<>>)
    BY EmptySeq DEF Thins
<1> QED
    BY <1>2, <1>3

LEMMA ConcatRegroup ==
    ASSUME NEW s \in Seq(Docs), NEW t \in Seq(Docs), NEW u \in Seq(Docs)
    PROVE  s \o t \in Seq(Docs) /\ (s \o t) \o u = s \o (t \o u)
BY ConcatAssociative, ConcatProperties

LEMMA ConcatAppend ==
    ASSUME NEW s \in Seq(Docs), NEW t \in Seq(Docs), NEW d \in Docs
    PROVE  s \o Append(t, d) = Append(s \o t, d)
BY ConcatParts

\* What is reported is kept behind all else.
LEMMA DeliveryReports ==
    ASSUME EventInv, EventInv', DeliveryInv, NEW r \in Repls, NEW d \in Docs, Reports(r, d),
           \A q \in Repls : Started(q) => Started(q)'
    PROVE  DeliveryInv'
<1>1. /\ ~Stopped(r) /\ Started(r) /\ (server = "jak")' = (server = "jak")
      /\ heard' = heard /\ received' = received
      /\ \A q \in Repls : Stopped(q)' <=> Stopped(q)
      /\ Pending(r)' = Append(Pending(r), d)
      /\ \A q \in Repls \ {r} : Pending(q)' = Pending(q)
    <2> DEFINE W == [q \in Repls |-> Pending(q)]
               S == {q \in Repls : Stopped(q)}
    <2>1. /\ W' = [W EXCEPT ![r] = Append(W[r], d)] /\ S' = S /\ r \notin S /\ Started(r)
          /\ (server = "dotnet")' = (server = "dotnet") /\ heard' = heard /\ received' = received
        BY DEF Reports, Mailbox!Post
    <2>2. \A q \in Repls : W[q] = Pending(q) /\ W'[q] = Pending(q)'
        OBVIOUS
    <2>3. \A q \in Repls : (q \in S <=> Stopped(q)) /\ (q \in S' <=> Stopped(q)')
        OBVIOUS
    <2>4. server \in {"jak", "dotnet"} /\ server' \in {"jak", "dotnet"}
        BY DEF EventInv, TypeOK
    <2>5. W'[r] = Append(W[r], d) /\ \A q \in Repls \ {r} : W'[q] = W[q]
        BY <2>1
    <2> HIDE DEF W, S
    <2> QED
        BY <2>1, <2>2, <2>3, <2>4, <2>5
<1>2. /\ reported'[r] = Append(reported[r], d)
      /\ \A q \in Repls \ {r} : reported'[q] = reported[q]
    BY DEF Reports, EventInv, TypeOK
<1>3. /\ received[r] \in Seq(Docs) /\ Pending(r) \in Seq(Docs)
      /\ Delivered(r) \in Seq(Docs) /\ reported[r] \in Seq(Docs)
    BY DeliveredType DEF EventInv
<1>4. Delivered(r)' = Append(Delivered(r), d)
    <2>1. Delivered(r)' = received[r] \o Append(Pending(r), d)
        BY <1>1 DEF Delivered
    <2>2. received[r] \o Append(Pending(r), d) = Append(received[r] \o Pending(r), d)
        BY <1>3, ConcatAppend
    <2> QED
        BY <2>1, <2>2 DEF Delivered
<1>5. Thins(Delivered(r)', reported'[r])
    BY <1>2, <1>3, <1>4, ThinsAppend DEF DeliveryInv
<1>6. server' = "jak" => Delivered(r)' = reported'[r]
    BY <1>1, <1>2, <1>4 DEF DeliveryInv
<1>7. r \notin heard' /\ Started(r)'
    BY <1>1 DEF DeliveryInv
<1>8. ASSUME NEW q \in Repls \ {r} PROVE Delivered(q)' = Delivered(q)
    BY <1>1 DEF Delivered
<1> QED
    BY <1>1, <1>2, <1>5, <1>6, <1>7, <1>8 DEF DeliveryInv

\* A step of the mailbox that is no post keeps or loses what is delivered, and
\* what is known to be complete stays so.
LEMMA DeliveryMoves ==
    ASSUME EventInv, EventInv', DeliveryInv, Moves, reported' = reported,
           \A q \in Repls : Started(q) => Started(q)'
    PROVE  DeliveryInv'
<1> DEFINE W == [q \in Repls |-> Pending(q)]
           S == {q \in Repls : Stopped(q)}
<1>1. /\ \A q \in Repls : W[q] = Pending(q) /\ W'[q] = Pending(q)'
      /\ \A q \in Repls : (q \in S <=> Stopped(q)) /\ (q \in S' <=> Stopped(q)')
    OBVIOUS
<1>2. \/ UNCHANGED <<server = "dotnet", W, received, S, heard>>
      \/ \E r \in Repls :
            \/ S' = S \cup {r} /\ UNCHANGED <<server = "dotnet", W, received, heard>>
            \/ \E k \in 0..Len(W[r]) :
                  /\ received' = [received EXCEPT ![r] = received[r] \o SubSeq(W[r], 1, k)]
                  /\ W' = [W EXCEPT ![r] = SubSeq(W[r], k + 1, Len(W[r]))]
                  /\ heard' = heard \/ (r \in S /\ k = Len(W[r]) /\ heard' = heard \cup {r})
                  /\ UNCHANGED <<server = "dotnet", S>>
            \/ /\ server = "dotnet"
               /\ \E k \in 0..Len(W[r]) : W' = [W EXCEPT ![r] = SubSeq(W[r], 1, k)]
               /\ UNCHANGED <<server = "dotnet", received, S, heard>>
    <2>1. CASE UNCHANGED Mailbox!vars
        BY <2>1 DEF Mailbox!vars
    <2>2. ASSUME NEW r \in Repls, Mailbox!Stop(r)
          PROVE  S' = S \cup {r} /\ UNCHANGED <<server = "dotnet", W, received, heard>>
        BY <2>2 DEF Mailbox!Stop
    <2>3. ASSUME NEW r \in Repls, Mailbox!Deliver(r)
          PROVE  \E k \in 0..Len(W[r]) :
                    /\ received' = [received EXCEPT ![r] = received[r] \o SubSeq(W[r], 1, k)]
                    /\ W' = [W EXCEPT ![r] = SubSeq(W[r], k + 1, Len(W[r]))]
                    /\ heard' = heard \/ (r \in S /\ k = Len(W[r]) /\ heard' = heard \cup {r})
                    /\ UNCHANGED <<server = "dotnet", S>>
        BY <2>3 DEF Mailbox!Deliver
    <2>4. ASSUME NEW r \in Repls, Mailbox!Lose(r)
          PROVE  /\ server = "dotnet"
                 /\ \E k \in 0..Len(W[r]) : W' = [W EXCEPT ![r] = SubSeq(W[r], 1, k)]
                 /\ UNCHANGED <<server = "dotnet", received, S, heard>>
        BY <2>4 DEF Mailbox!Lose
    <2> HIDE DEF W, S
    <2> QED
        BY <2>1, <2>2, <2>3, <2>4 DEF Moves
<1>3. /\ W = [q \in Repls |-> W[q]]
      /\ received = [q \in Repls |-> received[q]]
    BY DEF EventInv, TypeOK
<1>4. \A q \in Repls : /\ received[q] \in Seq(Docs) /\ W[q] \in Seq(Docs)
                       /\ Delivered(q) \in Seq(Docs) /\ reported[q] \in Seq(Docs)
                       /\ Delivered(q) = received[q] \o W[q]
                       /\ Delivered(q)' = received'[q] \o W'[q]
    BY DeliveredType DEF EventInv, Delivered
<1>5. server \in {"jak", "dotnet"} /\ server' \in {"jak", "dotnet"}
    BY DEF EventInv, TypeOK
<1> HIDE DEF W, S
<1>6. ASSUME NEW q \in Repls, Delivered(q)' = Delivered(q), (server = "jak")' = (server = "jak"),
             Stopped(q) => Stopped(q)', q \in heard' => Stopped(q)' /\ W'[q] = <<>>
      PROVE  /\ Thins(Delivered(q), reported[q])'
             /\ (server = "jak" => Delivered(q) = reported[q])'
             /\ (q \in heard => Stopped(q) /\ Pending(q) = <<>>)'
             /\ (~Started(q) => reported[q] = <<>>)'
    BY <1>1, <1>6 DEF DeliveryInv
<1>7. CASE \/ UNCHANGED <<server = "dotnet", W, received, S, heard>>
           \/ \E r \in Repls : S' = S \cup {r} /\ UNCHANGED <<server = "dotnet", W, received, heard>>
    <2>1. ASSUME NEW q \in Repls
          PROVE  /\ Delivered(q)' = Delivered(q) /\ (server = "jak")' = (server = "jak")
                 /\ Stopped(q) => Stopped(q)'
                 /\ q \in heard' => Stopped(q)' /\ W'[q] = <<>>
        BY <1>1, <1>4, <1>5, <1>7 DEF DeliveryInv
    <2> QED
        BY <1>6, <2>1 DEF DeliveryInv
<1>8. ASSUME NEW r \in Repls, NEW k \in 0..Len(W[r]),
             received' = [received EXCEPT ![r] = received[r] \o SubSeq(W[r], 1, k)],
             W' = [W EXCEPT ![r] = SubSeq(W[r], k + 1, Len(W[r]))],
             heard' = heard \/ (r \in S /\ k = Len(W[r]) /\ heard' = heard \cup {r}),
             UNCHANGED <<server = "dotnet", S>>
      PROVE  DeliveryInv'
    <2>1. /\ received'[r] = received[r] \o SubSeq(W[r], 1, k)
          /\ W'[r] = SubSeq(W[r], k + 1, Len(W[r]))
          /\ \A q \in Repls \ {r} : received'[q] = received[q] /\ W'[q] = W[q]
        BY <1>3, <1>8
    <2>2. /\ SubSeq(W[r], 1, k) \in Seq(Docs) /\ SubSeq(W[r], k + 1, Len(W[r])) \in Seq(Docs)
          /\ Len(SubSeq(W[r], k + 1, Len(W[r]))) = Len(W[r]) - k
          /\ SubSeq(W[r], 1, k) \o SubSeq(W[r], k + 1, Len(W[r])) = W[r]
          /\ Len(W[r]) \in Nat
        BY <1>4, CutParts, CutRestores, LenProperties
    <2>3. Delivered(r)' = Delivered(r)
        <3> DEFINE p == SubSeq(W[r], 1, k)
                   q == SubSeq(W[r], k + 1, Len(W[r]))
        <3>1. p \in Seq(Docs) /\ q \in Seq(Docs) /\ p \o q = W[r] /\ received[r] \in Seq(Docs)
            BY <1>4, <2>2
        <3>2. Delivered(r)' = (received[r] \o p) \o q /\ Delivered(r) = received[r] \o W[r]
            BY <1>4, <2>1
        <3> HIDE DEF p, q
        <3>3. (received[r] \o p) \o q = received[r] \o (p \o q)
            BY <3>1, ConcatRegroup
        <3> QED
            BY <3>1, <3>2, <3>3
    <2>4. W[r] = <<>> \/ k = Len(W[r]) => W'[r] = <<>>
        <3>1. W[r] = <<>> => Len(W[r]) = 0
            BY EmptySeq
        <3>2. W[r] = <<>> \/ k = Len(W[r]) => Len(W'[r]) = 0
            BY <2>1, <2>2, <3>1
        <3> QED
            BY <2>1, <2>2, <3>2, EmptySeq
    <2>5. ASSUME NEW q \in Repls
          PROVE  /\ Delivered(q)' = Delivered(q) /\ (server = "jak")' = (server = "jak")
                 /\ Stopped(q) => Stopped(q)'
                 /\ q \in heard' => Stopped(q)' /\ W'[q] = <<>>
        <3>1. Delivered(q)' = Delivered(q)
            BY <1>4, <2>1, <2>3
        <3>2. (server = "jak")' = (server = "jak") /\ (Stopped(q) <=> Stopped(q)')
            BY <1>1, <1>5, <1>8
        <3>3. q \in heard => Stopped(q) /\ W[q] = <<>>
            BY <1>1 DEF DeliveryInv
        <3>4. W[q] = <<>> => W'[q] = <<>>
            BY <2>1, <2>4
        <3>5. q \in heard' \ heard => q = r /\ Stopped(r) /\ W'[r] = <<>>
            BY <1>1, <1>8, <2>4
        <3> QED
            BY <3>1, <3>2, <3>3, <3>4, <3>5
    <2> QED
        BY <1>6, <2>5 DEF DeliveryInv
<1>9. ASSUME NEW r \in Repls, server = "dotnet", NEW k \in 0..Len(W[r]),
             W' = [W EXCEPT ![r] = SubSeq(W[r], 1, k)],
             UNCHANGED <<server = "dotnet", received, S, heard>>
      PROVE  DeliveryInv'
    <2>1. W'[r] = SubSeq(W[r], 1, k) /\ \A q \in Repls \ {r} : W'[q] = W[q]
        BY <1>3, <1>9
    <2> DEFINE u == SubSeq(W[r], 1, k)
               v == SubSeq(W[r], k + 1, Len(W[r]))
    <2>2. u \in Seq(Docs) /\ v \in Seq(Docs) /\ Len(u) = k /\ u \o v = W[r] /\ Len(W[r]) \in Nat
        BY <1>4, CutParts, CutRestores, LenProperties
    <2>3. Thins(Delivered(r)', reported[r])
        <3> HIDE DEF u, v
        <3>1. received[r] \o u \in Seq(Docs) /\ Delivered(r) = (received[r] \o u) \o v
            <4>1. received[r] \in Seq(Docs) /\ Delivered(r) = received[r] \o (u \o v)
                BY <1>4, <2>2
            <4> QED
                BY <2>2, <4>1, ConcatRegroup
        <3>2. Thins(received[r] \o u, reported[r])
            BY <1>4, <2>2, <3>1, ThinsPart DEF DeliveryInv
        <3> QED
            BY <1>4, <1>9, <2>1, <3>2 DEF u
    <2>4. r \in heard => W'[r] = <<>>
        <3>1. r \in heard => Len(W[r]) = 0
            BY <1>1, EmptySeq DEF DeliveryInv
        <3>2. r \in heard => Len(u) = 0
            BY <2>2, <3>1
        <3> QED
            BY <2>1, <2>2, <3>2, EmptySeq
    <2>5. /\ Thins(Delivered(r), reported[r])'
          /\ (server = "jak" => Delivered(r) = reported[r])'
          /\ (r \in heard => Stopped(r) /\ Pending(r) = <<>>)'
          /\ (~Started(r) => reported[r] = <<>>)'
        BY <1>1, <1>5, <1>9, <2>3, <2>4 DEF DeliveryInv
    <2>6. ASSUME NEW q \in Repls \ {r}
          PROVE  /\ Delivered(q)' = Delivered(q) /\ (server = "jak")' = (server = "jak")
                 /\ Stopped(q) => Stopped(q)'
                 /\ q \in heard' => Stopped(q)' /\ W'[q] = <<>>
        <3>1. received'[q] = received[q] /\ W'[q] = W[q] /\ (server = "jak")' = (server = "jak")
            BY <1>5, <1>9, <2>1
        <3>2. (Stopped(q) <=> Stopped(q)') /\ heard' = heard
            BY <1>1, <1>9
        <3> QED
            BY <1>1, <1>4, <3>1, <3>2 DEF DeliveryInv
    <2> QED
        BY <1>6, <2>5, <2>6 DEF DeliveryInv
<1> QED
    BY <1>2, <1>7, <1>8, <1>9

LEMMA DeliveryStep == EventInv /\ EventInv' /\ DeliveryInv /\ [Next]_vars => DeliveryInv'
BY StepSplit, StartedStays, DeliveryReports, DeliveryMoves
-----------------------------------------------------------------------------
(* What a wait makes of the updates                                        *)

Items(s) == {s[i] : i \in 1..Len(s)}

\* What the test has received since it cleared its updates.
Recent == SubSeq(received[id], cleared + 1, Len(received[id]))

\* The updates end with what the test has received from the replicator it started
\* last, since it cleared them.
UpdatesInv ==
    /\ id = Nothing => updates = <<>>
    /\ id # Nothing =>
          /\ cleared <= Len(received[id])
          /\ \E old \in Seq(Docs) : updates = old \o Recent /\ (clean => old = <<>>)

\* A wait lacks the events that are not among the updates it has looked at.
WaitInv ==
    ~Resting =>
        /\ outcome = "none"
        /\ wait.processed <= Len(updates)
        /\ wait.remaining = IF wait.call = "wait_for_any_doc_event" THEN wait.events
                            ELSE wait.events \ {updates[i] : i \in 1..wait.processed}

\* What the updates, and what the test knows, make of a wait.
ResultInv ==
    /\ outcome = "true" =>
          IF wait.call = "wait_for_any_doc_event" THEN wait.events \cap Items(updates) # {}
          ELSE wait.events \subseteq Items(updates)
    /\ wait.call = "wait_for_doc_events" /\ outcome = "false" =>
          id \in heard /\ ~(wait.events \subseteq Items(updates))
    /\ wait.call = "wait_for" /\ wait.level = "STOPPED" /\ outcome = "status" => id \in heard

WaitingInv == UpdatesInv /\ WaitInv /\ ResultInv

LEMMA WaitingInit == Init => WaitingInv
<1> SUFFICES ASSUME Init PROVE WaitingInv
    OBVIOUS
<1>1. UpdatesInv
    BY DEF Init, UpdatesInv
<1>2. WaitInv /\ ResultInv
    BY DEF Init, WaitInv, ResultInv, Resting, At, NoRequest
<1> QED
    BY <1>1, <1>2 DEF WaitingInv

\* A step of the library, of the server or of the clock is not seen by the test.
LEMMA WaitingFrame ==
    ASSUME WaitingInv, UNCHANGED <<id, updates, wait, outcome, received, heard, cleared, clean>>,
           Resting' <=> Resting
    PROVE  WaitingInv'
BY DEF WaitingInv, UpdatesInv, Recent, WaitInv, ResultInv

\* What has been received is extended by an answer.
LEMMA RecentExtends ==
    ASSUME NEW s \in Seq(Docs), NEW t \in Seq(Docs), NEW m \in 0..Len(s)
    PROVE  /\ m \in 0..Len(s \o t)
           /\ SubSeq(s \o t, m + 1, Len(s \o t)) = SubSeq(s, m + 1, Len(s)) \o t
<1> DEFINE p == SubSeq(s, 1, m)
           q == SubSeq(s, m + 1, Len(s))
<1>1. p \in Seq(Docs) /\ q \in Seq(Docs) /\ Len(p) = m /\ s = p \o q
    BY CutParts, CutRestores
<1>2. Len(s) \in Nat /\ Len(t) \in Nat /\ Len(s \o t) = Len(s) + Len(t)
    BY ConcatProperties, LenProperties
<1> HIDE DEF p, q
<1>3. q \o t \in Seq(Docs) /\ s \o t = p \o (q \o t)
    BY <1>1, ConcatRegroup
<1> DEFINE u == q \o t
<1>4. u \in Seq(Docs) /\ s \o t = p \o u
    BY <1>3
<1> HIDE DEF u
<1>5. SubSeq(p \o u, m + 1, Len(p \o u)) = u
    BY <1>1, <1>4, SplitConcat
<1>6. SubSeq(s \o t, m + 1, Len(s \o t)) = q \o t
    BY <1>4, <1>5 DEF u
<1>7. m \in 0..Len(s \o t)
    BY <1>2
<1> QED
    BY <1>6, <1>7 DEF q

LEMMA UpdatesDeliver ==
    ASSUME EventInv, UpdatesInv, Deliver
    PROVE  UpdatesInv'
<1>1. /\ id \in Repls /\ id # Nothing /\ request.documents \in Seq(Docs) /\ received[id] \in Seq(Docs)
      /\ cleared \in Nat
    BY DeliverTypes, RequestFields, Constants DEF EventInv, TypeOK
<1>2. /\ id' = id /\ cleared' = cleared /\ clean' = clean
      /\ updates' = updates \o request.documents
      /\ received'[id] = received[id] \o request.documents
    BY <1>1 DEF Deliver, EventInv, TypeOK
<1>3. PICK old \in Seq(Docs) : updates = old \o Recent /\ (clean => old = <<>>)
    BY <1>1 DEF UpdatesInv
<1>4. cleared \in 0..Len(received[id])
    BY <1>1, LenProperties DEF UpdatesInv
<1>5. cleared' \in 0..Len(received'[id]) /\ Recent' = Recent \o request.documents
    <2> DEFINE s == received[id]
               t == request.documents
    <2>1. Recent = SubSeq(s, cleared + 1, Len(s))
        BY DEF Recent
    <2>2. Recent' = SubSeq(received'[id], cleared + 1, Len(received'[id]))
        BY <1>2 DEF Recent
    <2>3. s \in Seq(Docs) /\ t \in Seq(Docs) /\ cleared \in 0..Len(s) /\ received'[id] = s \o t
        BY <1>1, <1>2, <1>4
    <2> HIDE DEF s, t
    <2>4. /\ cleared \in 0..Len(s \o t)
          /\ SubSeq(s \o t, cleared + 1, Len(s \o t)) = SubSeq(s, cleared + 1, Len(s)) \o t
        BY <2>3, RecentExtends
    <2>5. cleared' \in 0..Len(received'[id])
        BY <1>2, <2>3, <2>4
    <2>6. Recent' = Recent \o t
        BY <2>1, <2>2, <2>3, <2>4
    <2> QED
        BY <2>5, <2>6 DEF t
<1>6. Recent \in Seq(Docs)
    BY <1>1, <1>4, CutParts DEF Recent
<1>7. updates' = old \o Recent'
    <2>1. updates' = (old \o Recent) \o request.documents
        BY <1>2, <1>3
    <2>2. \A s, t, u \in Seq(Docs) : (s \o t) \o u = s \o (t \o u)
        BY ConcatRegroup
    <2>3. (old \o Recent) \o request.documents = old \o (Recent \o request.documents)
        BY <1>1, <1>6, <2>2, Zenon
    <2> QED
        BY <1>5, <2>1, <2>3
<1>8. cleared' <= Len(received'[id])
    BY <1>5
<1> QED
    BY <1>1, <1>2, <1>3, <1>7, <1>8 DEF UpdatesInv

\* What the updates held they hold after an answer, at the same place.
LEMMA ItemsDeliver ==
    ASSUME EventInv, Deliver
    PROVE  /\ Len(updates) \in Nat /\ Len(updates') \in Nat /\ Len(updates) <= Len(updates')
           /\ \A i \in 1..Len(updates) : updates'[i] = updates[i]
<1>1. /\ request.documents \in Seq(Docs) /\ updates \in Seq(Docs)
      /\ updates' = updates \o request.documents
    BY RequestFields DEF EventInv, TypeOK, Deliver
<1>2. /\ Len(updates') = Len(updates) + Len(request.documents)
      /\ \A i \in 1..Len(updates) + Len(request.documents) :
             updates'[i] = IF i <= Len(updates) THEN updates[i]
                           ELSE request.documents[i - Len(updates)]
    BY <1>1, ConcatProperties
<1>3. Len(updates) \in Nat /\ Len(request.documents) \in Nat
    BY <1>1, LenProperties
<1> QED
    BY <1>2, <1>3

\* The updates are those that the wait has looked at and those it scans.
LEMMA ItemsScanned ==
    ASSUME EventInv, Deliver, wait.processed <= Len(updates)
    PROVE  Items(updates') = {updates[i] : i \in 1..wait.processed} \cup Scan
<1>1. /\ wait.processed \in Nat
      /\ Len(updates) \in Nat /\ Len(updates') \in Nat /\ Len(updates) <= Len(updates')
      /\ \A i \in 1..Len(updates) : updates'[i] = updates[i]
    BY ItemsDeliver DEF EventInv, TypeOK, Waits
<1>2. \A i \in 1..wait.processed : i \in 1..Len(updates) /\ i \in 1..Len(updates')
    BY <1>1
<1>3. 1..Len(updates') = 1..wait.processed \cup (wait.processed + 1)..Len(updates')
    BY <1>1
<1>4. {updates[i] : i \in 1..wait.processed} = {updates'[i] : i \in 1..wait.processed}
    BY <1>1, <1>2
<1> QED
    BY <1>3, <1>4 DEF Items, Scan

LEMMA WaitingStart ==
    ASSUME EventInv, DeliveryInv, WaitingInv, Start
    PROVE  WaitingInv'
<1>1. PICK r \in Repls : ~Started(r) /\ id' = r
    BY DEF Start
<1>2. /\ cleared' = 0 /\ clean' = (updates = <<>>) /\ outcome' = "none"
      /\ UNCHANGED <<request, updates, wait, received, heard>> /\ Resting
    BY DEF Start
<1>3. received[r] = <<>>
    <2>1. received[r] \in Seq(Docs) /\ Pending(r) \in Seq(Docs)
        BY DeliveredType DEF EventInv
    <2>2. Len(received[r] \o Pending(r)) <= 0
        BY <1>1, EmptySeq DEF DeliveryInv, Thins, Delivered
    <2>3. Len(received[r]) = 0
        BY <2>1, <2>2, ConcatProperties, LenProperties
    <2> QED
        BY <2>1, <2>3, EmptySeq
<1>4. Recent' = <<>> /\ Len(received'[r]) = 0
    <2>1. <<>> \in Seq(Docs) /\ Len(<<>>) = 0
        BY EmptySeq
    <2> DEFINE e == SubSeq(<<>>, 0 + 1, Len(<<>>))
    <2>2. e \in Seq(Docs) /\ Len(e) = 0
        <3>1. 0 \in 0..Len(<<>>)
            BY <2>1
        <3> QED
            BY <2>1, <3>1, CutParts
    <2> HIDE DEF e
    <2>3. e = <<>>
        BY <2>2, EmptySeq
    <2>4. Recent' = e
        BY <1>1, <1>2, <1>3 DEF Recent, e
    <2> QED
        BY <1>2, <1>3, <2>1, <2>3, <2>4
<1>5. updates \in Seq(Docs) /\ updates = updates \o <<>>
    BY ConcatEmptySeq DEF EventInv, TypeOK
<1>6. UpdatesInv'
    <2>1. updates' = updates \o Recent' /\ (clean' => updates = <<>>)
        BY <1>2, <1>4, <1>5
    <2>2. id' # Nothing /\ cleared' <= Len(received'[id'])
        BY <1>1, <1>2, <1>4, Constants
    <2> QED
        BY <1>5, <2>1, <2>2 DEF UpdatesInv
<1>7. WaitInv' /\ ResultInv'
    BY <1>2 DEF WaitInv, ResultInv, Resting, At
<1> QED
    BY <1>6, <1>7 DEF WaitingInv

LEMMA WaitingClear ==
    ASSUME EventInv, WaitingInv, ClearDocumentUpdates
    PROVE  WaitingInv'
<1>1. /\ updates # <<>> /\ updates' = <<>> /\ cleared' = Len(received[id]) /\ outcome' = "none"
      /\ UNCHANGED <<request, id, wait, received, heard>> /\ Resting
    BY DEF ClearDocumentUpdates
<1>2. id \in Repls /\ received[id] \in Seq(Docs)
    BY <1>1 DEF WaitingInv, UpdatesInv, EventInv, TypeOK
<1>3. Recent' = <<>>
    <2> DEFINE e == SubSeq(received[id], Len(received[id]) + 1, Len(received[id]))
    <2>1. e \in Seq(Docs) /\ Len(e) = Len(received[id]) - Len(received[id])
        BY <1>2, LenProperties, CutParts
    <2> HIDE DEF e
    <2>2. Len(e) = 0
        BY <1>2, <2>1, LenProperties
    <2>3. e = <<>>
        BY <2>1, <2>2, EmptySeq
    <2> QED
        BY <1>1, <2>3 DEF Recent, e
<1>4. <<>> \in Seq(Docs) /\ <<>> = <<>> \o <<>>
    BY EmptySeq, ConcatEmptySeq
<1>5. UpdatesInv'
    <2>1. cleared' <= Len(received'[id'])
        BY <1>1, <1>2, LenProperties
    <2> QED
        BY <1>1, <1>2, <1>3, <1>4, <2>1 DEF UpdatesInv
<1>6. WaitInv' /\ ResultInv'
    BY <1>1 DEF WaitInv, ResultInv, Resting, At
<1> QED
    BY <1>5, <1>6 DEF WaitingInv

LEMMA WaitingCall ==
    ASSUME EventInv, WaitingInv, NEW w \in Waits, Call(w), w.processed = 0, w.remaining = w.events
    PROVE  WaitingInv'
<1>1. /\ wait' = w /\ outcome' = "none"
      /\ UNCHANGED <<id, updates, received, heard, cleared, clean>>
    BY DEF Call, history
<1>2. UpdatesInv'
    BY <1>1 DEF WaitingInv, UpdatesInv, Recent
<1>3. Len(updates) \in Nat
    BY LenProperties DEF EventInv, TypeOK
<1>4. {updates'[i] : i \in 1..wait'.processed} = {}
    BY <1>1
<1>5. WaitInv'
    <2>1. wait'.processed <= Len(updates') /\ wait'.remaining = wait'.events
        BY <1>1, <1>3
    <2>2. wait'.remaining = wait'.events \ {updates'[i] : i \in 1..wait'.processed}
        BY <1>4, <2>1
    <2> QED
        BY <1>1, <2>1, <2>2 DEF WaitInv
<1>6. ResultInv'
    BY <1>1 DEF ResultInv
<1> QED
    BY <1>2, <1>5, <1>6 DEF WaitingInv

LEMMA WaitingTest ==
    ASSUME EventInv, DeliveryInv, WaitingInv, Test
    PROVE  WaitingInv'
<1> USE Constants
<1>1. CASE WaitFor
    <2>1. PICK a \in Levels : Call([NoWait EXCEPT !.call = "wait_for", !.level = a])
        BY <1>1 DEF WaitFor
    <2> DEFINE w == [NoWait EXCEPT !.call = "wait_for", !.level = a]
    <2>2. w \in Waits /\ w.processed = 0 /\ w.remaining = w.events
        BY RecordTypes DEF NoWait, Waits
    <2> HIDE DEF w
    <2> QED
        BY <2>1, <2>2, WaitingCall DEF w
<1>2. ASSUME NEW E \in SUBSET Docs,
             NEW c \in {"wait_for_doc_events", "wait_for_all_doc_events", "wait_for_any_doc_event"},
             NEW w, \/ w = [NoWait EXCEPT !.call = c, !.events = E, !.remaining = E]
                    \/ w = [NoWait EXCEPT !.call = c, !.level = "IDLE", !.events = E, !.remaining = E],
             Call(w)
      PROVE  WaitingInv'
    <2>1. w \in Waits /\ w.processed = 0 /\ w.remaining = w.events
        <3>1. CASE w = [NoWait EXCEPT !.call = c, !.events = E, !.remaining = E]
            BY <3>1, RecordTypes DEF NoWait, Waits, Activities
        <3>2. CASE w = [NoWait EXCEPT !.call = c, !.level = "IDLE", !.events = E, !.remaining = E]
            BY <3>2, RecordTypes DEF NoWait, Waits, Activities
        <3> QED
            BY <1>2, <3>1, <3>2
    <2> QED
        BY <1>2, <2>1, WaitingCall
<1>3. CASE WaitForDocEvents
    BY <1>2, <1>3 DEF WaitForDocEvents
<1>4. CASE WaitForContinuous
    BY <1>2, <1>4 DEF WaitForContinuous
<1> QED
    BY <1>1, <1>3, <1>4, WaitingStart, WaitingClear DEF Test

\* A call that ends without a result leaves nothing to be shown of it.
LEMMA WaitingEnds ==
    ASSUME WaitingInv, UpdatesInv', Return("timeout") \/ Return("error")
    PROVE  WaitingInv'
<1>1. Resting' /\ outcome' \in {"timeout", "error"}
    BY DEF Return, Resting, At, NoRequest
<1> QED
    BY <1>1 DEF WaitingInv, WaitInv, ResultInv

LEMMA WaitingAnswer ==
    ASSUME EventInv, WaitingInv, Answer
    PROVE  WaitingInv'
<1> USE DEF WaitingInv
<1>0. ASSUME Deliver
      PROVE  /\ UpdatesInv' /\ ~Resting /\ outcome = "none"
             /\ wait.processed \in Nat /\ wait.processed <= Len(updates)
             /\ request.activity = "STOPPED" => id' \in heard'
    <2>1. ~Resting /\ (request.activity = "STOPPED" => id' \in heard')
        BY <1>0 DEF Deliver, Resting, At
    <2> QED
        BY <1>0, <2>1, UpdatesDeliver DEF WaitInv, EventInv, TypeOK, Waits
<1> DEFINE Seen0 == {updates[i] : i \in 1..wait.processed}
           Seen1 == {updates'[i] : i \in 1..wait.processed}
<1>1. CASE PollAgain
    <2>1. Deliver /\ UNCHANGED <<wait, outcome>>
        BY <1>1 DEF PollAgain, Again
    <2>2. /\ Len(updates) \in Nat /\ Len(updates') \in Nat /\ Len(updates) <= Len(updates')
          /\ \A i \in 1..Len(updates) : updates'[i] = updates[i]
        BY <2>1, ItemsDeliver
    <2>3. Seen1 = Seen0 /\ wait.processed <= Len(updates')
        BY <1>0, <2>1, <2>2
    <2>4. WaitInv'
        BY <1>0, <2>1, <2>3 DEF WaitInv
    <2>5. ResultInv'
        BY <1>0, <2>1 DEF ResultInv
    <2> QED
        BY <1>0, <2>1, <2>4, <2>5
<1>2. CASE WaitForReturns
    <2>1. /\ Deliver /\ Resting' /\ outcome' = "status" /\ wait'.call = "wait_for"
          /\ wait'.level = request.activity
        BY <1>2 DEF WaitForReturns, Return, Resting, At, NoRequest, NoWait
    <2> QED
        BY <1>0, <2>1 DEF WaitInv, ResultInv
<1>3. CASE AssertFails
    BY <1>0, <1>3, WaitingEnds DEF AssertFails, Look
<1>4. CASE RequestFails
    <2>1. UpdatesInv'
        BY <1>4 DEF RequestFails, UpdatesInv, Recent, history
    <2> QED
        BY <1>4, <2>1, WaitingEnds DEF RequestFails
<1>5. ASSUME Seen \/ NotSeen
      PROVE  /\ Deliver /\ wait.call # "wait_for"
             /\ Items(updates') = Seen0 \cup Scan
             /\ wait.remaining = IF wait.call = "wait_for_any_doc_event" THEN wait.events
                                 ELSE wait.events \ Seen0
    <2>1. Deliver /\ wait.call # "wait_for"
        BY <1>5 DEF Seen, NotSeen, Look, Continuous
    <2> QED
        BY <1>0, <2>1, ItemsScanned DEF WaitInv
<1>6. ASSUME NEW o \in {"true", "false", "timeout"}, Return(o)
      PROVE  Resting' /\ outcome' = o /\ wait'.call = wait.call /\ wait'.events = wait.events
    BY <1>6 DEF Return, Resting, At, NoRequest, NoWait
<1> HIDE DEF Seen0
<1>7. CASE Seen
    <2>1. Deliver /\ Return("true") /\ Enough
        BY <1>7 DEF Seen, Look
    <2>2. IF wait.call = "wait_for_any_doc_event" THEN wait.events \cap Items(updates') # {}
          ELSE wait.events \subseteq Items(updates')
        BY <1>5, <1>7, <2>1 DEF Enough, Left
    <2> QED
        BY <1>0, <1>6, <2>1, <2>2 DEF WaitInv, ResultInv
<1>8. CASE GiveUp
    <2>1. /\ Deliver /\ NotSeen /\ ~Enough /\ LastTry
          /\ Return(IF wait.call = "wait_for_all_doc_events" THEN "timeout" ELSE "false")
        BY <1>8 DEF GiveUp, NotSeen, Look
    <2>2. CASE wait.call = "wait_for_doc_events"
        <3>1. id' \in heard'
            BY <1>0, <2>1, <2>2 DEF LastTry, Continuous
        <3>2. ~(wait.events \subseteq Items(updates'))
            BY <1>5, <2>1, <2>2 DEF Enough, Left
        <3>3. Return("false")
            BY <2>1, <2>2
        <3> QED
            BY <1>0, <1>6, <2>1, <2>2, <3>1, <3>2, <3>3 DEF WaitInv, ResultInv
    <2>3. CASE wait.call # "wait_for_doc_events"
        <3>1. PICK o \in {"false", "timeout"} : Return(o)
            BY <2>1
        <3>2. Resting' /\ outcome' = o /\ wait'.call = wait.call
            BY <1>6, <3>1
        <3> QED
            BY <1>0, <2>1, <2>3, <3>2 DEF WaitInv, ResultInv
    <2> QED
        BY <2>2, <2>3
<1>9. CASE TryAgain
    <2>1. /\ Deliver /\ NotSeen /\ outcome' = outcome
          /\ wait'.call = wait.call /\ wait'.events = wait.events
          /\ wait'.remaining = Left /\ wait'.processed = Len(updates')
        BY <1>9 DEF TryAgain, NotSeen, Look, Again, EventInv, TypeOK, Waits
    <2>2. Left = IF wait.call = "wait_for_any_doc_event" THEN wait.events
                 ELSE wait.events \ Items(updates')
        BY <1>5, <2>1 DEF Left
    <2>3. Len(updates') \in Nat
        BY <2>1, ItemsDeliver
    <2>4. WaitInv'
        BY <1>0, <2>1, <2>2, <2>3 DEF WaitInv, Items
    <2>5. ResultInv'
        BY <1>0, <2>1 DEF ResultInv
    <2> QED
        BY <1>0, <2>1, <2>4, <2>5
<1> QED
    BY <1>1, <1>2, <1>3, <1>4, <1>7, <1>8, <1>9 DEF Answer

LEMMA WaitingStep == EventInv /\ DeliveryInv /\ WaitingInv /\ [Next]_vars => WaitingInv'
<1> SUFFICES ASSUME EventInv, DeliveryInv, WaitingInv, [Next]_vars PROVE WaitingInv'
    OBVIOUS
<1> USE DEF client, history
<1>1. CASE UNCHANGED vars
    BY <1>1, WaitingFrame DEF vars, Resting, At
<1>2. ASSUME NEW r \in Repls, Change(r) PROVE WaitingInv'
    BY <1>2, WaitingFrame DEF Change, Resting, At
<1>3. ASSUME NEW r \in Repls, HandleChangeAdd(r) PROVE WaitingInv'
    <2>1. request'.at = request.at
        BY <1>3 DEF HandleChangeAdd, EventInv, TypeOK, Requests
    <2> QED
        BY <1>3, <2>1, WaitingFrame DEF HandleChangeAdd, Resting, At
<1>4. ASSUME NEW r \in Repls, NEW d \in Docs, Replication(r, d) \/ HandleChange(r, d)
      PROVE  WaitingInv'
    BY <1>4, WaitingFrame DEF Replication, HandleChange, Resting, At
<1>5. CASE Handle
    <2>1. ~Resting /\ ~Resting'
        BY <1>5 DEF Handle, ReadStatus, ReadError, GetReplicatedDocs, Exchange, Enumerate,
           EnumerateFails, Resting, At, EventInv, TypeOK, Requests
    <2>2. UNCHANGED <<client, history>>
        BY <1>5 DEF Handle, ReadStatus, ReadError, GetReplicatedDocs, Exchange, Enumerate,
           EnumerateFails
    <2> QED
        BY <2>1, <2>2, WaitingFrame
<1>6. CASE Poll
    <2>1. ~Resting /\ ~Resting'
        BY <1>6 DEF Poll, Resting, At, NoRequest
    <2> QED
        BY <1>6, <2>1, WaitingFrame DEF Poll
<1>7. CASE WaitForTimesOut
    <2>1. UpdatesInv'
        BY <1>7 DEF WaitForTimesOut, WaitingInv, UpdatesInv, Recent
    <2> QED
        BY <1>7, <2>1, WaitingEnds DEF WaitForTimesOut
<1> QED
    BY <1>1, <1>2, <1>3, <1>4, <1>5, <1>6, <1>7, WaitingTest, WaitingAnswer DEF Next

LEMMA WaitsAlways == Spec => [](EventInv /\ DeliveryInv /\ WaitingInv)
<1>1. Init => EventInv /\ DeliveryInv /\ WaitingInv
    BY EventInit, DeliveryInit, WaitingInit
<1>2. EventInv /\ [Next]_vars => EventInv'
    BY InvNext
<1>3. EventInv /\ EventInv' /\ DeliveryInv /\ [Next]_vars => DeliveryInv'
    BY DeliveryStep
<1>4. EventInv /\ DeliveryInv /\ WaitingInv /\ [Next]_vars => WaitingInv'
    BY WaitingStep
<1> QED
    BY <1>1, <1>2, <1>3, <1>4, PTL DEF Spec
-----------------------------------------------------------------------------
(* What a wait says                                                        *)

\* The recent documents are items of received[id] behind the first that were
\* cleared, and items of the updates.
LEMMA RecentItems ==
    ASSUME EventInv, WaitingInv, id # Nothing
    PROVE  /\ Recent \in Seq(Docs) /\ cleared \in 0..Len(received[id])
           /\ Items(Recent) \subseteq Items(updates)
           /\ clean => updates = Recent
           /\ Items(Recent) = {received[id][i] : i \in (cleared + 1)..Len(received[id])}
<1>1. id \in Repls /\ received[id] \in Seq(Docs) /\ cleared \in Nat /\ cleared <= Len(received[id])
    BY DEF EventInv, TypeOK, WaitingInv, UpdatesInv
<1>2. cleared \in 0..Len(received[id]) /\ Len(received[id]) \in Nat
    BY <1>1, LenProperties
<1>3. /\ Recent \in Seq(Docs) /\ Len(Recent) = Len(received[id]) - cleared
      /\ \A i \in 1..(Len(received[id]) - cleared) : Recent[i] = received[id][cleared + i]
    BY <1>1, <1>2, CutParts DEF Recent
<1>4. PICK old \in Seq(Docs) : updates = old \o Recent /\ (clean => old = <<>>)
    BY DEF WaitingInv, UpdatesInv
<1>5. clean => updates = Recent
    BY <1>3, <1>4, ConcatEmptySeq
<1>6. ASSUME NEW i \in 1..Len(Recent) PROVE Recent[i] \in Items(updates)
    <2>1. /\ Len(updates) = Len(old) + Len(Recent) /\ Len(old) \in Nat /\ Len(Recent) \in Nat
          /\ \A j \in 1..Len(old) + Len(Recent) :
                 updates[j] = IF j <= Len(old) THEN old[j] ELSE Recent[j - Len(old)]
        <3>1. Len(old) \in Nat /\ Len(Recent) \in Nat
            BY <1>3, LenProperties
        <3>2. /\ Len(old \o Recent) = Len(old) + Len(Recent)
              /\ \A j \in 1..Len(old) + Len(Recent) :
                     (old \o Recent)[j] = IF j <= Len(old) THEN old[j] ELSE Recent[j - Len(old)]
            BY <1>3, ConcatProperties
        <3> QED
            BY <1>4, <3>1, <3>2
    <2> DEFINE j == Len(old) + i
    <2>2. j \in 1..Len(updates) /\ ~(j <= Len(old)) /\ j - Len(old) = i
        BY <2>1
    <2> HIDE DEF j
    <2>3. updates[j] = Recent[i]
        BY <2>1, <2>2
    <2> QED
        BY <2>2, <2>3 DEF Items
<1>7. Items(Recent) = {received[id][i] : i \in (cleared + 1)..Len(received[id])}
    <2>1. ASSUME NEW i \in 1..Len(Recent)
          PROVE  \E j \in (cleared + 1)..Len(received[id]) : Recent[i] = received[id][j]
        <3>1. cleared + i \in (cleared + 1)..Len(received[id])
            BY <1>1, <1>2, <1>3
        <3> QED
            BY <1>3, <3>1
    <2>2. ASSUME NEW j \in (cleared + 1)..Len(received[id])
          PROVE  \E i \in 1..Len(Recent) : Recent[i] = received[id][j]
        <3>1. j - cleared \in 1..Len(Recent) /\ cleared + (j - cleared) = j
            BY <1>1, <1>2, <1>3
        <3> QED
            BY <1>3, <3>1
    <2> DEFINE here == {Recent[i] : i \in 1..Len(Recent)}
               there == {received[id][j] : j \in (cleared + 1)..Len(received[id])}
    <2>3. here \subseteq there
        BY <2>1
    <2>4. there \subseteq here
        BY <2>2
    <2>5. Items(Recent) = here
        BY DEF Items
    <2> HIDE DEF here
    <2>6. Items(Recent) = there
        BY <2>3, <2>4, <2>5
    <2> QED
        BY <2>6
<1> QED
    BY <1>2, <1>3, <1>5, <1>6, <1>7 DEF Items

\* What the test has received since it cleared its updates was reported since.
LEMMA RecentIsFresh ==
    ASSUME EventInv, DeliveryInv, WaitingInv, id # Nothing
    PROVE  Items(Recent) \subseteq Fresh
<1> DEFINE s == received[id]
           t == reported[id]
<1>1. /\ id \in Repls /\ s \in Seq(Docs) /\ t \in Seq(Docs) /\ Pending(id) \in Seq(Docs)
      /\ Delivered(id) = s \o Pending(id) /\ Thins(Delivered(id), t)
    BY DeliveredType DEF EventInv, TypeOK, DeliveryInv, Delivered
<1>2. cleared \in Nat /\ Items(Recent) = {s[i] : i \in (cleared + 1)..Len(s)}
    BY RecentItems DEF EventInv, TypeOK
<1>3. Fresh = {t[i] : i \in (cleared + 1)..Len(t)}
    BY DEF Fresh
<1> HIDE DEF s, t
<1>4. Thins(s, t) /\ Len(s) \in Nat /\ Len(t) \in Nat
    <2>1. Delivered(id) \in Seq(Docs)
        BY <1>1, ConcatProperties
    <2> QED
        BY <1>1, <2>1, ThinsPart, LenProperties
<1>5. ASSUME NEW i \in (cleared + 1)..Len(s) PROVE s[i] \in Fresh
    <2>1. i \in 1..Len(s)
        BY <1>2, <1>4
    <2>2. PICK j \in i..Len(t) : s[i] = t[j]
        BY <1>4, <2>1 DEF Thins
    <2>3. j \in (cleared + 1)..Len(t)
        BY <1>2, <1>4
    <2> QED
        BY <1>3, <2>2, <2>3
<1> QED
    BY <1>2, <1>5

\* Of a replicator that the test knows to have stopped it has got all.
LEMMA HeardIsComplete ==
    ASSUME EventInv, DeliveryInv, server = "jak", NEW r \in heard
    PROVE  r \in Repls /\ Stopped(r) /\ received[r] = reported[r]
<1>1. r \in Repls
    BY DEF EventInv, TypeOK
<1>2. received[r] \o <<>> = reported[r] /\ Stopped(r)
    BY <1>1 DEF DeliveryInv, Delivered
<1> QED
    BY <1>1, <1>2, DeliveredType, ConcatEmptySeq DEF EventInv

\* A wait that returns True has seen events that the replicator it waited on did
\* report since the updates were last cleared, whichever the server.
THEOREM TrueIsRightCorrect == Spec => []TrueIsRight
<1>1. ASSUME EventInv, DeliveryInv, WaitingInv, outcome = "true", clean,
             IF wait.call = "wait_for_any_doc_event" THEN wait.events \cap Items(updates) # {}
             ELSE wait.events \subseteq Items(updates)
      PROVE  IF wait.call = "wait_for_any_doc_event" THEN wait.events \cap Fresh # {}
             ELSE wait.events \subseteq Fresh
    <2>1. CASE id = Nothing
        <3>1. Items(updates) = {}
            BY <1>1, <2>1, EmptySeq DEF Items, WaitingInv, UpdatesInv
        <3> QED
            BY <1>1, <3>1
    <2>2. CASE id # Nothing
        <3>1. Items(updates) \subseteq Fresh
            BY <1>1, <2>2, RecentItems, RecentIsFresh
        <3> QED
            BY <1>1, <3>1
    <2> QED
        BY <2>1, <2>2
<1>2. EventInv /\ DeliveryInv /\ WaitingInv => TrueIsRight
    BY <1>1 DEF TrueIsRight, WaitingInv, ResultInv
<1> QED
    BY <1>2, WaitsAlways, PTL

\* wait_for_doc_events returns False only when the replicator of the Java server
\* has stopped and has not reported all the events, so that none is to come.
THEOREM FalseIsRightCorrect == Spec => []FalseIsRight
<1>1. ASSUME EventInv, DeliveryInv, WaitingInv,
             server = "jak", wait.call = "wait_for_doc_events", outcome = "false"
      PROVE  Stopped(id) /\ ~(wait.events \subseteq Fresh)
    <2>1. id \in heard /\ ~(wait.events \subseteq Items(updates))
        BY <1>1 DEF WaitingInv, ResultInv
    <2>2. id \in Repls /\ Stopped(id) /\ received[id] = reported[id]
        BY <1>1, <2>1, HeardIsComplete
    <2>3. id # Nothing
        BY <2>2, Constants
    <2>4. Fresh = {received[id][i] : i \in (cleared + 1)..Len(received[id])}
        BY <2>2, <2>3 DEF Fresh
    <2>5. Fresh \subseteq Items(updates)
        BY <1>1, <2>3, <2>4, RecentItems
    <2> QED
        BY <2>1, <2>2, <2>5
<1>2. EventInv /\ DeliveryInv /\ WaitingInv => FalseIsRight
    BY <1>1 DEF FalseIsRight
<1> QED
    BY <1>2, WaitsAlways, PTL

\* When wait_for(STOPPED) returns, the document updates are all that the replicator
\* of the Java server has reported since they were cleared, in order.
THEOREM StoppedIsCompleteCorrect == Spec => []StoppedIsComplete
<1>1. ASSUME EventInv, DeliveryInv, WaitingInv, server = "jak", clean,
             wait.call = "wait_for", wait.level = "STOPPED", outcome = "status"
      PROVE  updates = SubSeq(reported[id], cleared + 1, Len(reported[id]))
    <2>1. id \in Repls /\ received[id] = reported[id]
        BY <1>1, HeardIsComplete DEF WaitingInv, ResultInv
    <2>2. updates = Recent
        BY <1>1, <2>1, Constants, RecentItems
    <2> QED
        BY <2>1, <2>2 DEF Recent
<1>2. EventInv /\ DeliveryInv /\ WaitingInv => StoppedIsComplete
    BY <1>1 DEF StoppedIsComplete
<1> QED
    BY <1>2, WaitsAlways, PTL
=============================================================================
