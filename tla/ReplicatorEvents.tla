---------------------------- MODULE ReplicatorEvents ----------------------------
(***************************************************************************)
(* How a test learns what a replicator does: one Replicator object of the   *)
(* test client (cbltest/api/replicator.py), used by one test task, polls a  *)
(* Test Server with /getReplicatorStatus while the library replicates.  The *)
(* server is the Java one, which keeps the documents in a synchronized      *)
(* listener, or the .NET one, which exchanges the listener's list.          *)
(* A document event stands for its collection, id, direction and flags.     *)
(***************************************************************************)
EXTENDS Naturals, Sequences

CONSTANTS Docs,        \* document events
          Wanted,      \* sets of them that a test may wait for
          Repls,       \* replicators the servers create, one per start()
          Nothing,     \* no replicator, no document
          MaxRetries,  \* max_retries of the waits of a continuous replicator
          Levels,      \* activity levels a test waits for with wait_for
          MaxEvents,   \* bound: events of all replicators
          MaxCalls     \* bound: waits of the test

VARIABLES
    server,         \* "jak" or "dotnet"
    continuous,     \* the mode of the Replicator object
    status,         \* library: activity and error of each replicator
    reported,       \* history: the documents the library reported, by replicator
    replicatedDocs, \* server: those its listener holds (replicatedDocs, _events)
    adding,         \* .NET: a callback that has read _events and not added yet
    id,             \* client: the replicator started last
    updates,        \* client: __document_updates
    request,        \* the status request: where it is and what it has read
    wait,           \* the call of the test that is being executed
    outcome,        \* how the last call ended
    received,       \* history: the documents the test got, by replicator
    heard,          \* history: the replicators the test knows to have stopped
    cleared,        \* history: how many documents of id were cleared away
    clean,          \* history: updates holds nothing of another replicator
    events, calls   \* how many more there may be

library  == <<status, reported>>
listener == <<replicatedDocs, adding>>
client   == <<id, updates, wait, outcome>>
history  == <<received, heard, cleared, clean>>
bounds   == <<events, calls>>
vars == <<server, continuous, bounds, library, listener, request, client, history>>

\* CONNECTING stands for OFFLINE too.
Activities == {"CONNECTING", "BUSY", "IDLE", "STOPPED"}
Status     == [activity : Activities, error : BOOLEAN]
Started(r) == status[r] # Nothing
Stopped(r) == Started(r) /\ status[r].activity = "STOPPED"

Places   == {"none", "sent", "activity", "read", "exchanged", "answered", "failed",
             "sleeping", "pausing"}
Requests == [at : Places, activity : Activities, error : BOOLEAN,
             taken : Seq(Docs), documents : Seq(Docs)]
Waits    == [call : {"none", "wait_for", "wait_for_doc_events", "wait_for_all_doc_events",
                     "wait_for_any_doc_event"},
             level : Activities, events : SUBSET Docs, remaining : SUBSET Docs,
             processed : Nat, iteration : 0..(MaxRetries - 1)]
Additions == [doc : Docs, list : {"current", "taken", "dropped"}]

ASSUME EventsAssumption ==
    /\ Nothing \notin Repls \cup Docs \cup Status \cup Additions
    /\ Wanted \subseteq SUBSET Docs
    /\ Levels \subseteq Activities
    /\ MaxRetries \in Nat \ {0}
    /\ MaxEvents \in Nat /\ MaxCalls \in Nat

At(place) == request.at = place
NoRequest == [at |-> "none", activity |-> "CONNECTING", error |-> FALSE,
              taken |-> <<>>, documents |-> <<>>]
NoWait    == [call |-> "none", level |-> "STOPPED", events |-> {}, remaining |-> {},
              processed |-> 0, iteration |-> 0]

Init ==
    /\ server \in {"jak", "dotnet"}
    /\ continuous \in BOOLEAN
    /\ status = [r \in Repls |-> Nothing]
    /\ reported = [r \in Repls |-> <<>>]
    /\ replicatedDocs = [r \in Repls |-> <<>>]
    /\ adding = [r \in Repls |-> Nothing]
    /\ id = Nothing
    /\ updates = <<>>
    /\ request = NoRequest
    /\ wait = NoWait
    /\ outcome = "none"
    /\ received = [r \in Repls |-> <<>>]
    /\ heard = {}
    /\ cleared = 0
    /\ clean = TRUE
    /\ events = MaxEvents
    /\ calls = MaxCalls

-----------------------------------------------------------------------------
(* The library: a replicator reports documents while it is busy, its        *)
(* callbacks come one after the other, and it has made them all when it     *)
(* becomes STOPPED; only a continuous one becomes idle.                    *)

Change(r) ==
    /\ Started(r) /\ ~Stopped(r)
    /\ \E s \in Status :
           /\ s # status[r]
           /\ s.error => s.activity \in {"CONNECTING", "STOPPED"}
           /\ s.activity = "IDLE" => continuous
           /\ s.activity = "STOPPED" => adding[r] = Nothing
           /\ status' = [status EXCEPT ![r] = s]
    /\ UNCHANGED <<server, continuous, bounds, reported, listener, request, client, history>>

Report(r, d) ==
    /\ Started(r) /\ status[r].activity = "BUSY"
    /\ adding[r] = Nothing
    /\ events > 0
    /\ events' = events - 1
    /\ reported' = [reported EXCEPT ![r] = Append(reported[r], d)]

\* DocReplListener.replication
Replication(r, d) ==
    /\ server = "jak"
    /\ Report(r, d)
    /\ replicatedDocs' = [replicatedDocs EXCEPT ![r] = Append(replicatedDocs[r], d)]
    /\ UNCHANGED <<server, continuous, calls, status, adding, request, client, history>>

\* HandleChange: _events is read ...
HandleChange(r, d) ==
    /\ server = "dotnet"
    /\ Report(r, d)
    /\ adding' = [adding EXCEPT ![r] = [doc |-> d, list |-> "current"]]
    /\ UNCHANGED <<server, continuous, calls, status, replicatedDocs, request, client, history>>

\* ... and the event is added to the list that was read, which may have been
\* exchanged and is then enumerated, or was already.
HandleChangeAdd(r) ==
    /\ adding[r] # Nothing
    /\ adding' = [adding EXCEPT ![r] = Nothing]
    /\ replicatedDocs' = IF adding[r].list = "current"
                         THEN [replicatedDocs EXCEPT ![r] = Append(@, adding[r].doc)]
                         ELSE replicatedDocs
    /\ request' = IF adding[r].list = "taken"
                  THEN [request EXCEPT !.taken = Append(@, adding[r].doc)]
                  ELSE request
    /\ UNCHANGED <<server, continuous, bounds, library, client, history>>

-----------------------------------------------------------------------------
(* The server: /getReplicatorStatus for the replicator id                   *)

\* getReplStatus reads one status object; the .NET handler reads the activity
\* and, from a later status, the error.
ReadStatus ==
    /\ At("sent")
    /\ request' = [request EXCEPT !.at = IF server = "jak" THEN "read" ELSE "activity",
                                  !.activity = status[id].activity,
                                  !.error = status[id].error]
    /\ UNCHANGED <<server, continuous, bounds, library, listener, client, history>>

ReadError ==
    /\ At("activity")
    /\ request' = [request EXCEPT !.at = "read", !.error = status[id].error]
    /\ UNCHANGED <<server, continuous, bounds, library, listener, client, history>>

\* Mutant: the documents are returned and kept.
GetReplicatedDocs_Keeps ==
    /\ server = "jak"
    /\ At("read")
    /\ request' = [request EXCEPT !.at = "answered", !.documents = replicatedDocs[id]]
    /\ UNCHANGED <<server, continuous, bounds, library, listener, client, history>>

\* getReplicatedDocs
GetReplicatedDocs ==
    /\ server = "jak"
    /\ At("read")
    /\ request' = [request EXCEPT !.at = "answered", !.documents = replicatedDocs[id]]
    /\ replicatedDocs' = [replicatedDocs EXCEPT ![id] = <<>>]
    /\ UNCHANGED <<server, continuous, bounds, library, adding, client, history>>

\* What becomes of the list that a callback has read, if there is such a callback.
Move(from, to) ==
    adding' = IF adding[id] # Nothing /\ adding[id].list = from
              THEN [adding EXCEPT ![id] = [doc |-> adding[id].doc, list |-> to]]
              ELSE adding

\* GetEnumerator: Interlocked.Exchange, then the enumeration, which fails when
\* it meets a list that is added to.
Exchange ==
    /\ server = "dotnet"
    /\ At("read")
    /\ request' = [request EXCEPT !.at = "exchanged", !.taken = replicatedDocs[id]]
    /\ replicatedDocs' = [replicatedDocs EXCEPT ![id] = <<>>]
    /\ Move("current", "taken")
    /\ UNCHANGED <<server, continuous, bounds, library, client, history>>

Enumerate ==
    /\ At("exchanged")
    /\ request' = [request EXCEPT !.at = "answered", !.documents = request.taken, !.taken = <<>>]
    /\ Move("taken", "dropped")
    /\ UNCHANGED <<server, continuous, bounds, library, replicatedDocs, client, history>>

EnumerateFails ==
    /\ At("exchanged")
    /\ adding[id] # Nothing /\ adding[id].list = "taken"
    /\ request' = [request EXCEPT !.at = "failed", !.taken = <<>>]
    /\ adding' = [adding EXCEPT ![id] = Nothing]
    /\ UNCHANGED <<server, continuous, bounds, library, replicatedDocs, client, history>>

-----------------------------------------------------------------------------
(* The test, between two calls                                              *)

Resting == At("none")

\* A new object; which one does not matter.
NewRepl == CHOOSE r \in Repls : ~Started(r)

\* start(): the server creates a replicator, adds the listener and starts it.
\* __document_updates stay as they are.  A test starts the object again when it
\* knows that it has stopped.
Start ==
    /\ Resting
    /\ id = Nothing \/ id \in heard
    /\ \E r \in Repls :
           /\ ~Started(r) /\ r = NewRepl
           /\ status' = [status EXCEPT ![r] = [activity |-> "CONNECTING", error |-> FALSE]]
           /\ id' = r
    /\ cleared' = 0
    /\ clean' = (updates = <<>>)
    /\ outcome' = "none"
    /\ UNCHANGED <<server, continuous, bounds, reported, listener, request, updates, wait,
                   received, heard>>

ClearDocumentUpdates ==
    /\ Resting
    /\ updates # <<>>
    /\ updates' = <<>>
    /\ cleared' = Len(received[id])
    /\ clean' = TRUE
    /\ outcome' = "none"
    /\ UNCHANGED <<server, continuous, bounds, library, listener, request, id, wait, received, heard>>

\* Mutant: is_started is not checked.
Call_NotStarted(w) ==
    /\ Resting
    /\ calls > 0
    /\ calls' = calls - 1
    /\ wait' = w
    /\ request' = [NoRequest EXCEPT !.at = "sent"]
    /\ outcome' = "none"
    /\ UNCHANGED <<server, continuous, events, library, listener, id, updates, history>>

Call(w) ==
    /\ Resting
    /\ id # Nothing
    /\ calls > 0
    /\ calls' = calls - 1
    /\ wait' = w
    /\ request' = [NoRequest EXCEPT !.at = "sent"]
    /\ outcome' = "none"
    /\ UNCHANGED <<server, continuous, events, library, listener, id, updates, history>>

WaitFor ==
    \E a \in Levels : Call([NoWait EXCEPT !.call = "wait_for", !.level = a])

WaitForDocEvents ==
    /\ ~continuous
    /\ \E E \in Wanted :
           Call([NoWait EXCEPT !.call = "wait_for_doc_events", !.events = E, !.remaining = E])

WaitForContinuous ==
    /\ continuous
    /\ \E E \in Wanted, c \in {"wait_for_all_doc_events", "wait_for_any_doc_event"} :
           Call([NoWait EXCEPT !.call = c, !.level = "IDLE", !.events = E, !.remaining = E])

-----------------------------------------------------------------------------
(* The test, in a call: what it does with an answer, up to its next await.  *)

\* Mutant: the documents of an answer replace the former ones.
Deliver_Replaces ==
    /\ At("answered")
    /\ updates' = request.documents
    /\ received' = [received EXCEPT ![id] = received[id] \o request.documents]
    /\ heard' = IF request.activity = "STOPPED" THEN heard \cup {id} ELSE heard
    /\ UNCHANGED <<server, continuous, bounds, library, listener, id, cleared, clean>>

Deliver ==
    /\ At("answered")
    /\ updates' = updates \o request.documents
    /\ received' = [received EXCEPT ![id] = received[id] \o request.documents]
    /\ heard' = IF request.activity = "STOPPED" THEN heard \cup {id} ELSE heard
    /\ UNCHANGED <<server, continuous, bounds, library, listener, id, cleared, clean>>

Return(o) ==
    /\ request' = NoRequest
    /\ wait' = [NoWait EXCEPT !.call = wait.call, !.level = wait.level, !.events = wait.events]
    /\ outcome' = o

Again(place) == request' = [NoRequest EXCEPT !.at = place] /\ UNCHANGED outcome

\* Mutant: an event too many is skipped.
Scan_SkipsOne == {updates'[i] : i \in (wait.processed + 2)..Len(updates')}

\* The events not looked at before.
Scan == {updates'[i] : i \in (wait.processed + 1)..Len(updates')}

Continuous == wait.call \in {"wait_for_all_doc_events", "wait_for_any_doc_event"}

\* wait_for, called by the test or by a wait of a continuous replicator, which
\* goes on when it returns.
PollAgain ==
    /\ Deliver
    /\ wait.call # "wait_for_doc_events"
    /\ request.activity # wait.level
    /\ Again("sleeping")
    /\ UNCHANGED wait

WaitForReturns ==
    /\ Deliver
    /\ wait.call = "wait_for"
    /\ request.activity = wait.level
    /\ Return("status")

WaitForTimesOut ==
    /\ At("sleeping")
    /\ wait.call # "wait_for_doc_events"
    /\ Return("timeout")
    /\ UNCHANGED <<server, continuous, bounds, library, listener, id, updates, history>>

\* A wait for events looks at an answer: the first one of a one-shot replicator,
\* and the idle ones of a continuous replicator.
Look ==
    /\ Deliver
    /\ wait.call = "wait_for_doc_events" \/ (Continuous /\ request.activity = "IDLE")

AssertFails == Look /\ request.error /\ Return("error")

Left == IF wait.call = "wait_for_any_doc_event" THEN wait.remaining ELSE wait.remaining \ Scan

\* Mutant: one of the events is enough for every wait.
Enough_One == wait.remaining \cap Scan # {}

Enough == IF wait.call = "wait_for_any_doc_event" THEN wait.remaining \cap Scan # {} ELSE Left = {}

Seen == Look /\ ~request.error /\ Enough /\ Return("true")

NotSeen == Look /\ ~request.error /\ ~Enough

\* Mutant: a wait of a one-shot replicator does not look at the activity.
LastTry_Never == Continuous /\ wait.iteration + 1 = MaxRetries

LastTry == IF Continuous THEN wait.iteration + 1 = MaxRetries ELSE request.activity = "STOPPED"

\* wait_for_all_doc_events raises, wait_for_any_doc_event returns None.
GiveUp ==
    /\ NotSeen /\ LastTry
    /\ Return(IF wait.call = "wait_for_all_doc_events" THEN "timeout" ELSE "false")

TryAgain ==
    /\ NotSeen /\ ~LastTry
    /\ wait' = [wait EXCEPT !.remaining = Left, !.processed = Len(updates'),
                            !.iteration = IF Continuous THEN wait.iteration + 1 ELSE 0]
    /\ Again("pausing")

Poll ==
    /\ At("sleeping") \/ At("pausing")
    /\ request' = [NoRequest EXCEPT !.at = "sent"]
    /\ UNCHANGED <<server, continuous, bounds, library, listener, client, history>>

\* The server answered with an error: send_request raises.
RequestFails ==
    /\ At("failed")
    /\ Return("error")
    /\ UNCHANGED <<server, continuous, bounds, library, listener, id, updates, history>>

-----------------------------------------------------------------------------
Handle == ReadStatus \/ ReadError \/ GetReplicatedDocs \/ Exchange \/ Enumerate \/ EnumerateFails

Answer ==
    \/ PollAgain \/ WaitForReturns \/ RequestFails
    \/ AssertFails \/ Seen \/ GiveUp \/ TryAgain

Test == Start \/ ClearDocumentUpdates \/ WaitFor \/ WaitForDocEvents \/ WaitForContinuous

Next ==
    \/ \E r \in Repls : Change(r) \/ HandleChangeAdd(r)
    \/ \E r \in Repls, d \in Docs : Replication(r, d) \/ HandleChange(r, d)
    \/ Handle \/ Answer \/ Poll \/ WaitForTimesOut \/ Test

\* The server handles a request, the test task runs when it can, and a callback
\* ends.  Nothing makes a replicator stop, or a test call.
Fairness ==
    /\ WF_vars(Handle) /\ WF_vars(Answer) /\ WF_vars(Poll)
    /\ \A r \in Repls : WF_vars(HandleChangeAdd(r))

Spec == Init /\ [][Next]_vars /\ Fairness
-----------------------------------------------------------------------------
(* Properties                                                              *)

TypeOK ==
    /\ server \in {"jak", "dotnet"} /\ continuous \in BOOLEAN
    /\ status \in [Repls -> Status \cup {Nothing}]
    /\ reported \in [Repls -> Seq(Docs)] /\ received \in [Repls -> Seq(Docs)]
    /\ replicatedDocs \in [Repls -> Seq(Docs)]
    /\ adding \in [Repls -> Additions \cup {Nothing}]
    /\ id \in Repls \cup {Nothing}
    /\ updates \in Seq(Docs)
    /\ request \in Requests
    /\ wait \in Waits
    /\ outcome \in {"none", "status", "true", "false", "timeout", "error"}
    /\ heard \in SUBSET Repls
    /\ cleared \in Nat /\ clean \in BOOLEAN
    /\ events \in 0..MaxEvents /\ calls \in 0..MaxCalls
    /\ id = Nothing => Resting

\* What the replicator has reported since the test cleared its updates.
Fresh == IF id = Nothing THEN {}
         ELSE {reported[id][i] : i \in (cleared + 1)..Len(reported[id])}

\* A wait that has seen its events is right: the replicator it waited on did
\* report them (replicator.py wait_for_doc_events, wait_for_all_doc_events,
\* wait_for_any_doc_event), if document_updates were empty when it was started.
TrueIsRight ==
    outcome = "true" /\ clean =>
        IF wait.call = "wait_for_any_doc_event" THEN wait.events \cap Fresh # {}
        ELSE wait.events \subseteq Fresh

\* wait_for_doc_events gives up only if an event will never come: the replicator
\* has stopped and did not report it (the order in which ReplicatorManager reads
\* the status and the documents, DocReplListener).
FalseIsRight ==
    server = "jak" /\ wait.call = "wait_for_doc_events" /\ outcome = "false" =>
        Stopped(id) /\ ~(wait.events \subseteq Fresh)

\* After wait_for(STOPPED), document_updates is all the replicator reported, in
\* order, as the tests that compare the two assume.
StoppedIsComplete ==
    server = "jak" /\ clean /\ wait.call = "wait_for" /\ wait.level = "STOPPED"
    /\ outcome = "status" =>
        updates = SubSeq(reported[id], cleared + 1, Len(reported[id]))

\* wait_for_doc_events, which has no timeout, ends if the replicator stops, or
\* if it has reported what the test waits for.
WaitEnds ==
    (/\ wait.call = "wait_for_doc_events" /\ ~Resting
     /\ Stopped(id) \/ (server = "jak" /\ wait.events \subseteq Fresh)) ~> Resting

\* The documents of r on their way to the test.
Pending(r) ==
    (IF r = id THEN request.documents \o request.taken ELSE <<>>)
    \o replicatedDocs[r]
    \o (IF adding[r] # Nothing /\ adding[r].list # "dropped" THEN <<adding[r].doc>> ELSE <<>>)

Mailbox == INSTANCE EventMailbox WITH
    lossy <- server = "dotnet",
    waiting <- [r \in Repls |-> Pending(r)],
    received <- received,
    stopped <- {r \in Repls : Stopped(r)},
    heard <- heard

\* The listener, the handler and the polling together are the mailbox that
\* /getReplicatorStatus promises: nothing twice, nothing out of order, nothing
\* lost by the Java server, and STOPPED comes with the last documents.
ImplementsMailbox == Mailbox!Spec

\* api.yaml: the documents are deleted after they are returned.  The .NET
\* listener (ReplicatorDocumentListener) deletes no other ones.
NoEventIsLost == \A r \in Repls : received[r] \o Pending(r) = reported[r]

\* wait_for_doc_events: "it returns True if all the events were seen" of "the
\* events to check for on the replicator", of the one that was started last.
EventsAreOfThisReplicator ==
    wait.call = "wait_for_doc_events" /\ outcome = "true" => wait.events \subseteq Fresh
=============================================================================
