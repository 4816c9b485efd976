------------------------------- MODULE Documents -------------------------------
(***************************************************************************)
(* The documents of a Sync Gateway or Edge Server as the test client's drivers*)
(* write them (client/src/cbltest/api/syncgateway.py and edgeserver.py): a   *)
(* call of the driver is one or several requests, and between them           *)
(* replicators, other clients and expiry change the same documents.  Some    *)
(* calls carry the revision the test knows and leave it to the server to     *)
(* refuse an old one; update_documents and upsert_documents put the latest   *)
(* revision in its place, and ignore what the server refuses in a bulk       *)
(* request.  Any request can fail, before or after it has taken effect.      *)
(* A document has one sequence number for its revision ID and its version    *)
(* vector; a field has the number of the revision that wrote it.             *)
(***************************************************************************)
EXTENDS Naturals, FiniteSets

CONSTANTS Docs, Fields,
          MaxSeq,  \* bound: revisions written
          MaxCalls \* bound: calls made

ASSUME BoundsAreCounts == MaxSeq \in Nat /\ MaxCalls \in Nat

VARIABLES
    store,  \* the documents of the server
    seq,    \* revisions written so far
    up,     \* the server runs
    call,   \* the call in progress, or how the last one ended; of a call for one
            \* document, the revision the test named and the one it replaced
    calls,  \* calls made
    stale   \* history: the documents of the call that it could not read, or that others
            \* changed after it read them and before it took their latest revision

vars == <<store, seq, up, call, calls, stale>>

None  == 0
Fresh == MaxSeq + 1 \* a field that the call sets
Blank  == [f \in Fields |-> 0]
Absent == [rev |-> None, live |-> FALSE, body |-> Blank]

\* A document to be written: the revision it replaces (None to create it) and its
\* new body.
DocumentUpdateEntry(rev, fields) ==
    [rev |-> rev, delete |-> FALSE, body |-> [f \in Fields |-> IF f \in fields THEN Fresh ELSE 0]]

\* An update or a deletion has a revision, a creation none.
BulkDocOperation(rev, fields, delete) ==
    [DocumentUpdateEntry(rev, fields) EXCEPT !.delete = delete /\ rev # None]

Init ==
    /\ store = [d \in Docs |-> Absent]
    /\ seq = 0
    /\ up = TRUE
    /\ call = [op |-> "none", at |-> "done", put |-> <<>>, todo |-> {}, named |-> None, gone |-> None]
    /\ calls = 0
    /\ stale = {}

At(at)   == call.at = at
Goto(at) == call' = [call EXCEPT !.at = at]
Fail     == Goto("failed")
Put      == call.put
Told     == DOMAIN Put

\* The first request of each call.
FirstOf(op) ==
    CASE op = "upsert_documents"                -> "read"
      [] op = "update_documents"                -> "rewrite"
      [] op = "bulk_doc_op"                     -> "bulk"
      [] op = "delete_cv"                       -> "check"
      [] op \in {"configure", "add_user"}       -> "kill"
      [] OTHER                                  -> "single"

BulkOps   == {"update_documents", "upsert_documents", "bulk_doc_op"}
SingleOps == {"create_document", "update_document", "put_document_with_id", "delete_document",
              "delete_cv", "purge_document", "put_sub_document", "delete_sub_document"}
AdminOps  == {"configure", "add_user"}

\* The revisions a test can name (it knows those that the document has had), and
\* the fields it passes.
Revs(op, d) ==
    CASE op \in {"create_document", "purge_document"}  -> {None}
      [] op \in BulkOps \cup {"put_document_with_id"} -> 0..store[d].rev
      [] OTHER                                         -> 1..store[d].rev

Passed(op) ==
    CASE op \in {"put_sub_document", "delete_sub_document"}             -> {{f} : f \in Fields}
      [] op \in {"delete_document", "delete_cv", "purge_document"}      -> {Fields}
      [] OTHER                                                          -> SUBSET Fields \ {{}}

Begin(op, put, named) ==
    /\ call.at \in {"done", "failed"} /\ calls < MaxCalls
    /\ calls' = calls + 1
    /\ call' = [op |-> op, at |-> FirstOf(op), put |-> put, todo |-> DOMAIN put,
                named |-> named, gone |-> None]
    /\ stale' = {}
    /\ UNCHANGED <<store, seq, up>>

BeginBulk ==
    \E op \in BulkOps, ds \in SUBSET Docs \ {{}} : \E fields \in Passed(op), revs \in [ds -> 0..seq] :
        /\ \A d \in ds : revs[d] \in Revs(op, d)
        /\ IF op = "bulk_doc_op"
           THEN \E delete \in BOOLEAN :
                    Begin(op, [d \in ds |-> BulkDocOperation(revs[d], fields, delete)], None)
           ELSE Begin(op, [d \in ds |-> DocumentUpdateEntry(revs[d], fields)], None)

BeginSingle ==
    \E op \in SingleOps, d \in Docs : \E rev \in Revs(op, d), fields \in Passed(op) :
        Begin(op, [x \in {d} |-> DocumentUpdateEntry(rev, fields)], rev)

BeginAdmin == \E op \in AdminOps : Begin(op, <<>>, None)

----------------------------------------------------------------------------
\* The server.  It takes a revision in place of the latest one only, or of none
\* where the document is not there or deleted.

Takes(d, rev) == up /\ rev \in IF store[d].live THEN {store[d].rev} ELSE {None, store[d].rev}

Written(d, body) ==
    /\ seq < MaxSeq /\ seq' = seq + 1
    /\ store' = [store EXCEPT ![d] =
           [rev |-> seq', live |-> TRUE, body |-> [f \in Fields |-> IF body[f] = Fresh THEN seq' ELSE body[f]]]]

Deleted(d) ==
    /\ seq < MaxSeq /\ seq' = seq + 1
    /\ store' = [store EXCEPT ![d] = [rev |-> seq', live |-> FALSE, body |-> Blank]]

Apply(d, e) == IF e.delete THEN store[d].live /\ Deleted(d) ELSE Written(d, e.body)

\* A replicator, another client, or the end of the document's time to live.
Other(d) ==
    /\ \/ \E fields \in SUBSET Fields \ {{}} : Written(d, DocumentUpdateEntry(None, fields).body)
       \/ store[d].live /\ Deleted(d)
    /\ stale' = IF call.at \in {"read", "rewrite"} THEN stale \cup (Told \cap {d}) ELSE stale
    /\ UNCHANGED <<up, call, calls>>

----------------------------------------------------------------------------
\* update_documents and upsert_documents

\* upsert_documents reads each document and adds the new fields; a document that
\* it cannot read, for whatever reason, becomes what it was given.
Merge(d) ==
    /\ At("read") /\ d \in call.todo
    /\ LET next == [call EXCEPT !.todo = @ \ {d}, !.at = IF call.todo = {d} THEN "rewrite" ELSE "read"]
       IN \/ /\ up /\ store[d].live
             /\ call' = [next EXCEPT !.put[d].body =
                    [f \in Fields |-> IF Put[d].body[f] = Fresh THEN Fresh ELSE store[d].body[f]]]
             /\ stale' = stale \ {d}
          \/ /\ up /\ ~store[d].live
             /\ call' = next
             /\ stale' = stale \ {d}
          \/ call' = next /\ stale' = stale \cup {d}
    /\ UNCHANGED <<store, seq, up, calls>>

\* _rewrite_rev_ids: _all_docs tells no revision of a document that is not there.
Rewrite ==
    /\ At("rewrite")
    /\ \/ /\ up /\ \A d \in Told : Put[d].rev # None => store[d].live
          /\ call' = [call EXCEPT !.at = "bulk", !.todo = Told,
                 !.put = [d \in Told |-> IF Put[d].rev = None THEN Put[d]
                                         ELSE [Put[d] EXCEPT !.rev = store[d].rev]]]
       \/ Fail
    /\ UNCHANGED <<store, seq, up, calls, stale>>

\* Bug: a document that is refused is sent again, with the revision it has now.
Bulk_Again(d) ==
    /\ At("bulk") /\ d \in call.todo
    /\ \/ up /\ Apply(d, Put[d])
       \/ up /\ UNCHANGED <<store, seq>>
    /\ call' = [call EXCEPT !.todo = @ \ {d}]
    /\ UNCHANGED <<up, calls, stale>>

\* _bulk_docs, one document after the other.  The server refuses one for its
\* revision or for any other reason (the sync function, an error of its own); that
\* is in an answer which the drivers do not look at.
Bulk(d) ==
    /\ At("bulk") /\ d \in call.todo
    /\ \/ Takes(d, Put[d].rev) /\ Apply(d, Put[d])
       \/ up /\ UNCHANGED <<store, seq>>
    /\ call' = [call EXCEPT !.todo = @ \ {d}]
    /\ UNCHANGED <<up, calls, stale>>

BulkEnds ==
    /\ At("bulk")
    /\ \/ call.todo = {} /\ Goto("done")
       \/ Fail
    /\ UNCHANGED <<store, seq, up, calls, stale>>

----------------------------------------------------------------------------
\* Calls for one document

\* Bug: the revision that is there is deleted, whichever was meant.
Check_Any(d) ==
    /\ At("check") /\ d \in Told
    /\ \/ /\ up /\ store[d].live
          /\ call' = [call EXCEPT !.at = "single", !.put[d].rev = store[d].rev]
       \/ Fail
    /\ UNCHANGED <<store, seq, up, calls, stale>>

\* _replaced_revid: the revision ID of a version vector, if it is the latest.
Check(d) ==
    /\ At("check") /\ d \in Told
    /\ \/ /\ up /\ store[d].live /\ store[d].rev = Put[d].rev
          /\ call' = [call EXCEPT !.at = "single"]
       \/ Fail
    /\ UNCHANGED <<store, seq, up, calls, stale>>

\* What the one request of the call does, if the server takes it.
CreateDocument(d) ==
    call.op = "create_document" /\ Takes(d, None) /\ Written(d, Put[d].body)

UpdateDocument(d) ==
    call.op = "update_document" /\ Takes(d, Put[d].rev) /\ Written(d, Put[d].body)

\* With a revision or, to create the document, without.
PutDocumentWithId(d) ==
    call.op = "put_document_with_id" /\ Takes(d, Put[d].rev) /\ Written(d, Put[d].body)

DeleteDocument(d) ==
    /\ call.op \in {"delete_document", "delete_cv"}
    /\ Takes(d, Put[d].rev) /\ store[d].live /\ Deleted(d)

PurgeDocument(d) ==
    /\ call.op = "purge_document" /\ up
    /\ store' = [store EXCEPT ![d] = Absent] /\ UNCHANGED seq

\* A sub-document is one field.
SubDocument(d) == CHOOSE f \in Fields : Put[d].body[f] = Fresh

PutSubDocument(d) ==
    /\ call.op = "put_sub_document" /\ Takes(d, Put[d].rev) /\ store[d].live
    /\ Written(d, [store[d].body EXCEPT ![SubDocument(d)] = Fresh])

DeleteSubDocument(d) ==
    /\ call.op = "delete_sub_document" /\ Takes(d, Put[d].rev) /\ store[d].live
    /\ Written(d, [store[d].body EXCEPT ![SubDocument(d)] = 0])

Request(d) ==
    \/ CreateDocument(d) \/ UpdateDocument(d) \/ DeleteDocument(d) \/ PurgeDocument(d)
    \/ PutDocumentWithId(d) \/ PutSubDocument(d) \/ DeleteSubDocument(d)

Single(d) ==
    /\ At("single") /\ d \in Told
    /\ \/ Request(d) /\ \E at \in {"done", "failed"} :
                            call' = [call EXCEPT !.at = at, !.gone = IF store[d].live \/ call.named # None THEN store[d].rev ELSE None]
       \/ Fail /\ UNCHANGED <<store, seq>>
    /\ UNCHANGED <<up, calls, stale>>

----------------------------------------------------------------------------
\* EdgeServer.configure_dataset and add_user: the server is killed, gets the
\* dataset's documents or the user, and starts again.

Kill ==
    /\ At("kill")
    /\ \/ up' = FALSE /\ (Goto(IF call.op = "configure" THEN "reset" ELSE "user") \/ Fail)
       \/ Fail /\ UNCHANGED up
    /\ UNCHANGED <<store, seq, calls, stale>>

ResetDb ==
    /\ At("reset")
    /\ \/ /\ store' = [d \in Docs |-> Absent]
          /\ Goto("start") \/ Fail
       \/ Fail /\ UNCHANGED store
    /\ UNCHANGED <<seq, up, calls, stale>>

AddUser ==
    /\ At("user") /\ (Goto("start") \/ Fail)
    /\ UNCHANGED <<store, seq, up, calls, stale>>

StartServer ==
    /\ At("start")
    /\ \/ up' = TRUE /\ (Goto("done") \/ Fail)
       \/ Fail /\ UNCHANGED up
    /\ UNCHANGED <<store, seq, calls, stale>>

Next ==
    \/ BeginBulk \/ BeginSingle \/ BeginAdmin
    \/ \E d \in Docs : Merge(d) \/ Bulk(d) \/ Check(d) \/ Single(d)
    \/ Rewrite \/ BulkEnds
    \/ Kill \/ ResetDb \/ AddUser \/ StartServer
    \/ \E d \in Docs : up /\ Other(d)

Spec == Init /\ [][Next]_vars

----------------------------------------------------------------------------
\* When update_document, delete_document (by revision ID or by version vector) or
\* a call for a sub-document returns, the revision it replaced is the one the test
\* named: never a newer one that came between the test's read and the call, or
\* between the two requests of the call.
NamedRevisionIsReplaced ==
    At("done") /\ call.op \in SingleOps \ {"purge_document"}
        => call.gone = call.named

\* What upsert_documents writes of a document adds the fields it was given to those
\* the document has at that moment, whoever wrote them and whenever: nothing is
\* lost to a change that comes after the revisions were taken, to a revision the test
\* knew, to a half-written batch or to a server that refuses.  The documents it
\* could not read, or that others changed between its two reads, are excepted.
\* Without a revision it only ever creates: it replaces nothing that exists.
UpsertMerges ==
    [][\A d \in Told :
          call.op = "upsert_documents" /\ call' # call /\ store'[d] # store[d] =>
              IF Put[d].rev = None THEN ~store[d].live
              ELSE d \notin stale => \A f \in Fields : store'[d].body[f] =
                       IF Put[d].body[f] = Fresh THEN store'[d].rev ELSE store[d].body[f]]_vars
=============================================================================
