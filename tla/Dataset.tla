-------------------------------- MODULE Dataset --------------------------------
(***************************************************************************)
(* How a test gets its database: CouchbaseCluster.configure_dataset, the     *)
(* calls on Sync Gateway and Couchbase Server it makes (syncgateway.py,      *)
(* syncgatewaycluster.py, couchbaseserver.py), and the cleanup after a test  *)
(* of the QE suite (tests/QE/conftest.py).                                   *)
(* The servers are modelled from how these calls use them: a bucket comes    *)
(* and goes some time after it is asked for, its indexes later still; the    *)
(* configuration of the database is in the bucket, and a Sync Gateway node   *)
(* other than the one that was called learns of it when it next polls.       *)
(***************************************************************************)
EXTENDS Naturals, FiniteSets

CONSTANTS N,       \* Sync Gateway nodes; node 1 is sync_gateways[0]
          MaxRuns  \* bound: calls of configure_dataset

ASSUME ConstantsAreCounts == N \in Nat \ {0} /\ MaxRuns \in Nat

VARIABLES
    rosmar,  \* one Sync Gateway that keeps its buckets itself
    bucket,  \* the bucket of the dataset, by its incarnation
    pending, \* indexes of a dropped incarnation are still to be removed
    index,   \* the indexes the database relies on
    loaded,  \* the incarnation that each node has the database on
    up,      \* the nodes that run
    call,    \* the call in progress, or how the last one ended
    runs,    \* calls of configure_dataset so far
    again,   \* history: it met HTTP 412
    after,   \* history: what it found, "clean" after a cleanup without failure
    gaveUp   \* history: the cleanup has swallowed a failure

servers == <<rosmar, bucket, pending, index, loaded, up>>
vars == <<servers, call, runs, again, after, gaveUp>>

First   == 1
Members == IF rosmar THEN {First} ELSE 1..N
NoBucket(inc) == [inc |-> inc, state |-> "none", conf |-> FALSE, collections |-> FALSE, docs |-> {}]
Unloaded == [inc |-> 0, online |-> FALSE]
Usable  == bucket.state = "live"

Init ==
    /\ rosmar \in BOOLEAN
    /\ bucket = NoBucket(0)
    /\ pending = FALSE
    /\ index = "none"
    /\ loaded = [n \in 1..N |-> Unloaded]
    /\ up = Members
    /\ call = [at |-> "clean", node |-> First, waiting |-> {}]
    /\ runs = 0
    /\ again = FALSE
    /\ after = "clean"
    /\ gaveUp = FALSE

At(at)   == call.at = at
Goto(at) == call' = [call EXCEPT !.at = at, !.waiting = Members]
Fail     == Goto("failed")

----------------------------------------------------------------------------
\* What the calls do to the servers.

\* DELETE /<db>, after which nothing has the configuration but the nodes that
\* have not polled.
Deleted(n) ==
    /\ loaded' = [loaded EXCEPT ![n] = Unloaded]
    /\ bucket' = IF Usable /\ loaded[n].inc = bucket.inc THEN [bucket EXCEPT !.conf = FALSE] ELSE bucket
    /\ UNCHANGED <<rosmar, pending, index, up>>

\* Bug: a bucket that is not healthy is taken for one that does not exist.
Dropped_IfHealthy ==
    /\ bucket' = IF rosmar THEN NoBucket(bucket.inc)
                 ELSE IF Usable THEN [bucket EXCEPT !.state = "deleting"] ELSE bucket
    /\ pending' = (pending \/ (~rosmar /\ index = "own"))
    /\ index' = "none"
    /\ UNCHANGED <<rosmar, loaded, up>>

\* CouchbaseCluster.drop_bucket; a bucket that does not exist is no error.
Dropped ==
    /\ bucket' = IF rosmar THEN NoBucket(bucket.inc)
                 ELSE IF bucket.state = "none" THEN bucket ELSE [bucket EXCEPT !.state = "deleting"]
    /\ pending' = (pending \/ (~rosmar /\ index = "own"))
    /\ index' = "none"
    /\ UNCHANGED <<rosmar, loaded, up>>

\* _delete_database: DELETE is sent up to four times, 403 and 404 are taken for
\* success.  ok and failed are what the caller does next.
DeleteDatabase(n, ok, failed) ==
    \/ n \in up /\ loaded[n] # Unloaded /\ Deleted(n) /\ (ok \/ failed)
    \/ n \in up /\ loaded[n] = Unloaded /\ UNCHANGED servers /\ ok
    \/ UNCHANGED servers /\ failed

----------------------------------------------------------------------------
\* configure_dataset

Begin ==
    /\ call.at \in {"clean", "configured", "touched", "failed"} /\ runs < MaxRuns
    /\ runs' = runs + 1
    /\ Goto(IF rosmar THEN "put" ELSE "bucket")
    /\ again' = FALSE
    /\ after' = IF At("clean") /\ ~gaveUp THEN "clean" ELSE "unknown"
    /\ UNCHANGED <<servers, gaveUp>>

\* create_bucket: one that exists, or is still being deleted, is left alone.
CreateBucket ==
    /\ At("bucket")
    /\ \/ /\ bucket.state = "none" /\ Goto("ready")
          /\ bucket' = [NoBucket(bucket.inc + 1) EXCEPT !.state = "warming"]
       \/ bucket.state # "none" /\ Goto("ready") /\ UNCHANGED bucket
       \/ Fail /\ UNCHANGED bucket
    /\ UNCHANGED <<rosmar, pending, index, loaded, up, runs, again, after, gaveUp>>

\* Its readiness loop; a bucket that is being deleted may still look healthy.
BucketReady ==
    /\ At("ready")
    /\ \/ bucket.state \in {"live", "deleting"} /\ Goto("collections")
       \/ Fail
    /\ UNCHANGED <<servers, runs, again, after, gaveUp>>

CreateCollections ==
    /\ At("collections")
    /\ \/ /\ Usable /\ Goto(IF again THEN "indexes" ELSE "put")
          /\ bucket' = [bucket EXCEPT !.collections = TRUE]
       \/ Fail /\ UNCHANGED bucket
    /\ UNCHANGED <<rosmar, pending, index, loaded, up, runs, again, after, gaveUp>>

\* Bug: the indexes of the dropped bucket are not waited for.
AllIndexesRemoved_Unseen ==
    /\ At("indexes") /\ Goto("put")
    /\ UNCHANGED <<servers, runs, again, after, gaveUp>>

\* _wait_for_all_indexed_removed: indexes_count sees those of the dropped bucket
\* once the new one has the collections.
AllIndexesRemoved ==
    /\ At("indexes")
    /\ \/ ~(pending /\ bucket.collections) /\ Goto("put")
       \/ pending /\ Fail
    /\ UNCHANGED <<servers, runs, again, after, gaveUp>>

\* put_database.  Sync Gateway answers 412 for a database it has; it takes the
\* indexes it finds for its own; an answer may be lost.
PutDatabase ==
    LET known == loaded[First] # Unloaded \/ (Usable /\ bucket.conf)
        b == IF rosmar /\ ~Usable THEN [NoBucket(bucket.inc + 1) EXCEPT !.state = "live"] ELSE bucket
    IN
    /\ At("put")
    /\ \/ /\ First \in up /\ known /\ ~again
          /\ Goto("delete") /\ again' = TRUE /\ UNCHANGED servers
       \/ /\ First \in up /\ ~known /\ b.state = "live"
          /\ Goto("users") \/ Fail
          /\ bucket' = [b EXCEPT !.conf = TRUE]
          /\ loaded' = [loaded EXCEPT ![First] = [inc |-> b.inc, online |-> TRUE]]
          /\ index' = IF index # "none" THEN index ELSE IF pending THEN "former" ELSE "own"
          /\ UNCHANGED <<rosmar, pending, up, again>>
       \/ Fail /\ UNCHANGED <<servers, again>>
    /\ UNCHANGED <<runs, after, gaveUp>>

DeleteIt ==
    /\ At("delete") /\ DeleteDatabase(First, Goto("drop"), Fail)
    /\ UNCHANGED <<runs, again, after, gaveUp>>

\* Bug: the database is deleted, its bucket kept.
DropIt_Keeps ==
    /\ At("drop") /\ Goto("gone")
    /\ UNCHANGED <<servers, runs, again, after, gaveUp>>

DropIt ==
    /\ At("drop")
    /\ \/ Dropped /\ (Goto("gone") \/ Fail)
       \/ UNCHANGED servers /\ Fail
    /\ UNCHANGED <<runs, again, after, gaveUp>>

\* One node passes its check of a wait on all of them; after the last one the
\* call goes on.
Passed(n, next) ==
    IF call.waiting = {n} THEN Goto(next)
    ELSE call' = [call EXCEPT !.waiting = @ \ {n}]

\* Bug: only the node that deleted the database is asked.
NoDatabases_FirstOnly(n) ==
    /\ At("gone") /\ n = First /\ n \in up /\ loaded[n] = Unloaded
    /\ Goto(IF rosmar THEN "put" ELSE "bucket")
    /\ UNCHANGED <<servers, runs, again, after, gaveUp>>

\* SyncGatewayCluster.wait_for_no_databases
NoDatabases(n) ==
    /\ At("gone") /\ n \in call.waiting
    /\ \/ /\ n \in up /\ loaded[n] = Unloaded
          /\ Passed(n, IF rosmar THEN "put" ELSE "bucket")
       \/ (n \notin up \/ loaded[n] # Unloaded) /\ Fail
    /\ UNCHANGED <<servers, runs, again, after, gaveUp>>

\* add_user, load_dataset: batches of documents, each answer looked through.
AddUsers ==
    /\ At("users")
    /\ \/ First \in up /\ loaded[First] # Unloaded /\ Goto("load")
       \/ Fail
    /\ UNCHANGED <<servers, runs, again, after, gaveUp>>

LoadDataset ==
    /\ At("load")
    /\ \/ /\ First \in up /\ Usable /\ loaded[First].inc = bucket.inc
          /\ Goto(IF Cardinality(Members) > 1 THEN "online" ELSE "configured") \/ Fail
          /\ bucket' = [bucket EXCEPT !.docs = @ \cup {runs}]
       \/ Fail /\ UNCHANGED bucket
    /\ UNCHANGED <<rosmar, pending, index, loaded, up, runs, again, after, gaveUp>>

\* SyncGatewayCluster.wait_for_db_online
DatabaseOnline(n) ==
    /\ At("online") /\ n \in call.waiting
    /\ \/ n \in up /\ loaded[n].online /\ Passed(n, "configured")
       \/ (n \notin up \/ ~loaded[n].online) /\ Fail
    /\ UNCHANGED <<servers, runs, again, after, gaveUp>>

----------------------------------------------------------------------------
\* cleanup_all_test_resources: every failure is printed and swallowed.

GiveUp(next) == gaveUp' = TRUE /\ next
Carry(next)  == UNCHANGED gaveUp /\ next

NextNode ==
    IF call.node < Cardinality(Members)
    THEN call' = [call EXCEPT !.node = @ + 1, !.at = "names", !.waiting = Members]
    ELSE Goto("buckets")

Cleanup ==
    /\ call.at \in {"configured", "touched", "failed"}
    /\ call' = [at |-> "names", node |-> First, waiting |-> Members]
    /\ gaveUp' = FALSE
    /\ UNCHANGED <<servers, runs, again, after>>

CleanNames ==
    /\ At("names")
    /\ \/ call.node \in up /\ loaded[call.node] # Unloaded /\ Carry(Goto("clean_delete"))
       \/ call.node \in up /\ loaded[call.node] = Unloaded /\ Carry(NextNode)
       \/ call.node \notin up /\ GiveUp(NextNode)
    /\ UNCHANGED <<servers, runs, again, after>>

CleanDelete ==
    /\ At("clean_delete")
    /\ DeleteDatabase(call.node, Carry(Goto("clean_gone")), GiveUp(Goto("clean_gone")))
    /\ UNCHANGED <<runs, again, after>>

CleanGone(n) ==
    /\ At("clean_gone") /\ n \in call.waiting
    /\ \/ n \in up /\ loaded[n] = Unloaded /\ UNCHANGED gaveUp
          /\ IF call.waiting = {n} THEN NextNode ELSE call' = [call EXCEPT !.waiting = @ \ {n}]
       \/ (n \notin up \/ loaded[n] # Unloaded) /\ GiveUp(NextNode)
    /\ UNCHANGED <<servers, runs, again, after>>

CleanBuckets ==
    /\ At("buckets")
    /\ \/ (rosmar \/ bucket.state = "none") /\ Carry(Goto("clean")) /\ UNCHANGED servers
       \/ ~rosmar /\ bucket.state # "none" /\ Dropped /\ Carry(Goto("clean_dropped"))
       \/ ~rosmar /\ GiveUp(Goto("clean")) /\ (Dropped \/ UNCHANGED servers)
    /\ UNCHANGED <<runs, again, after>>

\* wait_for_bucket_deleted: unhealthy, or an error, is taken for deleted.
CleanDropped ==
    /\ At("clean_dropped")
    /\ Carry(Goto("clean")) \/ (bucket.state = "deleting" /\ GiveUp(Goto("clean")))
    /\ UNCHANGED <<servers, runs, again, after>>

----------------------------------------------------------------------------
\* The test, and the servers.

\* A test writes to its bucket, deletes its database or drops its bucket.
Test ==
    /\ call.at \in {"configured", "touched"} /\ Goto("touched")
    /\ \/ /\ Usable /\ 0 \notin bucket.docs
          /\ bucket' = [bucket EXCEPT !.docs = @ \cup {0}]
          /\ UNCHANGED <<rosmar, pending, index, loaded, up>>
       \/ First \in up /\ loaded[First] # Unloaded /\ Deleted(First)
       \/ bucket.state \in {"live", "warming"} /\ Dropped
    /\ UNCHANGED <<runs, again, after, gaveUp>>

BucketChanges ==
    /\ \/ bucket.state = "warming" /\ bucket' = [bucket EXCEPT !.state = "live"]
       \/ bucket.state = "deleting" /\ bucket' = NoBucket(bucket.inc)
    /\ UNCHANGED <<rosmar, pending, index, loaded, up, call, runs, again, after, gaveUp>>

IndexesRemoved ==
    /\ pending /\ pending' = FALSE
    /\ UNCHANGED <<rosmar, bucket, index, loaded, up, call, runs, again, after, gaveUp>>

\* A node polls the buckets, and gets what it has loaded online.
Poll(n) ==
    LET inc == IF Usable /\ bucket.conf THEN bucket.inc ELSE 0 IN
    /\ n \in up /\ loaded[n].inc # inc
    /\ loaded' = [loaded EXCEPT ![n] = [inc |-> inc, online |-> FALSE]]
    /\ UNCHANGED <<rosmar, bucket, pending, index, up, call, runs, again, after, gaveUp>>

Online(n) ==
    /\ n \in up /\ loaded[n] # Unloaded /\ ~loaded[n].online
    /\ loaded' = [loaded EXCEPT ![n].online = TRUE]
    /\ UNCHANGED <<rosmar, bucket, pending, index, up, call, runs, again, after, gaveUp>>

\* A node stops, with the buckets it keeps itself; it answers again when it has
\* loaded what is configured (_wait_for_rest_api).
StopNode(n) ==
    /\ n \in up /\ up' = up \ {n}
    /\ loaded' = [loaded EXCEPT ![n] = Unloaded]
    /\ bucket' = IF rosmar THEN NoBucket(bucket.inc) ELSE bucket
    /\ UNCHANGED <<rosmar, pending, index, call, runs, again, after, gaveUp>>

StartNode(n) ==
    /\ n \in Members \ up /\ up' = up \cup {n}
    /\ loaded' = [loaded EXCEPT ![n] = IF Usable /\ bucket.conf
                                       THEN [inc |-> bucket.inc, online |-> TRUE] ELSE Unloaded]
    /\ UNCHANGED <<rosmar, bucket, pending, index, call, runs, again, after, gaveUp>>

Next ==
    \/ Begin \/ CreateBucket \/ BucketReady \/ CreateCollections \/ AllIndexesRemoved
    \/ PutDatabase \/ DeleteIt \/ DropIt \/ AddUsers \/ LoadDataset
    \/ Cleanup \/ CleanNames \/ CleanDelete \/ CleanBuckets \/ CleanDropped
    \/ Test \/ BucketChanges \/ IndexesRemoved
    \/ \E n \in 1..N : \/ NoDatabases(n) \/ DatabaseOnline(n) \/ CleanGone(n)
                       \/ Poll(n) \/ Online(n) \/ StopNode(n) \/ StartNode(n)

Spec == Init /\ [][Next]_vars

----------------------------------------------------------------------------
\* configure_dataset: it has found a database in its place (HTTP 412), or what
\* a cleanup without failure has left.
KnownStart == again \/ after = "clean"

\* configure_dataset: when it returns, every node that runs serves the new
\* database, and none one of the same name that it still had on a bucket dropped
\* before.  Without the 412 and without a cleanup nothing waits for the other
\* nodes to forget the former database, and its being online is then enough.
NodesServeTheDataset ==
    At("configured") /\ KnownStart /\ Cardinality(Members) > 1 =>
        \A n \in up : loaded[n] = [inc |-> bucket.inc, online |-> TRUE]

\* configure_dataset, CBL-4977: after a 412 the indexes that the new database
\* relies on are its own, not those of the dropped bucket that are yet to go.
IndexesExist ==
    At("configured") /\ again /\ ~rosmar /\ Usable => index = "own"

\* configure_dataset, "ensuring that it is in an empty state": the database
\* holds the dataset and no document of a former test, if a 412 made it drop the
\* bucket or a cleanup had done so.  (A database deleted without its bucket comes
\* back with its documents.)
OnlyTheDataset ==
    At("configured") /\ (again \/ (after = "clean" /\ ~rosmar)) => bucket.docs \subseteq {runs}

\* cleanup_all_test_resources: when it has printed no failure, no node has the
\* database any more or gets it back, and the bucket is gone or going.
CleanupCleans ==
    At("clean") /\ ~gaveUp =>
        /\ \A n \in 1..N : loaded[n] = Unloaded
        /\ rosmar \/ bucket.state \in {"none", "deleting"}
=============================================================================
