----------------------------- MODULE Dataset_proofs -----------------------------
(***************************************************************************)
(* For any number of Sync Gateway nodes and of tests: what the database that *)
(* configure_dataset returns contains, whose indexes it relies on and which  *)
(* nodes serve it, and what the cleanup leaves.                              *)
(***************************************************************************)
EXTENDS Dataset, FiniteSetTheorems, TLAPS

\* What the proofs need of the types: which fields there are.
BucketShape ==
    bucket = [inc |-> bucket.inc, state |-> bucket.state, conf |-> bucket.conf,
              collections |-> bucket.collections, docs |-> bucket.docs]

CallShape == call = [at |-> call.at, node |-> call.node, waiting |-> call.waiting]

Shape == BucketShape /\ CallShape

\* A bucket that is on its way out can be as it was: it does not become usable.
Leaving == bucket.state \in {"none", "deleting"}
Empty   == bucket.docs = {} \/ Leaving

\* What the call has made sure of, or the cleanup before it.
FromNothing == again \/ (after = "clean" /\ ~rosmar)

DocsInv ==
    /\ FromNothing /\ call.at \in {"gone", "bucket", "ready", "collections", "indexes", "put", "users", "load"}
          => Empty
    /\ FromNothing /\ call.at \in {"online", "configured"} => bucket.docs \subseteq {runs}
    /\ ~rosmar /\ (call.at = "clean_dropped" \/ (call.at = "clean" /\ ~gaveUp)) => Leaving

\* The indexes of the dropped bucket: none is relied on, and once they are gone
\* none comes back.
IndexInv ==
    again /\ ~rosmar =>
        /\ call.at \in {"gone", "bucket", "ready", "collections", "indexes", "put"} => index = "none"
        /\ call.at \in {"indexes", "put"} => Usable /\ bucket.collections
        /\ call.at = "put" => ~pending
        /\ call.at \in {"users", "load", "online", "configured"} => index = "own"

LEMMA ShapeInit == Init => Shape
<1>1. Init => CallShape
    BY DEF Init, CallShape
<1>2. Init => BucketShape
    BY DEF Init, NoBucket, BucketShape
<1> QED BY <1>1, <1>2 DEF Shape

\* A call goes from step to step ...
LEMMA CallNext ==
    ASSUME CallShape, [Next]_vars
    PROVE  CallShape'
<1> USE DEF CallShape, Goto, Fail
<1>1. CASE Begin
    BY <1>1 DEF Begin
<1>2. CASE CreateBucket
    BY <1>2 DEF CreateBucket
<1>3. CASE BucketReady
    BY <1>3 DEF BucketReady
<1>4. CASE CreateCollections
    BY <1>4 DEF CreateCollections
<1>5. CASE AllIndexesRemoved
    BY <1>5 DEF AllIndexesRemoved
<1>6. CASE PutDatabase
    BY <1>6 DEF PutDatabase
<1>7. CASE DeleteIt
    BY <1>7 DEF DeleteIt, DeleteDatabase
<1>8. CASE DropIt
    BY <1>8 DEF DropIt
<1>9. CASE AddUsers
    BY <1>9 DEF AddUsers
<1>10. CASE LoadDataset
    BY <1>10 DEF LoadDataset
<1>11. CASE Cleanup
    BY <1>11 DEF Cleanup, First
<1>12. CASE CleanNames
    BY <1>12 DEF CleanNames, Carry, GiveUp, NextNode
<1>13. CASE CleanDelete
    BY <1>13 DEF CleanDelete, DeleteDatabase, Carry, GiveUp
<1>14. CASE CleanBuckets
    BY <1>14 DEF CleanBuckets, Carry, GiveUp
<1>15. CASE CleanDropped
    BY <1>15 DEF CleanDropped, Carry, GiveUp
<1>16. CASE Test
    BY <1>16 DEF Test
<1>17. CASE BucketChanges
    BY <1>17 DEF BucketChanges
<1>18. CASE IndexesRemoved
    BY <1>18 DEF IndexesRemoved
<1>19. ASSUME NEW n, NoDatabases(n) PROVE CallShape'
    BY <1>19 DEF NoDatabases, Passed
<1>20. ASSUME NEW n, DatabaseOnline(n) PROVE CallShape'
    BY <1>20 DEF DatabaseOnline, Passed
<1>21. ASSUME NEW n, CleanGone(n) PROVE CallShape'
    BY <1>21 DEF CleanGone, NextNode, GiveUp
<1>22. ASSUME NEW n, Poll(n) PROVE CallShape'
    BY <1>22 DEF Poll
<1>23. ASSUME NEW n, Online(n) PROVE CallShape'
    BY <1>23 DEF Online
<1>24. ASSUME NEW n, StopNode(n) PROVE CallShape'
    BY <1>24 DEF StopNode
<1>25. ASSUME NEW n, StartNode(n) PROVE CallShape'
    BY <1>25 DEF StartNode
<1>26. CASE UNCHANGED vars
    BY <1>26 DEF vars
<1> QED BY <1>1, <1>2, <1>3, <1>4, <1>5, <1>6, <1>7, <1>8, <1>9, <1>10, <1>11, <1>12,
           <1>13, <1>14, <1>15, <1>16, <1>17, <1>18, <1>19, <1>20, <1>21, <1>22,
           <1>23, <1>24, <1>25, <1>26 DEF Next

\* ... the bucket comes and goes ...
LEMMA BucketNext ==
    ASSUME BucketShape, [Next]_vars
    PROVE  BucketShape'
<1> USE DEF BucketShape, servers
<1>1. CASE Begin
    BY <1>1 DEF Begin
<1>2. CASE CreateBucket
    BY <1>2 DEF CreateBucket, NoBucket
<1>3. CASE BucketReady
    BY <1>3 DEF BucketReady
<1>4. CASE CreateCollections
    BY <1>4 DEF CreateCollections
<1>5. CASE AllIndexesRemoved
    BY <1>5 DEF AllIndexesRemoved
<1>6. CASE PutDatabase
    BY <1>6 DEF PutDatabase, NoBucket, Usable
<1>7. CASE DeleteIt
    BY <1>7 DEF DeleteIt, DeleteDatabase, Deleted, Usable
<1>8. CASE DropIt
    BY <1>8 DEF DropIt, Dropped, NoBucket
<1>9. CASE AddUsers
    BY <1>9 DEF AddUsers
<1>10. CASE LoadDataset
    BY <1>10 DEF LoadDataset
<1>11. CASE Cleanup
    BY <1>11 DEF Cleanup
<1>12. CASE CleanNames
    BY <1>12 DEF CleanNames
<1>13. CASE CleanDelete
    BY <1>13 DEF CleanDelete, DeleteDatabase, Deleted, Usable
<1>14. CASE CleanBuckets
    BY <1>14 DEF CleanBuckets, Dropped, NoBucket
<1>15. CASE CleanDropped
    BY <1>15 DEF CleanDropped
<1>16. CASE Test
    BY <1>16 DEF Test, Deleted, Dropped, NoBucket
<1>17. CASE BucketChanges
    BY <1>17 DEF BucketChanges, NoBucket
<1>18. CASE IndexesRemoved
    BY <1>18 DEF IndexesRemoved
<1>19. ASSUME NEW n, NoDatabases(n) PROVE BucketShape'
    BY <1>19 DEF NoDatabases
<1>20. ASSUME NEW n, DatabaseOnline(n) PROVE BucketShape'
    BY <1>20 DEF DatabaseOnline
<1>21. ASSUME NEW n, CleanGone(n) PROVE BucketShape'
    BY <1>21 DEF CleanGone
<1>22. ASSUME NEW n, Poll(n) PROVE BucketShape'
    BY <1>22 DEF Poll
<1>23. ASSUME NEW n, Online(n) PROVE BucketShape'
    BY <1>23 DEF Online
<1>24. ASSUME NEW n, StopNode(n) PROVE BucketShape'
    BY <1>24 DEF StopNode, NoBucket
<1>25. ASSUME NEW n, StartNode(n) PROVE BucketShape'
    BY <1>25 DEF StartNode
<1>26. CASE UNCHANGED vars
    BY <1>26 DEF vars
<1> QED BY <1>1, <1>2, <1>3, <1>4, <1>5, <1>6, <1>7, <1>8, <1>9, <1>10, <1>11, <1>12,
           <1>13, <1>14, <1>15, <1>16, <1>17, <1>18, <1>19, <1>20, <1>21, <1>22,
           <1>23, <1>24, <1>25, <1>26 DEF Next

LEMMA ShapeNext ==
    ASSUME Shape, [Next]_vars
    PROVE  Shape'
BY CallNext, BucketNext DEF Shape

\* What the bucket holds.
LEMMA DocsNext ==
    ASSUME Shape, DocsInv, [Next]_vars
    PROVE  DocsInv'
<1> USE DEF Shape, BucketShape, CallShape, DocsInv, FromNothing, Empty, Leaving, Goto, Fail, At, servers
<1>1. CASE Begin
    BY <1>1 DEF Begin
<1>2. CASE CreateBucket
    BY <1>2 DEF CreateBucket, NoBucket
<1>3. CASE BucketReady
    BY <1>3 DEF BucketReady
<1>4. CASE CreateCollections
    BY <1>4 DEF CreateCollections, Usable
<1>5. CASE AllIndexesRemoved
    BY <1>5 DEF AllIndexesRemoved
<1>6. CASE PutDatabase
    <2> DEFINE b == IF rosmar /\ ~Usable THEN [NoBucket(bucket.inc + 1) EXCEPT !.state = "live"] ELSE bucket
    <2>1. CASE Goto("delete") /\ again' = TRUE /\ UNCHANGED <<servers, runs, after, gaveUp>>
        BY <1>6, <2>1 DEF PutDatabase
    <2>2. CASE Fail /\ UNCHANGED <<servers, again, runs, after, gaveUp>>
        BY <1>6, <2>2 DEF PutDatabase
    <2>3. CASE /\ Goto("users") \/ Fail
               /\ bucket' = [b EXCEPT !.conf = TRUE] /\ b.state = "live"
               /\ index' = IF index # "none" THEN index ELSE IF pending THEN "former" ELSE "own"
               /\ UNCHANGED <<rosmar, pending, again, runs, after, gaveUp>>
        <3>1. CASE rosmar /\ ~Usable
            BY <1>6, <2>3, <3>1 DEF PutDatabase, NoBucket
        <3>2. CASE ~(rosmar /\ ~Usable)
            <4>1. bucket' = [bucket EXCEPT !.conf = TRUE] /\ bucket.state = "live" /\ call.at = "put"
                BY <1>6, <2>3, <3>2 DEF PutDatabase
            <4> QED BY <2>3, <4>1
        <3> QED BY <3>1, <3>2
    <2> QED BY <1>6, <2>1, <2>2, <2>3 DEF PutDatabase
<1>7. CASE DeleteIt
    BY <1>7 DEF DeleteIt, DeleteDatabase, Deleted, Usable, First
<1>8. CASE DropIt
    <2>1. CASE UNCHANGED servers /\ Fail
        BY <1>8, <2>1 DEF DropIt
    <2>2. CASE Dropped /\ (Goto("gone") \/ Fail)
        <3>1. bucket'.docs = {} \/ bucket'.state \in {"none", "deleting"}
            BY <2>2 DEF Dropped, NoBucket
        <3>2. call'.at \in {"gone", "failed"} /\ UNCHANGED <<rosmar, again, after>>
            BY <1>8, <2>2 DEF DropIt, Dropped
        <3> QED BY <3>1, <3>2
    <2> QED BY <1>8, <2>1, <2>2 DEF DropIt
<1>9. CASE AddUsers
    BY <1>9 DEF AddUsers
<1>10. CASE LoadDataset
    BY <1>10 DEF LoadDataset, Usable
<1>11. CASE Cleanup
    BY <1>11 DEF Cleanup
<1>12. CASE CleanNames
    BY <1>12 DEF CleanNames, Carry, GiveUp, NextNode
<1>13. CASE CleanDelete
    BY <1>13 DEF CleanDelete, DeleteDatabase, Deleted, Usable, Carry, GiveUp
<1>14. CASE CleanBuckets
    BY <1>14 DEF CleanBuckets, Dropped, NoBucket, Carry, GiveUp
<1>15. CASE CleanDropped
    BY <1>15 DEF CleanDropped, Carry, GiveUp
<1>16. CASE Test
    BY <1>16 DEF Test, Deleted, Dropped, NoBucket, Usable, First
<1>17. CASE BucketChanges
    BY <1>17 DEF BucketChanges, NoBucket
<1>18. CASE IndexesRemoved
    BY <1>18 DEF IndexesRemoved
<1>19. ASSUME NEW n, NoDatabases(n) PROVE DocsInv'
    BY <1>19 DEF NoDatabases, Passed
<1>20. ASSUME NEW n, DatabaseOnline(n) PROVE DocsInv'
    BY <1>20 DEF DatabaseOnline, Passed
<1>21. ASSUME NEW n, CleanGone(n) PROVE DocsInv'
    BY <1>21 DEF CleanGone, GiveUp, NextNode
<1>22. ASSUME NEW n, Poll(n) PROVE DocsInv'
    BY <1>22 DEF Poll, Usable
<1>23. ASSUME NEW n, Online(n) PROVE DocsInv'
    BY <1>23 DEF Online
<1>24. ASSUME NEW n, StopNode(n) PROVE DocsInv'
    BY <1>24 DEF StopNode, NoBucket, Unloaded
<1>25. ASSUME NEW n, StartNode(n) PROVE DocsInv'
    BY <1>25 DEF StartNode, Usable, Unloaded
<1>26. CASE UNCHANGED vars
    BY <1>26 DEF vars
<1> QED BY <1>1, <1>2, <1>3, <1>4, <1>5, <1>6, <1>7, <1>8, <1>9, <1>10, <1>11, <1>12,
           <1>13, <1>14, <1>15, <1>16, <1>17, <1>18, <1>19, <1>20, <1>21, <1>22,
           <1>23, <1>24, <1>25, <1>26 DEF Next

\* Whose indexes there are.
LEMMA IndexNext ==
    ASSUME Shape, IndexInv, [Next]_vars
    PROVE  IndexInv'
<1> USE DEF Shape, BucketShape, CallShape, IndexInv, Goto, Fail, At, servers, Usable
<1>1. CASE Begin
    BY <1>1 DEF Begin
<1>2. CASE CreateBucket
    BY <1>2 DEF CreateBucket, NoBucket
<1>3. CASE BucketReady
    BY <1>3 DEF BucketReady
<1>4. CASE CreateCollections
    BY <1>4 DEF CreateCollections, Usable
<1>5. CASE AllIndexesRemoved
    BY <1>5 DEF AllIndexesRemoved
<1>6. CASE PutDatabase
    <2> DEFINE b == IF rosmar /\ ~Usable THEN [NoBucket(bucket.inc + 1) EXCEPT !.state = "live"] ELSE bucket
    <2>1. CASE Goto("delete") /\ again' = TRUE /\ UNCHANGED <<servers, runs, after, gaveUp>>
        BY <1>6, <2>1 DEF PutDatabase
    <2>2. CASE Fail /\ UNCHANGED <<servers, again, runs, after, gaveUp>>
        BY <1>6, <2>2 DEF PutDatabase
    <2>3. CASE /\ Goto("users") \/ Fail
               /\ bucket' = [b EXCEPT !.conf = TRUE] /\ b.state = "live"
               /\ index' = IF index # "none" THEN index ELSE IF pending THEN "former" ELSE "own"
               /\ UNCHANGED <<rosmar, pending, again, runs, after, gaveUp>>
        <3>1. CASE rosmar /\ ~Usable
            BY <1>6, <2>3, <3>1 DEF PutDatabase, NoBucket
        <3>2. CASE ~(rosmar /\ ~Usable)
            <4>1. bucket' = [bucket EXCEPT !.conf = TRUE] /\ bucket.state = "live" /\ call.at = "put"
                BY <1>6, <2>3, <3>2 DEF PutDatabase
            <4>2. again /\ ~rosmar => index' = "own"
                BY <2>3, <4>1
            <4>3. call'.at \in {"users", "failed"} /\ again' = again /\ rosmar' = rosmar
                BY <2>3
            <4> QED BY <4>2, <4>3
        <3> QED BY <3>1, <3>2
    <2> QED BY <1>6, <2>1, <2>2, <2>3 DEF PutDatabase
<1>7. CASE DeleteIt
    BY <1>7 DEF DeleteIt, DeleteDatabase, Deleted, Usable, First
<1>8. CASE DropIt
    BY <1>8 DEF DropIt, Dropped, NoBucket
<1>9. CASE AddUsers
    BY <1>9 DEF AddUsers
<1>10. CASE LoadDataset
    BY <1>10 DEF LoadDataset, Usable
<1>11. CASE Cleanup
    BY <1>11 DEF Cleanup
<1>12. CASE CleanNames
    BY <1>12 DEF CleanNames, Carry, GiveUp, NextNode
<1>13. CASE CleanDelete
    BY <1>13 DEF CleanDelete, DeleteDatabase, Deleted, Usable, Carry, GiveUp
<1>14. CASE CleanBuckets
    BY <1>14 DEF CleanBuckets, Dropped, NoBucket, Carry, GiveUp
<1>15. CASE CleanDropped
    BY <1>15 DEF CleanDropped, Carry, GiveUp
<1>16. CASE Test
    BY <1>16 DEF Test, Deleted, Dropped, NoBucket, Usable, First
<1>17. CASE BucketChanges
    BY <1>17 DEF BucketChanges, NoBucket
<1>18. CASE IndexesRemoved
    BY <1>18 DEF IndexesRemoved
<1>19. ASSUME NEW n, NoDatabases(n) PROVE IndexInv'
    BY <1>19 DEF NoDatabases, Passed
<1>20. ASSUME NEW n, DatabaseOnline(n) PROVE IndexInv'
    BY <1>20 DEF DatabaseOnline, Passed
<1>21. ASSUME NEW n, CleanGone(n) PROVE IndexInv'
    BY <1>21 DEF CleanGone, GiveUp, NextNode
<1>22. ASSUME NEW n, Poll(n) PROVE IndexInv'
    BY <1>22 DEF Poll, Usable
<1>23. ASSUME NEW n, Online(n) PROVE IndexInv'
    BY <1>23 DEF Online
<1>24. ASSUME NEW n, StopNode(n) PROVE IndexInv'
    BY <1>24 DEF StopNode, NoBucket, Unloaded
<1>25. ASSUME NEW n, StartNode(n) PROVE IndexInv'
    BY <1>25 DEF StartNode, Usable, Unloaded
<1>26. CASE UNCHANGED vars
    BY <1>26 DEF vars
<1> QED BY <1>1, <1>2, <1>3, <1>4, <1>5, <1>6, <1>7, <1>8, <1>9, <1>10, <1>11, <1>12,
           <1>13, <1>14, <1>15, <1>16, <1>17, <1>18, <1>19, <1>20, <1>21, <1>22,
           <1>23, <1>24, <1>25, <1>26 DEF Next

\* configure_dataset, "ensuring that it is in an empty state": after a 412, or a
\* cleanup without failure, the database holds no document of a former test.
THEOREM OnlyTheDatasetCorrect == Spec => []OnlyTheDataset
<1>1. Init => DocsInv
    BY DEF Init, NoBucket, DocsInv, FromNothing, Empty, Leaving
<1>2. DocsInv => OnlyTheDataset
    BY DEF DocsInv, FromNothing, OnlyTheDataset, At
<1> QED BY ShapeInit, ShapeNext, DocsNext, <1>1, <1>2, PTL DEF Spec

\* configure_dataset, CBL-4977: after a 412 the database relies on its own indexes.
THEOREM IndexesExistCorrect == Spec => []IndexesExist
<1>1. Init => IndexInv
    BY DEF Init, IndexInv
<1>2. IndexInv => IndexesExist
    BY DEF IndexInv, IndexesExist, At
<1> QED BY ShapeInit, ShapeNext, IndexNext, <1>1, <1>2, PTL DEF Spec
----------------------------------------------------------------------------
\* Which nodes have the database, and what the cleanup leaves.

NodesShape ==
    /\ bucket.inc \in Nat /\ (bucket.state # "none" => bucket.inc > 0)
    /\ bucket.state \in {"none", "warming"} => ~bucket.conf
    /\ loaded \in [1..N -> [inc : Nat, online : BOOLEAN]]
    /\ up \subseteq Members
    /\ \A n \in 1..N : n \notin up => loaded[n] = Unloaded

\* A node that polls now gets the database.
Configured  == Usable /\ bucket.conf
AllUnloaded == \A n \in 1..N : loaded[n] = Unloaded
Serving(n)  == loaded[n] = [inc |-> bucket.inc, online |-> TRUE]

\* The node that is called for it is the first one to have it.
FirstInv == Configured /\ First \in up => loaded[First].inc = bucket.inc

\* Once the cleanup has deleted it on the first node, no other node gets it back,
\* and those that it has passed have not got it.
CleanInv ==
    ~gaveUp =>
    /\ call.at \in {"names", "clean_delete", "clean_gone"} =>
          /\ call.node \in 1..Cardinality(Members)
          /\ call.node # First \/ call.at = "clean_gone" => ~Configured
          /\ \A m \in 1..N : m < call.node => loaded[m] = Unloaded
    /\ call.at = "clean_gone" => \A m \in Members : m \notin call.waiting => loaded[m] = Unloaded
    /\ call.at \in {"buckets", "clean_dropped", "clean"} => ~Configured /\ AllUnloaded

\* After the wait for no databases, or the cleanup, none is left until the new one
\* is put; from then on a node has this one or none.
KnownInv ==
    /\ call.at = "gone" =>
          /\ ~Configured
          /\ \A m \in Members : m \notin call.waiting => loaded[m] = Unloaded
    /\ KnownStart /\ call.at \in {"bucket", "ready", "collections", "indexes", "put"}
       => ~Configured /\ AllUnloaded
    /\ KnownStart /\ ~rosmar /\ call.at \in {"users", "load", "online", "configured"} =>
          /\ Configured
          /\ \A n \in up : loaded[n] = Unloaded \/ loaded[n].inc = bucket.inc
          /\ call.at = "online" => \A n \in up : n \notin call.waiting => Serving(n)
          /\ call.at = "configured" /\ N > 1 => \A n \in up : Serving(n)

LEMMA MembersCount ==
    /\ Members = 1..Cardinality(Members) /\ Cardinality(Members) \in 1..N
    /\ ~rosmar => Cardinality(Members) = N
<1> USE ConstantsAreCounts
<1>1. CASE rosmar
    <2>1. Members = {1} /\ Cardinality(Members) = 1
        BY <1>1, FS_Singleton DEF Members, First
    <2> QED BY <1>1, <2>1
<1>2. CASE ~rosmar
    <2>1. Members = 1..N
        BY <1>2 DEF Members
    <2>2. Cardinality(1..N) = N
        BY FS_Interval
    <2> QED BY <2>1, <2>2
<1> QED BY <1>1, <1>2

\* The ways in which a step changes the servers.
Put(b) ==
    /\ b = IF rosmar /\ ~Usable THEN [NoBucket(bucket.inc + 1) EXCEPT !.state = "live"] ELSE bucket
    /\ First \in up /\ b.state = "live"
    /\ bucket' = [b EXCEPT !.conf = TRUE]
    /\ loaded' = [loaded EXCEPT ![First] = [inc |-> b.inc, online |-> TRUE]]
    /\ UNCHANGED <<rosmar, up>>

BucketStep ==
    /\ \/ UNCHANGED bucket
       \/ bucket.state = "none" /\ bucket' = [NoBucket(bucket.inc + 1) EXCEPT !.state = "warming"]
       \/ Usable /\ \E c : bucket' = [bucket EXCEPT !.collections = c]
       \/ Usable /\ \E d : bucket' = [bucket EXCEPT !.docs = d]
       \/ bucket.state = "warming" /\ bucket' = [bucket EXCEPT !.state = "live"]
       \/ bucket.state = "deleting" /\ bucket' = NoBucket(bucket.inc)
    /\ UNCHANGED <<rosmar, loaded, up>>

ServersStep ==
    \/ BucketStep \/ Dropped
    \/ \E n \in up : Deleted(n)
    \/ \E n \in 1..N : Poll(n) \/ Online(n) \/ StopNode(n) \/ StartNode(n)

LEMMA ServersNext ==
    ASSUME [Next]_vars
    PROVE  ServersStep \/ (PutDatabase /\ \E b : Put(b))
<1> USE DEF ServersStep, BucketStep, servers
<1>1. ASSUME UNCHANGED <<rosmar, bucket, loaded, up>> PROVE ServersStep
    BY <1>1
<1>2. CASE Begin \/ BucketReady \/ AllIndexesRemoved \/ AddUsers \/ Cleanup \/ CleanNames
           \/ CleanDropped \/ IndexesRemoved \/ UNCHANGED vars
    BY <1>1, <1>2 DEF Begin, BucketReady, AllIndexesRemoved, AddUsers, Cleanup, CleanNames,
                      CleanDropped, IndexesRemoved, vars
<1>3. ASSUME NEW n \in 1..N, NoDatabases(n) \/ DatabaseOnline(n) \/ CleanGone(n) PROVE ServersStep
    BY <1>1, <1>3 DEF NoDatabases, DatabaseOnline, CleanGone
<1>4. CASE CreateBucket \/ CreateCollections
    BY <1>4 DEF CreateBucket, CreateCollections
<1>5. CASE LoadDataset \/ BucketChanges
    BY <1>5 DEF LoadDataset, BucketChanges
<1>6. CASE DeleteIt \/ CleanDelete
    BY <1>6 DEF DeleteIt, CleanDelete, DeleteDatabase
<1>7. CASE DropIt \/ CleanBuckets
    BY <1>7 DEF DropIt, CleanBuckets
<1>8. CASE Test
    BY <1>8 DEF Test
<1>9. CASE PutDatabase
    <2> DEFINE b == IF rosmar /\ ~Usable THEN [NoBucket(bucket.inc + 1) EXCEPT !.state = "live"] ELSE bucket
    <2>1. UNCHANGED servers \/ Put(b)
        BY <1>9 DEF PutDatabase, Put
    <2>2. UNCHANGED servers => ServersStep
        BY <1>1
    <2> QED BY <1>9, <2>1, <2>2
<1>10. ASSUME NEW n \in 1..N, Poll(n) \/ Online(n) \/ StopNode(n) \/ StartNode(n) PROVE ServersStep
    BY <1>10
<1> QED BY <1>2, <1>3, <1>4, <1>5, <1>6, <1>7, <1>8, <1>9, <1>10 DEF Next

LEMMA NodesShapeInit == Init => NodesShape /\ FirstInv /\ CleanInv /\ KnownInv
<1> SUFFICES ASSUME Init PROVE NodesShape /\ FirstInv /\ CleanInv /\ KnownInv
    OBVIOUS
<1>1. /\ bucket.inc = 0 /\ bucket.state = "none" /\ ~bucket.conf /\ call.at = "clean"
      /\ loaded = [n \in 1..N |-> Unloaded] /\ up = Members
    BY DEF Init, NoBucket
<1>2. NodesShape
    BY <1>1, MembersCount DEF NodesShape, Unloaded
<1>3. ~Configured /\ AllUnloaded
    BY <1>1 DEF Configured, Usable, AllUnloaded
<1> QED BY <1>1, <1>2, <1>3 DEF FirstInv, CleanInv, KnownInv

\* A node that has the database has it by the record of its incarnation.
LEMMA NotConfigured ==
    ASSUME NodesShape, FirstInv, First \in up, loaded[First] = Unloaded
    PROVE  ~Configured
BY DEF NodesShape, FirstInv, Configured, Usable, Unloaded

\* Only putting a database makes it come to a node that has none.
LEMMA ServersKept ==
    ASSUME BucketShape, NodesShape, FirstInv, ServersStep
    PROVE  /\ NodesShape' /\ FirstInv' /\ UNCHANGED rosmar /\ Members' = Members
           /\ ~Configured => /\ ~Configured'
                             /\ \A n \in 1..N : loaded[n] = Unloaded => loaded'[n] = Unloaded
<1> USE MembersCount
<1> DEFINE Kept == /\ NodesShape' /\ FirstInv' /\ UNCHANGED rosmar /\ Members' = Members
                   /\ ~Configured => /\ ~Configured'
                                     /\ \A n \in 1..N : loaded[n] = Unloaded => loaded'[n] = Unloaded
<1>1. First \in 1..N
    BY ConstantsAreCounts DEF First
<1> up \subseteq 1..N
    <2>1. Members \subseteq 1..N
        BY ConstantsAreCounts
    <2> QED BY <2>1 DEF NodesShape
<1>2. CASE BucketStep
    <2>1. UNCHANGED <<rosmar, loaded, up>> /\ Members' = Members
        BY <1>2 DEF BucketStep, Members
    <2>2. /\ bucket'.inc \in Nat /\ (bucket'.state # "none" => bucket'.inc > 0)
          /\ bucket'.state \in {"none", "warming"} => ~bucket'.conf
          /\ Configured' <=> Configured
          /\ Configured' => bucket'.inc = bucket.inc
        BY <1>2 DEF BucketStep, BucketShape, NodesShape, NoBucket, Configured, Usable
    <2> QED BY <2>1, <2>2 DEF NodesShape, FirstInv
<1>3. CASE Dropped
    <2>1. UNCHANGED <<rosmar, loaded, up>> /\ Members' = Members
        BY <1>3 DEF Dropped, Members
    <2>2. /\ bucket'.inc \in Nat /\ (bucket'.state # "none" => bucket'.inc > 0)
          /\ bucket'.state \in {"none", "warming"} => ~bucket'.conf
          /\ ~Configured'
        BY <1>3 DEF Dropped, BucketShape, NodesShape, NoBucket, Configured, Usable
    <2> QED BY <2>1, <2>2 DEF NodesShape, FirstInv
<1>4. ASSUME NEW n \in up, Deleted(n) PROVE Kept
    <2>1. UNCHANGED <<rosmar, up>> /\ Members' = Members
        BY <1>4 DEF Deleted, Members
    <2> n \in 1..N
        OBVIOUS
    <2>2. loaded' = [loaded EXCEPT ![n] = Unloaded]
        BY <1>4 DEF Deleted
    <2>3. /\ bucket'.inc = bucket.inc /\ bucket'.state = bucket.state
          /\ bucket'.conf = bucket.conf \/ ~bucket'.conf
          /\ Usable /\ loaded[n].inc = bucket.inc => ~bucket'.conf
        BY <1>4 DEF Deleted, BucketShape
    <2>4. NodesShape'
        BY <2>1, <2>2, <2>3 DEF NodesShape, Unloaded
    <2>5. ~Configured => ~Configured'
        BY <2>3 DEF Configured, Usable
    <2>6. FirstInv'
        <3>1. CASE n = First
            BY <1>4, <2>3, <3>1 DEF FirstInv, Configured, Usable
        <3>2. CASE n # First
            BY <1>1, <2>1, <2>2, <2>3, <3>2 DEF FirstInv, Configured, Usable, NodesShape
        <3> QED BY <3>1, <3>2
    <2> QED BY <2>1, <2>2, <2>4, <2>5, <2>6 DEF NodesShape
<1>5. ASSUME NEW n \in 1..N, Poll(n) PROVE Kept
    <2> DEFINE inc == IF Configured THEN bucket.inc ELSE 0
    <2>1. /\ UNCHANGED <<rosmar, bucket, up>> /\ Members' = Members /\ n \in up
          /\ loaded[n].inc # inc /\ loaded' = [loaded EXCEPT ![n] = [inc |-> inc, online |-> FALSE]]
        BY <1>5 DEF Poll, Members, Configured
    <2>2. NodesShape'
        BY <2>1 DEF NodesShape
    <2>3. Configured' <=> Configured
        BY <2>1 DEF Configured, Usable
    <2>4. FirstInv'
        BY <1>1, <2>1, <2>3 DEF FirstInv, NodesShape
    <2> QED BY <2>1, <2>2, <2>3, <2>4 DEF NodesShape, Unloaded
<1>6. ASSUME NEW n \in 1..N, Online(n) PROVE Kept
    <2>1. /\ UNCHANGED <<rosmar, bucket, up>> /\ Members' = Members /\ n \in up
          /\ loaded[n] # Unloaded /\ loaded' = [loaded EXCEPT ![n].online = TRUE]
        BY <1>6 DEF Online, Members
    <2>2. NodesShape'
        BY <2>1 DEF NodesShape
    <2>3. Configured' <=> Configured
        BY <2>1 DEF Configured, Usable
    <2>4. FirstInv'
        BY <1>1, <2>1, <2>3 DEF FirstInv, NodesShape
    <2> QED BY <2>1, <2>2, <2>3, <2>4 DEF NodesShape
<1>7. ASSUME NEW n \in 1..N, StopNode(n) PROVE Kept
    <2>1. /\ UNCHANGED rosmar /\ Members' = Members /\ up' = up \ {n}
          /\ bucket' = (IF rosmar THEN NoBucket(bucket.inc) ELSE bucket)
          /\ loaded' = [loaded EXCEPT ![n] = Unloaded]
        BY <1>7 DEF StopNode, Members
    <2>2. /\ bucket'.inc \in Nat /\ (bucket'.state # "none" => bucket'.inc > 0)
          /\ bucket'.state \in {"none", "warming"} => ~bucket'.conf
          /\ Configured' => Configured
          /\ Configured' => bucket'.inc = bucket.inc
        BY <2>1 DEF NodesShape, NoBucket, Configured, Usable
    <2>3. NodesShape'
        BY <2>1, <2>2 DEF NodesShape, Unloaded
    <2>4. FirstInv'
        BY <1>1, <2>1, <2>2 DEF FirstInv, NodesShape
    <2> QED BY <2>1, <2>2, <2>3, <2>4 DEF NodesShape
<1>8. ASSUME NEW n \in 1..N, StartNode(n) PROVE Kept
    <2>1. /\ UNCHANGED <<rosmar, bucket>> /\ Members' = Members /\ up' = up \cup {n} /\ n \in Members
          /\ loaded' = [loaded EXCEPT ![n] = IF Configured THEN [inc |-> bucket.inc, online |-> TRUE]
                                             ELSE Unloaded]
        BY <1>8 DEF StartNode, Members, Configured
    <2>2. NodesShape'
        BY <2>1 DEF NodesShape, Unloaded
    <2>3. Configured' <=> Configured
        BY <2>1 DEF Configured, Usable
    <2>4. FirstInv'
        BY <1>1, <2>1, <2>3 DEF FirstInv, NodesShape
    <2> QED BY <2>1, <2>2, <2>3, <2>4 DEF NodesShape
<1> QED BY <1>2, <1>3, <1>4, <1>5, <1>6, <1>7, <1>8 DEF ServersStep

LEMMA PutKept ==
    ASSUME BucketShape, NodesShape, NEW b, Put(b)
    PROVE  /\ NodesShape' /\ FirstInv' /\ Configured' /\ UNCHANGED <<rosmar, up>> /\ Members' = Members
           /\ loaded'[First].inc = bucket'.inc
           /\ \A n \in 1..N : n # First => loaded'[n] = loaded[n]
<1>1. First \in 1..N /\ First \in Members
    BY MembersCount, ConstantsAreCounts DEF First
<1>2. UNCHANGED <<rosmar, up>> /\ Members' = Members /\ First \in up /\ b.state = "live"
    BY DEF Put, Members
<1>3. b.inc \in Nat /\ b.inc > 0
    BY <1>2 DEF Put, NodesShape, NoBucket
<1>4. bucket' = [b EXCEPT !.conf = TRUE]
    BY DEF Put
<1>5. bucket'.inc = b.inc /\ bucket'.state = "live" /\ bucket'.conf
    BY <1>2, <1>4 DEF Put, NoBucket, BucketShape
<1>6. loaded' = [loaded EXCEPT ![First] = [inc |-> b.inc, online |-> TRUE]]
    BY DEF Put
<1>7. NodesShape'
    BY <1>1, <1>2, <1>3, <1>5, <1>6 DEF NodesShape
<1> QED BY <1>1, <1>2, <1>5, <1>6, <1>7 DEF NodesShape, FirstInv, Configured, Usable

\* Once the first node is without the database, none gets it back in the cleanup.
LEMMA CleanNext ==
    ASSUME Shape, NodesShape, FirstInv, CleanInv, [Next]_vars
    PROVE  CleanInv'
<1> USE DEF Shape, CallShape, Goto, Fail, At
<1>1. First = 1 /\ \A n \in Members : n \in 1..N
    BY MembersCount, ConstantsAreCounts DEF First
<1>2. CASE call'.at \notin {"names", "clean_delete", "clean_gone", "buckets", "clean_dropped", "clean"}
    BY <1>2 DEF CleanInv
<1>3. CASE gaveUp'
    BY <1>3 DEF CleanInv
<1>4. CASE UNCHANGED <<call, gaveUp>> /\ ServersStep
    <2>1. /\ Members' = Members
          /\ ~Configured => /\ ~Configured'
                            /\ \A n \in 1..N : loaded[n] = Unloaded => loaded'[n] = Unloaded
        BY <1>4, ServersKept
    <2>2. UNCHANGED <<call, gaveUp>>
        BY <1>4
    <2>3. ASSUME ~gaveUp, call.at \in {"names", "clean_delete"} PROVE CleanInv'
        <3>1. \A m \in 1..N : m < call.node => loaded'[m] = Unloaded
            <4>1. CASE call.node = First
                BY <1>1, <4>1
            <4>2. CASE call.node # First
                BY <2>1, <2>3, <4>2 DEF CleanInv
            <4> QED BY <4>1, <4>2
        <3> QED BY <2>1, <2>2, <2>3, <3>1 DEF CleanInv
    <2>4. ASSUME ~gaveUp, call.at = "clean_gone" PROVE CleanInv'
        <3>1. \A m \in Members : m \notin call.waiting => loaded'[m] = Unloaded
            BY <1>1, <2>1, <2>4 DEF CleanInv
        <3> QED BY <2>1, <2>2, <2>4, <3>1 DEF CleanInv
    <2>5. ASSUME ~gaveUp, call.at \in {"buckets", "clean_dropped", "clean"} PROVE CleanInv'
        BY <2>1, <2>2, <2>5 DEF CleanInv, AllUnloaded
    <2> QED BY <2>2, <2>3, <2>4, <2>5, <1>2, <1>3
<1>5. CASE Cleanup
    <2>1. call'.at = "names" /\ call'.node = 1 /\ UNCHANGED Members
        BY <1>1, <1>5 DEF Cleanup, servers, Members
    <2>2. 1 \in 1..Cardinality(Members)
        BY MembersCount, ConstantsAreCounts
    <2>3. \A m \in 1..N : ~(m < 1)
        OBVIOUS
    <2> QED BY <1>1, <2>1, <2>2, <2>3 DEF CleanInv
\* The cleanup has come to the end of node k.
<1>6. ASSUME NextNode, UNCHANGED gaveUp, UNCHANGED servers, ~gaveUp,
             call.at \in {"names", "clean_delete", "clean_gone"},
             ~Configured, loaded[call.node] = Unloaded
      PROVE  CleanInv'
    <2>1. /\ UNCHANGED <<Configured, Members, loaded>>
        BY <1>6 DEF servers, Configured, Usable, Members
    <2>2. /\ call.node \in 1..Cardinality(Members)
          /\ \A m \in 1..N : m <= call.node => loaded[m] = Unloaded
        BY <1>6, MembersCount DEF CleanInv
    <2>3. CASE call.node < Cardinality(Members)
        <3>1. call'.at = "names" /\ call'.node = call.node + 1
            BY <1>6, <2>3 DEF NextNode
        <3>2. call.node + 1 \in 1..Cardinality(Members)
            BY <2>2, <2>3, MembersCount, ConstantsAreCounts
        <3>3. \A m \in 1..N : m < call.node + 1 => loaded[m] = Unloaded
            BY <2>2, MembersCount, ConstantsAreCounts
        <3> QED BY <1>6, <2>1, <3>1, <3>2, <3>3 DEF CleanInv
    <2>4. CASE ~(call.node < Cardinality(Members))
        <3>1. call'.at = "buckets"
            BY <1>6, <2>4 DEF NextNode
        <3>2. \A m \in 1..N : loaded[m] = Unloaded
            <4> SUFFICES ASSUME NEW m \in 1..N, m \notin up PROVE loaded[m] = Unloaded
                <5>1. \A m \in up : m <= call.node
                    BY <2>2, <2>4, MembersCount, ConstantsAreCounts DEF NodesShape
                <5> QED BY <2>2, <5>1
            <4> QED BY DEF NodesShape
        <3> QED BY <1>6, <2>1, <3>1, <3>2 DEF CleanInv, AllUnloaded
    <2> QED BY <2>3, <2>4
<1>7. CASE CleanNames /\ ~gaveUp'
    <2>1. UNCHANGED servers /\ call.at = "names" /\ ~gaveUp /\ UNCHANGED gaveUp
        BY <1>7 DEF CleanNames, Carry, GiveUp
    <2>2. CASE Goto("clean_delete")
        <3>1. UNCHANGED <<Configured, Members, loaded>>
            BY <2>1 DEF servers, Configured, Usable, Members
        <3> QED BY <2>1, <2>2, <3>1 DEF CleanInv
    <2>3. CASE call.node \in up /\ loaded[call.node] = Unloaded /\ NextNode
        <3>1. ~Configured
            BY <2>1, <2>3, NotConfigured DEF CleanInv
        <3> QED BY <1>6, <2>1, <2>3, <3>1
    <2> QED BY <1>7, <2>2, <2>3 DEF CleanNames, Carry, GiveUp
<1>8. CASE CleanDelete /\ ~gaveUp'
    <2>1. /\ call.at = "clean_delete" /\ Goto("clean_gone") /\ ~gaveUp /\ UNCHANGED gaveUp
          /\ call.node \in up
          /\ \/ loaded[call.node] # Unloaded /\ Deleted(call.node)
             \/ loaded[call.node] = Unloaded /\ UNCHANGED servers
        BY <1>8 DEF CleanDelete, DeleteDatabase, Carry, GiveUp
    <2>2. ServersStep
        BY <2>1 DEF ServersStep, BucketStep, servers
    <2>3. ~Configured'
        <3>1. CASE call.node # First
            BY <2>1, <2>2, <3>1, ServersKept DEF CleanInv
        <3>2. CASE call.node = First /\ loaded[First] = Unloaded
            BY <2>1, <2>2, <3>2, ServersKept, NotConfigured
        <3>3. CASE call.node = First /\ Deleted(First)
            BY <2>1, <3>3 DEF Deleted, FirstInv, Configured, Usable, BucketShape
        <3> QED BY <2>1, <3>1, <3>2, <3>3
    <2>4. \A m \in 1..N : m < call.node => loaded'[m] = Unloaded
        <3>1. CASE call.node = First
            BY <1>1, <3>1
        <3>2. CASE call.node # First
            BY <2>1, <2>2, <3>2, ServersKept DEF CleanInv
        <3> QED BY <3>1, <3>2
    <2>5. /\ call'.at = "clean_gone" /\ call'.node = call.node /\ call'.waiting = Members
          /\ Members' = Members
        BY <2>1, <2>2, ServersKept
    <2>6. call.node \in 1..Cardinality(Members)
        BY <2>1 DEF CleanInv
    <2> QED BY <2>3, <2>4, <2>5, <2>6 DEF CleanInv
<1>9. ASSUME NEW n \in 1..N, CleanGone(n), ~gaveUp' PROVE CleanInv'
    <2>1. /\ UNCHANGED servers /\ call.at = "clean_gone" /\ ~gaveUp /\ UNCHANGED gaveUp
          /\ n \in call.waiting /\ loaded[n] = Unloaded
          /\ IF call.waiting = {n} THEN NextNode ELSE call' = [call EXCEPT !.waiting = call.waiting \ {n}]
        BY <1>9 DEF CleanGone, GiveUp
    <2>2. /\ UNCHANGED <<Configured, Members, loaded>> /\ ~Configured
          /\ \A m \in Members : m \notin call.waiting => loaded[m] = Unloaded
          /\ call.node \in 1..Cardinality(Members)
          /\ \A m \in 1..N : m < call.node => loaded[m] = Unloaded
        BY <2>1 DEF servers, Configured, Usable, Members, CleanInv
    <2>3. CASE call.waiting = {n}
        <3>1. loaded[call.node] = Unloaded
            BY <2>1, <2>2, <2>3, MembersCount
        <3> QED BY <1>6, <2>1, <2>2, <2>3, <3>1
    <2>4. CASE call.waiting # {n}
        <3>1. call'.at = "clean_gone" /\ call'.node = call.node /\ call'.waiting = call.waiting \ {n}
            BY <2>1, <2>4
        <3> QED BY <2>1, <2>2, <3>1 DEF CleanInv
    <2> QED BY <2>3, <2>4
<1>10. CASE (CleanBuckets \/ CleanDropped) /\ ~gaveUp'
    <2>1. /\ call.at \in {"buckets", "clean_dropped"} /\ call'.at \in {"clean", "clean_dropped"}
          /\ ~gaveUp /\ ServersStep
        <3>1. CASE CleanBuckets
            <4>1. call.at = "buckets" /\ call'.at \in {"clean", "clean_dropped"}
                  /\ (UNCHANGED servers \/ Dropped)
                BY <3>1 DEF CleanBuckets, Carry, GiveUp
            <4>2. ~gaveUp
                BY <1>10, <3>1 DEF CleanBuckets, Carry, GiveUp
            <4> QED BY <4>1, <4>2 DEF ServersStep, BucketStep, servers
        <3>2. CASE CleanDropped
            <4>1. call.at = "clean_dropped" /\ call'.at = "clean" /\ UNCHANGED servers
                BY <3>2 DEF CleanDropped, Carry, GiveUp
            <4>2. ~gaveUp
                BY <1>10, <3>2 DEF CleanDropped, Carry, GiveUp
            <4> QED BY <4>1, <4>2 DEF ServersStep, BucketStep, servers
        <3> QED BY <1>10, <3>1, <3>2
    <2>2. ~Configured /\ AllUnloaded
        BY <2>1 DEF CleanInv
    <2> QED BY <2>1, <2>2, ServersKept DEF CleanInv, AllUnloaded
<1>11. CASE Begin \/ CreateBucket \/ BucketReady \/ CreateCollections \/ AllIndexesRemoved
    BY <1>2, <1>11 DEF Begin, CreateBucket, BucketReady, CreateCollections, AllIndexesRemoved
<1>12. CASE PutDatabase \/ DeleteIt \/ DropIt \/ AddUsers \/ LoadDataset \/ Test
    BY <1>2, <1>12 DEF PutDatabase, DeleteIt, DeleteDatabase, DropIt, AddUsers, LoadDataset, Test
<1>13. ASSUME NEW n \in 1..N, NoDatabases(n) \/ DatabaseOnline(n) PROVE CleanInv'
    BY <1>2, <1>13 DEF NoDatabases, DatabaseOnline, Passed
<1>14. CASE BucketChanges \/ IndexesRemoved \/ UNCHANGED vars
    BY <1>4, <1>14 DEF BucketChanges, IndexesRemoved, vars, servers, ServersStep, BucketStep
<1>15. ASSUME NEW n \in 1..N, Poll(n) \/ Online(n) \/ StopNode(n) \/ StartNode(n) PROVE CleanInv'
    BY <1>4, <1>15 DEF Poll, Online, StopNode, StartNode, ServersStep
<1> QED BY <1>3, <1>5, <1>7, <1>8, <1>9, <1>10, <1>11, <1>12, <1>13, <1>14, <1>15 DEF Next

\* After a 412, or a cleanup, a node has the database that is put or none.
LEMMA KnownNext ==
    ASSUME Shape, NodesShape, FirstInv, CleanInv, KnownInv, [Next]_vars
    PROVE  KnownInv'
<1> USE DEF Shape, CallShape, Goto, Fail, At
<1> DEFINE Preparing == {"bucket", "ready", "collections", "indexes", "put"}
           Done      == {"users", "load", "online", "configured"}
           Moves(m)  == \/ loaded'[m] = loaded[m]
                        \/ /\ loaded[m] # Unloaded
                           /\ loaded'[m] = [inc |-> loaded[m].inc, online |-> TRUE]
                        \/ ~Serving(m) /\ loaded'[m].inc = bucket'.inc
<1>1. CASE call'.at \notin Preparing \cup Done \cup {"gone"}
    BY <1>1 DEF KnownInv
\* A call that still prepares the bucket.
<1>2. ASSUME ServersStep, call'.at \in Preparing, KnownStart' => ~Configured /\ AllUnloaded
      PROVE  KnownInv'
    BY <1>2, ServersKept DEF KnownInv, AllUnloaded
<1>3. CASE Begin
    <2>1. /\ call'.at \in {"put", "bucket"} /\ ServersStep
          /\ KnownStart' => call.at = "clean" /\ ~gaveUp
        BY <1>3 DEF Begin, KnownStart, ServersStep, BucketStep, servers
    <2> QED BY <1>2, <2>1 DEF CleanInv
<1>4. CASE CreateBucket \/ BucketReady \/ CreateCollections \/ AllIndexesRemoved
    <2>1. call.at \in Preparing /\ call'.at \in Preparing \cup {"failed"}
        BY <1>4 DEF CreateBucket, BucketReady, CreateCollections, AllIndexesRemoved
    <2>2. UNCHANGED <<again, after>>
        BY <1>4 DEF CreateBucket, BucketReady, CreateCollections, AllIndexesRemoved
    <2>3. ServersStep
        BY <1>4 DEF CreateBucket, BucketReady, CreateCollections, AllIndexesRemoved,
                    ServersStep, BucketStep, servers
    <2>4. KnownStart' => ~Configured /\ AllUnloaded
        BY <2>1, <2>2 DEF KnownInv, KnownStart
    <2> QED BY <1>1, <1>2, <2>1, <2>3, <2>4
<1>13. up \subseteq 1..N
    <2>1. Members \subseteq 1..N
        BY MembersCount, ConstantsAreCounts
    <2> QED BY <2>1 DEF NodesShape
<1>5. CASE PutDatabase
    <2> DEFINE b == IF rosmar /\ ~Usable THEN [NoBucket(bucket.inc + 1) EXCEPT !.state = "live"] ELSE bucket
    <2>0. /\ call.at = "put" /\ UNCHANGED after
          /\ \/ Goto("delete") \/ Goto("failed")
             \/ Goto("users") /\ Put(b) /\ UNCHANGED again
        BY <1>5 DEF PutDatabase, Put
    <2> HIDE DEF b
    <2>1. CASE Goto("delete") \/ Goto("failed")
        <3>1. call'.at \in {"delete", "failed"}
            BY <2>1
        <3> QED BY <1>1, <3>1
    <2>2. CASE Goto("users") /\ Put(b) /\ UNCHANGED again
        <3>1. call'.at = "users" /\ call.at = "put" /\ (KnownStart' => KnownStart) /\ Put(b)
            BY <2>0, <2>2 DEF KnownStart
        <3>2. KnownStart => AllUnloaded
            BY <3>1 DEF KnownInv
        <3>3. ASSUME KnownStart
              PROVE  Configured' /\ \A n \in up' : loaded'[n] = Unloaded \/ loaded'[n].inc = bucket'.inc
            <4>1. up' \subseteq 1..N
                BY <1>13, <3>1, PutKept
            <4> QED BY <3>1, <3>2, <3>3, <4>1, PutKept DEF AllUnloaded
        <3> QED BY <3>1, <3>3 DEF KnownInv
    <2> QED BY <2>0, <2>1, <2>2
<1>6. CASE DropIt
    <2>1. CASE call'.at = "gone"
        <3>1. Dropped /\ Goto("gone")
            <4>1. (Dropped /\ (Goto("gone") \/ Fail)) \/ Fail
                BY <1>6 DEF DropIt
            <4>2. ~Fail
                BY <2>1
            <4> QED BY <4>1, <4>2
        <3>3. call'.waiting = Members /\ Members' = Members
            BY <3>1 DEF Dropped, Members
        <3>2. ~Configured'
            BY <3>1 DEF Dropped, Configured, Usable, NoBucket, BucketShape
        <3> QED BY <2>1, <3>2, <3>3 DEF KnownInv
    <2>2. CASE call'.at # "gone"
        BY <1>1, <1>6, <2>2 DEF DropIt
    <2> QED BY <2>1, <2>2
\* Node n passes a wait on all of them.
<1>7. ASSUME NEW n \in 1..N, NoDatabases(n) PROVE KnownInv'
    <2>1. /\ UNCHANGED servers /\ call.at = "gone" /\ n \in call.waiting
          /\ \/ call'.at = "failed"
             \/ /\ loaded[n] = Unloaded /\ call.waiting = {n} /\ call'.at \in {"put", "bucket"}
             \/ /\ loaded[n] = Unloaded /\ call'.at = "gone" /\ call'.waiting = call.waiting \ {n}
        BY <1>7 DEF NoDatabases, Passed
    <2>2. ServersStep /\ UNCHANGED <<Configured, Members, loaded>>
        BY <2>1 DEF ServersStep, BucketStep, servers, Configured, Usable, Members
    <2>3. ~Configured /\ \A m \in Members : m \notin call.waiting => loaded[m] = Unloaded
        BY <2>1 DEF KnownInv
    <2>4. CASE call'.at = "failed"
        BY <1>1, <2>4
    <2>5. CASE loaded[n] = Unloaded /\ call.waiting = {n} /\ call'.at \in {"put", "bucket"}
        <3>1. AllUnloaded
            <4>1. \A m \in up : loaded[m] = Unloaded
                BY <2>3, <2>5 DEF NodesShape
            <4> QED BY <4>1 DEF AllUnloaded, NodesShape
        <3> QED BY <1>2, <2>2, <2>3, <2>5, <3>1
    <2>6. CASE loaded[n] = Unloaded /\ call'.at = "gone" /\ call'.waiting = call.waiting \ {n}
        BY <2>2, <2>3, <2>6 DEF KnownInv
    <2> QED BY <2>1, <2>4, <2>5, <2>6
<1>8. ASSUME NEW n \in 1..N, DatabaseOnline(n) PROVE KnownInv'
    <2>1. /\ UNCHANGED <<servers, again, after>> /\ call.at = "online" /\ n \in call.waiting
          /\ \/ call'.at = "failed"
             \/ /\ n \in up /\ loaded[n].online /\ call.waiting = {n} /\ call'.at = "configured"
             \/ /\ n \in up /\ loaded[n].online
                /\ call'.at = "online" /\ call'.waiting = call.waiting \ {n}
        BY <1>8 DEF DatabaseOnline, Passed
    <2>2. CASE call'.at = "failed"
        BY <1>1, <2>2
    <2>3. CASE ~(KnownStart /\ ~rosmar)
        BY <2>1, <2>3 DEF servers, KnownStart, KnownInv
    <2>4. CASE KnownStart /\ ~rosmar /\ n \in up /\ loaded[n].online
        <3>1. /\ Configured
              /\ \A m \in up : loaded[m] = Unloaded \/ loaded[m].inc = bucket.inc
              /\ \A m \in up : m \notin call.waiting => Serving(m)
            BY <2>1, <2>4 DEF KnownInv
        <3>2. Serving(n)
            <4>1. loaded[n] \in [inc : Nat, online : BOOLEAN]
                BY DEF NodesShape
            <4>2. loaded[n].inc = bucket.inc
                BY <2>4, <3>1 DEF Unloaded
            <4> QED BY <2>4, <4>1, <4>2 DEF Serving
        <3>3. /\ UNCHANGED <<Configured, rosmar, up, bucket, loaded>>
              /\ \A m : Serving(m)' <=> Serving(m)
            BY <2>1 DEF servers, Configured, Usable, Serving
        <3> QED BY <2>1, <3>1, <3>2, <3>3 DEF KnownInv
    <2> QED BY <2>1, <2>2, <2>3, <2>4
<1>9. CASE AddUsers \/ LoadDataset
    <2>1. /\ call.at \in {"users", "load"} /\ BucketStep /\ UNCHANGED KnownStart
          /\ Usable => bucket'.conf = bucket.conf /\ bucket'.inc = bucket.inc /\ Usable'
        BY <1>9 DEF AddUsers, LoadDataset, BucketStep, KnownStart, servers, Usable, BucketShape
    <2>2. \/ call'.at \in {"failed", "load"}
          \/ call'.at = "online" /\ call'.waiting = Members
          \/ call'.at = "configured" /\ ~(Cardinality(Members) > 1)
        BY <1>9 DEF AddUsers, LoadDataset
    <2>3. /\ UNCHANGED <<rosmar, up, loaded>> /\ up \subseteq Members
        BY <2>1 DEF BucketStep, NodesShape
    <2>4. ASSUME KnownStart, ~rosmar
          PROVE  /\ Configured'
                 /\ \A m \in up' : loaded'[m] = Unloaded \/ loaded'[m].inc = bucket'.inc
        BY <2>1, <2>3, <2>4 DEF KnownInv, Configured
    <2>5. call'.at = "configured" /\ ~rosmar => ~(N > 1)
        BY <2>2, MembersCount
    <2> QED BY <1>1, <2>1, <2>2, <2>3, <2>4, <2>5 DEF KnownInv
<1>10. CASE DeleteIt \/ Cleanup \/ CleanNames \/ CleanDelete \/ CleanBuckets \/ CleanDropped \/ Test
    <2>1. CASE DeleteIt \/ Cleanup
        <3>1. DeleteIt => call'.at \in {"drop", "failed"}
            BY DEF DeleteIt, DeleteDatabase
        <3>2. Cleanup => call'.at = "names"
            BY DEF Cleanup
        <3> QED BY <1>1, <2>1, <3>1, <3>2
    <2>4. CASE Test
        <3>1. call'.at = "touched"
            BY <2>4 DEF Test
        <3> QED BY <1>1, <3>1
    <2>2. CASE CleanNames \/ CleanDelete
        BY <1>1, <2>2 DEF CleanNames, CleanDelete, DeleteDatabase, NextNode, Carry, GiveUp
    <2>3. CASE CleanBuckets \/ CleanDropped
        BY <1>1, <2>3 DEF CleanBuckets, CleanDropped, Carry, GiveUp
    <2> QED BY <1>10, <2>1, <2>2, <2>3, <2>4
<1>11. ASSUME NEW n \in 1..N, CleanGone(n) PROVE KnownInv'
    BY <1>1, <1>11 DEF CleanGone, NextNode, GiveUp
\* The servers go on by themselves.
<1>12. ASSUME UNCHANGED <<call, again, after>>, ServersStep,
              KnownStart /\ ~rosmar /\ call.at \in Done /\ Configured
              => /\ Configured' /\ up' \subseteq 1..N /\ bucket'.inc = bucket.inc
                 /\ \A m \in up' : \/ Serving(m)' \/ (m \in up /\ Moves(m))
       PROVE  KnownInv'
    <2>1. /\ UNCHANGED <<call, KnownStart, rosmar, Members>>
          /\ ~Configured => /\ ~Configured'
                            /\ \A m \in 1..N : loaded[m] = Unloaded => loaded'[m] = Unloaded
        BY <1>12, ServersKept DEF KnownStart
    <2>2. CASE call.at \in Preparing \/ call.at = "gone"
        BY <2>1, <2>2, MembersCount, ConstantsAreCounts DEF KnownInv, AllUnloaded
    <2>3. CASE KnownStart /\ ~rosmar /\ call.at \in Done
        <3>1. /\ Configured
              /\ \A m \in up : loaded[m] = Unloaded \/ loaded[m].inc = bucket.inc
              /\ call.at = "online" => \A m \in up : m \notin call.waiting => Serving(m)
              /\ call.at = "configured" /\ N > 1 => \A m \in up : Serving(m)
            BY <2>3 DEF KnownInv
        <3>2. /\ Configured' /\ bucket'.inc = bucket.inc
              /\ \A m \in up' : \/ Serving(m)' \/ (m \in up /\ Moves(m))
            BY <1>12, <2>3, <3>1
        <3>3. \A m : Serving(m)' => loaded'[m].inc = bucket'.inc
            BY DEF Serving
        <3>4. \A m \in up : Moves(m) /\ Serving(m) => Serving(m)'
            BY <3>2 DEF Serving
        <3>5. \A m \in up : Moves(m) => loaded'[m] = Unloaded \/ loaded'[m].inc = bucket'.inc
            BY <3>1, <3>2
        <3> QED BY <2>1, <2>3, <3>1, <3>2, <3>3, <3>4, <3>5 DEF KnownInv
    <2>4. CASE ~(KnownStart /\ ~rosmar) /\ call.at \in Done
        BY <2>1, <2>4 DEF KnownInv
    <2>5. CASE call.at \notin Preparing \cup Done \cup {"gone"}
        BY <1>1, <2>1, <2>5
    <2> QED BY <2>2, <2>3, <2>4, <2>5
<1>14. CASE BucketChanges \/ IndexesRemoved \/ UNCHANGED vars
    <2>1. UNCHANGED <<call, again, after, loaded, up>> /\ ServersStep
        BY <1>14 DEF BucketChanges, IndexesRemoved, vars, servers, ServersStep, BucketStep
    <2>2. Configured => UNCHANGED bucket
        BY <1>14 DEF BucketChanges, IndexesRemoved, vars, servers, Configured, Usable
    <2>3. Configured => Configured'
        BY <2>2 DEF Configured, Usable
    <2> QED BY <1>12, <1>13, <2>1, <2>2, <2>3
<1>15. ASSUME NEW n \in 1..N, Poll(n) \/ Online(n) \/ StopNode(n) \/ StartNode(n) PROVE KnownInv'
    <2>1. UNCHANGED <<call, again, after>> /\ ServersStep /\ up' \subseteq 1..N
        BY <1>13, <1>15 DEF Poll, Online, StopNode, StartNode, ServersStep
    <2>2. ASSUME ~rosmar, Configured PROVE UNCHANGED bucket /\ Configured'
        BY <1>15, <2>2 DEF Poll, Online, StopNode, StartNode, Configured, Usable
    <2>3. DOMAIN loaded = 1..N
        BY DEF NodesShape
    <2>4. ASSUME ~rosmar, Configured, NEW m \in up' PROVE Serving(m)' \/ (m \in up /\ Moves(m))
        <3>1. CASE m # n
            <4>1. m \in up
                BY <1>15, <2>4, <3>1 DEF Poll, Online, StopNode, StartNode
            <4>2. \E x : loaded' = [loaded EXCEPT ![n] = x]
                BY <1>15 DEF Poll, Online, StopNode, StartNode
            <4>3. loaded'[m] = loaded[m]
                BY <2>1, <2>3, <2>4, <3>1, <4>2
            <4> QED BY <4>1, <4>3
        <3>2. CASE m = n /\ Poll(n)
            BY <2>3, <2>4, <3>2 DEF Poll, Configured, Serving
        <3>3. CASE m = n /\ Online(n)
            <4>1. n \in up /\ loaded[n] # Unloaded /\ loaded' = [loaded EXCEPT ![n].online = TRUE]
                BY <3>3 DEF Online
            <4>2. loaded[n] \in [inc : Nat, online : BOOLEAN]
                BY DEF NodesShape
            <4>3. loaded'[n] = [loaded[n] EXCEPT !.online = TRUE]
                BY <2>3, <4>1
            <4>4. loaded'[n] = [inc |-> loaded[n].inc, online |-> TRUE]
                BY <4>2, <4>3
            <4> QED BY <3>3, <4>1, <4>4
        <3>4. CASE m = n /\ StopNode(n)
            BY <2>4, <3>4 DEF StopNode
        <3>5. CASE m = n /\ StartNode(n)
            BY <2>3, <2>4, <3>5 DEF StartNode, Configured, Serving
        <3> QED BY <1>15, <3>1, <3>2, <3>3, <3>4, <3>5
    <2> HIDE DEF Moves
    <2> QED BY <1>12, <2>1, <2>2, <2>4
<1> QED BY <1>3, <1>4, <1>5, <1>6, <1>7, <1>8, <1>9, <1>10, <1>11, <1>14, <1>15 DEF Next

LEMMA ServersShapeNext ==
    ASSUME Shape, NodesShape, FirstInv, [Next]_vars
    PROVE  NodesShape' /\ FirstInv'
BY ServersNext, ServersKept, PutKept DEF Shape

\* cleanup_all_test_resources: when it has printed no failure, no node has the
\* database any more or gets it back, and the bucket is gone or going.
THEOREM CleanupCleansCorrect == Spec => []CleanupCleans
<1>1. Init => DocsInv
    BY DEF Init, NoBucket, DocsInv, FromNothing, Empty, Leaving
<1>2. DocsInv /\ CleanInv => CleanupCleans
    BY DEF DocsInv, Leaving, CleanInv, AllUnloaded, CleanupCleans, At
<1> QED BY ShapeInit, NodesShapeInit, ShapeNext, ServersShapeNext, DocsNext, CleanNext, <1>1, <1>2,
           PTL DEF Spec

\* configure_dataset: when it returns, every node that runs serves the new database,
\* and none one of the same name that it still had on a bucket dropped before.
THEOREM NodesServeTheDatasetCorrect == Spec => []NodesServeTheDataset
<1>1. NodesShape /\ KnownInv => NodesServeTheDataset
    <2> SUFFICES ASSUME NodesShape, KnownInv, call.at = "configured", KnownStart,
                        Cardinality(Members) > 1
                 PROVE  \A n \in up : Serving(n)
        BY DEF NodesServeTheDataset, At, Serving
    <2>1. ~rosmar /\ N > 1
        <3>1. ~rosmar
            <4>1. Cardinality({First}) = 1
                BY FS_Singleton
            <4> QED BY <4>1 DEF Members
        <3> QED BY <3>1, MembersCount
    <2> QED BY <2>1 DEF KnownInv
<1> QED BY ShapeInit, NodesShapeInit, ShapeNext, ServersShapeNext, CleanNext, KnownNext, <1>1,
           PTL DEF Spec
===============================================================================
