--------------------------- MODULE Documents_proofs ---------------------------
(***************************************************************************)
(* For any documents, fields and number of revisions: what the calls of the  *)
(* drivers mean for the documents they are about.                            *)
(***************************************************************************)
EXTENDS Documents, TLAPS

Doc   == [rev : Nat, live : BOOLEAN, body : [Fields -> Nat]]
Entry == [rev : Nat, delete : BOOLEAN, body : [Fields -> Nat]]

PutType == UNION {[ds -> Entry] : ds \in SUBSET Docs}

CallType ==
    [op : {"none"} \cup BulkOps \cup SingleOps \cup AdminOps,
     at : {"read", "rewrite", "bulk", "check", "single", "kill", "reset", "user", "start",
           "done", "failed"},
     put : PutType,
     todo : SUBSET Docs, named : Nat, gone : Nat]

TypeOK ==
    /\ store \in [Docs -> Doc]
    /\ seq \in 0..MaxSeq
    /\ up \in BOOLEAN
    /\ call \in CallType
    /\ calls \in Nat
    /\ stale \subseteq Docs

\* A document that is there has a revision, no revision is of the future, and no
\* field of it looks like one that a call sets.
StoreInv ==
    \A d \in Docs :
        /\ store[d].rev <= seq
        /\ store[d].live => store[d].rev # None
        /\ ~store[d].live => store[d].body = Blank
        /\ \A f \in Fields : store[d].body[f] # Fresh

\* Which requests belong to which calls, and to which documents.
PlaceInv ==
    /\ call.todo \subseteq Told
    /\ call.at \in {"read", "rewrite", "bulk"} => call.op \in BulkOps
    /\ call.at \in {"check", "single"} => call.op \in SingleOps
    /\ call.at \in {"kill", "reset", "user", "start"} => call.op \in AdminOps

TypeInv == TypeOK /\ StoreInv /\ PlaceInv

\* A call for one document has not touched the revision it was given.
SingleInv ==
    /\ call.at \in {"check", "single"} =>
           /\ \A d \in Told : Put[d].rev = call.named
           /\ call.op = "create_document" => call.named = None
    /\ NamedRevisionIsReplaced

\* What upsert_documents will write of a document is what it has now, with the
\* new fields; once it has taken its revision, unless the document has another one.
Merged(d) == \A f \in Fields : Put[d].body[f] # Fresh => Put[d].body[f] = store[d].body[f]

Held(d) ==
    Put[d].rev # None => /\ Put[d].rev <= seq
                         /\ store[d].rev = Put[d].rev => store[d].live /\ Merged(d)

UpsertInv ==
    call.op = "upsert_documents" =>
        /\ \A d \in Told : ~Put[d].delete
        /\ call.at = "read" => \A d \in Told \cap call.todo, f \in Fields : Put[d].body[f] \in {0, Fresh}
        /\ call.at = "read" => \A d \in (Told \ call.todo) \ stale : Merged(d)
        /\ call.at = "rewrite" => \A d \in Told \ stale : Merged(d)
        /\ call.at = "bulk" => \A d \in Told \ stale : Held(d)

USE BoundsAreCounts DEF None, Fresh

(***************************************************************************)
(* The entries of a call, and what a request does to the documents.         *)
(***************************************************************************)
LEMMA PutTyped ==
    ASSUME NEW put \in PutType
    PROVE  /\ DOMAIN put \subseteq Docs
           /\ \A d \in DOMAIN put : put[d] \in Entry
           /\ \A d \in DOMAIN put, e \in Entry :
                 /\ [put EXCEPT ![d] = e] \in PutType
                 /\ DOMAIN [put EXCEPT ![d] = e] = DOMAIN put
                 /\ [put EXCEPT ![d] = e][d] = e
                 /\ \A x \in DOMAIN put \ {d} : [put EXCEPT ![d] = e][x] = put[x]
<1>1. PICK ds \in SUBSET Docs : put \in [ds -> Entry]
    BY DEF PutType
<1>2. ASSUME NEW d \in DOMAIN put, NEW e \in Entry PROVE [put EXCEPT ![d] = e] \in [ds -> Entry]
    BY <1>1, <1>2
<1>3. [ds -> Entry] \in {[xs -> Entry] : xs \in SUBSET Docs}
    OBVIOUS
<1>4. \A q \in [ds -> Entry] : q \in PutType
    BY <1>3 DEF PutType
<1> QED BY <1>1, <1>2, <1>4

LEMMA EntryMade ==
    ASSUME NEW rev \in Nat, NEW fields
    PROVE  /\ DocumentUpdateEntry(rev, fields) \in Entry
           /\ DocumentUpdateEntry(rev, fields).rev = rev
           /\ ~DocumentUpdateEntry(rev, fields).delete
           /\ \A f \in Fields : DocumentUpdateEntry(rev, fields).body[f] \in {0, Fresh}
<1> DEFINE body == [f \in Fields |-> IF f \in fields THEN Fresh ELSE 0]
<1>1. body \in [Fields -> Nat]
    OBVIOUS
<1>2. \A f \in Fields : body[f] \in {0, Fresh}
    OBVIOUS
<1>3. DocumentUpdateEntry(rev, fields) = [rev |-> rev, delete |-> FALSE, body |-> body]
    BY DEF DocumentUpdateEntry
<1> HIDE DEF body
<1> QED BY <1>1, <1>2, <1>3 DEF Entry

LEMMA BulkEntryMade ==
    ASSUME NEW rev \in Nat, NEW fields, NEW delete \in BOOLEAN
    PROVE  BulkDocOperation(rev, fields, delete) \in Entry
BY EntryMade DEF BulkDocOperation, Entry

\* What the server has after a step that writes or deletes a document.
Stored ==
    /\ store' \in [Docs -> Doc] /\ seq' \in 0..MaxSeq
    /\ StoreInv'

LEMMA WrittenStored ==
    ASSUME TypeInv, NEW d \in Docs, NEW body \in [Fields -> Nat], Written(d, body)
    PROVE  /\ Stored
           /\ \A x \in Docs \ {d} : store'[x] = store[x]
           /\ store'[d].live /\ store'[d].rev = seq + 1 /\ seq' = seq + 1
           /\ \A f \in Fields : store'[d].body[f] = IF body[f] = Fresh THEN seq + 1 ELSE body[f]
<1> DEFINE new == [f \in Fields |-> IF body[f] = Fresh THEN seq' ELSE body[f]]
           doc == [rev |-> seq', live |-> TRUE, body |-> new]
<1>1. seq \in Nat /\ seq' = seq + 1 /\ seq' \in 0..MaxSeq /\ seq' # Fresh /\ store \in [Docs -> Doc]
    BY DEF Written, TypeInv, TypeOK
<1>2. new \in [Fields -> Nat] /\ \A f \in Fields : new[f] # Fresh
    BY <1>1
<1>3. store' = [store EXCEPT ![d] = doc]
    BY DEF Written
<1>4. \A f \in Fields : new[f] = IF body[f] = Fresh THEN seq + 1 ELSE body[f]
    BY <1>1
<1> HIDE DEF new
<1>5. doc \in Doc
    BY <1>1, <1>2 DEF Doc
<1>6. doc.rev = seq + 1 /\ doc.live /\ doc.body = new
    BY <1>1
<1> HIDE DEF doc
<1>7. store' \in [Docs -> Doc] /\ store'[d] = doc /\ \A x \in Docs \ {d} : store'[x] = store[x]
    BY <1>1, <1>3, <1>5
<1>8. StoreInv'
    <2> SUFFICES ASSUME NEW x \in Docs
                 PROVE  /\ store'[x].rev <= seq'
                        /\ store'[x].live => store'[x].rev # None
                        /\ ~store'[x].live => store'[x].body = Blank
                        /\ \A f \in Fields : store'[x].body[f] # Fresh
        BY DEF StoreInv, Blank
    <2>1. CASE x = d
        BY <2>1, <1>1, <1>2, <1>6, <1>7
    <2>2. CASE x # d
        BY <2>2, <1>1, <1>7 DEF TypeInv, StoreInv, Doc
    <2> QED BY <2>1, <2>2
<1> QED BY <1>1, <1>4, <1>6, <1>7, <1>8 DEF Stored

LEMMA BlankTyped == Blank \in [Fields -> Nat] /\ \A f \in Fields : Blank[f] = 0
BY DEF Blank

\* Deleting or purging a document.
LEMMA GoneStored ==
    ASSUME TypeInv, NEW d \in Docs, Deleted(d) \/ (store' = [store EXCEPT ![d] = Absent] /\ UNCHANGED seq)
    PROVE  /\ Stored
           /\ \A x \in Docs \ {d} : store'[x] = store[x]
<1>1. PICK n \in {seq', None} : store' = [store EXCEPT ![d] = [rev |-> n, live |-> FALSE, body |-> Blank]]
    BY DEF Deleted, Absent
<1>2. seq \in Nat /\ seq' \in 0..MaxSeq /\ seq <= seq' /\ store \in [Docs -> Doc]
    BY DEF Deleted, TypeInv, TypeOK
<1> DEFINE doc == [rev |-> n, live |-> FALSE, body |-> Blank]
<1>3. doc \in Doc /\ doc.rev <= seq' /\ ~doc.live /\ doc.body = Blank
    BY <1>2, BlankTyped DEF Doc
<1> HIDE DEF doc
<1>4. store' \in [Docs -> Doc] /\ store'[d] = doc /\ \A x \in Docs \ {d} : store'[x] = store[x]
    BY <1>1, <1>2, <1>3 DEF doc
<1>5. StoreInv'
    <2> SUFFICES ASSUME NEW x \in Docs
                 PROVE  /\ store'[x].rev <= seq'
                        /\ store'[x].live => store'[x].rev # None
                        /\ ~store'[x].live => store'[x].body = Blank
                        /\ \A f \in Fields : store'[x].body[f] # Fresh
        BY DEF StoreInv, Blank
    <2>1. CASE x = d
        BY <2>1, <1>3, <1>4, BlankTyped
    <2>2. CASE x # d
        BY <2>2, <1>2, <1>4 DEF TypeInv, StoreInv, Doc
    <2> QED BY <2>1, <2>2
<1> QED BY <1>2, <1>4, <1>5 DEF Stored

(***************************************************************************)
(* Types.                                                                   *)
(***************************************************************************)
LEMMA TypeInit == Init => TypeInv
<1> SUFFICES ASSUME Init PROVE TypeInv
    OBVIOUS
<1>1. Absent \in Doc /\ ~Absent.live /\ Absent.rev = 0 /\ Absent.body = Blank
    BY BlankTyped DEF Absent, Doc
<1>2. <<>> \in PutType
    <2>1. <<>> \in [{} -> Entry] /\ {} \in SUBSET Docs
        OBVIOUS
    <2> QED BY <2>1 DEF PutType
<1>3. call \in CallType /\ call.at = "done"
    BY <1>2 DEF Init, CallType
<1>4. store \in [Docs -> Doc] /\ \A d \in Docs : store[d] = Absent
    BY <1>1 DEF Init
<1>5. TypeOK
    BY <1>3, <1>4 DEF Init, TypeOK
<1>6. StoreInv
    BY <1>1, <1>4, <1>5, BlankTyped DEF StoreInv, TypeOK
<1> QED BY <1>3, <1>5, <1>6 DEF TypeInv, PlaceInv, Init

\* A step that leaves the documents alone.
LEMMA CallKept ==
    ASSUME TypeInv, call' \in CallType, PlaceInv', UNCHANGED <<store, seq>>,
           up' \in BOOLEAN, calls' \in Nat, stale' \subseteq Docs
    PROVE  TypeInv'
BY DEF TypeInv, TypeOK, StoreInv, Blank

\* A step that writes them.
LEMMA StoreKept ==
    ASSUME TypeInv, call' \in CallType, PlaceInv', Stored,
           up' \in BOOLEAN, calls' \in Nat, stale' \subseteq Docs
    PROVE  TypeInv'
BY DEF TypeInv, TypeOK, Stored

LEMMA TypeBegin ==
    ASSUME TypeInv, NEW op \in BulkOps \cup SingleOps \cup AdminOps, NEW put \in PutType,
           NEW named \in Nat, Begin(op, put, named)
    PROVE  TypeInv'
<1>1. call' = [op |-> op, at |-> FirstOf(op), put |-> put, todo |-> DOMAIN put,
               named |-> named, gone |-> None]
    BY DEF Begin
<1>2. /\ op \in BulkOps => FirstOf(op) \in {"read", "rewrite", "bulk"}
      /\ op \in SingleOps => FirstOf(op) \in {"check", "single"}
      /\ op \in AdminOps => FirstOf(op) = "kill"
    BY DEF BulkOps, SingleOps, AdminOps, FirstOf
<1>3. call' \in CallType
    BY <1>1, <1>2, PutTyped DEF CallType
<1>4. PlaceInv'
    BY <1>1, <1>2 DEF PlaceInv, Told, Put
<1> QED BY <1>3, <1>4, CallKept DEF Begin, TypeInv, TypeOK

\* What a call is when it begins.
LEMMA BulkBegins ==
    ASSUME TypeInv, BeginBulk
    PROVE  \E op \in BulkOps, put \in PutType :
               /\ Begin(op, put, None)
               /\ op = "upsert_documents" =>
                     \A d \in DOMAIN put : ~put[d].delete /\ \A f \in Fields : put[d].body[f] \in {0, Fresh}
<1>0. PICK op \in BulkOps, ds \in SUBSET Docs \ {{}} :
         \E fields \in Passed(op), revs \in [ds -> 0..seq] :
             IF op = "bulk_doc_op"
             THEN \E delete \in BOOLEAN :
                      Begin(op, [d \in ds |-> BulkDocOperation(revs[d], fields, delete)], None)
             ELSE Begin(op, [d \in ds |-> DocumentUpdateEntry(revs[d], fields)], None)
    BY DEF BeginBulk
<1>1. PICK fields \in Passed(op), revs \in [ds -> 0..seq] :
         IF op = "bulk_doc_op"
         THEN \E delete \in BOOLEAN :
                  Begin(op, [d \in ds |-> BulkDocOperation(revs[d], fields, delete)], None)
         ELSE Begin(op, [d \in ds |-> DocumentUpdateEntry(revs[d], fields)], None)
    BY <1>0
<1>2. \A d \in ds : revs[d] \in Nat
    BY DEF TypeInv, TypeOK
<1>3. CASE op = "bulk_doc_op"
    <2>1. PICK delete \in BOOLEAN : Begin(op, [d \in ds |-> BulkDocOperation(revs[d], fields, delete)], None)
        BY <1>1, <1>3
    <2> DEFINE put == [d \in ds |-> BulkDocOperation(revs[d], fields, delete)]
    <2>2. \A d \in ds : BulkDocOperation(revs[d], fields, delete) \in Entry
        BY <1>2, BulkEntryMade
    <2>3. put \in [ds -> Entry]
        BY <2>2
    <2>4. put \in PutType
        BY <2>3 DEF PutType
    <2> QED BY <1>3, <2>1, <2>4
<1>4. CASE op # "bulk_doc_op"
    <2> DEFINE put == [d \in ds |-> DocumentUpdateEntry(revs[d], fields)]
    <2>1. \A d \in ds : /\ DocumentUpdateEntry(revs[d], fields) \in Entry
                        /\ ~DocumentUpdateEntry(revs[d], fields).delete
                        /\ \A f \in Fields : DocumentUpdateEntry(revs[d], fields).body[f] \in {0, Fresh}
        BY <1>2, EntryMade
    <2>2. put \in [ds -> Entry]
        BY <2>1
    <2>3. put \in PutType
        BY <2>2 DEF PutType
    <2>4. \A d \in DOMAIN put : ~put[d].delete /\ \A f \in Fields : put[d].body[f] \in {0, Fresh}
        BY <2>1
    <2> QED BY <1>1, <1>4, <2>3, <2>4
<1> QED BY <1>3, <1>4

LEMMA SingleBegins ==
    ASSUME TypeInv, BeginSingle
    PROVE  \E op \in SingleOps, put \in PutType, named \in Nat :
               /\ Begin(op, put, named)
               /\ \A d \in DOMAIN put : put[d].rev = named
               /\ op = "create_document" => named = None
<1>0. PICK op \in SingleOps, d \in Docs : \E rev \in Revs(op, d), fields \in Passed(op) :
         Begin(op, [x \in {d} |-> DocumentUpdateEntry(rev, fields)], rev)
    BY DEF BeginSingle
<1>1. PICK rev \in Revs(op, d), fields \in Passed(op) :
         Begin(op, [x \in {d} |-> DocumentUpdateEntry(rev, fields)], rev)
    BY <1>0
<1>2. rev \in Nat /\ (op = "create_document" => rev = None)
    <2>1. store[d].rev \in Nat
        BY DEF TypeInv, TypeOK, Doc
    <2>2. Revs(op, d) \subseteq Nat
        <3>1. CASE op \in {"create_document", "purge_document"}
            BY <3>1 DEF Revs
        <3>2. CASE op = "put_document_with_id"
            <4>1. Revs(op, d) = 0..store[d].rev
                BY <3>2 DEF Revs
            <4> QED BY <2>1, <4>1
        <3>3. CASE op \in SingleOps \ {"create_document", "purge_document", "put_document_with_id"}
            <4>1. op \notin BulkOps
                BY <3>3 DEF SingleOps, BulkOps
            <4>2. Revs(op, d) = 1..store[d].rev
                BY <3>3, <4>1 DEF Revs
            <4> QED BY <2>1, <4>2
        <3> QED BY <3>1, <3>2, <3>3
    <2>3. op = "create_document" => Revs(op, d) = {None}
        <3> SUFFICES ASSUME op = "create_document" PROVE Revs(op, d) = {None}
            OBVIOUS
        <3>1. op \notin BulkOps \cup {"put_document_with_id"}
            BY DEF BulkOps
        <3> QED BY <3>1 DEF Revs
    <2> QED BY <2>2, <2>3
<1> DEFINE put == [x \in {d} |-> DocumentUpdateEntry(rev, fields)]
<1>3. DocumentUpdateEntry(rev, fields) \in Entry /\ DocumentUpdateEntry(rev, fields).rev = rev
    BY <1>2, EntryMade
<1>4. put \in [{d} -> Entry] /\ \A x \in DOMAIN put : put[x].rev = rev
    BY <1>3
<1>5. put \in PutType
    BY <1>4 DEF PutType
<1> HIDE DEF put
<1>6. Begin(op, put, rev)
    BY <1>1 DEF put
<1> QED BY <1>2, <1>4, <1>5, <1>6

LEMMA AdminBegins ==
    ASSUME TypeInv, BeginAdmin
    PROVE  \E op \in AdminOps, put \in PutType : Begin(op, put, None)
<1>1. <<>> \in [{} -> Entry] /\ {} \in SUBSET Docs
    OBVIOUS
<1>2. <<>> \in PutType
    BY <1>1 DEF PutType
<1> QED BY <1>2 DEF BeginAdmin

\* The entries with the latest revisions.
Rewritten == [d \in Told |-> IF Put[d].rev = None THEN Put[d]
                             ELSE [Put[d] EXCEPT !.rev = store[d].rev]]

LEMMA RewrittenTyped ==
    ASSUME Put \in PutType, store \in [Docs -> Doc]
    PROVE  Rewritten \in PutType
<1>1. Told \in SUBSET Docs /\ \A d \in Told : Put[d] \in Entry
    BY PutTyped DEF Told
<1>2. ASSUME NEW d \in Told
      PROVE  (IF Put[d].rev = None THEN Put[d] ELSE [Put[d] EXCEPT !.rev = store[d].rev]) \in Entry
    BY <1>1 DEF Entry, Doc
<1>3. Rewritten \in [Told -> Entry]
    BY <1>2 DEF Rewritten
<1> QED BY <1>1, <1>3 DEF PutType

\* What upsert_documents makes of an entry whose document it has read.
WithOld(d) == [Put[d] EXCEPT !.body = [f \in Fields |-> IF Put[d].body[f] = Fresh THEN Fresh
                                                        ELSE store[d].body[f]]]

\* The three ways in which it goes on: read, not there, or not readable.
LEMMA MergeCases ==
    ASSUME TypeInv, NEW d \in Docs, Merge(d), d \in Told
    PROVE  /\ call' \in CallType
           /\ call'.op = call.op /\ call.at = "read" /\ call.todo # {}
           /\ call'.todo = call.todo \ {d} /\ d \in call.todo
           /\ call'.at = IF call.todo = {d} THEN "rewrite" ELSE "read"
           /\ DOMAIN call'.put = Told
           /\ \A x \in Told \ {d} : call'.put[x] = Put[x]
           /\ WithOld(d) \in Entry
           /\ \/ store[d].live /\ call'.put[d] = WithOld(d) /\ stale' = stale \ {d}
              \/ ~store[d].live /\ call'.put[d] = Put[d] /\ stale' = stale \ {d}
              \/ call'.put[d] = Put[d] /\ stale' = stale \cup {d}
<1>1. call \in CallType /\ Put \in PutType /\ store \in [Docs -> Doc]
    BY DEF TypeInv, TypeOK, CallType, Put
<1>2. Put[d] \in Entry
    BY <1>1, PutTyped DEF Told
<1>3. WithOld(d) \in Entry
    <2>1. [f \in Fields |-> IF Put[d].body[f] = Fresh THEN Fresh ELSE store[d].body[f]] \in [Fields -> Nat]
        BY <1>1 DEF Doc
    <2> QED BY <1>2, <2>1 DEF WithOld, Entry
<1>4. call.at = "read" /\ d \in call.todo
    BY DEF Merge, At
<1> DEFINE next == [call EXCEPT !.todo = call.todo \ {d},
                                !.at = IF call.todo = {d} THEN "rewrite" ELSE "read"]
<1>5. CASE /\ call' = next
           /\ \/ ~store[d].live /\ stale' = stale \ {d}
              \/ stale' = stale \cup {d}
    <2>1. call' \in CallType
        BY <1>1, <1>5 DEF CallType
    <2>2. /\ call'.op = call.op /\ call'.todo = call.todo \ {d} /\ call'.put = Put
          /\ call'.at = IF call.todo = {d} THEN "rewrite" ELSE "read"
        BY <1>1, <1>5 DEF CallType, Put
    <2> QED BY <1>3, <1>4, <1>5, <2>1, <2>2 DEF Told
<1>6. CASE store[d].live /\ stale' = stale \ {d} /\ call' = [next EXCEPT !.put[d].body = WithOld(d).body]
    <2>1. call' = [next EXCEPT !.put = [Put EXCEPT ![d] = WithOld(d)]]
        BY <1>1, <1>6 DEF CallType, Put, WithOld
    <2>2. next.put = Put
        BY <1>1 DEF CallType, Put
    <2>3. [Put EXCEPT ![d] = WithOld(d)] \in PutType
        BY <1>1, <1>3, PutTyped DEF Told
    <2>4. call'.put = [Put EXCEPT ![d] = WithOld(d)]
        BY <1>1, <2>1 DEF CallType
    <2>5. call' \in CallType /\ call'.op = call.op /\ call'.todo = call.todo \ {d}
          /\ call'.at = IF call.todo = {d} THEN "rewrite" ELSE "read"
        BY <1>1, <2>1, <2>3 DEF CallType
    <2>6. DOMAIN call'.put = Told /\ call'.put[d] = WithOld(d) /\ \A x \in Told \ {d} : call'.put[x] = Put[x]
        BY <1>1, <1>3, <2>4, PutTyped DEF Told
    <2> QED BY <1>3, <1>4, <1>6, <2>5, <2>6
<1> QED BY <1>5, <1>6 DEF Merge, WithOld

LEMMA TypeBulk ==
    ASSUME TypeInv,
           Rewrite \/ BulkEnds \/ \E d \in Docs : Merge(d) \/ Bulk(d)
    PROVE  TypeInv'
<1>1. /\ call \in CallType /\ PlaceInv /\ Put \in PutType /\ store \in [Docs -> Doc]
      /\ up \in BOOLEAN /\ calls \in Nat /\ stale \subseteq Docs
    BY DEF TypeInv, TypeOK, CallType, Put
<1>2. /\ Told \subseteq Docs
      /\ \A d \in Told : Put[d] \in Entry
    BY <1>1, PutTyped DEF Told
<1>3. ASSUME NEW d \in Docs, Merge(d) PROVE TypeInv'
    <2>1. stale' \subseteq Docs /\ UNCHANGED <<store, seq, up, calls>>
        BY <1>1, <1>3 DEF Merge
    <2>2. call' \in CallType /\ PlaceInv'
        <3>1. d \in Told
            BY <1>1, <1>3 DEF Merge, PlaceInv
        <3> QED BY <1>1, <1>2, <1>3, <3>1, MergeCases DEF PlaceInv, Told, Put
    <2> QED BY <1>1, <2>1, <2>2, CallKept
<1>4. ASSUME NEW d \in Docs, Bulk(d) PROVE TypeInv'
    <2>1. call' \in CallType /\ PlaceInv' /\ UNCHANGED <<up, calls, stale>>
        BY <1>1, <1>4 DEF Bulk, CallType, PlaceInv, Told, Put
    <2>2. Put[d] \in Entry \/ d \notin Told
        BY <1>2
    <2>3. CASE UNCHANGED <<store, seq>>
        BY <1>1, <2>1, <2>3, CallKept
    <2>4. CASE Apply(d, Put[d]) /\ d \in Told
        <3>1. Put[d].body \in [Fields -> Nat]
            BY <2>2, <2>4 DEF Entry
        <3>2. Stored
            BY <2>4, <3>1, WrittenStored, GoneStored DEF Apply
        <3> QED BY <1>1, <2>1, <3>2, StoreKept
    <2>5. d \in Told
        BY <1>1, <1>4 DEF Bulk, PlaceInv
    <2> QED BY <1>4, <2>3, <2>4, <2>5 DEF Bulk
<1>5. CASE Rewrite
    <2>1. CASE call' = [call EXCEPT !.at = "failed"]
        BY <1>1, <1>5, <2>1, CallKept DEF Rewrite, CallType, PlaceInv, Told, Put
    <2>2. CASE call' = [call EXCEPT !.at = "bulk", !.todo = Told, !.put = Rewritten]
        <3>1. Rewritten \in PutType
            BY <1>1, <1>2, RewrittenTyped
        <3>2. call' \in CallType /\ PlaceInv'
            <4>1. call.at = "rewrite" /\ DOMAIN Rewritten = Told
                BY <1>5 DEF Rewrite, At, Rewritten
            <4>2. call' \in CallType
                BY <1>1, <1>2, <2>2, <3>1 DEF CallType
            <4>3. call'.put = Rewritten /\ call'.todo = Told /\ call'.at = "bulk" /\ call'.op = call.op
                BY <1>1, <2>2 DEF CallType
            <4> HIDE DEF Rewritten
            <4> QED BY <1>1, <4>1, <4>2, <4>3 DEF PlaceInv, Told, Put
        <3> QED BY <1>1, <1>5, <3>2, CallKept DEF Rewrite
    <2> QED BY <1>5, <2>1, <2>2 DEF Rewrite, Fail, Goto, Rewritten
<1>6. CASE BulkEnds
    BY <1>1, <1>6, CallKept DEF BulkEnds, CallType, PlaceInv, Told, Put, Goto, Fail
<1> QED BY <1>3, <1>4, <1>5, <1>6

\* The request of a call for one document.
LEMMA RequestStored ==
    ASSUME TypeInv, NEW d \in Told, Request(d)
    PROVE  Stored
<1>1. d \in Docs /\ Put[d] \in Entry
    BY PutTyped DEF TypeInv, TypeOK, CallType, Told, Put
<1>2. Put[d].body \in [Fields -> Nat] /\ store[d].body \in [Fields -> Nat]
    BY <1>1 DEF TypeInv, TypeOK, Doc, Entry
<1>3. ASSUME NEW body \in [Fields -> Nat], NEW f, NEW n \in Nat
      PROVE  [body EXCEPT ![f] = n] \in [Fields -> Nat]
    OBVIOUS
<1>4. CASE \E body \in [Fields -> Nat] : Written(d, body)
    BY <1>1, <1>4, WrittenStored
<1>5. CASE Deleted(d) \/ (store' = [store EXCEPT ![d] = Absent] /\ UNCHANGED seq)
    BY <1>1, <1>5, GoneStored
<1>6. CASE PutSubDocument(d) \/ DeleteSubDocument(d)
    <2>1. PICK n \in {Fresh, 0} : Written(d, [store[d].body EXCEPT ![SubDocument(d)] = n])
        BY <1>6 DEF PutSubDocument, DeleteSubDocument
    <2>2. n \in Nat
        OBVIOUS
    <2>3. [store[d].body EXCEPT ![SubDocument(d)] = n] \in [Fields -> Nat]
        BY <1>2, <1>3, <2>2
    <2> QED BY <1>4, <2>1, <2>3
<1> QED BY <1>2, <1>4, <1>5, <1>6
        DEF Request, CreateDocument, UpdateDocument, PutDocumentWithId, DeleteDocument, PurgeDocument

LEMMA TypeSingle ==
    ASSUME TypeInv, NEW d \in Docs, Check(d) \/ Single(d)
    PROVE  TypeInv'
<1>1. /\ call \in CallType /\ PlaceInv /\ store \in [Docs -> Doc]
      /\ up \in BOOLEAN /\ calls \in Nat /\ stale \subseteq Docs
    BY DEF TypeInv, TypeOK
<1>2. CASE Check(d)
    BY <1>1, <1>2, CallKept DEF Check, CallType, PlaceInv, Told, Put, Goto, Fail, At
<1>3. CASE Single(d)
    <2>1. d \in Told /\ UNCHANGED <<up, calls, stale>>
        BY <1>3 DEF Single
    <2>2. CASE Fail /\ UNCHANGED <<store, seq>>
        BY <1>1, <2>1, <2>2, CallKept DEF CallType, PlaceInv, Told, Put, Goto, Fail
    <2>3. ASSUME Request(d), NEW at \in {"done", "failed"},
                 call' = [call EXCEPT !.at = at, !.gone = IF store[d].live \/ call.named # None
                                                          THEN store[d].rev ELSE None]
          PROVE  TypeInv'
        <3>1. store[d].rev \in Nat
            BY <1>1 DEF Doc
        <3>2. call' \in CallType /\ PlaceInv'
            BY <1>1, <2>3, <3>1 DEF CallType, PlaceInv, Told, Put
        <3>3. Stored
            BY <2>1, <2>3, RequestStored
        <3> QED BY <1>1, <2>1, <3>2, <3>3, StoreKept
    <2> QED BY <1>3, <2>2, <2>3 DEF Single
<1> QED BY <1>2, <1>3

LEMMA ResetStored ==
    ASSUME TypeInv, store' = [d \in Docs |-> Absent], UNCHANGED seq
    PROVE  Stored
<1>1. Absent \in Doc /\ ~Absent.live /\ Absent.rev = 0 /\ Absent.body = Blank
    BY BlankTyped DEF Absent, Doc
<1>2. store' \in [Docs -> Doc] /\ \A d \in Docs : store'[d] = Absent
    BY <1>1
<1>3. seq' \in 0..MaxSeq
    BY DEF TypeInv, TypeOK
<1>4. Blank' = Blank
    BY DEF Blank
<1>5. StoreInv'
    BY <1>1, <1>2, <1>3, <1>4, BlankTyped DEF StoreInv
<1> QED BY <1>2, <1>3, <1>5 DEF Stored

LEMMA TypeAdmin ==
    ASSUME TypeInv, Kill \/ ResetDb \/ AddUser \/ StartServer
    PROVE  TypeInv'
<1>1. /\ call \in CallType /\ PlaceInv
      /\ up \in BOOLEAN /\ calls \in Nat /\ stale \subseteq Docs
    BY DEF TypeInv, TypeOK
<1>2. call' \in CallType /\ PlaceInv' /\ calls' \in Nat
      /\ stale' \subseteq Docs /\ up' \in BOOLEAN
    BY <1>1 DEF Kill, ResetDb, AddUser, StartServer, CallType, PlaceInv, Told, Put, Goto, Fail, At
<1>3. CASE UNCHANGED <<store, seq>>
    BY <1>2, <1>3, CallKept
<1>4. CASE store' = [d \in Docs |-> Absent] /\ UNCHANGED seq
    BY <1>2, <1>4, ResetStored, StoreKept
<1> QED BY <1>3, <1>4 DEF Kill, ResetDb, AddUser, StartServer

LEMMA OtherStored ==
    ASSUME TypeInv, NEW d \in Docs, Other(d)
    PROVE  /\ Stored
           /\ \A x \in Docs \ {d} : store'[x] = store[x]
           /\ store'[d].rev = seq + 1 /\ seq' = seq + 1
<1>1. ASSUME NEW fields, Written(d, DocumentUpdateEntry(None, fields).body)
      PROVE  /\ Stored
             /\ \A x \in Docs \ {d} : store'[x] = store[x]
             /\ store'[d].rev = seq + 1 /\ seq' = seq + 1
    <2>1. DocumentUpdateEntry(None, fields).body \in [Fields -> Nat]
        BY EntryMade DEF Entry
    <2> QED BY <1>1, <2>1, WrittenStored
<1>2. CASE Deleted(d)
    <2>1. store'[d].rev = seq + 1 /\ seq' = seq + 1
        BY <1>2 DEF Deleted, TypeInv, TypeOK
    <2> QED BY <1>2, <2>1, GoneStored
<1> QED BY <1>1, <1>2 DEF Other

LEMMA TypeNext ==
    ASSUME TypeInv, [Next]_vars
    PROVE  TypeInv'
<1>1. CASE BeginBulk
    BY <1>1, BulkBegins, TypeBegin
<1>2. CASE BeginSingle
    BY <1>2, SingleBegins, TypeBegin
<1>3. CASE BeginAdmin
    BY <1>3, AdminBegins, TypeBegin
<1>4. ASSUME NEW d \in Docs, Other(d) PROVE TypeInv'
    <2>1. call' = call /\ up' = up /\ calls' = calls /\ stale' \subseteq stale \cup {d}
        BY <1>4 DEF Other
    <2>2. PlaceInv'
        BY <2>1 DEF TypeInv, PlaceInv, Told, Put
    <2> QED BY <1>4, <2>1, <2>2, OtherStored, StoreKept DEF TypeInv, TypeOK
<1>5. CASE UNCHANGED vars
    BY <1>5 DEF vars, TypeInv, TypeOK, StoreInv, PlaceInv, Blank, Told, Put
<1> QED BY <1>1, <1>2, <1>3, <1>4, <1>5, TypeBulk, TypeSingle, TypeAdmin DEF Next

(***************************************************************************)
(* Calls for one document.                                                  *)
(***************************************************************************)
LEMMA SingleStep ==
    ASSUME TypeInv, SingleInv, NEW d \in Docs, Single(d)
    PROVE  SingleInv'
<1>1. call \in CallType /\ call.at = "single" /\ d \in Told /\ Put[d].rev = call.named
      /\ (call.op = "create_document" => call.named = None)
    BY DEF Single, TypeInv, TypeOK, SingleInv, At
<1>2. CASE Fail
    BY <1>1, <1>2 DEF Fail, Goto, CallType, SingleInv, NamedRevisionIsReplaced, At
<1>3. ASSUME Request(d), NEW at \in {"done", "failed"},
             call' = [call EXCEPT !.at = at, !.gone = IF store[d].live \/ call.named # None
                                                      THEN store[d].rev ELSE None]
      PROVE  SingleInv'
    <2>1. /\ call'.op = call.op /\ call'.named = call.named /\ call'.at = at
          /\ call'.gone = IF store[d].live \/ call.named # None THEN store[d].rev ELSE None
        BY <1>1, <1>3 DEF CallType
    <2>2. CASE call.op = "purge_document"
        BY <2>1, <2>2 DEF SingleInv, NamedRevisionIsReplaced
    <2>3. CASE call.op # "purge_document"
        <3>1. Takes(d, call.named)
            BY <1>1, <1>3, <2>3 DEF Request, CreateDocument, UpdateDocument, PutDocumentWithId,
               DeleteDocument, PurgeDocument, PutSubDocument, DeleteSubDocument
        <3>2. IF store[d].live \/ call.named # None THEN store[d].rev = call.named ELSE call.named = None
            BY <3>1 DEF Takes
        <3> QED BY <2>1, <3>2 DEF SingleInv, NamedRevisionIsReplaced
    <2> QED BY <2>2, <2>3
<1> QED BY <1>2, <1>3 DEF Single

LEMMA SingleNext ==
    ASSUME TypeInv, SingleInv, [Next]_vars
    PROVE  SingleInv'
<1> USE DEF SingleInv, NamedRevisionIsReplaced, At
<1>1. call \in CallType /\ PlaceInv
    BY DEF TypeInv, TypeOK
<1>2. CASE BeginSingle
    <2>1. PICK op \in SingleOps, put \in PutType, named \in Nat :
               /\ Begin(op, put, named)
               /\ \A d \in DOMAIN put : put[d].rev = named
               /\ op = "create_document" => named = None
        BY <1>2, SingleBegins
    <2>2. call' = [op |-> op, at |-> FirstOf(op), put |-> put, todo |-> DOMAIN put,
                   named |-> named, gone |-> None]
        BY <2>1 DEF Begin
    <2>3. FirstOf(op) # "done"
        BY DEF SingleOps, FirstOf
    <2> QED BY <2>1, <2>2, <2>3 DEF Told, Put
<1>3. CASE BeginBulk \/ BeginAdmin
    <2>1. PICK op \in BulkOps \cup AdminOps, put \in PutType : Begin(op, put, None)
        BY <1>3, BulkBegins, AdminBegins
    <2>2. call'.at = FirstOf(op)
        BY <2>1 DEF Begin
    <2>3. FirstOf(op) \notin {"done", "check", "single"}
        BY DEF BulkOps, AdminOps, FirstOf
    <2> QED BY <2>2, <2>3
<1>4. ASSUME NEW d \in Docs, Check(d) PROVE SingleInv'
    BY <1>1, <1>4 DEF Check, Goto, Fail, CallType, Told, Put
<1>5. ASSUME NEW d \in Docs, Merge(d) PROVE SingleInv'
    <2>1. d \in Told
        BY <1>1, <1>5 DEF Merge, PlaceInv
    <2>2. call'.at \in {"rewrite", "read"}
        BY <1>5, <2>1, MergeCases
    <2> QED BY <2>2
<1>6. CASE Rewrite \/ BulkEnds \/ \E d \in Docs : Bulk(d)
    <2>1. call.op \in BulkOps
        BY <1>1, <1>6 DEF Rewrite, BulkEnds, Bulk, PlaceInv
    <2>2. call'.op = call.op /\ call'.at \in {"bulk", "failed", "done"}
        BY <1>1, <1>6 DEF Rewrite, BulkEnds, Bulk, Goto, Fail, CallType
    <2> QED BY <2>1, <2>2 DEF BulkOps, SingleOps
<1>7. CASE Kill \/ ResetDb \/ AddUser \/ StartServer
    <2>1. call.op \in AdminOps
        BY <1>1, <1>7 DEF Kill, ResetDb, AddUser, StartServer, PlaceInv
    <2>2. call'.op = call.op /\ call'.at \in {"reset", "user", "start", "failed", "done"}
        BY <1>1, <1>7 DEF Kill, ResetDb, AddUser, StartServer, Goto, Fail, CallType
    <2> QED BY <2>1, <2>2 DEF AdminOps, SingleOps
<1>8. CASE UNCHANGED call
    BY <1>8 DEF Told, Put
<1>9. ASSUME NEW d \in Docs, Other(d) PROVE SingleInv'
    BY <1>8, <1>9 DEF Other
<1>10. CASE UNCHANGED vars
    BY <1>8, <1>10 DEF vars
<1> QED BY <1>2, <1>3, <1>4, <1>5, <1>6, <1>7, <1>9, <1>10, SingleStep DEF Next

\* When a call for one document returns, the revision it replaced is the one the
\* test named, whatever others did to the document before and during the call.
THEOREM NamedRevisionIsReplacedCorrect == Spec => []NamedRevisionIsReplaced
<1>1. Init => SingleInv
    BY DEF Init, SingleInv, NamedRevisionIsReplaced, At, SingleOps
<1>2. SingleInv => NamedRevisionIsReplaced
    BY DEF SingleInv
<1> QED BY TypeInit, TypeNext, SingleNext, <1>1, <1>2, PTL DEF Spec

(***************************************************************************)
(* upsert_documents.                                                        *)
(***************************************************************************)
LEMMA MergeStep ==
    ASSUME TypeInv, UpsertInv, call.op = "upsert_documents", NEW d \in Docs, Merge(d)
    PROVE  UpsertInv'
<1>1. call.at = "read" /\ d \in Told /\ d \in call.todo /\ Told \subseteq Docs
    BY PutTyped DEF Merge, At, TypeInv, PlaceInv, TypeOK, CallType, Told, Put
<1>2. /\ call'.op = call.op
      /\ call'.todo = call.todo \ {d}
      /\ call'.at = IF call.todo = {d} THEN "rewrite" ELSE "read"
      /\ DOMAIN call'.put = Told
      /\ \A x \in Told \ {d} : call'.put[x] = Put[x]
      /\ WithOld(d) \in Entry
      /\ \/ store[d].live /\ call'.put[d] = WithOld(d) /\ stale' = stale \ {d}
         \/ ~store[d].live /\ call'.put[d] = Put[d] /\ stale' = stale \ {d}
         \/ call'.put[d] = Put[d] /\ stale' = stale \cup {d}
    BY <1>1, MergeCases
<1>3. store' = store
    BY DEF Merge
<1>4. /\ Told' = Told
      /\ \A x \in Told \ {d} : Put'[x] = Put[x]
      /\ Put'[d] = call'.put[d]
    BY <1>2 DEF Told, Put
<1>5. ~Put'[d].delete
    <2>1. Put[d] \in Entry /\ ~Put[d].delete
        BY <1>1, PutTyped DEF UpsertInv, TypeInv, TypeOK, CallType, Told, Put
    <2>2. WithOld(d).delete = Put[d].delete
        BY <2>1 DEF WithOld, Entry
    <2> QED BY <1>2, <1>4, <2>1, <2>2
<1>6. d \notin stale' => Merged(d)'
    <2> SUFFICES ASSUME d \notin stale'
                 PROVE  \A f \in Fields : Put'[d].body[f] # Fresh => Put'[d].body[f] = store[d].body[f]
        BY <1>3 DEF Merged, Put
    <2>1. CASE store[d].live /\ call'.put[d] = WithOld(d)
        <3>1. Put[d] \in Entry
            BY <1>1, PutTyped DEF TypeInv, TypeOK, CallType, Told, Put
        <3>2. WithOld(d).body = [f \in Fields |-> IF Put[d].body[f] = Fresh THEN Fresh ELSE store[d].body[f]]
            BY <3>1 DEF WithOld, Entry
        <3> QED BY <1>4, <2>1, <3>2
    <2>2. CASE ~store[d].live /\ call'.put[d] = Put[d]
        <3>1. \A f \in Fields : Put[d].body[f] \in {0, Fresh}
            BY <1>1 DEF UpsertInv
        <3>2. \A f \in Fields : store[d].body[f] = 0
            BY <2>2, BlankTyped DEF TypeInv, StoreInv
        <3> QED BY <1>4, <2>2, <3>1, <3>2
    <2> QED BY <1>2, <2>1, <2>2
<1>7. \A x \in (Told \ {d}) \ stale' : x \notin stale /\ (Merged(x) => Merged(x)')
    BY <1>1, <1>2, <1>3, <1>4 DEF Merged
<1>8. \A x \in Told : ~Put'[x].delete
    BY <1>4, <1>5 DEF UpsertInv
<1>9. \A x \in Told \cap call'.todo, f \in Fields : Put'[x].body[f] \in {0, Fresh}
    BY <1>1, <1>2, <1>4 DEF UpsertInv
<1>10. \A x \in (Told \ call'.todo) \ stale' : Merged(x)'
    BY <1>1, <1>2, <1>6, <1>7 DEF UpsertInv
<1>11. call'.at = "rewrite" => call'.todo = {}
    BY <1>2
<1> HIDE DEF UpsertInv
<1> QED
    <2>1. call'.at \in {"read", "rewrite"}
        BY <1>2
    <2> QED BY <1>2, <1>4, <1>8, <1>9, <1>10, <1>11, <2>1 DEF UpsertInv

LEMMA RewriteStep ==
    ASSUME TypeInv, UpsertInv, call.op = "upsert_documents", Rewrite
    PROVE  UpsertInv'
<1>1. call \in CallType /\ call.at = "rewrite" /\ UNCHANGED <<store, seq, stale>>
      /\ \A d \in Told : d \in Docs /\ Put[d] \in Entry
    BY PutTyped DEF Rewrite, At, TypeInv, TypeOK, CallType, Told, Put
<1>2. CASE Fail
    BY <1>1, <1>2 DEF Fail, Goto, CallType, UpsertInv, Told, Put
<1>3. CASE /\ \A d \in Told : Put[d].rev # None => store[d].live
           /\ call' = [call EXCEPT !.at = "bulk", !.todo = Told, !.put = Rewritten]
    <2>1. call'.op = call.op /\ call'.at = "bulk" /\ Put' = Rewritten
        BY <1>1, <1>3 DEF CallType, Put
    <2>2. Told' = Told
        BY <2>1 DEF Told, Rewritten
    <2>3. ASSUME NEW d \in Told
          PROVE  /\ Put'[d].delete = Put[d].delete /\ Put'[d].body = Put[d].body
                 /\ Put'[d].rev # None => Put'[d].rev = store[d].rev /\ store[d].live
        <3>1. CASE Put[d].rev = None
            BY <2>1, <3>1 DEF Rewritten
        <3>2. CASE Put[d].rev # None
            <4>1. Put'[d] = [Put[d] EXCEPT !.rev = store[d].rev]
                BY <2>1, <3>2 DEF Rewritten
            <4> QED BY <1>1, <1>3, <3>2, <4>1 DEF Entry
        <3> QED BY <3>1, <3>2
    <2>4. \A d \in Told \ stale : Merged(d)'
        BY <1>1, <2>3 DEF UpsertInv, Merged
    <2>5. \A d \in Told : store[d].rev <= seq
        BY <1>1 DEF TypeInv, StoreInv
    <2>6. \A d \in Told \ stale : Held(d)'
        BY <1>1, <2>3, <2>4, <2>5 DEF Held
    <2> QED BY <1>1, <2>1, <2>2, <2>3, <2>6 DEF UpsertInv
<1> QED BY <1>2, <1>3 DEF Rewrite, Rewritten

\* A document that gets a new revision is held by no call, the others stay so.
LEMMA HeldKept ==
    ASSUME TypeInv, NEW d \in Docs, NEW x \in Told, Held(x), Put' = Put,
           store'[d].rev = seq + 1, seq' = seq + 1,
           \A y \in Docs \ {d} : store'[y] = store[y]
    PROVE  Held(x)'
<1>1. seq \in Nat /\ x \in Docs /\ Put[x] \in Entry
    BY PutTyped DEF TypeInv, TypeOK, CallType, Told, Put
<1>2. CASE x = d
    BY <1>1, <1>2 DEF Held, Entry
<1>3. CASE x # d
    BY <1>1, <1>3 DEF Held, Merged, Entry
<1> QED BY <1>2, <1>3

LEMMA BulkStep ==
    ASSUME TypeInv, UpsertInv, call.op = "upsert_documents", NEW d \in Docs, Bulk(d)
    PROVE  UpsertInv'
<1>1. /\ call \in CallType /\ call.at = "bulk" /\ stale' = stale
      /\ d \in Told /\ Told \subseteq Docs /\ Put[d] \in Entry /\ ~Put[d].delete
    BY PutTyped DEF Bulk, At, TypeInv, PlaceInv, TypeOK, CallType, Told, Put, UpsertInv
<1>2. call'.op = call.op /\ call'.at = "bulk" /\ Put' = Put /\ Told' = Told
    BY <1>1 DEF Bulk, CallType, Put, Told
<1>3. ASSUME NEW x \in Told \ stale PROVE Held(x)'
    <2>1. Held(x)
        BY <1>1 DEF UpsertInv
    <2>2. CASE Written(d, Put[d].body)
        <3>1. Put[d].body \in [Fields -> Nat]
            BY <1>1 DEF Entry
        <3> QED BY <1>2, <2>1, <2>2, <3>1, WrittenStored, HeldKept
    <2>3. CASE UNCHANGED <<store, seq>>
        BY <1>2, <2>1, <2>3 DEF Held, Merged
    <2> QED BY <1>1, <2>2, <2>3 DEF Bulk, Apply
<1> QED BY <1>1, <1>2, <1>3 DEF UpsertInv

LEMMA OtherStep ==
    ASSUME TypeInv, UpsertInv, call.op = "upsert_documents", NEW d \in Docs, Other(d)
    PROVE  UpsertInv'
<1>1. /\ call' = call /\ Told \subseteq Docs /\ stale \subseteq stale'
      /\ call.at \in {"read", "rewrite"} => stale' = stale \cup (Told \cap {d})
    BY PutTyped DEF Other, TypeInv, TypeOK, CallType, Told, Put
<1>2. /\ \A x \in Docs \ {d} : store'[x] = store[x]
      /\ store'[d].rev = seq + 1 /\ seq' = seq + 1
    BY OtherStored
<1>3. Told' = Told /\ Put' = Put
    BY <1>1 DEF Told, Put
<1>4. CASE call.at \in {"read", "rewrite"}
    <2>1. \A x \in Told \ stale' : x \notin stale /\ store'[x] = store[x]
        BY <1>1, <1>2, <1>4
    <2>2. \A x \in Told \ stale' : Merged(x) => Merged(x)'
        BY <1>3, <2>1 DEF Merged
    <2> QED BY <1>1, <1>3, <1>4, <2>1, <2>2 DEF UpsertInv
<1>5. CASE call.at = "bulk"
    <2>1. \A x \in Told \ stale : Held(x)
        BY <1>5 DEF UpsertInv
    <2>2. \A x \in Told \ stale' : Held(x)'
        BY <1>1, <1>2, <1>3, <2>1, HeldKept
    <2> QED BY <1>1, <1>3, <1>5, <2>2 DEF UpsertInv
<1>6. CASE call.at \notin {"read", "rewrite", "bulk"}
    BY <1>1, <1>3, <1>6 DEF UpsertInv
<1> QED BY <1>4, <1>5, <1>6

LEMMA UpsertNext ==
    ASSUME TypeInv, UpsertInv, [Next]_vars
    PROVE  UpsertInv'
<1>1. call \in CallType /\ PlaceInv
    BY DEF TypeInv, TypeOK
<1>2. CASE BeginBulk
    <2>1. PICK op \in BulkOps, put \in PutType :
             /\ Begin(op, put, None)
             /\ op = "upsert_documents" =>
                   \A d \in DOMAIN put : ~put[d].delete /\ \A f \in Fields : put[d].body[f] \in {0, Fresh}
        BY <1>2, BulkBegins
    <2>2. call' = [op |-> op, at |-> FirstOf(op), put |-> put, todo |-> DOMAIN put,
                   named |-> None, gone |-> None]
        BY <2>1 DEF Begin
    <2>3. op = "upsert_documents" => FirstOf(op) = "read"
        BY DEF FirstOf
    <2> QED BY <2>1, <2>2, <2>3 DEF UpsertInv, Told, Put
<1>3. CASE BeginSingle \/ BeginAdmin
    <2>1. PICK op \in SingleOps \cup AdminOps, put \in PutType, named \in Nat : Begin(op, put, named)
        BY <1>3, SingleBegins, AdminBegins
    <2>2. call'.op # "upsert_documents"
        BY <2>1 DEF Begin, SingleOps, AdminOps
    <2> QED BY <2>2 DEF UpsertInv
<1>4. ASSUME call.op = "upsert_documents" PROVE call.op \notin SingleOps \cup AdminOps
    BY <1>4 DEF SingleOps, AdminOps
<1>5. CASE (\E d \in Docs : Check(d) \/ Single(d)) \/ Kill \/ ResetDb \/ AddUser \/ StartServer
    <2>1. call.op \in SingleOps \cup AdminOps
        BY <1>1, <1>5 DEF Check, Single, Kill, ResetDb, AddUser, StartServer, At, PlaceInv
    <2>2. call'.op = call.op
        BY <1>1, <1>5 DEF Check, Single, Kill, ResetDb, AddUser, StartServer, Goto, Fail, CallType
    <2> QED BY <1>4, <2>1, <2>2 DEF UpsertInv
<1>6. CASE BulkEnds
    <2>1. \/ call' = [call EXCEPT !.at = "done"]
          \/ call' = [call EXCEPT !.at = "failed"]
        BY <1>6 DEF BulkEnds, Goto, Fail
    <2>2. call'.op = call.op /\ Put' = Put /\ Told' = Told /\ call'.at \in {"failed", "done"}
        BY <1>1, <2>1 DEF CallType, Put, Told
    <2> QED BY <2>2 DEF UpsertInv
<1>7. ASSUME call.op # "upsert_documents",
             Rewrite \/ \E d \in Docs : Merge(d) \/ Bulk(d) \/ Other(d)
      PROVE  UpsertInv'
    <2>1. ASSUME NEW d \in Docs, Merge(d) PROVE call'.op = call.op
        BY <1>1, <2>1, MergeCases DEF Merge, PlaceInv
    <2>2. call'.op = call.op
        BY <1>1, <1>7, <2>1 DEF Rewrite, Bulk, Other, Goto, Fail, CallType
    <2> QED BY <1>7, <2>2 DEF UpsertInv
<1>8. CASE UNCHANGED vars
    BY <1>8 DEF vars, UpsertInv, Held, Merged, Told, Put
<1> QED BY <1>2, <1>3, <1>5, <1>6, <1>7, <1>8, MergeStep, RewriteStep, BulkStep, OtherStep DEF Next

\* Only _bulk_docs writes documents for upsert_documents.
LEMMA UpsertWrites ==
    ASSUME TypeInv, [Next]_vars, call.op = "upsert_documents", call' # call,
           NEW d \in Docs, store'[d] # store[d]
    PROVE  Bulk(d)
<1>1. call \in CallType /\ PlaceInv /\ call.op \notin SingleOps \cup AdminOps
    BY DEF TypeInv, TypeOK, SingleOps, AdminOps
<1>2. store' # store
    OBVIOUS
<1>3. ~(Kill \/ ResetDb \/ AddUser \/ StartServer) /\ ~\E x \in Docs : Check(x) \/ Single(x)
    BY <1>1 DEF Kill, ResetDb, AddUser, StartServer, Check, Single, At, PlaceInv
<1>4. ~(BeginBulk \/ BeginSingle \/ BeginAdmin)
    <2>1. ASSUME NEW op, NEW put, NEW named, Begin(op, put, named) PROVE FALSE
        BY <1>2, <2>1 DEF Begin
    <2> QED BY <2>1 DEF BeginBulk, BeginSingle, BeginAdmin
<1>5. ~Rewrite /\ ~BulkEnds /\ ~(\E x \in Docs : Merge(x) \/ Other(x)) /\ ~UNCHANGED vars
    BY <1>2 DEF Rewrite, BulkEnds, Merge, Other, vars
<1>6. PICK x \in Docs : Bulk(x)
    BY <1>3, <1>4, <1>5 DEF Next
<1>7. CASE Apply(x, Put[x])
    <2>1. store' # store /\ \A y \in Docs \ {x} : store'[y] = store[y]
        <3>1. Put[x] \in Entry
            BY <1>1, <1>6, PutTyped DEF Bulk, PlaceInv, TypeInv, TypeOK, CallType, Told, Put
        <3>2. Put[x].body \in [Fields -> Nat]
            BY <3>1 DEF Entry
        <3> QED BY <1>2, <1>7, <3>2, WrittenStored, GoneStored DEF Apply
    <2> QED BY <1>6, <2>1
<1> QED BY <1>2, <1>6, <1>7 DEF Bulk

\* A document gets what it has and the new fields, unless it was not read or changed
\* before its revision was taken; without a revision it is only created.
LEMMA UpsertWritesMerged ==
    ASSUME TypeInv, UpsertInv, [Next]_vars, call.op = "upsert_documents", call' # call,
           NEW d \in Told, store'[d] # store[d]
    PROVE  IF Put[d].rev = None THEN ~store[d].live
           ELSE d \notin stale => \A f \in Fields : store'[d].body[f] =
                    IF Put[d].body[f] = Fresh THEN store'[d].rev ELSE store[d].body[f]
<1>1. d \in Docs /\ Put[d] \in Entry /\ ~Put[d].delete
    BY PutTyped DEF UpsertInv, TypeInv, TypeOK, CallType, Told, Put
<1>2. Bulk(d)
    BY <1>1, UpsertWrites
<1>3. call.at = "bulk" /\ Takes(d, Put[d].rev) /\ Written(d, Put[d].body)
    BY <1>1, <1>2 DEF Bulk, Apply, At
<1>4. CASE Put[d].rev = None
    <2>1. store[d].live => store[d].rev # None
        BY <1>1 DEF TypeInv, StoreInv
    <2> QED BY <1>3, <1>4, <2>1 DEF Takes
<1>5. CASE Put[d].rev # None
    <2> SUFFICES ASSUME d \notin stale, NEW f \in Fields
                 PROVE  store'[d].body[f] = IF Put[d].body[f] = Fresh THEN store'[d].rev
                                            ELSE store[d].body[f]
        BY <1>5
    <2>1. store[d].rev = Put[d].rev
        BY <1>3, <1>5 DEF Takes
    <2>2. Merged(d)
        BY <1>3, <1>5, <2>1 DEF UpsertInv, Held
    <2>3. Put[d].body \in [Fields -> Nat]
        BY <1>1 DEF Entry
    <2> QED BY <1>1, <1>3, <2>2, <2>3, WrittenStored DEF Merged
<1> QED BY <1>4, <1>5

\* What upsert_documents writes of a document keeps all the fields it has at that
\* moment, whatever others, the server and the network do, if the document was read
\* and did not change before its revision was taken.
THEOREM UpsertMergesCorrect == Spec => UpsertMerges
<1>1. Init => UpsertInv
    BY DEF Init, UpsertInv
<1>2. TypeInv /\ UpsertInv /\ [Next]_vars =>
          [\A d \in Told :
              call.op = "upsert_documents" /\ call' # call /\ store'[d] # store[d] =>
                  IF Put[d].rev = None THEN ~store[d].live
                  ELSE d \notin stale => \A f \in Fields : store'[d].body[f] =
                           IF Put[d].body[f] = Fresh THEN store'[d].rev ELSE store[d].body[f]]_vars
    BY UpsertWritesMerged
<1> QED BY TypeInit, TypeNext, UpsertNext, <1>1, <1>2, PTL DEF Spec, UpsertMerges
=============================================================================
