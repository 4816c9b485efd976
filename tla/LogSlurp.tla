-------------------------------- MODULE LogSlurp --------------------------------
(***************************************************************************)
(* The log slurper (environment/LogSlurp: LogController and                *)
(* SerializedStreamWriter), for the log of one session.  Devices send      *)
(* messages over WebSockets while HTTP calls start, finish and retrieve the *)
(* log.  ReadLogs receives into 4096 bytes and does not look at EndOfMessage:*)
(* a message is one piece or several (a longer one always, a shorter one if *)
(* it comes in parts), and each piece is written as a line with a tag of its*)
(* own.  A piece stands for its bytes, each of which is cast to a char, so  *)
(* that what is not ASCII is garbled; no property is about that.            *)
(* ASP.NET runs the handlers on a pool of threads: a step is what a handler *)
(* does up to the next point where another one can see or change FileLoggers,*)
(* the file or the semaphore of the writer.                                *)
(***************************************************************************)
EXTENDS Naturals, Sequences, FiniteSets

CONSTANTS Devices,                         \* the test client and the test servers
          Starters, Finishers, Retrievers, \* HTTP calls, each made at most once
          Nobody,                          \* holder of a free semaphore
          MaxPieces                        \* bound: pieces the devices' messages are received in, in all

Calls == Starters \cup Finishers \cup Retrievers

ASSUME SlurpAssumption ==
    /\ Devices \cap Calls = {}
    /\ Nobody \notin Devices \cup Calls
    /\ MaxPieces \in Nat

VARIABLES
    registered,   \* FileLoggers has the id of the log
    file,         \* the file of the log exists
    disposed,     \* the writer of the log was disposed
    holder,       \* who holds _semaphore
    waiters,      \* who waits for it, first come first served
    written,      \* tags and texts handed to _innerWriter
    flushed,      \* how many of them are in the file
    stream,       \* where the handler of each device's stream is
    piece,        \* the piece of a message it is writing
    link,         \* the device's end of the stream
    inbox,        \* frames the device sent that were not received
    sent,         \* in how many pieces what the device sent is received
    quota,        \* pieces that may still be sent
    call,         \* where the handler of each call is
    asked         \* history: what was written when a retrieval was received

log    == <<registered, file, disposed>>
mutex  == <<holder, waiters>>
output == <<written, flushed>>
device == <<stream, piece, link, inbox, sent, quota>>
vars   == <<log, mutex, output, device, call, asked>>

CloseFrame == 0
Tag(d)     == [device |-> d, piece |-> 0]
Text(d, n) == [device |-> d, piece |-> n]

Init ==
    /\ registered = FALSE /\ file = FALSE /\ disposed = FALSE
    /\ holder = Nobody
    /\ waiters = <<>>
    /\ written = <<>>
    /\ flushed = 0
    /\ stream = [d \in Devices |-> "none"]
    /\ piece = [d \in Devices |-> 0]
    /\ link = [d \in Devices |-> "down"]
    /\ inbox = [d \in Devices |-> <<>>]
    /\ sent = [d \in Devices |-> 0]
    /\ quota = MaxPieces
    /\ call = [c \in Calls |-> "none"]
    /\ asked = [c \in Calls |-> 0]

Go(c, from, to) == call[c] = from /\ call' = [call EXCEPT ![c] = to]

\* SemaphoreSlim: a release hands the semaphore to the first waiter, and a
\* semaphore that is disposed forgets its waiters.
WaitAsync(a) ==
    /\ ~disposed
    /\ holder' = IF holder = Nobody THEN a ELSE holder
    /\ waiters' = IF holder = Nobody THEN waiters ELSE Append(waiters, a)

Release ==
    /\ holder' = IF waiters = <<>> THEN Nobody ELSE Head(waiters)
    /\ waiters' = IF waiters = <<>> THEN <<>> ELSE Tail(waiters)

-----------------------------------------------------------------------------
(* POST /startNewLog                                                       *)

StartNewLog(c) ==
    /\ Go(c, "none", IF registered THEN "failed" ELSE "create")
    /\ UNCHANGED <<log, mutex, output, device, asked>>

\* FileMode.CreateNew: an exception if the file is there.
StartCreate(c) ==
    /\ Go(c, "create", IF file THEN "failed" ELSE "register")
    /\ file' = TRUE
    /\ UNCHANGED <<registered, disposed, mutex, output, device, asked>>

StartRegister(c) ==
    /\ Go(c, "register", "ok")
    /\ registered' = TRUE
    /\ UNCHANGED <<file, disposed, mutex, output, device, asked>>

-----------------------------------------------------------------------------
(* POST /finishLog                                                         *)

FinishLog(c) ==
    /\ Go(c, "none", IF registered THEN "remove" ELSE "failed")
    /\ UNCHANGED <<log, mutex, output, device, asked>>

FinishRemove(c) ==
    /\ registered
    /\ Go(c, "remove", "dispose")
    /\ registered' = FALSE
    /\ WaitAsync(c)
    /\ UNCHANGED <<file, disposed, output, device, asked>>

\* Another call has removed the log meanwhile.
FinishFail(c) ==
    /\ ~registered
    /\ Go(c, "remove", "failed")
    /\ UNCHANGED <<log, mutex, output, device, asked>>

\* Bug: the writer is disposed while somebody else holds the semaphore.
FinishDispose_NoWait(c) ==
    /\ Go(c, "dispose", "finished")
    /\ disposed' = TRUE
    /\ flushed' = Len(written)
    /\ waiters' = <<>>
    /\ UNCHANGED <<registered, file, holder, written, device, asked>>

\* The semaphore is never released: who waits for it waits for ever.
FinishDispose(c) ==
    /\ holder = c
    /\ Go(c, "dispose", "finished")
    /\ disposed' = TRUE
    /\ flushed' = Len(written)
    /\ waiters' = <<>>
    /\ UNCHANGED <<registered, file, holder, written, device, asked>>

-----------------------------------------------------------------------------
(* GET /retrieveLog                                                        *)

\* A log that /finishLog has removed but not disposed is not flushed here.
RetrieveLog(c) ==
    /\ Go(c, "none", IF registered THEN "flush" ELSE "open")
    /\ asked' = [asked EXCEPT ![c] = IF registered \/ disposed THEN Len(written) ELSE 0]
    /\ UNCHANGED <<log, mutex, output, device>>

RetrieveWait(c) ==
    /\ Go(c, "flush", "flushing")
    /\ WaitAsync(c)
    /\ UNCHANGED <<log, output, device, asked>>

\* The writer was disposed between its look-up and the call: an exception.
RetrieveTooLate(c) ==
    /\ disposed
    /\ Go(c, "flush", "failed")
    /\ UNCHANGED <<log, mutex, output, device, asked>>

\* Bug: the semaphore is taken and released, the buffer is not flushed.
RetrieveFlush_Nothing(c) ==
    /\ holder = c
    /\ Go(c, "flushing", "open")
    /\ Release
    /\ UNCHANGED <<log, output, device, asked>>

RetrieveFlush(c) ==
    /\ holder = c
    /\ Go(c, "flushing", "open")
    /\ flushed' = Len(written)
    /\ Release
    /\ UNCHANGED <<log, written, device, asked>>

RetrieveOpen(c) ==
    /\ Go(c, "open", IF file THEN "retrieved" ELSE "failed")
    /\ asked' = [asked EXCEPT ![c] = 0]
    /\ UNCHANGED <<log, mutex, output, device>>

-----------------------------------------------------------------------------
(* GET /openLogStream and ReadLogs                                         *)

\* GetLogID finds the log (the call is refused otherwise) and the WebSocket is
\* accepted.
OpenLogStream(d) ==
    /\ stream[d] = "none"
    /\ registered
    /\ stream' = [stream EXCEPT ![d] = "accepted"]
    /\ link' = [link EXCEPT ![d] = "up"]
    /\ UNCHANGED <<log, mutex, output, piece, inbox, sent, quota, call, asked>>

\* FileLoggers[id] is looked up once more.
ReadLogs(d) ==
    /\ stream[d] = "accepted"
    /\ registered
    /\ stream' = [stream EXCEPT ![d] = "reading"]
    /\ UNCHANGED <<log, mutex, output, piece, link, inbox, sent, quota, call, asked>>

NextFrame(d, frames) == stream[d] = "reading" /\ inbox[d] # <<>> /\ Head(inbox[d]) \in frames

\* One ReceiveAsync: the next piece, whether or not it ends its message.
ReceivePiece(d) ==
    /\ NextFrame(d, 1 .. MaxPieces)
    /\ WaitAsync(d)
    /\ inbox' = [inbox EXCEPT ![d] = Tail(inbox[d])]
    /\ piece' = [piece EXCEPT ![d] = Head(inbox[d])]
    /\ stream' = [stream EXCEPT ![d] = "tag"]
    /\ UNCHANGED <<log, output, link, sent, quota, call, asked>>

\* Bug: the prologue is written before the semaphore is taken.
WriteTag_NoWait(d) ==
    /\ stream[d] = "tag"
    /\ written' = Append(written, Tag(d))
    /\ stream' = [stream EXCEPT ![d] = "line"]
    /\ UNCHANGED <<log, mutex, flushed, piece, link, inbox, sent, quota, call, asked>>

WriteTag(d) ==
    /\ stream[d] = "tag"
    /\ holder = d
    /\ written' = Append(written, Tag(d))
    /\ stream' = [stream EXCEPT ![d] = "line"]
    /\ UNCHANGED <<log, mutex, flushed, piece, link, inbox, sent, quota, call, asked>>

\* Bug: the semaphore is kept if the stream is lost meanwhile.
WriteLine_NoFinally(d) ==
    /\ stream[d] = "line"
    /\ written' = Append(written, Text(d, piece[d]))
    /\ stream' = [stream EXCEPT ![d] = "reading"]
    /\ piece' = [piece EXCEPT ![d] = 0]
    /\ IF link[d] = "lost" THEN UNCHANGED mutex ELSE Release
    /\ UNCHANGED <<log, flushed, link, inbox, sent, quota, call, asked>>

\* (The inner writer also flushes itself when its buffer is full; that only
\* brings text into the file earlier, and is left out.)
WriteLine(d) ==
    /\ stream[d] = "line"
    /\ written' = Append(written, Text(d, piece[d]))
    /\ stream' = [stream EXCEPT ![d] = "reading"]
    /\ piece' = [piece EXCEPT ![d] = 0]
    /\ Release
    /\ UNCHANGED <<log, flushed, link, inbox, sent, quota, call, asked>>

End(d, how) ==
    /\ stream' = [stream EXCEPT ![d] = how]
    /\ link' = [link EXCEPT ![d] = "down"]
    /\ inbox' = [inbox EXCEPT ![d] = <<>>]
    /\ UNCHANGED <<log, mutex, output, piece, sent, quota, call, asked>>

\* Bug: a close frame overtakes the messages before it.
ReceiveClose_First(d) ==
    stream[d] = "reading" /\ link[d] = "closing" /\ End(d, "closed")

ReceiveClose(d) == NextFrame(d, {CloseFrame}) /\ End(d, "closed")

\* FileLoggers[id], ReceiveAsync or WriteAsync throws: the log was removed before
\* it was looked up again, the connection is gone, the writer was disposed.
StreamFails(d) ==
    /\ \/ stream[d] = "accepted" /\ ~registered
       \/ stream[d] = "reading" /\ link[d] = "lost"
       \/ NextFrame(d, 1 .. MaxPieces) /\ disposed
    /\ End(d, "aborted")

-----------------------------------------------------------------------------
(* The devices.                                                            *)

\* A message that is received in n pieces.  Its handler may take, and the
\* connection lose, only some of them.
SendMessage(d) ==
    /\ link[d] = "up"
    /\ \E n \in 1 .. quota :
          /\ quota' = quota - n
          /\ sent' = [sent EXCEPT ![d] = sent[d] + n]
          /\ inbox' = [inbox EXCEPT ![d] = inbox[d] \o [i \in 1 .. n |-> sent[d] + i]]
    /\ UNCHANGED <<log, mutex, output, stream, piece, link, call, asked>>

SendClose(d) ==
    /\ link[d] = "up"
    /\ inbox' = [inbox EXCEPT ![d] = Append(inbox[d], CloseFrame)]
    /\ link' = [link EXCEPT ![d] = "closing"]
    /\ UNCHANGED <<log, mutex, output, stream, piece, sent, quota, call, asked>>

\* The connection breaks, with what was on its way.
Lose(d) ==
    /\ link[d] \in {"up", "closing"}
    /\ link' = [link EXCEPT ![d] = "lost"]
    /\ inbox' = [inbox EXCEPT ![d] = <<>>]
    /\ UNCHANGED <<log, mutex, output, stream, piece, sent, quota, call, asked>>

-----------------------------------------------------------------------------
Start(c)    == StartCreate(c) \/ StartRegister(c)
Finish(c)   == FinishRemove(c) \/ FinishFail(c) \/ FinishDispose(c)
Retrieve(c) == RetrieveWait(c) \/ RetrieveTooLate(c) \/ RetrieveFlush(c) \/ RetrieveOpen(c)

HandleStream(d) ==
    \/ ReadLogs(d) \/ ReceivePiece(d) \/ WriteTag(d) \/ WriteLine(d)
    \/ ReceiveClose(d) \/ StreamFails(d)

Next ==
    \/ \E c \in Starters : StartNewLog(c) \/ Start(c)
    \/ \E c \in Finishers : FinishLog(c) \/ Finish(c)
    \/ \E c \in Retrievers : RetrieveLog(c) \/ Retrieve(c)
    \/ \E d \in Devices : OpenLogStream(d) \/ HandleStream(d)
    \/ \E d \in Devices : SendMessage(d) \/ SendClose(d) \/ Lose(d)

\* The pool runs every handler that can go on; nobody is obliged to send a
\* message, to close a stream or to make a call.
Fairness ==
    /\ \A c \in Starters : WF_vars(Start(c))
    /\ \A c \in Finishers : WF_vars(Finish(c))
    /\ \A c \in Retrievers : WF_vars(Retrieve(c))
    /\ \A d \in Devices : WF_vars(HandleStream(d))

Spec == Init /\ [][Next]_vars /\ Fairness

-----------------------------------------------------------------------------
Ended == {"ok", "failed", "finished", "retrieved"}

\* The log as its reader sees it: each text belongs to the tag before it.
Entries ==
    [i \in 1 .. Len(written) \div 2 |->
        [device |-> IF written[2 * i - 1] = Tag(written[2 * i].device)
                    THEN written[2 * i].device ELSE Nobody,
         number |-> written[2 * i].piece]]

PiecesOf(d) == Cardinality({i \in DOMAIN Entries : Entries[i].device = d})

\* The slurper implements the shared log: every piece of a message has the tag of
\* its device before it, never one inside another, those of a device are in the
\* order it sent them and without a gap, none comes after the log was finished
\* (the semaphore of SerializedStreamWriter).  It does not keep a message
\* together: between two pieces of one those of other devices may come.
Shared == INSTANCE SharedLog WITH
              log <- Entries, count <- [d \in Devices |-> PiecesOf(d)], finished <- disposed
ImplementsSharedLog == Shared!Spec

\* A device whose close was answered finds all it sent in the log: the test
\* client closes its stream before it calls /finishLog (LogSlurpHandler.close).
ClosedStreamIsLogged == \A d \in Devices : stream[d] = "closed" => PiecesOf(d) = sent[d]

\* Once /finishLog was answered the file holds everything that was written, in
\* whole pieces, so that the log can be retrieved from the file alone.
FinishedLogIsInFile ==
    (\E c \in Calls : call[c] = "finished") => flushed = Len(written) /\ flushed = 2 * Len(Entries)

\* A retrieved log holds whatever was written when the call was received, unless
\* /finishLog had removed the log and not yet disposed its writer: in that
\* window the buffer is not flushed for the call (TryGetValue fails).
RetrievedLogIsFresh == \A c \in Retrievers : call[c] = "open" => flushed >= asked[c]

\* Every call is answered, but for a retrieval that waits for the semaphore
\* when the writer is disposed: it is forgotten.
CallsAreAnswered ==
    \A c \in Calls :
        call[c] # "none" ~> (call[c] \in Ended \/ (call[c] = "flushing" /\ disposed))

\* "In response to the call to /finishLog, the slurper will close all websocket
\* connections for that session" (environment/LogSlurp/README.md).
FinishClosesStreams == \A d \in Devices : disposed ~> link[d] # "up"
=============================================================================
