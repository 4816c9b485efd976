-------------------------- MODULE Environment_proofs --------------------------
(***************************************************************************)
(* Theorems about the environment of the tests.                            *)
(*                                                                         *)
(* The log slurper, for any number of devices, calls and pieces: the log it *)
(* writes is the one SharedLog promises, what is in the file when a call   *)
(* is answered, and what a closed stream stands for.                       *)
(*                                                                         *)
(* The scripts that start and stop the backend, for any topologies, steps  *)
(* and number of scripts: what is true of the hosts in the configuration   *)
(* that a successful start has written.                                    *)
(***************************************************************************)
EXTENDS LogSlurp, Backend, SequenceTheorems, FiniteSetTheorems, TLAPS

\* Numbers up to one, and the members of a sequence.
LEMMA UpTo ==
    ASSUME NEW n \in Nat
    PROVE  IsFiniteSet(1..n) /\ Cardinality(1..n) = n
BY FS_Interval

LEMMA ListType ==
    ASSUME NEW S, NEW q \in Seq(S)
    PROVE  DOMAIN q = 1..Len(q) /\ Len(q) \in Nat /\ \A i \in DOMAIN q : q[i] \in S
OBVIOUS

----------------------------------------------------------------------------
\* The log slurper.

(***************************************************************************)
(* The inductive invariant, in parts.                                      *)
(***************************************************************************)
Streams == {"none", "accepted", "reading", "tag", "line", "closed", "aborted"}
Links   == {"down", "up", "closing", "lost"}
Places  == {"none", "create", "register", "remove", "dispose", "flush", "flushing", "open"} \cup Ended

TypeInv ==
    /\ registered \in BOOLEAN /\ file \in BOOLEAN /\ disposed \in BOOLEAN
    /\ holder \in Devices \cup Calls \cup {Nobody}
    /\ waiters \in Seq(Devices \cup Calls)
    /\ written \in Seq([device : Devices, piece : Nat])
    /\ flushed \in Nat
    /\ stream \in [Devices -> Streams]
    /\ piece \in [Devices -> Nat]
    /\ link \in [Devices -> Links]
    /\ inbox \in [Devices -> Seq(Nat)]
    /\ sent \in [Devices -> Nat]
    /\ quota \in Nat
    /\ call \in [Calls -> Places]
    /\ asked \in [Calls -> Nat]

\* A device that is between its tag and its text holds the semaphore, and a writer
\* that was disposed leaves it with the call that disposed it.
HolderInv ==
    /\ \A d \in Devices : stream[d] = "line" => holder = d
    /\ disposed => holder \in Calls /\ call[holder] = "finished"
    /\ \A c \in Calls : call[c] = "finished" => disposed

Whole == Len(written) \div 2

\* The file is made of pairs, of a tag and the text that belongs to it; a tag
\* without a text yet is that of the device that is writing.
PairInv ==
    /\ \A i \in 1 .. Whole : written[2 * i - 1] = Tag(written[2 * i].device)
    /\ \A d \in Devices : stream[d] = "line" =>
          Len(written) = 2 * Whole + 1 /\ written[Len(written)] = Tag(d)
    /\ (\A d \in Devices : stream[d] # "line") => Len(written) = 2 * Whole

\* The number of the piece that a device's handler receives next.
Writing(d) == stream[d] \in {"tag", "line"}
NextPiece(d) == IF Writing(d) THEN PiecesOf(d) + 2 ELSE PiecesOf(d) + 1

\* The frames on their way are the pieces that follow those in the log, up to the
\* last one the device sent, and then perhaps its close.
PieceInv(d) ==
    /\ Writing(d) => piece[d] = PiecesOf(d) + 1
    /\ stream[d] = "none" => PiecesOf(d) = 0 /\ sent[d] = 0
    /\ stream[d] \in {"none", "closed", "aborted"} => link[d] = "down"
    /\ stream[d] = "closed" => PiecesOf(d) = sent[d]
    /\ link[d] = "up" =>
          /\ \A i \in 1 .. Len(inbox[d]) : inbox[d][i] = NextPiece(d) + i - 1
          /\ sent[d] = NextPiece(d) + Len(inbox[d]) - 1
    /\ link[d] = "closing" =>
          /\ Len(inbox[d]) > 0 /\ inbox[d][Len(inbox[d])] = CloseFrame
          /\ \A i \in 1 .. Len(inbox[d]) - 1 : inbox[d][i] = NextPiece(d) + i - 1
          /\ sent[d] = NextPiece(d) + Len(inbox[d]) - 2
    /\ link[d] \in {"down", "lost"} => inbox[d] = <<>>

OrderInv == \A d \in Devices : PieceInv(d)

\* What is in the file, and what a retrieval may count on.
FileInv ==
    /\ flushed <= Len(written)
    /\ disposed => flushed = Len(written)
    /\ \A c \in Calls : asked[c] <= Len(written)
    /\ \A c \in Calls : call[c] = "open" => asked[c] <= flushed

SlurpInv == TypeInv /\ HolderInv /\ PairInv /\ OrderInv /\ FileInv

(***************************************************************************)
(* Types.                                                                  *)
(***************************************************************************)
LEMMA ActorsAreDisjoint ==
    /\ \A d \in Devices : d \notin Calls /\ d # Nobody
    /\ \A c \in Calls : c # Nobody
BY SlurpAssumption

LEMMA GoType ==
    ASSUME TypeInv, NEW c \in Calls, NEW from, NEW to \in Places, Go(c, from, to)
    PROVE  /\ call' \in [Calls -> Places]
           /\ call[c] = from /\ call'[c] = to
           /\ \A b \in Calls \ {c} : call'[b] = call[b]
BY DEF TypeInv, Go

LEMMA WaitType ==
    ASSUME TypeInv, NEW a \in Devices \cup Calls, WaitAsync(a)
    PROVE  /\ holder' \in Devices \cup Calls \cup {Nobody} /\ waiters' \in Seq(Devices \cup Calls)
           /\ holder # Nobody => holder' = holder
<1>1. waiters' \in Seq(Devices \cup Calls)
    <2>1. Append(waiters, a) \in Seq(Devices \cup Calls)
        BY AppendProperties DEF TypeInv
    <2> QED BY <2>1 DEF TypeInv, WaitAsync
<1> QED BY <1>1 DEF TypeInv, WaitAsync

LEMMA ReleaseType ==
    ASSUME TypeInv, Release
    PROVE  /\ holder' \in Devices \cup Calls \cup {Nobody} /\ waiters' \in Seq(Devices \cup Calls)
<1>1. CASE waiters = <<>>
    BY <1>1 DEF TypeInv, Release
<1>2. CASE waiters # <<>>
    <2>1. Head(waiters) \in Devices \cup Calls /\ Tail(waiters) \in Seq(Devices \cup Calls)
        BY <1>2, HeadTailProperties DEF TypeInv
    <2> QED BY <1>2, <2>1 DEF Release
<1> QED BY <1>1, <1>2

LEMMA FrameType ==
    ASSUME TypeInv, NEW d \in Devices, inbox[d] # <<>>
    PROVE  /\ Head(inbox[d]) \in Nat /\ Head(inbox[d]) = inbox[d][1] /\ Tail(inbox[d]) \in Seq(Nat)
           /\ Len(inbox[d]) > 0 /\ Len(Tail(inbox[d])) = Len(inbox[d]) - 1
           /\ \A i \in 1 .. Len(inbox[d]) - 1 : Tail(inbox[d])[i] = inbox[d][i + 1]
<1>1. inbox[d] \in Seq(Nat)
    BY DEF TypeInv
<1> QED BY <1>1, HeadTailProperties, EmptySeq, LenProperties

LEMMA TypeInit == Init => TypeInv
<1> SUFFICES ASSUME Init PROVE TypeInv
    OBVIOUS
<1>1. /\ waiters \in Seq(Devices \cup Calls) /\ written \in Seq([device : Devices, piece : Nat])
      /\ inbox \in [Devices -> Seq(Nat)]
    BY EmptySeq DEF Init
<1>2. /\ stream \in [Devices -> Streams] /\ link \in [Devices -> Links] /\ call \in [Calls -> Places]
      /\ piece \in [Devices -> Nat] /\ sent \in [Devices -> Nat] /\ asked \in [Calls -> Nat]
    BY DEF Init, Streams, Links, Places
<1>3. /\ registered \in BOOLEAN /\ file \in BOOLEAN /\ disposed \in BOOLEAN
      /\ flushed \in Nat /\ quota \in Nat /\ holder \in Devices \cup Calls \cup {Nobody}
    BY SlurpAssumption DEF Init
<1> QED BY <1>1, <1>2, <1>3 DEF TypeInv

\* The handlers of the HTTP calls.
LEMMA TypeCall ==
    ASSUME TypeInv, NEW c \in Calls,
           StartNewLog(c) \/ Start(c) \/ FinishLog(c) \/ Finish(c) \/ RetrieveLog(c) \/ Retrieve(c)
    PROVE  TypeInv'
<1>a. ASSUME NEW from, NEW to \in Places, Go(c, from, to) PROVE call' \in [Calls -> Places]
    BY <1>a, GoType
<1>l. Len(written) \in Nat
    BY LenProperties DEF TypeInv
<1> USE DEF TypeInv, log, mutex, output, device
<1>1. CASE StartNewLog(c)
    <2>1. call' \in [Calls -> Places]
        BY <1>1, <1>a DEF StartNewLog, Places, Ended
    <2> QED BY <1>1, <2>1 DEF StartNewLog
<1>2. CASE StartCreate(c)
    <2>1. call' \in [Calls -> Places]
        BY <1>2, <1>a DEF StartCreate, Places, Ended
    <2> QED BY <1>2, <2>1 DEF StartCreate
<1>3. CASE StartRegister(c)
    <2>1. call' \in [Calls -> Places]
        BY <1>3, <1>a DEF StartRegister, Places, Ended
    <2> QED BY <1>3, <2>1 DEF StartRegister
<1>4. CASE FinishLog(c) \/ FinishFail(c)
    <2>1. call' \in [Calls -> Places]
        BY <1>4, <1>a DEF FinishLog, FinishFail, Places, Ended
    <2> QED BY <1>4, <2>1 DEF FinishLog, FinishFail
<1>5. CASE FinishRemove(c)
    <2>1. call' \in [Calls -> Places]
        BY <1>5, <1>a DEF FinishRemove, Places
    <2>2. holder' \in Devices \cup Calls \cup {Nobody} /\ waiters' \in Seq(Devices \cup Calls)
        BY <1>5, WaitType DEF FinishRemove
    <2> QED BY <1>5, <2>1, <2>2 DEF FinishRemove
<1>6. CASE FinishDispose(c)
    <2>1. call' \in [Calls -> Places]
        BY <1>6, <1>a DEF FinishDispose, Places, Ended
    <2>2. waiters' \in Seq(Devices \cup Calls)
        BY <1>6, EmptySeq DEF FinishDispose
    <2> QED BY <1>6, <1>l, <2>1, <2>2 DEF FinishDispose
<1>7. CASE RetrieveLog(c)
    <2>1. call' \in [Calls -> Places]
        BY <1>7, <1>a DEF RetrieveLog, Places
    <2>2. asked' \in [Calls -> Nat]
        BY <1>7, <1>l DEF RetrieveLog
    <2> QED BY <1>7, <2>1, <2>2 DEF RetrieveLog
<1>8. CASE RetrieveWait(c)
    <2>1. call' \in [Calls -> Places]
        BY <1>8, <1>a DEF RetrieveWait, Places
    <2>2. holder' \in Devices \cup Calls \cup {Nobody} /\ waiters' \in Seq(Devices \cup Calls)
        BY <1>8, WaitType DEF RetrieveWait
    <2> QED BY <1>8, <2>1, <2>2 DEF RetrieveWait
<1>9. CASE RetrieveTooLate(c)
    <2>1. call' \in [Calls -> Places]
        BY <1>9, <1>a DEF RetrieveTooLate, Places, Ended
    <2> QED BY <1>9, <2>1 DEF RetrieveTooLate
<1>10. CASE RetrieveFlush(c)
    <2>1. call' \in [Calls -> Places]
        BY <1>10, <1>a DEF RetrieveFlush, Places
    <2>2. holder' \in Devices \cup Calls \cup {Nobody} /\ waiters' \in Seq(Devices \cup Calls)
        BY <1>10, ReleaseType DEF RetrieveFlush
    <2> QED BY <1>10, <1>l, <2>1, <2>2 DEF RetrieveFlush
<1>11. CASE RetrieveOpen(c)
    <2>1. call' \in [Calls -> Places]
        BY <1>11, <1>a DEF RetrieveOpen, Places, Ended
    <2>2. asked' \in [Calls -> Nat]
        BY <1>11 DEF RetrieveOpen
    <2> QED BY <1>11, <2>1, <2>2 DEF RetrieveOpen
<1> QED BY <1>1, <1>2, <1>3, <1>4, <1>5, <1>6, <1>7, <1>8, <1>9, <1>10, <1>11
        DEF Start, Finish, Retrieve

\* The handlers of the streams.
LEMMA TypeStream ==
    ASSUME TypeInv, NEW d \in Devices, OpenLogStream(d) \/ HandleStream(d)
    PROVE  TypeInv'
<1> USE DEF TypeInv, log, mutex, output
<1>1. CASE OpenLogStream(d)
    BY <1>1 DEF OpenLogStream, Streams, Links
<1>2. CASE ReadLogs(d)
    BY <1>2 DEF ReadLogs, Streams
<1>3. CASE ReceivePiece(d)
    <2>1. Head(inbox[d]) \in Nat /\ Tail(inbox[d]) \in Seq(Nat)
        BY <1>3, FrameType DEF ReceivePiece, NextFrame
    <2>2. holder' \in Devices \cup Calls \cup {Nobody} /\ waiters' \in Seq(Devices \cup Calls)
        BY <1>3, WaitType DEF ReceivePiece
    <2>3. inbox' \in [Devices -> Seq(Nat)] /\ piece' \in [Devices -> Nat] /\ stream' \in [Devices -> Streams]
        BY <1>3, <2>1 DEF ReceivePiece, Streams
    <2> QED BY <1>3, <2>2, <2>3 DEF ReceivePiece
<1>4. CASE WriteTag(d)
    <2>1. Tag(d) \in [device : Devices, piece : Nat]
        BY DEF Tag
    <2>2. written' \in Seq([device : Devices, piece : Nat])
        BY <1>4, <2>1, AppendProperties DEF WriteTag
    <2>3. stream' \in [Devices -> Streams]
        BY <1>4 DEF WriteTag, Streams
    <2> QED BY <1>4, <2>2, <2>3 DEF WriteTag
<1>5. CASE WriteLine(d)
    <2>1. Text(d, piece[d]) \in [device : Devices, piece : Nat]
        BY DEF Text
    <2>2. written' \in Seq([device : Devices, piece : Nat])
        BY <1>5, <2>1, AppendProperties DEF WriteLine
    <2>3. stream' \in [Devices -> Streams] /\ piece' \in [Devices -> Nat]
        BY <1>5 DEF WriteLine, Streams
    <2>4. holder' \in Devices \cup Calls \cup {Nobody} /\ waiters' \in Seq(Devices \cup Calls)
        BY <1>5, ReleaseType DEF WriteLine
    <2> QED BY <1>5, <2>2, <2>3, <2>4 DEF WriteLine
<1>6. ASSUME NEW how \in {"closed", "aborted"}, End(d, how) PROVE TypeInv'
    <2>1. inbox' \in [Devices -> Seq(Nat)]
        BY <1>6, EmptySeq DEF End
    <2> QED BY <1>6, <2>1 DEF End, Streams, Links
<1>7. CASE ReceiveClose(d) \/ StreamFails(d)
    BY <1>6, <1>7 DEF ReceiveClose, StreamFails
<1> QED BY <1>1, <1>2, <1>3, <1>4, <1>5, <1>7 DEF HandleStream

LEMMA TypeDevice ==
    ASSUME TypeInv, NEW d \in Devices, SendMessage(d) \/ SendClose(d) \/ Lose(d)
    PROVE  TypeInv'
<1> USE DEF TypeInv, log, mutex, output
<1>1. CASE SendMessage(d)
    <2>1. PICK n \in 1 .. quota :
             /\ quota' = quota - n
             /\ sent' = [sent EXCEPT ![d] = sent[d] + n]
             /\ inbox' = [inbox EXCEPT ![d] = inbox[d] \o [i \in 1 .. n |-> sent[d] + i]]
        BY <1>1 DEF SendMessage
    <2>2. n \in Nat /\ sent[d] + n \in Nat /\ quota - n \in Nat
        BY <2>1
    <2>3. [i \in 1 .. n |-> sent[d] + i] \in Seq(Nat)
        BY <2>2, ListType
    <2>4. inbox[d] \o [i \in 1 .. n |-> sent[d] + i] \in Seq(Nat)
        BY <2>3, ConcatProperties
    <2>5. inbox' \in [Devices -> Seq(Nat)] /\ sent' \in [Devices -> Nat] /\ quota' \in Nat
        BY <2>1, <2>2, <2>4
    <2> QED BY <1>1, <2>5 DEF SendMessage
<1>2. CASE SendClose(d)
    <2>1. Append(inbox[d], CloseFrame) \in Seq(Nat)
        BY AppendProperties DEF CloseFrame
    <2>2. inbox' \in [Devices -> Seq(Nat)] /\ link' \in [Devices -> Links]
        BY <1>2, <2>1 DEF SendClose, Links
    <2> QED BY <1>2, <2>2 DEF SendClose
<1>3. CASE Lose(d)
    <2>1. inbox' \in [Devices -> Seq(Nat)] /\ link' \in [Devices -> Links]
        BY <1>3, EmptySeq DEF Lose, Links
    <2> QED BY <1>3, <2>1 DEF Lose
<1> QED BY <1>1, <1>2, <1>3

LEMMA TypeStep == TypeInv /\ [Next]_vars => TypeInv'
<1>1. Starters \subseteq Calls /\ Finishers \subseteq Calls /\ Retrievers \subseteq Calls
    BY DEF Calls
<1>2. UNCHANGED vars /\ TypeInv => TypeInv'
    BY DEF vars, TypeInv, log, mutex, output, device
<1> QED BY <1>1, <1>2, TypeCall, TypeStream, TypeDevice DEF Next

(***************************************************************************)
(* The semaphore: who is between tag and text holds it, and a disposed     *)
(* writer never gives it back.                                             *)
(***************************************************************************)
LEMMA HolderInit == Init => HolderInv
BY DEF Init, HolderInv

\* A step that neither begins nor ends to write, nor disposes the writer.
LEMMA HolderFrame ==
    ASSUME TypeInv, HolderInv, UNCHANGED disposed,
           holder' = holder \/ (holder = Nobody /\ ~disposed),
           \A d \in Devices : stream'[d] = "line" => stream[d] = "line",
           \A c \in Calls : call'[c] = "finished" <=> call[c] = "finished"
    PROVE  HolderInv'
<1>1. \A d \in Devices : stream'[d] = "line" => holder' = d
    BY ActorsAreDisjoint DEF HolderInv
<1> QED BY <1>1 DEF HolderInv

LEMMA HolderCall ==
    ASSUME TypeInv, HolderInv, NEW c \in Calls,
           StartNewLog(c) \/ Start(c) \/ FinishLog(c) \/ Finish(c) \/ RetrieveLog(c) \/ Retrieve(c)
    PROVE  HolderInv'
<1>a. ASSUME NEW from, NEW to, Go(c, from, to), from # "finished", to # "finished"
      PROVE  \A b \in Calls : call'[b] = "finished" <=> call[b] = "finished"
    BY <1>a DEF Go, TypeInv
<1>1. CASE \/ StartNewLog(c) \/ Start(c) \/ FinishLog(c) \/ FinishRemove(c) \/ FinishFail(c)
           \/ RetrieveLog(c) \/ RetrieveWait(c) \/ RetrieveTooLate(c) \/ RetrieveOpen(c)
    <2>1. \A b \in Calls : call'[b] = "finished" <=> call[b] = "finished"
        BY <1>1, <1>a DEF StartNewLog, Start, StartCreate, StartRegister, FinishLog, FinishRemove,
           FinishFail, RetrieveLog, RetrieveWait, RetrieveTooLate, RetrieveOpen
    <2>2. UNCHANGED <<disposed, stream>> /\ (holder' = holder \/ (holder = Nobody /\ ~disposed))
        BY <1>1 DEF StartNewLog, Start, StartCreate, StartRegister, FinishLog, FinishRemove,
           FinishFail, RetrieveLog, RetrieveWait, RetrieveTooLate, RetrieveOpen, WaitAsync,
           log, mutex, device
    <2> QED BY <2>1, <2>2, HolderFrame
<1>2. CASE FinishDispose(c)
    <2>1. holder = c /\ disposed' = TRUE /\ UNCHANGED <<holder, stream>> /\ call'[c] = "finished"
        BY <1>2, GoType DEF FinishDispose, device, Places, Ended
    <2> QED BY <2>1 DEF HolderInv
<1>3. CASE RetrieveFlush(c)
    <2>1. /\ call[c] = "flushing" /\ holder = c /\ UNCHANGED <<disposed, stream>>
          /\ \A b \in Calls : call'[b] = "finished" <=> call[b] = "finished"
        BY <1>3, <1>a DEF RetrieveFlush, Go, log, device
    <2>2. ~disposed /\ \A d \in Devices : stream[d] # "line"
        BY <2>1, ActorsAreDisjoint DEF HolderInv
    <2> QED BY <2>1, <2>2 DEF HolderInv
<1> QED BY <1>1, <1>2, <1>3 DEF Finish, Retrieve

LEMMA HolderStream ==
    ASSUME TypeInv, HolderInv, NEW d \in Devices,
           OpenLogStream(d) \/ HandleStream(d) \/ SendMessage(d) \/ SendClose(d) \/ Lose(d)
    PROVE  HolderInv'
<1>1. CASE \/ OpenLogStream(d) \/ ReadLogs(d) \/ ReceivePiece(d) \/ ReceiveClose(d) \/ StreamFails(d)
           \/ SendMessage(d) \/ SendClose(d) \/ Lose(d)
    <2>1. UNCHANGED <<disposed, call>> /\ (holder' = holder \/ (holder = Nobody /\ ~disposed))
        BY <1>1 DEF OpenLogStream, ReadLogs, ReceivePiece, ReceiveClose, StreamFails, End, SendMessage,
           SendClose, Lose, WaitAsync, log, mutex
    <2>2. \A e \in Devices : stream'[e] = "line" => stream[e] = "line"
        BY <1>1 DEF OpenLogStream, ReadLogs, ReceivePiece, ReceiveClose, StreamFails, End, SendMessage,
           SendClose, Lose, TypeInv
    <2> QED BY <2>1, <2>2, HolderFrame
<1>2. CASE WriteTag(d)
    <2>1. /\ holder = d /\ UNCHANGED <<disposed, holder, call>>
          /\ \A e \in Devices \ {d} : stream'[e] = stream[e]
        BY <1>2 DEF WriteTag, log, mutex, TypeInv
    <2> QED BY <2>1 DEF HolderInv
<1>3. CASE WriteLine(d)
    <2>1. /\ stream[d] = "line" /\ UNCHANGED <<disposed, call>>
          /\ stream'[d] = "reading" /\ \A e \in Devices \ {d} : stream'[e] = stream[e]
        BY <1>3 DEF WriteLine, log, TypeInv
    <2>2. ~disposed /\ \A e \in Devices : stream'[e] # "line"
        BY <2>1, ActorsAreDisjoint DEF HolderInv
    <2> QED BY <2>1, <2>2 DEF HolderInv
<1> QED BY <1>1, <1>2, <1>3 DEF HandleStream

LEMMA HolderStep == TypeInv /\ HolderInv /\ [Next]_vars => HolderInv'
<1>1. Starters \subseteq Calls /\ Finishers \subseteq Calls /\ Retrievers \subseteq Calls
    BY DEF Calls
<1>2. UNCHANGED vars /\ HolderInv => HolderInv'
    BY DEF vars, HolderInv, log, mutex, device
<1> QED BY <1>1, <1>2, HolderCall, HolderStream DEF Next

(***************************************************************************)
(* The pairs of the file and the pieces of a device.                       *)
(***************************************************************************)
LEMMA Halves ==
    ASSUME NEW n \in Nat
    PROVE  /\ n \div 2 \in Nat
           /\ n = 2 * (n \div 2) \/ n = 2 * (n \div 2) + 1
           /\ \A k \in Nat : n = 2 * k \/ n = 2 * k + 1 => n \div 2 = k
OBVIOUS

LEMMA WholeType ==
    ASSUME TypeInv
    PROVE  /\ Len(written) \in Nat /\ Whole \in Nat
           /\ Len(written) = 2 * Whole \/ Len(written) = 2 * Whole + 1
           /\ \A i \in 1 .. Whole : /\ 2 * i - 1 \in 1 .. Len(written) /\ 2 * i \in 1 .. Len(written)
                                    /\ written[2 * i].device \in Devices
                                    /\ written[2 * i].piece \in Nat
<1>1. Len(written) \in Nat
    BY LenProperties DEF TypeInv
<1>2. Whole \in Nat /\ (Len(written) = 2 * Whole \/ Len(written) = 2 * Whole + 1)
    BY <1>1, Halves DEF Whole
<1>3. \A i \in 1 .. Whole : 2 * i - 1 \in 1 .. Len(written) /\ 2 * i \in 1 .. Len(written)
    BY <1>1, <1>2
<1>4. \A i \in 1 .. Len(written) : written[i] \in [device : Devices, piece : Nat]
    BY ElementOfSeq DEF TypeInv
<1> QED BY <1>1, <1>2, <1>3, <1>4

\* What the reader of the log makes of it when every tag belongs to its text.
EntriesArePairs ==
    /\ Entries \in Seq([device : Devices, number : Nat])
    /\ Whole \in Nat /\ DOMAIN Entries = 1 .. Whole /\ Len(Entries) = Whole
    /\ \A i \in 1 .. Whole : Entries[i] = [device |-> written[2 * i].device,
                                          number |-> written[2 * i].piece]

LEMMA EntriesType == TypeInv /\ PairInv => EntriesArePairs
<1> SUFFICES ASSUME TypeInv, PairInv PROVE EntriesArePairs
    OBVIOUS
<1>1. Entries = [i \in 1 .. Whole |->
                    [device |-> IF written[2 * i - 1] = Tag(written[2 * i].device)
                                THEN written[2 * i].device ELSE Nobody,
                     number |-> written[2 * i].piece]]
    BY DEF Entries, Whole
<1>2. DOMAIN Entries = 1 .. Whole
      /\ \A i \in 1 .. Whole : Entries[i] = [device |-> written[2 * i].device,
                                             number |-> written[2 * i].piece]
    BY <1>1, Zenon DEF PairInv
<1>3. Whole \in Nat
    BY WholeType
<1>4. ASSUME NEW i \in 1 .. Whole PROVE Entries[i] \in [device : Devices, number : Nat]
    <2>1. written[2 * i].device \in Devices /\ written[2 * i].piece \in Nat
        BY WholeType
    <2> QED BY <1>2, <2>1
<1>5. Entries \in [1 .. Whole -> [device : Devices, number : Nat]]
    <2>1. Entries = [i \in 1 .. Whole |-> Entries[i]]
        BY <1>1, Zenon
    <2> QED BY <1>4, <2>1, Zenon
<1>6. Entries \in Seq([device : Devices, number : Nat]) /\ Len(Entries) = Whole
    <2>1. Entries \in Seq([device : Devices, number : Nat])
        BY <1>3, <1>5, SeqDef
    <2>2. Len(Entries) \in Nat /\ DOMAIN Entries = 1 .. Len(Entries)
        BY <2>1, LenProperties
    <2> QED BY <1>2, <1>3, <2>1, <2>2
<1> QED BY <1>2, <1>3, <1>6 DEF EntriesArePairs

LEMMA PairInit == Init => PairInv
<1> SUFFICES ASSUME Init PROVE PairInv
    OBVIOUS
<1>1. Len(written) = 0 /\ \A d \in Devices : stream[d] # "line"
    BY EmptySeq DEF Init
<1>2. Whole = 0
    BY <1>1, Halves DEF Whole
<1> QED BY <1>1, <1>2 DEF PairInv

\* The tag goes behind the last pair ...
LEMMA TagStep ==
    ASSUME TypeInv, HolderInv, PairInv, NEW d \in Devices, WriteTag(d)
    PROVE  /\ Whole' = Whole /\ Len(written) = 2 * Whole /\ PairInv'
           /\ \A i \in 1 .. 2 * Whole : written'[i] = written[i]
<1>1. stream[d] = "tag" /\ holder = d /\ written' = Append(written, Tag(d))
      /\ stream' = [stream EXCEPT ![d] = "line"]
    BY DEF WriteTag
<1>2. \A e \in Devices : stream[e] # "line"
    BY <1>1 DEF HolderInv
<1>3. Len(written) = 2 * Whole /\ Whole \in Nat
    BY <1>2, WholeType DEF PairInv
<1>4. Tag(d) \in [device : Devices, piece : Nat]
    BY DEF Tag
<1>5. /\ Len(written') = 2 * Whole + 1 /\ written'[2 * Whole + 1] = Tag(d)
      /\ \A i \in 1 .. 2 * Whole : written'[i] = written[i]
    BY <1>1, <1>3, <1>4, AppendProperties DEF TypeInv
<1>6. Whole' = Whole
    BY <1>3, <1>5, Halves DEF Whole
<1>7. \A i \in 1 .. Whole' : written'[2 * i - 1] = Tag(written'[2 * i].device)
    <2> TAKE i \in 1 .. Whole'
    <2>1. 2 * i - 1 \in 1 .. 2 * Whole /\ 2 * i \in 1 .. 2 * Whole /\ i \in 1 .. Whole
        BY <1>3, <1>6
    <2> QED BY <1>5, <2>1 DEF PairInv
<1>8. stream'[d] = "line" /\ \A e \in Devices \ {d} : stream'[e] # "line"
    BY <1>1, <1>2 DEF TypeInv
<1>9. PairInv'
    BY <1>5, <1>6, <1>7, <1>8 DEF PairInv
<1> QED BY <1>3, <1>5, <1>6, <1>9

\* ... and the text makes a pair of it.
LEMMA TextStep ==
    ASSUME TypeInv, HolderInv, PairInv, NEW d \in Devices, WriteLine(d)
    PROVE  /\ Whole' = Whole + 1 /\ PairInv' /\ Len(written') = 2 * Whole'
           /\ \A i \in 1 .. 2 * Whole + 1 : written'[i] = written[i]
           /\ written'[2 * Whole + 2] = Text(d, piece[d])
<1>1. stream[d] = "line" /\ written' = Append(written, Text(d, piece[d]))
      /\ stream' = [stream EXCEPT ![d] = "reading"]
    BY DEF WriteLine
<1>2. Len(written) = 2 * Whole + 1 /\ written[2 * Whole + 1] = Tag(d) /\ Whole \in Nat
    BY <1>1, WholeType DEF PairInv
<1>3. \A e \in Devices : stream'[e] # "line"
    BY <1>1 DEF HolderInv, TypeInv
<1>4. Text(d, piece[d]) \in [device : Devices, piece : Nat]
    BY DEF Text, TypeInv
<1>5. /\ Len(written') = 2 * Whole + 2 /\ written'[2 * Whole + 2] = Text(d, piece[d])
      /\ \A i \in 1 .. 2 * Whole + 1 : written'[i] = written[i]
    <2>1. written \in Seq([device : Devices, piece : Nat])
        BY DEF TypeInv
    <2>2. /\ Len(written') = Len(written) + 1 /\ written'[Len(written) + 1] = Text(d, piece[d])
          /\ \A i \in 1 .. Len(written) : written'[i] = written[i]
        BY <1>1, <1>4, <2>1, AppendProperties
    <2>3. Len(written) + 1 = 2 * Whole + 2
        BY <1>2
    <2> QED BY <1>2, <2>2, <2>3
<1>6. Whole + 1 \in Nat /\ Len(written') \in Nat /\ Len(written') = 2 * (Whole + 1)
    BY <1>2, <1>5
<1>7. Whole' = Whole + 1
    BY <1>6, Halves DEF Whole
<1>8. \A i \in 1 .. Whole' : written'[2 * i - 1] = Tag(written'[2 * i].device)
    <2> TAKE i \in 1 .. Whole'
    <2>1. CASE i = Whole + 1
        <3>1. 2 * i - 1 = 2 * Whole + 1 /\ 2 * i = 2 * Whole + 2 /\ 2 * Whole + 1 \in 1 .. 2 * Whole + 1
            BY <1>2, <2>1
        <3> QED BY <1>2, <1>5, <3>1 DEF Text
    <2>2. CASE i # Whole + 1
        <3>1. 2 * i - 1 \in 1 .. 2 * Whole + 1 /\ 2 * i \in 1 .. 2 * Whole + 1 /\ i \in 1 .. Whole
            BY <1>2, <1>7, <2>2
        <3> QED BY <1>5, <3>1 DEF PairInv
    <2> QED BY <2>1, <2>2
<1>9. PairInv'
    BY <1>3, <1>6, <1>7, <1>8 DEF PairInv
<1> QED BY <1>5, <1>6, <1>7, <1>9

\* Every other step leaves the output, and who writes it, alone.
LEMMA OutputFrame ==
    ASSUME TypeInv, NEW d \in Devices,
           \/ OpenLogStream(d) \/ ReadLogs(d) \/ ReceivePiece(d) \/ ReceiveClose(d) \/ StreamFails(d)
           \/ SendMessage(d) \/ SendClose(d) \/ Lose(d)
    PROVE  UNCHANGED output /\ \A e \in Devices : stream'[e] = "line" <=> stream[e] = "line"
<1>1. CASE OpenLogStream(d) \/ ReadLogs(d)
    BY <1>1 DEF OpenLogStream, ReadLogs, TypeInv
<1>2. CASE ReceivePiece(d)
    BY <1>2 DEF ReceivePiece, NextFrame, output, TypeInv
<1>3. ASSUME NEW how \in {"closed", "aborted"}, stream[d] # "line", End(d, how)
      PROVE  UNCHANGED output /\ \A e \in Devices : stream'[e] = "line" <=> stream[e] = "line"
    BY <1>3 DEF End, TypeInv
<1>4. CASE ReceiveClose(d) \/ StreamFails(d)
    BY <1>3, <1>4 DEF ReceiveClose, StreamFails, NextFrame
<1>5. CASE SendMessage(d) \/ SendClose(d) \/ Lose(d)
    BY <1>5 DEF SendMessage, SendClose, Lose
<1> QED BY <1>1, <1>2, <1>3, <1>4, <1>5

LEMMA CallFrame ==
    ASSUME NEW c \in Calls,
           StartNewLog(c) \/ Start(c) \/ FinishLog(c) \/ Finish(c) \/ RetrieveLog(c) \/ Retrieve(c)
    PROVE  UNCHANGED <<written, device>>
BY DEF StartNewLog, Start, StartCreate, StartRegister, FinishLog, Finish, FinishRemove, FinishFail,
       FinishDispose, RetrieveLog, Retrieve, RetrieveWait, RetrieveTooLate, RetrieveFlush,
       RetrieveOpen, output

\* A step writes a tag, a text, or nothing.
LEMMA StepWrites ==
    ASSUME TypeInv, [Next]_vars
    PROVE  \/ \E d \in Devices : WriteTag(d) \/ WriteLine(d)
           \/ written' = written /\ \A e \in Devices : stream'[e] = "line" <=> stream[e] = "line"
<1>1. Starters \subseteq Calls /\ Finishers \subseteq Calls /\ Retrievers \subseteq Calls
    BY DEF Calls
<1>2. ASSUME UNCHANGED <<written, device>>
      PROVE  written' = written /\ \A e \in Devices : stream'[e] = "line" <=> stream[e] = "line"
    BY <1>2 DEF device
<1>3. ASSUME UNCHANGED vars PROVE UNCHANGED <<written, device>>
    BY <1>3 DEF vars, output
<1> QED BY <1>1, <1>2, <1>3, CallFrame, OutputFrame DEF Next, HandleStream, output

LEMMA PairStep == TypeInv /\ HolderInv /\ PairInv /\ [Next]_vars => PairInv'
<1> SUFFICES ASSUME TypeInv, HolderInv, PairInv, [Next]_vars PROVE PairInv'
    OBVIOUS
<1>1. CASE \E d \in Devices : WriteTag(d) \/ WriteLine(d)
    BY <1>1, TagStep, TextStep
<1>2. CASE written' = written /\ \A e \in Devices : stream'[e] = "line" <=> stream[e] = "line"
    BY <1>2 DEF PairInv, Whole
<1> QED BY <1>1, <1>2, StepWrites

\* So the reader sees a text when it is written, and only then.
LEMMA EntriesStep ==
    ASSUME TypeInv, TypeInv', HolderInv, PairInv, PairInv', [Next]_vars
    PROVE  /\ \A d \in Devices : WriteLine(d) =>
                  Entries' = Append(Entries, [device |-> d, number |-> piece[d]])
           /\ (\A d \in Devices : ~WriteLine(d)) => Entries' = Entries
<1> DEFINE Entry == [device : Devices, number : Nat]
<1>0. /\ Entries \in Seq(Entry) /\ Len(Entries) = Whole /\ Whole \in Nat
      /\ Entries' \in Seq(Entry) /\ Len(Entries') = Whole'
      /\ \A i \in 1 .. Whole : Entries[i] = [device |-> written[2 * i].device,
                                            number |-> written[2 * i].piece]
      /\ \A i \in 1 .. Whole' : Entries'[i] = [device |-> written'[2 * i].device,
                                              number |-> written'[2 * i].piece]
    <2>1. EntriesArePairs /\ EntriesArePairs'
        BY EntriesType, PTL
    <2> QED BY <2>1 DEF EntriesArePairs
<1>1. ASSUME NEW d \in Devices, WriteTag(d) PROVE Entries' = Entries
    <2>1. Whole' = Whole /\ \A i \in 1 .. 2 * Whole : written'[i] = written[i]
        BY <1>1, TagStep
    <2>2. ASSUME NEW i \in 1 .. Whole PROVE Entries'[i] = Entries[i]
        <3>1. 2 * i \in 1 .. 2 * Whole /\ i \in 1 .. Whole'
            BY <1>0, <2>1
        <3> QED BY <1>0, <2>1, <3>1
    <2>3. \A i \in 1 .. Len(Entries') : Entries'[i] = Entries[i]
        BY <1>0, <2>1, <2>2
    <2> HIDE DEF Entry
    <2> QED BY <1>0, <2>1, <2>3, SeqEqual
<1>2. ASSUME NEW d \in Devices, WriteLine(d)
      PROVE  Entries' = Append(Entries, [device |-> d, number |-> piece[d]])
    <2> DEFINE e == [device |-> d, number |-> piece[d]]
               new == Append(Entries, e)
    <2>1. /\ Whole' = Whole + 1 /\ \A i \in 1 .. 2 * Whole + 1 : written'[i] = written[i]
          /\ written'[2 * Whole + 2] = Text(d, piece[d])
        BY <1>2, TextStep
    <2>2. e \in Entry
        BY DEF TypeInv
    <2>3. /\ new \in Seq(Entry) /\ Len(new) = Whole + 1 /\ new[Whole + 1] = e
          /\ \A i \in 1 .. Whole : new[i] = Entries[i]
        BY <1>0, <2>2, AppendProperties
    <2>4. ASSUME NEW i \in 1 .. Whole PROVE Entries'[i] = new[i]
        <3>0. Whole \in Nat /\ Whole' = Whole + 1
            BY <1>0, <2>1
        <3>1. 2 * i \in 1 .. 2 * Whole + 1 /\ i \in 1 .. Whole'
            BY <3>0
        <3>2. written'[2 * i] = written[2 * i]
            BY <2>1, <3>1
        <3>3. Entries'[i] = [device |-> written'[2 * i].device, number |-> written'[2 * i].piece]
            BY <1>0, <3>1
        <3>4. Entries[i] = [device |-> written[2 * i].device, number |-> written[2 * i].piece]
            BY <1>0
        <3>5. new[i] = Entries[i]
            BY <2>3
        <3> HIDE DEF new
        <3> QED BY <3>2, <3>3, <3>4, <3>5
    <2>5. Entries'[Whole + 1] = e
        <3>0. Whole \in Nat /\ Whole' = Whole + 1
            BY <1>0, <2>1
        <3>1. 2 * (Whole + 1) = 2 * Whole + 2 /\ Whole + 1 \in 1 .. Whole'
            BY <3>0
        <3> QED BY <1>0, <2>1, <3>1 DEF Text
    <2>6. \A i \in 1 .. Len(Entries') : Entries'[i] = new[i]
        <3>1. \A i \in 1 .. Whole + 1 : i \in 1 .. Whole \/ i = Whole + 1
            BY <1>0
        <3> QED BY <1>0, <2>1, <2>3, <2>4, <2>5, <3>1
    <2> HIDE DEF Entry, new
    <2>7. Entries' = new
        BY <1>0, <2>1, <2>3, <2>6, SeqEqual
    <2> QED BY <2>7 DEF new
<1>3. ASSUME written' = written PROVE Entries' = Entries
    BY <1>3 DEF Entries
<1> QED BY <1>1, <1>2, <1>3, StepWrites

\* The pieces of a device in the log are counted one by one.
LEMMA PiecesType ==
    ASSUME TypeInv, PairInv, NEW d \in Devices
    PROVE  PiecesOf(d) \in Nat
<1>1. IsFiniteSet(1 .. Whole)
    BY WholeType, UpTo
<1>2. IsFiniteSet({i \in 1 .. Whole : Entries[i].device = d})
    BY <1>1, FS_Subset
<1> QED BY <1>2, EntriesType, FS_CardinalityType DEF PiecesOf, EntriesArePairs

LEMMA PiecesStep ==
    ASSUME TypeInv, TypeInv', PairInv, PairInv', NEW d \in Devices, NEW n \in Nat,
           Entries' = Append(Entries, [device |-> d, number |-> n])
    PROVE  \A e \in Devices : PiecesOf(e)' = IF e = d THEN PiecesOf(e) + 1 ELSE PiecesOf(e)
<1> DEFINE Entry == [device : Devices, number : Nat]
           entry == [device |-> d, number |-> n]
           Of(e) == {i \in 1 .. Whole : Entries[i].device = e}
<1>0. /\ Entries \in Seq(Entry) /\ Len(Entries) = Whole /\ Whole \in Nat /\ entry \in Entry
      /\ DOMAIN Entries = 1 .. Whole /\ DOMAIN Entries' = 1 .. Len(Entries')
    <2>1. EntriesArePairs /\ EntriesArePairs'
        BY EntriesType, PTL
    <2>2. Entries \in Seq(Entry) /\ Entries' \in Seq(Entry)
        BY <2>1 DEF EntriesArePairs
    <2>3. DOMAIN Entries' = 1 .. Len(Entries')
        BY <2>2, LenProperties
    <2> QED BY <2>1, <2>3 DEF EntriesArePairs
<1>1. /\ Len(Entries') = Whole + 1 /\ Entries'[Whole + 1] = entry
      /\ \A i \in 1 .. Whole : Entries'[i] = Entries[i]
    BY <1>0, AppendProperties
<1> TAKE e \in Devices
<1>2. IsFiniteSet(Of(e)) /\ Whole + 1 \notin Of(e)
    <2>1. IsFiniteSet(1 .. Whole)
        BY <1>0, FS_Interval
    <2>2. Of(e) \subseteq 1 .. Whole /\ Whole + 1 \notin 1 .. Whole
        BY <1>0
    <2> QED BY <2>1, <2>2, FS_Subset
<1>3. 1 .. Whole + 1 = (1 .. Whole) \cup {Whole + 1}
    BY <1>0
<1>4. {i \in DOMAIN Entries' : Entries'[i].device = e} =
          IF e = d THEN Of(e) \cup {Whole + 1} ELSE Of(e)
    BY <1>0, <1>1, <1>3
<1>5. PiecesOf(e) = Cardinality(Of(e))
    BY <1>0 DEF PiecesOf
<1>6. PiecesOf(e)' = Cardinality({i \in DOMAIN Entries' : Entries'[i].device = e})
    BY DEF PiecesOf
<1> HIDE DEF Of
<1>7. Cardinality(Of(e) \cup {Whole + 1}) = Cardinality(Of(e)) + 1
    BY <1>2, FS_AddElement
<1> QED BY <1>4, <1>5, <1>6, <1>7

(***************************************************************************)
(* The pieces of a device arrive in order and without a gap.               *)
(***************************************************************************)

\* The log gains a piece of the device that ends to write, and no other.
LEMMA PiecesKept ==
    ASSUME TypeInv, TypeInv', HolderInv, PairInv, PairInv', [Next]_vars, NEW e \in Devices
    PROVE  /\ WriteLine(e) => PiecesOf(e)' = PiecesOf(e) + 1
           /\ ~WriteLine(e) => PiecesOf(e)' = PiecesOf(e)
<1>1. ASSUME NEW d \in Devices, WriteLine(d)
      PROVE  PiecesOf(e)' = IF e = d THEN PiecesOf(e) + 1 ELSE PiecesOf(e)
    <2>1. Entries' = Append(Entries, [device |-> d, number |-> piece[d]])
        BY <1>1, EntriesStep
    <2>2. piece[d] \in Nat
        BY DEF TypeInv
    <2> QED BY <2>1, <2>2, PiecesStep
<1>2. ASSUME \A d \in Devices : ~WriteLine(d) PROVE PiecesOf(e)' = PiecesOf(e)
    <2>1. Entries' = Entries
        BY <1>2, EntriesStep
    <2> QED BY <2>1 DEF PiecesOf
<1> QED BY <1>1, <1>2

LEMMA OrderInit == Init => OrderInv
<1> SUFFICES ASSUME Init, NEW d \in Devices PROVE PieceInv(d)
    BY DEF OrderInv
<1>1. PiecesOf(d) = 0
    <2>1. TypeInv /\ PairInv
        BY TypeInit, PairInit
    <2>2. Whole = 0
        BY EmptySeq, Halves DEF Init, Whole
    <2>3. {i \in DOMAIN Entries : Entries[i].device = d} = {}
        BY <2>1, <2>2, EntriesType DEF EntriesArePairs
    <2> QED BY <2>3, FS_EmptySet DEF PiecesOf
<1>2. stream[d] = "none" /\ link[d] = "down" /\ sent[d] = 0 /\ inbox[d] = <<>>
    BY DEF Init
<1> QED BY <1>1, <1>2 DEF PieceInv, Writing

LEMMA OtherPiece ==
    ASSUME NEW e, PieceInv(e), PiecesOf(e)' = PiecesOf(e),
           UNCHANGED <<stream[e], piece[e], link[e], inbox[e], sent[e]>>
    PROVE  PieceInv(e)'
BY DEF PieceInv, NextPiece, Writing

\* A device goes on sending, or its connection ends.
LEMMA OrderDevice ==
    ASSUME TypeInv, NEW d \in Devices, PieceInv(d), PiecesOf(d) \in Nat, PiecesOf(d)' = PiecesOf(d),
           SendMessage(d) \/ SendClose(d) \/ Lose(d)
    PROVE  PieceInv(d)'
<1> DEFINE in == inbox[d]
<1>0. /\ in \in Seq(Nat) /\ Len(in) \in Nat /\ sent[d] \in Nat
      /\ stream' = stream /\ piece' = piece
    BY LenProperties DEF TypeInv, SendMessage, SendClose, Lose
<1>n. NextPiece(d)' = NextPiece(d) /\ NextPiece(d) \in Nat
    BY <1>0 DEF NextPiece, Writing
<1>1. CASE SendMessage(d)
    <2>0. PICK n \in 1 .. quota :
             /\ sent' = [sent EXCEPT ![d] = sent[d] + n]
             /\ inbox' = [inbox EXCEPT ![d] = in \o [i \in 1 .. n |-> sent[d] + i]]
        BY <1>1 DEF SendMessage
    <2> DEFINE new == [i \in 1 .. n |-> sent[d] + i]
    <2>1. /\ link[d] = "up" /\ link'[d] = "up" /\ sent'[d] = sent[d] + n
          /\ inbox'[d] = in \o new
        BY <1>1, <2>0 DEF SendMessage, TypeInv
    <2>n. n \in Nat
        BY DEF TypeInv
    <2>s. new \in Seq(Nat) /\ Len(new) = n /\ \A i \in 1 .. n : new[i] = sent[d] + i
        <3>1. \A i \in 1 .. n : sent[d] + i \in Nat
            BY <1>0, <2>n
        <3>2. new \in Seq(Nat)
            BY <2>n, <3>1, ListType
        <3>3. Len(new) = n
            BY <2>n, <3>2, LenProperties
        <3> QED BY <3>2, <3>3
    <2> HIDE DEF new
    <2>2. /\ Len(inbox'[d]) = Len(in) + n
          /\ \A i \in 1 .. Len(in) + n :
                inbox'[d][i] = IF i <= Len(in) THEN in[i] ELSE new[i - Len(in)]
        <3> HIDE DEF in
        <3>1. /\ Len(in \o new) = Len(in) + Len(new)
              /\ \A i \in 1 .. Len(in) + Len(new) :
                    (in \o new)[i] = IF i <= Len(in) THEN in[i] ELSE new[i - Len(in)]
            BY <1>0, <2>s, ConcatProperties, Zenon
        <3> QED BY <2>1, <2>s, <3>1
    <2>3. /\ \A i \in 1 .. Len(in) : in[i] = NextPiece(d) + i - 1
          /\ sent[d] = NextPiece(d) + Len(in) - 1
        BY <2>1 DEF PieceInv
    <2> HIDE DEF in
    <2>5. \A i \in 1 .. Len(in) + n : inbox'[d][i] = NextPiece(d) + i - 1
        <3> TAKE i \in 1 .. Len(in) + n
        <3>1. CASE i <= Len(in)
            <4>1. i \in 1 .. Len(in)
                BY <1>0, <2>n, <3>1
            <4> QED BY <2>2, <2>3, <3>1, <4>1
        <3>2. CASE ~(i <= Len(in))
            <4>1. i - Len(in) \in 1 .. n
                BY <1>0, <2>n, <3>2
            <4>2. inbox'[d][i] = sent[d] + (i - Len(in))
                BY <2>2, <2>s, <3>2, <4>1
            <4> QED BY <1>0, <1>n, <2>3, <4>1, <4>2
        <3> QED BY <3>1, <3>2
    <2>6. sent'[d] = NextPiece(d) + (Len(in) + n) - 1
        BY <1>0, <1>n, <2>n, <2>1, <2>3
    <2>7. stream[d] \notin {"none", "closed", "aborted"}
        BY <2>1 DEF PieceInv
    <2> QED BY <1>0, <1>n, <2>1, <2>2, <2>5, <2>6, <2>7 DEF PieceInv, Writing
<1>2. CASE SendClose(d)
    <2>1. /\ link[d] = "up" /\ link'[d] = "closing" /\ sent' = sent
          /\ inbox'[d] = Append(in, CloseFrame)
        BY <1>2 DEF SendClose, TypeInv
    <2>2. /\ Len(inbox'[d]) = Len(in) + 1 /\ inbox'[d][Len(in) + 1] = CloseFrame
          /\ \A i \in 1 .. Len(in) : inbox'[d][i] = in[i]
        BY <1>0, <2>1, AppendProperties DEF CloseFrame
    <2>3. /\ \A i \in 1 .. Len(in) : in[i] = NextPiece(d) + i - 1
          /\ sent[d] = NextPiece(d) + Len(in) - 1
        BY <2>1 DEF PieceInv
    <2> HIDE DEF in
    <2>4. Len(in) + 1 > 0 /\ (Len(in) + 1) - 1 = Len(in)
        BY <1>0
    <2>5. sent[d] = NextPiece(d) + (Len(in) + 1) - 2
        BY <1>0, <1>n, <2>3
    <2>6. stream[d] \notin {"none", "closed", "aborted"}
        BY <2>1 DEF PieceInv
    <2> QED BY <1>0, <1>n, <2>1, <2>2, <2>3, <2>4, <2>5, <2>6 DEF PieceInv, Writing
<1>3. CASE Lose(d)
    <2>1. link[d] \in {"up", "closing"} /\ link'[d] = "lost" /\ inbox'[d] = <<>> /\ sent' = sent
        BY <1>3 DEF Lose, TypeInv
    <2> QED BY <1>0, <2>1 DEF PieceInv, Writing
<1> QED BY <1>1, <1>2, <1>3

\* Its handler takes the next piece, writes it, or ends.
LEMMA OrderReceive ==
    ASSUME TypeInv, NEW d \in Devices, PieceInv(d), PiecesOf(d) \in Nat, PiecesOf(d)' = PiecesOf(d),
           ReceivePiece(d)
    PROVE  PieceInv(d)'
<1> DEFINE in == inbox[d]
           k == Len(in)
<1>1. /\ stream[d] = "reading" /\ in # <<>> /\ Head(in) \in 1 .. MaxPieces
      /\ stream'[d] = "tag" /\ piece'[d] = Head(in) /\ inbox'[d] = Tail(in)
      /\ UNCHANGED <<link, sent>>
    BY DEF ReceivePiece, NextFrame, TypeInv
<1>2. /\ Head(in) = in[1] /\ Len(Tail(in)) = k - 1 /\ k \in Nat /\ k > 0
      /\ \A i \in 1 .. k - 1 : Tail(in)[i] = in[i + 1]
    BY <1>1, FrameType, LenProperties DEF TypeInv
<1>3. link[d] \in {"up", "closing"}
    BY <1>1 DEF PieceInv, TypeInv, Links
<1>4. NextPiece(d) = PiecesOf(d) + 1 /\ NextPiece(d)' = PiecesOf(d) + 2
    BY <1>1 DEF NextPiece, Writing
<1>5. Head(in) # CloseFrame
    BY <1>1, SlurpAssumption DEF CloseFrame
<1> HIDE DEF in
<1>6. CASE link[d] = "up"
    <2>1. (\A i \in 1 .. k : in[i] = PiecesOf(d) + i) /\ sent[d] = PiecesOf(d) + k
        BY <1>2, <1>4, <1>6 DEF PieceInv, in
    <2>2. piece'[d] = PiecesOf(d) + 1
        BY <1>1, <1>2, <2>1
    <2>3. \A i \in 1 .. k - 1 : Tail(in)[i] = (PiecesOf(d) + 2) + i - 1
        <3> TAKE i \in 1 .. k - 1
        <3>1. i + 1 \in 1 .. k
            BY <1>2
        <3> QED BY <1>2, <2>1, <3>1
    <2>4. sent[d] = (PiecesOf(d) + 2) + (k - 1) - 1
        BY <1>2, <2>1
    <2> QED BY <1>1, <1>2, <1>4, <1>6, <2>2, <2>3, <2>4 DEF PieceInv, Writing
<1>7. CASE link[d] = "closing"
    <2>1. /\ in[k] = CloseFrame /\ sent[d] = PiecesOf(d) + k - 1
          /\ \A i \in 1 .. k - 1 : in[i] = PiecesOf(d) + i
        <3>1. /\ in[k] = CloseFrame /\ sent[d] = NextPiece(d) + k - 2
              /\ \A i \in 1 .. k - 1 : in[i] = NextPiece(d) + i - 1
            BY <1>7 DEF PieceInv, in
        <3>2. /\ NextPiece(d) + k - 2 = PiecesOf(d) + k - 1
              /\ \A i \in 1 .. k - 1 : NextPiece(d) + i - 1 = PiecesOf(d) + i
            BY <1>2, <1>4
        <3> QED BY <3>1, <3>2
    <2>2. k > 1
        BY <1>2, <1>5, <2>1
    <2>3. piece'[d] = PiecesOf(d) + 1
        BY <1>1, <1>2, <2>1, <2>2
    <2>4. k - 1 > 0 /\ Tail(in)[k - 1] = CloseFrame
        <3>1. k - 1 \in 1 .. k - 1 /\ (k - 1) + 1 = k
            BY <1>2, <2>2
        <3> QED BY <1>2, <2>1, <2>2, <3>1
    <2>5. \A i \in 1 .. (k - 1) - 1 : Tail(in)[i] = (PiecesOf(d) + 2) + i - 1
        <3> TAKE i \in 1 .. (k - 1) - 1
        <3>1. i \in 1 .. k - 1 /\ i + 1 \in 1 .. k - 1
            BY <1>2
        <3> QED BY <1>2, <2>1, <3>1
    <2>6. sent[d] = (PiecesOf(d) + 2) + (k - 1) - 2
        BY <1>2, <2>1
    <2> QED BY <1>1, <1>2, <1>4, <1>7, <2>3, <2>4, <2>5, <2>6 DEF PieceInv, Writing
<1> QED BY <1>3, <1>6, <1>7

LEMMA OrderStream ==
    ASSUME TypeInv, NEW d \in Devices, PieceInv(d), PiecesOf(d) \in Nat,
           \/ PiecesOf(d)' = PiecesOf(d) /\ (OpenLogStream(d) \/ HandleStream(d)) /\ ~WriteLine(d)
           \/ PiecesOf(d)' = PiecesOf(d) + 1 /\ WriteLine(d)
    PROVE  PieceInv(d)'
<1>1. CASE PiecesOf(d)' = PiecesOf(d) /\ OpenLogStream(d)
    <2>1. /\ stream[d] = "none" /\ stream'[d] = "accepted" /\ link'[d] = "up"
          /\ UNCHANGED <<inbox, sent, piece>>
        BY <1>1 DEF OpenLogStream, TypeInv
    <2>2. PiecesOf(d) = 0 /\ sent[d] = 0 /\ inbox[d] = <<>>
        BY <2>1 DEF PieceInv
    <2> QED BY <1>1, <2>1, <2>2, EmptySeq DEF PieceInv, Writing, NextPiece
<1>2. CASE PiecesOf(d)' = PiecesOf(d) /\ (ReadLogs(d) \/ WriteTag(d))
    <2>1. /\ \/ stream[d] = "accepted" /\ stream'[d] = "reading"
             \/ stream[d] = "tag" /\ stream'[d] = "line"
          /\ UNCHANGED <<inbox, sent, piece, link>>
        BY <1>2 DEF ReadLogs, WriteTag, TypeInv
    <2>2. NextPiece(d)' = NextPiece(d)
        BY <1>2, <2>1 DEF NextPiece, Writing
    <2> QED BY <1>2, <2>1, <2>2 DEF PieceInv, Writing
<1>3. CASE PiecesOf(d)' = PiecesOf(d) /\ ReceivePiece(d)
    BY <1>3, OrderReceive
<1>4. CASE PiecesOf(d)' = PiecesOf(d) + 1 /\ WriteLine(d)
    <2>1. /\ stream[d] = "line" /\ stream'[d] = "reading" /\ UNCHANGED <<inbox, sent, link>>
        BY <1>4 DEF WriteLine, TypeInv
    <2>2. NextPiece(d) = PiecesOf(d) + 2 /\ NextPiece(d)' = PiecesOf(d) + 2
        BY <1>4, <2>1 DEF NextPiece, Writing
    <2> QED BY <2>1, <2>2 DEF PieceInv, Writing
<1>5. CASE PiecesOf(d)' = PiecesOf(d) /\ ReceiveClose(d)
    <2> DEFINE k == Len(inbox[d])
    <2>1. /\ stream[d] = "reading" /\ inbox[d] # <<>> /\ Head(inbox[d]) = CloseFrame
          /\ stream'[d] = "closed" /\ link'[d] = "down" /\ inbox'[d] = <<>> /\ sent' = sent
        BY <1>5 DEF ReceiveClose, NextFrame, End, TypeInv
    <2>2. inbox[d][1] = 0 /\ k \in Nat /\ k > 0
        BY <2>1, FrameType, LenProperties DEF TypeInv, CloseFrame
    <2>3. link[d] \in {"up", "closing"} /\ NextPiece(d) = PiecesOf(d) + 1
        BY <2>1 DEF PieceInv, TypeInv, Links, NextPiece, Writing
    <2>4. link[d] # "up"
        BY <2>2, <2>3 DEF PieceInv
    <2> HIDE DEF k
    <2>5. (\A i \in 1 .. k - 1 : inbox[d][i] = PiecesOf(d) + i) /\ sent[d] = PiecesOf(d) + k - 1
        <3>1. /\ sent[d] = NextPiece(d) + k - 2
              /\ \A i \in 1 .. k - 1 : inbox[d][i] = NextPiece(d) + i - 1
            BY <2>3, <2>4 DEF PieceInv, k
        <3>2. /\ NextPiece(d) + k - 2 = PiecesOf(d) + k - 1
              /\ \A i \in 1 .. k - 1 : NextPiece(d) + i - 1 = PiecesOf(d) + i
            BY <2>2, <2>3
        <3> QED BY <3>1, <3>2
    <2>6. k = 1
        <3>1. k # 1 => 1 \in 1 .. k - 1
            BY <2>2
        <3>2. PiecesOf(d) + 1 # 0
            OBVIOUS
        <3> QED BY <2>2, <2>5, <3>1, <3>2
    <2>7. sent[d] = PiecesOf(d)
        BY <2>5, <2>6
    <2> QED BY <1>5, <2>1, <2>7 DEF PieceInv, Writing
<1>6. CASE PiecesOf(d)' = PiecesOf(d) /\ StreamFails(d)
    <2>1. /\ stream'[d] = "aborted" /\ link'[d] = "down" /\ inbox'[d] = <<>>
        BY <1>6 DEF StreamFails, End, TypeInv
    <2> QED BY <2>1 DEF PieceInv, Writing
<1> QED BY <1>1, <1>2, <1>3, <1>4, <1>5, <1>6 DEF HandleStream

LEMMA OrderStep ==
    ASSUME TypeInv, TypeInv', HolderInv, PairInv, PairInv', OrderInv, [Next]_vars
    PROVE  OrderInv'
<1> SUFFICES ASSUME NEW e \in Devices PROVE PieceInv(e)'
    BY DEF OrderInv
<1>1. PieceInv(e) /\ PiecesOf(e) \in Nat
    BY PiecesType DEF OrderInv
<1>2. /\ WriteLine(e) => PiecesOf(e)' = PiecesOf(e) + 1
      /\ ~WriteLine(e) => PiecesOf(e)' = PiecesOf(e)
    BY PiecesKept
<1>3. ASSUME UNCHANGED <<stream[e], piece[e], link[e], inbox[e], sent[e]>> PROVE PieceInv(e)'
    <2>1. ~WriteLine(e)
        BY <1>3 DEF WriteLine, TypeInv
    <2> QED BY <1>1, <1>2, <1>3, <2>1, OtherPiece
<1>4. CASE UNCHANGED device
    BY <1>3, <1>4 DEF device
<1>5. ASSUME NEW d \in Devices \ {e},
             OpenLogStream(d) \/ HandleStream(d) \/ SendMessage(d) \/ SendClose(d) \/ Lose(d)
      PROVE  PieceInv(e)'
    <2>1. UNCHANGED <<stream[e], piece[e], link[e], inbox[e], sent[e]>>
        BY <1>5 DEF OpenLogStream, HandleStream, ReadLogs, ReceivePiece, WriteTag, WriteLine,
           ReceiveClose, StreamFails, End, SendMessage, SendClose, Lose, TypeInv
    <2> QED BY <1>3, <2>1
<1>6. CASE SendMessage(e) \/ SendClose(e) \/ Lose(e)
    <2>1. ~WriteLine(e)
        BY <1>6 DEF SendMessage, SendClose, Lose, WriteLine, TypeInv
    <2> QED BY <1>1, <1>2, <1>6, <2>1, OrderDevice
<1>7. CASE OpenLogStream(e) \/ HandleStream(e)
    BY <1>1, <1>2, <1>7, OrderStream
<1>8. ASSUME NEW c \in Calls,
             StartNewLog(c) \/ Start(c) \/ FinishLog(c) \/ Finish(c) \/ RetrieveLog(c) \/ Retrieve(c)
      PROVE  PieceInv(e)'
    BY <1>4, <1>8, CallFrame
<1>9. Starters \subseteq Calls /\ Finishers \subseteq Calls /\ Retrievers \subseteq Calls
    BY DEF Calls
<1>10. CASE UNCHANGED vars
    BY <1>4, <1>10 DEF vars
<1> QED BY <1>5, <1>6, <1>7, <1>8, <1>9, <1>10 DEF Next

(***************************************************************************)
(* What is in the file.                                                    *)
(***************************************************************************)
LEMMA FileInit == Init => FileInv
BY EmptySeq DEF Init, FileInv

LEMMA FileCall ==
    ASSUME TypeInv, HolderInv, FileInv, NEW c \in Calls,
           StartNewLog(c) \/ Start(c) \/ FinishLog(c) \/ Finish(c) \/ RetrieveLog(c) \/ Retrieve(c)
    PROVE  FileInv'
<1>0. Len(written) \in Nat /\ written' = written /\ flushed \in Nat /\ asked \in [Calls -> Nat]
    BY CallFrame, LenProperties DEF TypeInv
<1>a. ASSUME NEW from, NEW to, Go(c, from, to), to # "open"
      PROVE  \A b \in Calls : call'[b] = "open" => call[b] = "open"
    BY <1>a DEF Go, TypeInv
<1>1. CASE \/ StartNewLog(c) \/ Start(c) \/ FinishLog(c) \/ FinishRemove(c) \/ FinishFail(c)
           \/ RetrieveWait(c) \/ RetrieveTooLate(c)
    <2>1. \A b \in Calls : call'[b] = "open" => call[b] = "open"
        BY <1>1, <1>a DEF StartNewLog, Start, StartCreate, StartRegister, FinishLog, FinishRemove,
           FinishFail, RetrieveWait, RetrieveTooLate
    <2>2. UNCHANGED <<disposed, written, flushed, asked>>
        BY <1>1 DEF StartNewLog, Start, StartCreate, StartRegister, FinishLog, FinishRemove,
           FinishFail, RetrieveWait, RetrieveTooLate, log, output
    <2> QED BY <2>1, <2>2 DEF FileInv
<1>2. CASE FinishDispose(c)
    <2>1. flushed' = Len(written) /\ UNCHANGED <<written, asked>>
        BY <1>2 DEF FinishDispose
    <2> QED BY <1>0, <2>1 DEF FileInv
<1>3. CASE RetrieveFlush(c)
    <2>1. flushed' = Len(written) /\ UNCHANGED <<written, asked>>
        BY <1>3 DEF RetrieveFlush
    <2> QED BY <1>0, <2>1 DEF FileInv
<1>4. CASE RetrieveLog(c)
    <2>1. /\ UNCHANGED <<disposed, written, flushed>>
          /\ call[c] = "none" /\ call'[c] = IF registered THEN "flush" ELSE "open"
          /\ asked'[c] = IF registered \/ disposed THEN Len(written) ELSE 0
          /\ \A b \in Calls \ {c} : call'[b] = call[b] /\ asked'[b] = asked[b]
        BY <1>4 DEF RetrieveLog, Go, TypeInv, log, output
    <2>2. asked'[c] <= Len(written) /\ (~registered => asked'[c] <= flushed)
        BY <1>0, <2>1 DEF FileInv
    <2> QED BY <2>1, <2>2 DEF FileInv
<1>5. CASE RetrieveOpen(c)
    <2>1. /\ UNCHANGED <<disposed, written, flushed>>
          /\ asked'[c] = 0 /\ call'[c] # "open"
          /\ \A b \in Calls \ {c} : call'[b] = call[b] /\ asked'[b] = asked[b]
        BY <1>5 DEF RetrieveOpen, Go, TypeInv, log, output
    <2> QED BY <1>0, <2>1 DEF FileInv
<1> QED BY <1>1, <1>2, <1>3, <1>4, <1>5 DEF Finish, Retrieve

LEMMA FileStep == TypeInv /\ HolderInv /\ FileInv /\ [Next]_vars => FileInv'
<1> SUFFICES ASSUME TypeInv, HolderInv, FileInv, [Next]_vars PROVE FileInv'
    OBVIOUS
<1>0. Len(written) \in Nat /\ flushed \in Nat /\ asked \in [Calls -> Nat]
    BY LenProperties DEF TypeInv
<1>1. ASSUME UNCHANGED <<disposed, written, flushed, call, asked>> PROVE FileInv'
    BY <1>1 DEF FileInv
<1>2. ASSUME NEW d \in Devices, WriteTag(d) \/ WriteLine(d) PROVE FileInv'
    <2>1. holder = d /\ UNCHANGED <<disposed, flushed, call, asked>>
        BY <1>2 DEF WriteTag, WriteLine, HolderInv, log
    <2>2. ~disposed
        BY <2>1, ActorsAreDisjoint DEF HolderInv
    <2>3. Tag(d) \in [device : Devices, piece : Nat] /\ Text(d, piece[d]) \in [device : Devices, piece : Nat]
        BY DEF Tag, Text, TypeInv
    <2>4. Len(written') = Len(written) + 1
        BY <1>2, <2>3, AppendProperties DEF WriteTag, WriteLine, TypeInv
    <2>5. \A n \in Nat : n <= Len(written) => n <= Len(written')
        BY <1>0, <2>4
    <2> QED BY <1>0, <2>1, <2>2, <2>5 DEF FileInv
<1>3. ASSUME NEW d \in Devices,
             \/ OpenLogStream(d) \/ ReadLogs(d) \/ ReceivePiece(d) \/ ReceiveClose(d)
             \/ StreamFails(d) \/ SendMessage(d) \/ SendClose(d) \/ Lose(d)
      PROVE  FileInv'
    <2>1. UNCHANGED <<disposed, written, flushed, call, asked>>
        BY <1>3 DEF OpenLogStream, ReadLogs, ReceivePiece, ReceiveClose, StreamFails, End, SendMessage,
           SendClose, Lose, log, output
    <2> QED BY <1>1, <2>1
<1>4. CASE UNCHANGED vars
    BY <1>1, <1>4 DEF vars, log, output
<1>5. Starters \subseteq Calls /\ Finishers \subseteq Calls /\ Retrievers \subseteq Calls
    BY DEF Calls
<1> QED BY <1>2, <1>3, <1>4, <1>5, FileCall DEF Next, HandleStream

(***************************************************************************)
(* The theorems.                                                           *)
(***************************************************************************)
LEMMA SlurpAlways == Spec => []SlurpInv
<1>1. Init => SlurpInv
    BY TypeInit, HolderInit, PairInit, OrderInit, FileInit DEF SlurpInv
<1>2. SlurpInv /\ [Next]_vars => SlurpInv'
    <2> SUFFICES ASSUME SlurpInv, [Next]_vars PROVE SlurpInv'
        OBVIOUS
    <2>1. TypeInv /\ HolderInv /\ PairInv /\ OrderInv /\ FileInv
        BY DEF SlurpInv
    <2>2. TypeInv' /\ HolderInv' /\ PairInv' /\ FileInv'
        BY <2>1, TypeStep, HolderStep, PairStep, FileStep
    <2>3. OrderInv'
        BY <2>1, <2>2, OrderStep
    <2> QED BY <2>2, <2>3 DEF SlurpInv
<1> QED BY <1>1, <1>2, PTL DEF Spec

\* A device whose close frame was received has all it sent in the log.
THEOREM ClosedStreamIsLoggedCorrect == Spec => []ClosedStreamIsLogged
<1>1. SlurpInv => ClosedStreamIsLogged
    BY DEF SlurpInv, OrderInv, PieceInv, ClosedStreamIsLogged
<1> QED BY <1>1, SlurpAlways, PTL

\* Once /finishLog was answered the file is complete and made of whole pieces.
THEOREM FinishedLogIsInFileCorrect == Spec => []FinishedLogIsInFile
<1>1. ASSUME SlurpInv, NEW c \in Calls, call[c] = "finished"
      PROVE  flushed = Len(written) /\ flushed = 2 * Len(Entries)
    <2>1. disposed /\ flushed = Len(written)
        BY <1>1 DEF SlurpInv, HolderInv, FileInv
    <2>2. \A d \in Devices : stream[d] # "line"
        BY <1>1, <2>1, ActorsAreDisjoint DEF SlurpInv, HolderInv
    <2>3. Len(written) = 2 * Whole
        BY <1>1, <2>2 DEF SlurpInv, PairInv
    <2>4. Len(Entries) = Whole
        BY <1>1, EntriesType DEF SlurpInv, EntriesArePairs
    <2> QED BY <2>1, <2>3, <2>4
<1>2. SlurpInv => FinishedLogIsInFile
    BY <1>1 DEF FinishedLogIsInFile
<1> QED BY <1>2, SlurpAlways, PTL

\* A retrieved log holds what was written when the call was received.
THEOREM RetrievedLogIsFreshCorrect == Spec => []RetrievedLogIsFresh
<1>1. SlurpInv => RetrievedLogIsFresh
    <2> SUFFICES ASSUME SlurpInv, NEW c \in Retrievers, call[c] = "open" PROVE flushed >= asked[c]
        BY DEF RetrievedLogIsFresh
    <2>1. c \in Calls
        BY DEF Calls
    <2>2. asked[c] <= flushed /\ asked[c] \in Nat /\ flushed \in Nat
        BY <2>1 DEF SlurpInv, FileInv, TypeInv
    <2> QED BY <2>2
<1> QED BY <1>1, SlurpAlways, PTL

\* The slurper implements the shared log: to end a piece is to append it, to
\* dispose the writer is to finish the log, and all else is invisible.
LEMMA SharedInit == Init => Shared!Init
<1> SUFFICES ASSUME Init PROVE Shared!Init
    OBVIOUS
<1>1. TypeInv /\ PairInv /\ OrderInv
    BY TypeInit, PairInit, OrderInit
<1>2. Whole = 0
    BY EmptySeq, Halves DEF Init, Whole
<1>3. Entries = <<>>
    <2>1. Entries \in Seq([device : Devices, number : Nat]) /\ Len(Entries) = 0
        BY <1>1, <1>2, EntriesType DEF EntriesArePairs
    <2> QED BY <2>1, EmptySeq
<1>4. \A d \in Devices : PiecesOf(d) = 0
    BY <1>1 DEF OrderInv, PieceInv, Init
<1> QED BY <1>3, <1>4 DEF Init, Shared!Init

LEMMA SharedStep ==
    ASSUME SlurpInv, SlurpInv', [Next]_vars
    PROVE  [Shared!Next]_<<Entries, [d \in Devices |-> PiecesOf(d)], disposed>>
<1> DEFINE count == [d \in Devices |-> PiecesOf(d)]
<1>0. TypeInv /\ TypeInv' /\ HolderInv /\ PairInv /\ PairInv' /\ OrderInv
    BY DEF SlurpInv
<1>1. ASSUME NEW d \in Devices, WriteLine(d) PROVE Shared!AppendPiece(d)
    <2>1. ~disposed /\ UNCHANGED disposed
        BY <1>0, <1>1, ActorsAreDisjoint DEF WriteLine, HolderInv, log
    <2>2. Entries' = Append(Entries, [device |-> d, number |-> piece[d]])
        BY <1>0, <1>1, EntriesStep
    <2>3. piece[d] = PiecesOf(d) + 1
        BY <1>0, <1>1 DEF WriteLine, OrderInv, PieceInv, Writing
    <2>4. \A e \in Devices : PiecesOf(e)' = IF e = d THEN PiecesOf(e) + 1 ELSE PiecesOf(e)
        BY <1>0, <2>2, PiecesStep DEF TypeInv
    <2>5. count' = [count EXCEPT ![d] = count[d] + 1]
        BY <2>4
    <2> QED BY <2>1, <2>2, <2>3, <2>5 DEF Shared!AppendPiece, Shared!Piece
<1>2. ASSUME \A d \in Devices : ~WriteLine(d) PROVE UNCHANGED <<Entries, count>>
    <2>1. Entries' = Entries
        BY <1>0, <1>2, EntriesStep
    <2>2. \A d \in Devices : PiecesOf(d)' = PiecesOf(d)
        BY <2>1 DEF PiecesOf
    <2> QED BY <2>1, <2>2
<1>3. disposed' = disposed \/ disposed' = TRUE
    BY DEF Next, StartNewLog, Start, StartCreate, StartRegister, FinishLog, Finish, FinishRemove,
       FinishFail, FinishDispose, RetrieveLog, Retrieve, RetrieveWait, RetrieveTooLate,
       RetrieveFlush, RetrieveOpen, OpenLogStream, HandleStream, ReadLogs, ReceivePiece, WriteTag,
       WriteLine, ReceiveClose, StreamFails, End, SendMessage, SendClose, Lose, log, vars
<1>4. CASE \E d \in Devices : WriteLine(d)
    BY <1>1, <1>4 DEF Shared!Next
<1>5. CASE \A d \in Devices : ~WriteLine(d)
    BY <1>2, <1>3, <1>5 DEF Shared!Next, Shared!Finish
<1> QED BY <1>4, <1>5

\* The pairs in the file are the log that SharedLog promises: the pieces of a device's
\* messages in the order it sent them, none lost between two others and none after
\* the writer was disposed, however streams and calls interleave at the semaphore.
THEOREM ImplementsSharedLogCorrect == Spec => ImplementsSharedLog
<1>1. SlurpInv /\ SlurpInv' /\ [Next]_vars =>
          [Shared!Next]_<<Entries, [d \in Devices |-> PiecesOf(d)], disposed>>
    BY SharedStep
<1> QED BY <1>1, SharedInit, SlurpAlways, PTL DEF Spec, ImplementsSharedLog, Shared!Spec

----------------------------------------------------------------------------
\* The backend.

(***************************************************************************)
(* The inductive invariant of the backend, in parts.                       *)
(***************************************************************************)
Hosts(k)    == {k} \X Slots \X (1..MaxScripts)
GatewayHost == [host : Hosts("sgw"), version : Packages, cluster : Nat, server : Hosts("cbs")]
Balancer    == [host : Hosts("lb"), upstreams : Seq(Hosts("sgw"))]
HostLists   == [cbs : Seq(Seq(Hosts("cbs"))), sgw : Seq(GatewayHost), es : Seq(Hosts("es")),
                lb : Seq(Balancer), ls : Hosts("ls") \cup {None}]

Provisioning == {"resolve", "cbs", "sgw", "sgw_install", "sgw_start", "es", "es_install",
                 "lb", "ls", "ts", "write"}
Preparing    == {"apply", "read"}
Stopping     == {"stop_read", "destroy", "stop_ts"}
Choices      == StepSets \cup {d.kinds : d \in Destroys} \cup {{}}
Scripts      == [kind : {"idle", "start", "stop"}, topology : Topologies \cup {None}, steps : Choices,
                 index : {d.index : d \in Destroys} \cup {0},
                 at : Preparing \cup Provisioning \cup Stopping \cup {"end"},
                 i : Nat \ {0}, hosts : HostLists, failed : BOOLEAN]
Outcomes     == {"none", "no credentials", "failed", "started", "stopped"}
Configs      == [topology : Topologies, steps : Choices, hosts : HostLists]

\* Of a container only that there is a place for it: what Nodes puts there follows
\* from a recursive function.
BackendType ==
    /\ born \in [Kinds -> [Slots -> 0..MaxScripts]]
    /\ DOMAIN node = Slots
    /\ gateway \in [Slots -> [package : Packages \cup {None}, server : Hosts("cbs") \cup {None},
                              runs : [version : Packages \cup {None}, server : Hosts("cbs") \cup {None}]
                                     \cup {None}]]
    /\ edge \in [Slots -> [OnEdge -> Nat]]
    /\ lb \in [Slots -> Seq(Hosts("sgw")) \cup {None}]
    /\ slurp \in BOOLEAN
    /\ local \in [Packages -> {"none", "partial", "whole"}]
    /\ ca \in [Kept -> Nat] /\ cas \in Nat
    /\ script \in Scripts
    /\ config \in Configs \cup {None}
    /\ outcome \in Outcomes
    /\ scripts \in 0..MaxScripts

\* A script has a topology, and its index is that of a host.
ScriptInv ==
    /\ script.at = "end" <=> script = Idle
    /\ script # Idle => script.topology \in Topologies /\ scripts > 0
    /\ script.at \in Preparing => script.hosts = NoHosts
    /\ script.at \in {"sgw", "sgw_install", "sgw_start"} =>
          \/ script.i \in DOMAIN script.hosts.sgw
          \/ script.at = "sgw" /\ script.hosts.sgw = <<>>
    /\ script.at \in {"es", "es_install"} =>
          \/ script.i \in DOMAIN script.hosts.es
          \/ script.at = "es" /\ script.hosts.es = <<>>
    /\ script.at = "lb" => script.i \in DOMAIN script.hosts.lb \/ script.hosts.lb = <<>>
    /\ outcome = "started" => script = Idle /\ config \in Configs

\* The instances are those of topology t, in the first slots.
Applied(t) == \A k \in Kinds, s \in Slots : born[k][s] # 0 <=> s <= Count(t, k)

\* What a start that took terraform's step knows of topology t.
Named(t, h) ==
    /\ \A c \in DOMAIN t.clusters : Len(h.cbs[c]) = t.clusters[c]
    /\ \A c \in DOMAIN h.cbs : \A j \in DOMAIN h.cbs[c] : Alive(h.cbs[c][j])
    /\ Len(h.sgw) = Len(t.sgw) /\ \A i \in DOMAIN h.sgw : Alive(h.sgw[i].host)
    /\ Len(h.es) = t.es /\ \A i \in DOMAIN h.es : Alive(h.es[i])
    /\ Len(h.lb) = Len(t.lb) /\ \A i \in DOMAIN h.lb : Alive(h.lb[i].host)
    /\ t.ls => Alive(h.ls)

\* What every start knows: hosts that are there, no two of them on one instance.
Known(t, h) ==
    /\ \A i \in DOMAIN h.sgw :
          /\ Alive(h.sgw[i].host) /\ Alive(h.sgw[i].server)
          /\ h.sgw[i].server = h.cbs[h.sgw[i].cluster][1]
    /\ \A i, j \in DOMAIN h.sgw : h.sgw[i].host[2] = h.sgw[j].host[2] => i = j
    /\ \A i, j \in DOMAIN h.lb : h.lb[i].host[2] = h.lb[j].host[2] => i = j
    /\ \A i \in DOMAIN h.lb :
          h.lb[i].upstreams = [j \in DOMAIN t.lb[i] |-> h.sgw[t.lb[i][j]].host]

HostsInv ==
    /\ script.at = "read" /\ "apply" \in script.steps => Applied(script.topology)
    /\ script.at \in Provisioning =>
          /\ Known(script.topology, script.hosts)
          /\ "apply" \in script.steps => Named(script.topology, script.hosts)

\* The first n gateways run as they should.
Reach(h, n) ==
    \A i \in DOMAIN h.sgw : i <= n =>
        /\ gateway[h.sgw[i].host[2]].runs = [version |-> h.sgw[i].version, server |-> h.sgw[i].server]
        /\ Configured(h.sgw[i].server)

\* The gateways before the script's have been started, and its own has its package
\* and its configuration before it is.
GatewayInv ==
    /\ script.at \in {"sgw", "sgw_install", "sgw_start"} => Reach(script.hosts, script.i - 1)
    /\ script.at = "sgw_start" =>
          LET s == Gateway.host[2] IN
          gateway[s].package = Gateway.version /\ gateway[s].server = Gateway.server
    /\ script.at \in {"es", "es_install", "lb", "ls", "ts", "write"} /\ "sgw" \in script.steps =>
          Reach(script.hosts, Len(script.hosts.sgw))

\* The first n load balancers have their upstreams.
Balanced(h, n) == \A i \in DOMAIN h.lb : i <= n => lb[h.lb[i].host[2]] = h.lb[i].upstreams

BalancerInv ==
    /\ script.at = "lb" => Balanced(script.hosts, script.i - 1)
    /\ script.at \in {"ls", "ts", "write"} /\ "lb" \in script.steps =>
          Balanced(script.hosts, Len(script.hosts.lb))

\* The files on the last Edge Server belong to the CA that is kept.
Trusted(h) ==
    h.es # <<>> => \A f \in OnEdge, g \in Kept : edge[h.es[Len(h.es)][2]][f] = ca[g]

EdgeInv ==
    script.at \in {"lb", "ls", "ts", "write"} /\ "es" \in script.steps => Trusted(script.hosts)

\* What was true of the hosts when the configuration was written still is.
ConfigInv ==
    outcome = "started" =>
        /\ Known(config.topology, config.hosts)
        /\ "apply" \in config.steps => Named(config.topology, config.hosts)
        /\ "sgw" \in config.steps => Reach(config.hosts, Len(config.hosts.sgw))
        /\ "lb" \in config.steps => Balanced(config.hosts, Len(config.hosts.lb))
        /\ "es" \in config.steps => Trusted(config.hosts)

BackendInv ==
    /\ BackendType /\ ScriptInv /\ HostsInv
    /\ GatewayInv /\ BalancerInv /\ EdgeInv /\ ConfigInv

(***************************************************************************)
(* What the operators on topologies and instances yield.                   *)
(***************************************************************************)
LEMMA TopologyType ==
    ASSUME NEW t \in Topologies
    PROVE  /\ t.clusters \in Seq(Nat \ {0}) /\ Len(t.clusters) \in Nat
           /\ \A c \in 1..Len(t.clusters) : t.clusters[c] \in Nat \ {0}
           /\ DOMAIN t.clusters = 1..Len(t.clusters)
           /\ DOMAIN t.sgw = 1..Len(t.sgw) /\ Len(t.sgw) \in Nat
           /\ \A i \in DOMAIN t.sgw : t.sgw[i].cluster \in DOMAIN t.clusters /\ t.sgw[i].version \in Packages
           /\ t.es \in Nat
           /\ DOMAIN t.lb = 1..Len(t.lb) /\ Len(t.lb) \in Nat
           /\ \A i \in DOMAIN t.lb : t.lb[i] \in Seq(DOMAIN t.sgw)
           /\ t.ls \in BOOLEAN
<1>1. t.clusters \in Seq(Nat \ {0}) /\ t.es \in Nat /\ t.ls \in BOOLEAN
    BY TopologyAssumption, Zenon
<1>2. t.sgw \in Seq([cluster : DOMAIN t.clusters, version : Packages])
    BY TopologyAssumption, Zenon
<1>3. t.lb \in Seq(Seq(DOMAIN t.sgw))
    BY TopologyAssumption, Zenon
<1>4. /\ Len(t.clusters) \in Nat /\ DOMAIN t.clusters = 1..Len(t.clusters)
      /\ \A c \in 1..Len(t.clusters) : t.clusters[c] \in Nat \ {0}
    BY <1>1
<1>5. /\ DOMAIN t.sgw = 1..Len(t.sgw) /\ Len(t.sgw) \in Nat
      /\ \A i \in DOMAIN t.sgw : t.sgw[i] \in [cluster : DOMAIN t.clusters, version : Packages]
    BY <1>2, ListType
<1>6. /\ DOMAIN t.lb = 1..Len(t.lb) /\ Len(t.lb) \in Nat
      /\ \A i \in DOMAIN t.lb : t.lb[i] \in Seq(DOMAIN t.sgw)
    BY <1>3
<1> QED BY <1>1, <1>4, <1>5, <1>6

There(k)   == {s \in Slots : born[k][s] # 0}
Rank(k, s) == Cardinality({r \in There(k) : r <= s})
Nth(k, j)  == CHOOSE s \in There(k) : Rank(k, s) = j

LEMMA OutputsAre ==
    ASSUME NEW k
    PROVE  Outputs(k) = [j \in 1..Cardinality(There(k)) |-> Address(k, Nth(k, j))]
BY DEF Outputs, There, Rank, Nth

LEMMA ThereIsFinite ==
    ASSUME NEW k
    PROVE  /\ There(k) \in SUBSET (1..MaxSlots) /\ IsFiniteSet(There(k)) /\ Cardinality(There(k)) \in Nat
<1>1. IsFiniteSet(1..MaxSlots)
    BY BackendBounds, FS_Interval
<1>2. There(k) \in SUBSET (1..MaxSlots)
    BY DEF There, Slots
<1>3. IsFiniteSet(There(k))
    BY <1>1, <1>2, FS_Subset
<1> QED BY <1>2, <1>3, FS_CardinalityType

\* Every place up to the number of instances is the rank of one of them.
LEMMA RankIsOnto ==
    ASSUME NEW k, NEW j \in 1..Cardinality(There(k))
    PROVE  \E s \in There(k) : Rank(k, s) = j
<1> DEFINE S == There(k)
           n == Cardinality(S)
           upTo(s) == {r \in S : r <= s}
           rank == [s \in S |-> Cardinality(upTo(s))]
<1>1. S \in SUBSET (1..MaxSlots) /\ IsFiniteSet(S) /\ n \in Nat
    BY ThereIsFinite
<1>2. ASSUME NEW s \in S PROVE IsFiniteSet(upTo(s)) /\ Cardinality(upTo(s)) \in 1..n
    <2>1. upTo(s) \in SUBSET S /\ s \in upTo(s)
        BY <1>1
    <2>2. IsFiniteSet(upTo(s)) /\ Cardinality(upTo(s)) <= n
        BY <1>1, <2>1, FS_Subset
    <2>3. Cardinality(upTo(s)) \in Nat /\ Cardinality(upTo(s)) # 0
        BY <2>1, <2>2, FS_CardinalityType, FS_EmptySet
    <2> QED BY <1>1, <2>2, <2>3
<1>3. ASSUME NEW s \in S, NEW r \in S, s < r PROVE Cardinality(upTo(s)) # Cardinality(upTo(r))
    <2>1. upTo(s) \in SUBSET upTo(r) /\ r \in upTo(r) /\ r \notin upTo(s)
        BY <1>1, <1>3
    <2> QED BY <1>2, <2>1, FS_Subset
<1>4. rank \in Injection(S, 1..n)
    <2>1. rank \in [S -> 1..n]
        BY <1>2
    <2>2. ASSUME NEW s \in S, NEW r \in S, rank[s] = rank[r] PROVE s = r
        <3>1. Cardinality(upTo(s)) = Cardinality(upTo(r))
            BY <2>2
        <3>2. s \in Int /\ r \in Int
            BY <1>1, BackendBounds
        <3>3. ~(s < r) /\ ~(r < s)
            BY <1>3, <3>1
        <3> QED BY <3>2, <3>3
    <2> QED BY <2>1, <2>2 DEF Injection, IsInjective
<1>5. IsFiniteSet(1..n) /\ Cardinality(1..n) = n
    BY <1>1, FS_Interval
<1>6. rank \in Surjection(S, 1..n)
    BY <1>4, <1>5, FS_Injection
<1> QED BY <1>6 DEF Surjection, Rank

\* Terraform's list: one address for each instance that there is.
LEMMA OutputsList ==
    ASSUME BackendType, NEW k \in Kinds
    PROVE  /\ Outputs(k) \in Seq(Hosts(k)) /\ Len(Outputs(k)) = Cardinality(There(k))
           /\ \A j \in 1..Len(Outputs(k)) : Alive(Outputs(k)[j])
           /\ \A i, j \in 1..Len(Outputs(k)) : Outputs(k)[i][2] = Outputs(k)[j][2] => i = j
<1> DEFINE n == Cardinality(There(k))
<1>1. n \in Nat /\ There(k) \in SUBSET Slots
    BY ThereIsFinite DEF Slots
<1>2. \A j \in 1..n : Nth(k, j) \in There(k) /\ Rank(k, Nth(k, j)) = j
    BY RankIsOnto DEF Nth
<1>3. \A j \in 1..n : Address(k, Nth(k, j)) \in Hosts(k) /\ Alive(Address(k, Nth(k, j)))
    <2> SUFFICES ASSUME NEW s \in There(k) PROVE Address(k, s) \in Hosts(k) /\ Alive(Address(k, s))
        BY <1>2
    <2>1. s \in Slots /\ born[k][s] \in 1..MaxScripts
        BY <1>1 DEF There, BackendType
    <2>2. Address(k, s) \in Hosts(k)
        BY <2>1 DEF Address, Hosts
    <2>3. Address(k, s) # None
        BY <2>1, BackendBounds DEF Address
    <2> QED BY <2>2, <2>3 DEF Alive, Address
<1>4. Outputs(k) = [j \in 1..n |-> Address(k, Nth(k, j))]
    BY OutputsAre
<1>5. Outputs(k) \in Seq(Hosts(k)) /\ Len(Outputs(k)) = n
    BY <1>1, <1>3, <1>4
<1>6. ASSUME NEW i \in 1..n, NEW j \in 1..n, Outputs(k)[i][2] = Outputs(k)[j][2] PROVE i = j
    <2>1. Nth(k, i) = Nth(k, j)
        BY <1>4, <1>6 DEF Address
    <2> QED BY <1>2, <2>1
<1> QED BY <1>3, <1>4, <1>5, <1>6

\* The nodes of the clusters before c.
Before(t, c) == UNION {{i} \X (1..t.clusters[i]) : i \in 1..c - 1}

LEMMA BeforeIsFinite ==
    ASSUME NEW t \in Topologies, NEW c \in 1..Len(t.clusters) + 1
    PROVE  IsFiniteSet(Before(t, c)) /\ Offset(t, c) = Cardinality(Before(t, c)) /\ Offset(t, c) \in Nat
<1> DEFINE part == [i \in 1..c - 1 |-> {i} \X (1..t.clusters[i])]
           parts == {{i} \X (1..t.clusters[i]) : i \in 1..c - 1}
<1>1. t.clusters \in Seq(Nat \ {0}) /\ Len(t.clusters) \in Nat
    BY TopologyType
<1>2. part \in Surjection(1..c - 1, parts)
    BY DEF Surjection
<1>3. IsFiniteSet(1..c - 1)
    BY <1>1, FS_Interval
<1>4. IsFiniteSet(parts)
    BY <1>2, <1>3, FS_Surjection
<1>5. ASSUME NEW i \in 1..c - 1 PROVE IsFiniteSet({i} \X (1..t.clusters[i]))
    <2>1. t.clusters[i] \in Nat
        BY <1>1, TopologyType
    <2>2. IsFiniteSet({i}) /\ IsFiniteSet(1..t.clusters[i])
        BY <2>1, UpTo, FS_Singleton
    <2> QED BY <2>2, FS_Product
<1>6. IsFiniteSet(UNION parts)
    BY <1>4, <1>5, FS_UNION
<1> QED BY <1>6, FS_CardinalityType DEF Before, Offset

LEMMA OffsetNext ==
    ASSUME NEW t \in Topologies, NEW c \in 1..Len(t.clusters)
    PROVE  Offset(t, c + 1) = Offset(t, c) + t.clusters[c]
<1> DEFINE own == {c} \X (1..t.clusters[c])
<1>1. t.clusters \in Seq(Nat \ {0}) /\ Len(t.clusters) \in Nat /\ t.clusters[c] \in Nat
    BY TopologyType
<1>2. Before(t, c + 1) = Before(t, c) \cup own
    BY <1>1 DEF Before
<1>3. Before(t, c) \cap own = {}
    BY <1>1 DEF Before
<1>4. IsFiniteSet(own) /\ Cardinality(own) = t.clusters[c]
    <2>1. IsFiniteSet({c}) /\ Cardinality({c}) = 1
        BY FS_Singleton
    <2>2. IsFiniteSet(1..t.clusters[c]) /\ Cardinality(1..t.clusters[c]) = t.clusters[c]
        BY <1>1, UpTo
    <2>3. IsFiniteSet(own) /\ Cardinality(own) = 1 * t.clusters[c]
        BY <2>1, <2>2, FS_Product
    <2> QED BY <1>1, <2>3
<1>5. c \in 1..Len(t.clusters) + 1 /\ c + 1 \in 1..Len(t.clusters) + 1
    BY <1>1
<1>6. Cardinality(Before(t, c) \cup own) = Cardinality(Before(t, c)) + Cardinality(own) - Cardinality({})
    <2>1. IsFiniteSet(Before(t, c))
        BY <1>5, BeforeIsFinite
    <2> QED BY <1>3, <1>4, <2>1, FS_Union
<1>7. Offset(t, c + 1) = Cardinality(Before(t, c + 1)) /\ Offset(t, c) = Cardinality(Before(t, c))
      /\ Offset(t, c) \in Nat
    BY <1>5, BeforeIsFinite
<1>8. Cardinality({}) = 0 /\ Cardinality(own) = t.clusters[c]
    BY <1>4, FS_EmptySet
<1>9. Offset(t, c + 1) = Offset(t, c) + Cardinality(own) - 0
    BY <1>2, <1>6, <1>7, <1>8
<1> QED BY <1>1, <1>7, <1>8, <1>9

LEMMA OffsetGrows ==
    ASSUME NEW t \in Topologies, NEW c \in 1..Len(t.clusters) + 1, NEW d \in 1..Len(t.clusters) + 1, c <= d
    PROVE  Offset(t, c) <= Offset(t, d)
<1>1. Len(t.clusters) \in Nat
    BY TopologyType
<1>2. Before(t, c) \in SUBSET Before(t, d)
    <2>1. \A i \in 1..c - 1 : i \in 1..d - 1
        BY <1>1
    <2> QED BY <2>1 DEF Before
<1> QED BY <1>2, BeforeIsFinite, FS_Subset

LEMMA CountType ==
    ASSUME NEW t \in Topologies, NEW k \in Kinds
    PROVE  Count(t, k) \in Nat
<1>1. Len(t.clusters) \in Nat /\ Len(t.sgw) \in Nat /\ t.es \in Nat /\ Len(t.lb) \in Nat
    BY TopologyType
<1>2. Offset(t, Len(t.clusters) + 1) \in Nat
    BY <1>1, BeforeIsFinite
<1> QED BY <1>1, <1>2 DEF Count, Kinds

LEMMA OutputsWhole ==
    ASSUME BackendType, NEW t \in Topologies, Applied(t), NEW k \in Kinds
    PROVE  Len(Outputs(k)) = Count(t, k)
<1>1. Count(t, k) \in Nat /\ Count(t, k) <= MaxSlots /\ MaxSlots \in Nat
    BY CountType, BackendBounds
<1>2. There(k) = 1..Count(t, k)
    BY <1>1 DEF There, Applied, Slots
<1>3. Cardinality(1..Count(t, k)) = Count(t, k)
    BY <1>1, FS_Interval
<1> QED BY <1>2, <1>3, OutputsList

LEMMA ClusterList ==
    ASSUME BackendType, NEW t \in Topologies, NEW c \in DOMAIN t.clusters
    PROVE  /\ Cluster(t, c) \in Seq(Hosts("cbs"))
           /\ \A j \in DOMAIN Cluster(t, c) : Alive(Cluster(t, c)[j])
<1> DEFINE all == Outputs("cbs")
           first == Offset(t, c) + 1
           last == Offset(t, c) + t.clusters[c]
           upTo == IF last > Len(all) THEN Len(all) ELSE last
<1>1. /\ all \in Seq(Hosts("cbs")) /\ Len(all) \in Nat
      /\ \A j \in 1..Len(all) : all[j] \in Hosts("cbs") /\ Alive(all[j])
    BY OutputsList DEF Kinds
<1>2. /\ c \in 1..Len(t.clusters) /\ Len(t.clusters) \in Nat /\ t.clusters[c] \in Nat
      /\ Offset(t, c) \in Nat
    BY TopologyType, BeforeIsFinite
<1>3. first \in Int /\ upTo \in Int /\ first >= 1 /\ upTo <= Len(all)
    BY <1>1, <1>2
<1>4. \A i \in first..upTo : all[i] \in Hosts("cbs") /\ Alive(all[i])
    BY <1>1, <1>3
<1>5. /\ SubSeq(all, first, upTo) \in Seq(Hosts("cbs"))
      /\ Len(SubSeq(all, first, upTo)) = IF first <= upTo THEN upTo - first + 1 ELSE 0
      /\ \A i \in 1..upTo - first + 1 : SubSeq(all, first, upTo)[i] = all[first + i - 1]
    BY <1>3, <1>4, SubSeqProperties
<1>6. Cluster(t, c) = SubSeq(all, first, upTo)
    BY DEF Cluster
<1>7. ASSUME NEW j \in DOMAIN Cluster(t, c) PROVE Alive(Cluster(t, c)[j])
    <2>1. j \in 1..upTo - first + 1 /\ first + j - 1 \in first..upTo
        BY <1>3, <1>5, <1>6
    <2> QED BY <1>4, <1>5, <1>6, <2>1
<1> QED BY <1>5, <1>6, <1>7

LEMMA ClusterWhole ==
    ASSUME BackendType, NEW t \in Topologies, Applied(t), NEW c \in DOMAIN t.clusters
    PROVE  Len(Cluster(t, c)) = t.clusters[c]
<1> DEFINE all == Outputs("cbs")
           first == Offset(t, c) + 1
           last == Offset(t, c) + t.clusters[c]
<1>1. /\ t.clusters \in Seq(Nat \ {0}) /\ Len(t.clusters) \in Nat
      /\ c \in 1..Len(t.clusters) /\ t.clusters[c] \in Nat \ {0}
    BY TopologyType
<1>2. c + 1 \in 1..Len(t.clusters) + 1 /\ Len(t.clusters) + 1 \in 1..Len(t.clusters) + 1
      /\ c \in 1..Len(t.clusters) + 1 /\ c + 1 <= Len(t.clusters) + 1
    BY <1>1
<1>3. Offset(t, c) \in Nat /\ Offset(t, c + 1) = last
    BY <1>1, <1>2, BeforeIsFinite, OffsetNext
<1>4. last <= Len(all) /\ Len(all) \in Nat /\ all \in Seq(Hosts("cbs"))
    <2>1. Len(all) = Offset(t, Len(t.clusters) + 1)
        BY OutputsWhole DEF Kinds, Count
    <2> QED BY <1>2, <1>3, <2>1, OffsetGrows, OutputsList DEF Kinds
<1>5. \A i \in first..last : all[i] \in Hosts("cbs")
    BY <1>1, <1>3, <1>4
<1>6. Len(SubSeq(all, first, last)) = t.clusters[c]
    BY <1>1, <1>3, <1>5, SubSeqProperties
<1>7. ~(last > Len(all))
    BY <1>1, <1>3, <1>4
<1>8. Cluster(t, c) = SubSeq(all, first, last)
    BY <1>7 DEF Cluster
<1> QED BY <1>6, <1>8

LEMMA AddressAlive ==
    ASSUME BackendType, NEW k \in Kinds, NEW s \in Slots, born[k][s] # 0
    PROVE  Address(k, s) \in Hosts(k) /\ Alive(Address(k, s))
<1>1. born[k][s] \in 1..MaxScripts
    BY DEF BackendType
<1>2. Address(k, s) \in Hosts(k)
    BY <1>1 DEF Address, Hosts
<1>3. Address(k, s) # None
    BY <1>1, BackendBounds DEF Address
<1> QED BY <1>2, <1>3 DEF Alive, Address

\* What a readable topology gives for its gateways.
LEMMA GatewaysRead ==
    ASSUME BackendType, NEW t \in Topologies, Readable(t)
    PROVE  /\ Gateways(t) \in Seq(GatewayHost) /\ Len(Gateways(t)) = Len(t.sgw)
           /\ DOMAIN Gateways(t) = DOMAIN t.sgw
           /\ \A i \in DOMAIN t.sgw :
                 /\ Gateways(t)[i].host = Outputs("sgw")[i] /\ i \in 1..Len(Outputs("sgw"))
                 /\ Outputs("sgw")[i] \in Hosts("sgw")
                 /\ Alive(Gateways(t)[i].host) /\ Alive(Gateways(t)[i].server)
                 /\ Gateways(t)[i].cluster \in DOMAIN t.clusters
                 /\ Gateways(t)[i].server = Cluster(t, Gateways(t)[i].cluster)[1]
<1>1. /\ DOMAIN t.sgw = 1..Len(t.sgw) /\ Len(t.sgw) \in Nat
      /\ \A i \in DOMAIN t.sgw : t.sgw[i].cluster \in DOMAIN t.clusters /\ t.sgw[i].version \in Packages
      /\ DOMAIN t.clusters = 1..Len(t.clusters)
    BY TopologyType
<1>2. /\ Outputs("sgw") \in Seq(Hosts("sgw")) /\ Len(Outputs("sgw")) \in Nat
      /\ \A i \in 1..Len(Outputs("sgw")) : Outputs("sgw")[i] \in Hosts("sgw") /\ Alive(Outputs("sgw")[i])
    BY OutputsList, ListType DEF Kinds
<1>3. ASSUME NEW i \in DOMAIN t.sgw
      PROVE  /\ i \in 1..Len(Outputs("sgw"))
             /\ Cluster(t, t.sgw[i].cluster)[1] \in Hosts("cbs")
             /\ Alive(Cluster(t, t.sgw[i].cluster)[1])
    <2>1. i \in 1..Len(Outputs("sgw"))
        BY <1>1, <1>2 DEF Readable
    <2> DEFINE q == Cluster(t, t.sgw[i].cluster)
    <2>2. q # <<>> /\ q \in Seq(Hosts("cbs")) /\ \A j \in DOMAIN q : Alive(q[j])
        BY <1>1, ClusterList DEF Readable
    <2> HIDE DEF q
    <2>3. 1 \in DOMAIN q
        BY <2>2
    <2>4. q[1] \in Hosts("cbs") /\ Alive(q[1])
        BY <2>2, <2>3, ListType
    <2> QED BY <2>1, <2>4 DEF q
<1>4. ASSUME NEW i \in DOMAIN t.sgw
      PROVE  [host |-> Outputs("sgw")[i], version |-> t.sgw[i].version,
              cluster |-> t.sgw[i].cluster, server |-> Cluster(t, t.sgw[i].cluster)[1]] \in GatewayHost
    <2>1. t.sgw[i].cluster \in Nat
        BY <1>1, TopologyType
    <2> QED BY <1>1, <1>2, <1>3, <2>1 DEF GatewayHost
<1>5. /\ DOMAIN Gateways(t) = 1..Len(t.sgw)
      /\ \A i \in DOMAIN t.sgw :
            Gateways(t)[i] = [host |-> Outputs("sgw")[i], version |-> t.sgw[i].version,
                              cluster |-> t.sgw[i].cluster, server |-> Cluster(t, t.sgw[i].cluster)[1]]
    BY <1>1 DEF Gateways
<1>6. Gateways(t) \in [1..Len(t.sgw) -> GatewayHost]
    BY <1>1, <1>4 DEF Gateways
<1>7. Gateways(t) \in Seq(GatewayHost) /\ Len(Gateways(t)) = Len(t.sgw)
    BY <1>1, <1>6
<1>8. ASSUME NEW i \in DOMAIN t.sgw
      PROVE  /\ Gateways(t)[i].host = Outputs("sgw")[i]
             /\ Gateways(t)[i].cluster = t.sgw[i].cluster
             /\ Gateways(t)[i].server = Cluster(t, t.sgw[i].cluster)[1]
    <2>1. Gateways(t)[i] = [host |-> Outputs("sgw")[i], version |-> t.sgw[i].version,
                            cluster |-> t.sgw[i].cluster, server |-> Cluster(t, t.sgw[i].cluster)[1]]
        BY <1>5
    <2> QED BY <2>1
<1> QED BY <1>1, <1>2, <1>3, <1>5, <1>7, <1>8

\* The same for its load balancers.
LEMMA BalancersRead ==
    ASSUME BackendType, NEW t \in Topologies, Readable(t)
    PROVE  /\ Balancers(t) \in Seq(Balancer) /\ DOMAIN Balancers(t) \subseteq DOMAIN t.lb
           /\ \A i \in DOMAIN Balancers(t) :
                 /\ i \in 1..Len(Outputs("lb"))
                 /\ Balancers(t)[i].host = Outputs("lb")[i] /\ Alive(Balancers(t)[i].host)
                 /\ Balancers(t)[i].upstreams = [j \in DOMAIN t.lb[i] |-> Gateways(t)[t.lb[i][j]].host]
           /\ Len(Outputs("lb")) = Len(t.lb) => Len(Balancers(t)) = Len(t.lb)
<1>1. /\ DOMAIN t.lb = 1..Len(t.lb) /\ Len(t.lb) \in Nat
      /\ \A i \in DOMAIN t.lb : t.lb[i] \in Seq(DOMAIN t.sgw)
    BY TopologyType
<1>2. /\ Outputs("lb") \in Seq(Hosts("lb")) /\ Len(Outputs("lb")) \in Nat
      /\ \A i \in 1..Len(Outputs("lb")) : Outputs("lb")[i] \in Hosts("lb") /\ Alive(Outputs("lb")[i])
    BY OutputsList, ListType DEF Kinds
<1>3. CASE Outputs("lb") = <<>>
    BY <1>1, <1>3 DEF Balancers
<1>4. CASE Outputs("lb") # <<>>
    <2> DEFINE up(i) == [j \in DOMAIN t.lb[i] |-> Outputs("sgw")[t.lb[i][j]]]
    <2>1. Len(Outputs("lb")) >= Len(t.lb)
        BY <1>4 DEF Readable
    <2>2. ASSUME NEW i \in DOMAIN t.lb
          PROVE  /\ up(i) \in Seq(Hosts("sgw"))
                 /\ up(i) = [j \in DOMAIN t.lb[i] |-> Gateways(t)[t.lb[i][j]].host]
        <3>1. /\ DOMAIN t.lb[i] = 1..Len(t.lb[i]) /\ Len(t.lb[i]) \in Nat
              /\ \A j \in DOMAIN t.lb[i] : t.lb[i][j] \in DOMAIN t.sgw
            BY <1>1, ListType
        <3>2. \A j \in DOMAIN t.lb[i] : /\ Outputs("sgw")[t.lb[i][j]] = Gateways(t)[t.lb[i][j]].host
                                        /\ Outputs("sgw")[t.lb[i][j]] \in Hosts("sgw")
            BY <3>1, GatewaysRead
        <3>3. up(i) \in [1..Len(t.lb[i]) -> Hosts("sgw")]
            BY <3>1, <3>2
        <3> QED BY <3>1, <3>2, <3>3
    <2>3. Balancers(t) = [i \in DOMAIN t.lb |-> [host |-> Outputs("lb")[i], upstreams |-> up(i)]]
        BY <1>4 DEF Balancers
    <2> HIDE DEF up
    <2>4. \A i \in DOMAIN t.lb : i \in 1..Len(Outputs("lb"))
        BY <1>1, <1>2, <2>1
    <2>5. Balancers(t) \in [1..Len(t.lb) -> Balancer]
        BY <1>1, <1>2, <2>2, <2>3, <2>4 DEF Balancer
    <2>6. Balancers(t) \in Seq(Balancer) /\ Len(Balancers(t)) = Len(t.lb)
        BY <1>1, <2>5
    <2>7. \A i \in DOMAIN t.lb : Balancers(t)[i].host = Outputs("lb")[i] /\ Balancers(t)[i].upstreams = up(i)
        BY <2>3
    <2> QED BY <1>1, <1>2, <2>2, <2>3, <2>4, <2>6, <2>7
<1> QED BY <1>3, <1>4

LEMMA EdgeServersRead ==
    ASSUME BackendType, NEW t \in Topologies, Readable(t)
    PROVE  /\ EdgeServers(t) \in Seq(Hosts("es")) /\ Len(EdgeServers(t)) = t.es
           /\ \A i \in DOMAIN EdgeServers(t) : Alive(EdgeServers(t)[i])
<1>1. /\ Outputs("es") \in Seq(Hosts("es")) /\ Len(Outputs("es")) \in Nat
      /\ \A i \in 1..Len(Outputs("es")) : Outputs("es")[i] \in Hosts("es") /\ Alive(Outputs("es")[i])
    BY OutputsList, ListType DEF Kinds
<1>2. t.es \in Nat /\ t.es <= Len(Outputs("es"))
    BY <1>1, TopologyType DEF Readable
<1>3. \A i \in 1..t.es : Outputs("es")[i] \in Hosts("es")
    BY <1>1, <1>2
<1>4. /\ SubSeq(Outputs("es"), 1, t.es) \in Seq(Hosts("es"))
      /\ Len(SubSeq(Outputs("es"), 1, t.es)) = IF 1 <= t.es THEN t.es - 1 + 1 ELSE 0
      /\ \A i \in 1..t.es - 1 + 1 : SubSeq(Outputs("es"), 1, t.es)[i] = Outputs("es")[1 + i - 1]
    BY <1>2, <1>3, SubSeqProperties
<1>5. EdgeServers(t) = SubSeq(Outputs("es"), 1, t.es)
    BY DEF EdgeServers
<1> QED
    <2>1. Len(EdgeServers(t)) = t.es
        BY <1>2, <1>4, <1>5
    <2>2. DOMAIN EdgeServers(t) = 1..t.es
        BY <1>4, <1>5, <2>1, ListType
    <2>3. \A i \in 1..t.es : EdgeServers(t)[i] = Outputs("es")[i] /\ i \in 1..Len(Outputs("es"))
        BY <1>1, <1>2, <1>4, <1>5
    <2> QED BY <1>1, <1>4, <1>5, <2>1, <2>2, <2>3

LEMMA ReadIsKnown ==
    ASSUME BackendType, NEW t \in Topologies, Readable(t)
    PROVE  Read(t) \in HostLists /\ Known(t, Read(t))
<1> DEFINE h == Read(t)
<1>1. /\ h.cbs = Servers(t) /\ h.sgw = Gateways(t) /\ h.es = EdgeServers(t) /\ h.lb = Balancers(t)
      /\ h.ls = IF t.ls THEN Address("ls", 1) ELSE None
    BY DEF Read
<1>2. Servers(t) \in Seq(Seq(Hosts("cbs")))
    <2>1. DOMAIN t.clusters = 1..Len(t.clusters) /\ Len(t.clusters) \in Nat
        BY TopologyType
    <2>2. Servers(t) \in [1..Len(t.clusters) -> Seq(Hosts("cbs"))]
        BY <2>1, ClusterList DEF Servers
    <2> QED BY <2>1, <2>2
<1>3. h.ls \in Hosts("ls") \cup {None}
    <2>1. t.ls => 1 \in Slots /\ born["ls"][1] # 0
        <3>1. Count(t, "ls") <= MaxSlots /\ MaxSlots \in Nat
            BY BackendBounds DEF Kinds
        <3>2. t.ls => Count(t, "ls") = 1
            BY DEF Count
        <3> QED BY <3>1, <3>2 DEF Readable, Slots
    <2>2. t.ls => Address("ls", 1) \in Hosts("ls")
        BY <2>1, AddressAlive DEF Kinds
    <2> QED BY <1>1, <2>2
<1>4. h \in HostLists
    BY <1>2, <1>3, GatewaysRead, BalancersRead, EdgeServersRead DEF Read, HostLists
<1>5. \A i \in DOMAIN h.sgw :
          /\ Alive(h.sgw[i].host) /\ Alive(h.sgw[i].server)
          /\ h.sgw[i].server = h.cbs[h.sgw[i].cluster][1]
    <2>1. \A c \in DOMAIN t.clusters : Servers(t)[c] = Cluster(t, c)
        BY DEF Servers
    <2> QED BY <1>1, <2>1, GatewaysRead
<1>6. \A i, j \in DOMAIN h.sgw : h.sgw[i].host[2] = h.sgw[j].host[2] => i = j
    <2>1. \A i, j \in 1..Len(Outputs("sgw")) : Outputs("sgw")[i][2] = Outputs("sgw")[j][2] => i = j
        BY OutputsList DEF Kinds
    <2>2. \A i \in DOMAIN h.sgw : i \in 1..Len(Outputs("sgw")) /\ h.sgw[i].host = Outputs("sgw")[i]
        BY <1>1, GatewaysRead
    <2> QED BY <2>1, <2>2
<1>7. \A i, j \in DOMAIN h.lb : h.lb[i].host[2] = h.lb[j].host[2] => i = j
    <2>1. \A i, j \in 1..Len(Outputs("lb")) : Outputs("lb")[i][2] = Outputs("lb")[j][2] => i = j
        BY OutputsList DEF Kinds
    <2>2. \A i \in DOMAIN h.lb : i \in 1..Len(Outputs("lb")) /\ h.lb[i].host = Outputs("lb")[i]
        BY <1>1, BalancersRead
    <2> QED BY <2>1, <2>2
<1>8. \A i \in DOMAIN h.lb : h.lb[i].upstreams = [j \in DOMAIN t.lb[i] |-> h.sgw[t.lb[i][j]].host]
    BY <1>1, BalancersRead
<1> QED BY <1>4, <1>5, <1>6, <1>7, <1>8 DEF Known

\* After terraform has applied the topology, what is read is the topology.
LEMMA ReadIsNamed ==
    ASSUME BackendType, NEW t \in Topologies, Readable(t), Applied(t)
    PROVE  Named(t, Read(t))
<1> DEFINE h == Read(t)
<1>1. /\ h.cbs = Servers(t) /\ h.sgw = Gateways(t) /\ h.es = EdgeServers(t) /\ h.lb = Balancers(t)
      /\ h.ls = IF t.ls THEN Address("ls", 1) ELSE None
    BY DEF Read
<1>2. DOMAIN h.cbs = DOMAIN t.clusters /\ \A c \in DOMAIN t.clusters : h.cbs[c] = Cluster(t, c)
    BY <1>1 DEF Servers
<1>3. /\ \A c \in DOMAIN t.clusters : Len(h.cbs[c]) = t.clusters[c]
      /\ \A c \in DOMAIN h.cbs : \A j \in DOMAIN h.cbs[c] : Alive(h.cbs[c][j])
    BY <1>2, ClusterList, ClusterWhole
<1>4. Len(h.sgw) = Len(t.sgw) /\ \A i \in DOMAIN h.sgw : Alive(h.sgw[i].host)
    BY <1>1, GatewaysRead
<1>5. Len(h.es) = t.es /\ \A i \in DOMAIN h.es : Alive(h.es[i])
    BY <1>1, EdgeServersRead
<1>6. Len(h.lb) = Len(t.lb) /\ \A i \in DOMAIN h.lb : Alive(h.lb[i].host)
    <2>1. Len(Outputs("lb")) = Len(t.lb)
        BY OutputsWhole DEF Kinds, Count
    <2> QED BY <1>1, <2>1, BalancersRead
<1>7. t.ls => Alive(h.ls)
    <2>1. Count(t, "ls") <= MaxSlots /\ MaxSlots \in Nat
        BY BackendBounds DEF Kinds
    <2>2. t.ls => Count(t, "ls") = 1
        BY DEF Count
    <2>3. t.ls => 1 \in Slots /\ born["ls"][1] # 0
        BY <2>1, <2>2 DEF Readable, Slots
    <2> QED BY <1>1, <2>3, AddressAlive DEF Kinds
<1> QED BY <1>3, <1>4, <1>5, <1>6, <1>7 DEF Named

LEMMA NoHostsType == NoHosts \in HostLists
BY DEF NoHosts, HostLists

\* A topology of test servers only needs no host.
LEMMA NoResources ==
    ASSUME NEW t \in Topologies, ~HasResources(t)
    PROVE  DOMAIN t.clusters = {} /\ Len(t.sgw) = 0 /\ t.es = 0 /\ Len(t.lb) = 0 /\ ~t.ls
<1>1. \A k \in Kinds : Count(t, k) = 0
    BY CountType DEF HasResources
<1>2. Offset(t, Len(t.clusters) + 1) = 0 /\ Len(t.sgw) = 0 /\ t.es = 0 /\ Len(t.lb) = 0 /\ ~t.ls
    BY <1>1 DEF Kinds, Count
<1>3. DOMAIN t.clusters = {}
    <2> SUFFICES ASSUME NEW c \in DOMAIN t.clusters PROVE FALSE
        OBVIOUS
    <2>1. c \in 1..Len(t.clusters) /\ Len(t.clusters) \in Nat /\ t.clusters[c] \in Nat \ {0}
        BY TopologyType
    <2>2. /\ c \in 1..Len(t.clusters) + 1 /\ c + 1 \in 1..Len(t.clusters) + 1
          /\ Len(t.clusters) + 1 \in 1..Len(t.clusters) + 1 /\ c + 1 <= Len(t.clusters) + 1
        BY <2>1
    <2>3. Offset(t, c) \in Nat /\ Offset(t, c + 1) <= 0
        BY <1>2, <2>2, BeforeIsFinite, OffsetGrows
    <2> QED BY <2>1, <2>3, OffsetNext
<1> QED BY <1>2, <1>3

(***************************************************************************)
(* The order of the steps.                                                 *)
(***************************************************************************)
LEMMA OrderIs ==
    /\ Order[1] = "cbs" /\ Order[2] = "sgw" /\ Order[3] = "es" /\ Order[4] = "lb"
    /\ Order[5] = "ls" /\ Order[6] = "ts" /\ Order[7] = "write" /\ Len(Order) = 7
    /\ DOMAIN Order = 1..7
BY DEF Order

LEMMA LeastOfSeven ==
    ASSUME NEW A \in SUBSET (1..7), 7 \in A
    PROVE  \E n \in A : \A m \in A : n <= m
<1>1. \A m \in A : m \in {1, 2, 3, 4, 5, 6, 7}
    OBVIOUS
<1>2. CASE 1 \in A BY <1>1, <1>2
<1>3. CASE 1 \notin A /\ 2 \in A BY <1>1, <1>3
<1>4. CASE 1 \notin A /\ 2 \notin A /\ 3 \in A BY <1>1, <1>4
<1>5. CASE 1 \notin A /\ 2 \notin A /\ 3 \notin A /\ 4 \in A BY <1>1, <1>5
<1>6. CASE 1 \notin A /\ 2 \notin A /\ 3 \notin A /\ 4 \notin A /\ 5 \in A BY <1>1, <1>6
<1>7. CASE 1 \notin A /\ 2 \notin A /\ 3 \notin A /\ 4 \notin A /\ 5 \notin A /\ 6 \in A BY <1>1, <1>7
<1>8. CASE 1 \notin A /\ 2 \notin A /\ 3 \notin A /\ 4 \notin A /\ 5 \notin A /\ 6 \notin A BY <1>1, <1>8
<1> QED BY <1>2, <1>3, <1>4, <1>5, <1>6, <1>7, <1>8

\* The next step is the first of those that follow and are asked for.
LEMMA StepIsNext ==
    ASSUME NEW j \in 1..7
    PROVE  \E n \in j..7 : Step(j) = Order[n] /\ \A m \in j..6 : Order[m] \in script.steps => n <= m
<1> DEFINE due == {n \in j..Len(Order) : Order[n] \in script.steps \cup {"write"}}
           n == CHOOSE n \in due : \A m \in due : n <= m
<1>1. due \in SUBSET (1..7) /\ 7 \in due
    BY OrderIs
<1>2. n \in due /\ \A m \in due : n <= m
    BY <1>1, LeastOfSeven
<1>3. Step(j) = Order[n]
    BY DEF Step
<1>4. n \in j..7
    BY <1>2, OrderIs
<1>5. \A m \in j..6 : Order[m] \in script.steps => m \in due
    BY OrderIs
<1> QED BY <1>2, <1>3, <1>4, <1>5

\* Where a script can be after the steps up to one, given those it takes.
LEMMA NextStep ==
    LET steps == script.steps IN
    /\ Step(1) \in {"cbs", "sgw", "es", "lb", "ls", "ts", "write"}
    /\ Step(2) \in {"sgw", "es", "lb", "ls", "ts", "write"}
    /\ \A j \in 1..2 : "sgw" \in steps => Step(j) \in {"cbs", "sgw"}
    /\ Step(3) \in {"es", "lb", "ls", "ts", "write"}
    /\ \A j \in 1..3 : "es" \in steps => Step(j) \in {"cbs", "sgw", "es"}
    /\ Step(4) \in {"lb", "ls", "ts", "write"}
    /\ \A j \in 1..4 : "lb" \in steps => Step(j) \in {"cbs", "sgw", "es", "lb"}
    /\ Step(5) \in {"ls", "ts", "write"}
    /\ Step(6) \in {"ts", "write"}
    /\ Step(7) \in {"write"}
<1>1. ASSUME NEW j \in 1..7
      PROVE  \E n \in j..7 : /\ Step(j) = Order[n]
                             /\ j <= 2 /\ "sgw" \in script.steps => n <= 2
                             /\ j <= 3 /\ "es" \in script.steps => n <= 3
                             /\ j <= 4 /\ "lb" \in script.steps => n <= 4
    <2>1. PICK n \in j..7 : Step(j) = Order[n] /\ \A m \in j..6 : Order[m] \in script.steps => n <= m
        BY StepIsNext
    <2>2. j <= 2 /\ "sgw" \in script.steps => n <= 2
        BY <2>1, OrderIs
    <2>3. j <= 3 /\ "es" \in script.steps => n <= 3
        BY <2>1, OrderIs
    <2>4. j <= 4 /\ "lb" \in script.steps => n <= 4
        BY <2>1, OrderIs
    <2> QED BY <2>1, <2>2, <2>3, <2>4
<1>2. ASSUME NEW j \in 1..7
      PROVE  /\ Step(j) \in {Order[n] : n \in j..7}
             /\ j <= 2 /\ "sgw" \in script.steps => Step(j) \in {Order[n] : n \in j..2}
             /\ j <= 3 /\ "es" \in script.steps => Step(j) \in {Order[n] : n \in j..3}
             /\ j <= 4 /\ "lb" \in script.steps => Step(j) \in {Order[n] : n \in j..4}
    BY <1>1
<1>3. /\ {Order[n] : n \in 1..7} = {"cbs", "sgw", "es", "lb", "ls", "ts", "write"}
      /\ {Order[n] : n \in 2..7} = {"sgw", "es", "lb", "ls", "ts", "write"}
      /\ {Order[n] : n \in 3..7} = {"es", "lb", "ls", "ts", "write"}
      /\ {Order[n] : n \in 4..7} = {"lb", "ls", "ts", "write"}
      /\ {Order[n] : n \in 5..7} = {"ls", "ts", "write"}
      /\ {Order[n] : n \in 6..7} = {"ts", "write"}
      /\ {Order[n] : n \in 7..7} = {"write"}
    BY OrderIs
<1>4. /\ \A j \in 1..2 : {Order[n] : n \in j..2} \subseteq {"cbs", "sgw"}
      /\ \A j \in 1..3 : {Order[n] : n \in j..3} \subseteq {"cbs", "sgw", "es"}
      /\ \A j \in 1..4 : {Order[n] : n \in j..4} \subseteq {"cbs", "sgw", "es", "lb"}
    BY OrderIs
<1>5. /\ \A j \in 1..2 : "sgw" \in script.steps => Step(j) \in {"cbs", "sgw"}
      /\ \A j \in 1..3 : "es" \in script.steps => Step(j) \in {"cbs", "sgw", "es"}
      /\ \A j \in 1..4 : "lb" \in script.steps => Step(j) \in {"cbs", "sgw", "es", "lb"}
    BY <1>2, <1>4
<1>6. Step(1) \in {Order[n] : n \in 1..7} /\ Step(2) \in {Order[n] : n \in 2..7}
      /\ Step(3) \in {Order[n] : n \in 3..7} /\ Step(4) \in {Order[n] : n \in 4..7}
      /\ Step(5) \in {Order[n] : n \in 5..7} /\ Step(6) \in {Order[n] : n \in 6..7}
      /\ Step(7) \in {Order[n] : n \in 7..7}
    BY <1>2
<1> QED BY <1>3, <1>5, <1>6

LEMMA AfterIs ==
    /\ After("cbs") <=> Goto(Step(2))
    /\ After("sgw") <=> Goto(Step(3))
    /\ After("es") <=> Goto(Step(4))
    /\ After("lb") <=> Goto(Step(5))
    /\ After("ls") <=> Goto(Step(6))
    /\ After("ts") <=> Goto(Step(7))
<1> DEFINE place(at) == CHOOSE n \in DOMAIN Order : Order[n] = at
<1>1. DOMAIN Order = {1, 2, 3, 4, 5, 6, 7}
    BY OrderIs
<1>2. ASSUME NEW m \in 1..7 PROVE place(Order[m]) = m
    <2>1. \A n \in DOMAIN Order : Order[n] = Order[m] => n = m
        BY <1>1, OrderIs
    <2> QED BY <2>1, OrderIs
<1>3. place("cbs") = 1 /\ place("sgw") = 2 /\ place("es") = 3 /\ place("lb") = 4
      /\ place("ls") = 5 /\ place("ts") = 6
    <2> HIDE DEF place
    <2> QED BY <1>2, OrderIs
<1>4. ASSUME NEW at PROVE After(at) <=> Goto(Step(1 + place(at)))
    BY DEF After
<1> HIDE DEF place
<1>5. 1 + place("cbs") = 2 /\ 1 + place("sgw") = 3 /\ 1 + place("es") = 4 /\ 1 + place("lb") = 5
      /\ 1 + place("ls") = 6 /\ 1 + place("ts") = 7
    BY <1>3
<1> QED BY <1>4, <1>5

(***************************************************************************)
(* Types.                                                                  *)
(***************************************************************************)
Stages == Preparing \cup Provisioning \cup Stopping \cup {"end"}

\* The same start goes on.
SameStart ==
    /\ script'.topology = script.topology /\ script'.steps = script.steps
    /\ script'.hosts = script.hosts /\ outcome' = outcome

LEMMA ScriptFields ==
    ASSUME BackendType
    PROVE  /\ script.topology \in Topologies \cup {None} /\ script.i \in Nat \ {0}
           /\ script.hosts \in HostLists /\ script.at \in Stages /\ script.steps \in Choices
           /\ \A i \in DOMAIN script.hosts.sgw :
                 script.hosts.sgw[i] \in GatewayHost /\ script.hosts.sgw[i].host[2] \in Slots
           /\ \A i \in DOMAIN script.hosts.es :
                 script.hosts.es[i] \in Hosts("es") /\ script.hosts.es[i][2] \in Slots
           /\ \A i \in DOMAIN script.hosts.lb :
                 script.hosts.lb[i] \in Balancer /\ script.hosts.lb[i].host[2] \in Slots
           /\ DOMAIN script.hosts.sgw = 1..Len(script.hosts.sgw) /\ Len(script.hosts.sgw) \in Nat
           /\ DOMAIN script.hosts.es = 1..Len(script.hosts.es) /\ Len(script.hosts.es) \in Nat
           /\ DOMAIN script.hosts.lb = 1..Len(script.hosts.lb) /\ Len(script.hosts.lb) \in Nat
<1>1. /\ script.topology \in Topologies \cup {None} /\ script.i \in Nat \ {0}
      /\ script.hosts \in HostLists /\ script.at \in Stages /\ script.steps \in Choices
    BY DEF BackendType, Scripts, Stages
<1>2. /\ script.hosts.sgw \in Seq(GatewayHost) /\ script.hosts.es \in Seq(Hosts("es"))
      /\ script.hosts.lb \in Seq(Balancer)
    BY <1>1 DEF HostLists
<1>3. \A k \in Kinds : \A a \in Hosts(k) : a[2] \in Slots
    BY DEF Hosts
<1>4. \A g \in GatewayHost : g.host[2] \in Slots
    BY <1>3 DEF GatewayHost, Kinds
<1>5. \A b \in Balancer : b.host[2] \in Slots
    BY <1>3 DEF Balancer, Kinds
<1>6. \A a \in Hosts("es") : a[2] \in Slots
    BY <1>3 DEF Kinds
<1>7. /\ DOMAIN script.hosts.sgw = 1..Len(script.hosts.sgw) /\ Len(script.hosts.sgw) \in Nat
      /\ \A i \in DOMAIN script.hosts.sgw : script.hosts.sgw[i] \in GatewayHost
    BY <1>2, ListType
<1>8. /\ DOMAIN script.hosts.es = 1..Len(script.hosts.es) /\ Len(script.hosts.es) \in Nat
      /\ \A i \in DOMAIN script.hosts.es : script.hosts.es[i] \in Hosts("es")
    BY <1>2, ListType
<1>9. /\ DOMAIN script.hosts.lb = 1..Len(script.hosts.lb) /\ Len(script.hosts.lb) \in Nat
      /\ \A i \in DOMAIN script.hosts.lb : script.hosts.lb[i] \in Balancer
    BY <1>2, ListType
<1> QED BY <1>1, <1>4, <1>5, <1>6, <1>7, <1>8, <1>9

LEMMA MoveType ==
    ASSUME BackendType, NEW at \in Stages, NEW i \in Nat \ {0},
           script' = [script EXCEPT !.at = at, !.i = i]
    PROVE  /\ script' \in Scripts /\ script'.at = at /\ script'.i = i
           /\ script'.topology = script.topology /\ script'.steps = script.steps
           /\ script'.hosts = script.hosts
BY DEF BackendType, Scripts, Stages

LEMMA StayType ==
    ASSUME BackendType, NEW at \in Stages, Stay(at)
    PROVE  script' \in Scripts /\ script'.at = at /\ script'.i = script.i /\ SameStart
BY DEF BackendType, Scripts, Stages, Stay, SameStart

LEMMA GotoType ==
    ASSUME BackendType, NEW at \in Stages, Goto(at)
    PROVE  script' \in Scripts /\ script'.at = at /\ script'.i = 1 /\ SameStart
<1>1. script' = [script EXCEPT !.at = at, !.i = 1] /\ outcome' = outcome
    BY DEF Goto
<1> DEFINE one == 1
<1>2. one \in Nat \ {0} /\ script' = [script EXCEPT !.at = at, !.i = one]
    BY <1>1
<1> HIDE DEF one
<1>3. /\ script' \in Scripts /\ script'.at = at /\ script'.i = one
      /\ script'.topology = script.topology /\ script'.steps = script.steps
      /\ script'.hosts = script.hosts
    BY <1>2, MoveType
<1> QED BY <1>1, <1>3 DEF SameStart, one

LEMMA AfterType ==
    ASSUME BackendType
    PROVE  /\ After("cbs") => script' \in Scripts /\ script'.at = Step(2) /\ script'.i = 1 /\ SameStart
           /\ After("sgw") => script' \in Scripts /\ script'.at = Step(3) /\ script'.i = 1 /\ SameStart
           /\ After("es") => script' \in Scripts /\ script'.at = Step(4) /\ script'.i = 1 /\ SameStart
           /\ After("lb") => script' \in Scripts /\ script'.at = Step(5) /\ script'.i = 1 /\ SameStart
           /\ After("ls") => script' \in Scripts /\ script'.at = Step(6) /\ script'.i = 1 /\ SameStart
           /\ After("ts") => script' \in Scripts /\ script'.at = Step(7) /\ script'.i = 1 /\ SameStart
<1>1. /\ Step(2) \in Stages /\ Step(3) \in Stages /\ Step(4) \in Stages
      /\ Step(5) \in Stages /\ Step(6) \in Stages /\ Step(7) \in Stages
    BY NextStep DEF Stages, Provisioning
<1> QED BY <1>1, AfterIs, GotoType

\* Either the next host of the step or the step after it.
LEMMA NextHostType ==
    ASSUME BackendType, NEW at \in {"cbs", "sgw", "es", "lb"}, NEW hosts, NextHost(at, hosts)
    PROVE  /\ script' \in Scripts /\ SameStart
           /\ \/ /\ script.i < Len(hosts) /\ script'.at = at /\ script'.i = script.i + 1
              \/ /\ ~(script.i < Len(hosts)) /\ script'.i = 1
                 /\ script'.at = CASE at = "cbs" -> Step(2) [] at = "sgw" -> Step(3)
                                   [] at = "es" -> Step(4) [] at = "lb" -> Step(5)
<1>1. CASE script.i < Len(hosts)
    <2>1. script' = [script EXCEPT !.i = script.i + 1, !.at = at] /\ outcome' = outcome
        BY <1>1 DEF NextHost
    <2>2. script' = [script EXCEPT !.at = at, !.i = script.i + 1]
        BY <2>1 DEF BackendType, Scripts
    <2>3. script.i + 1 \in Nat \ {0} /\ at \in Stages
        BY ScriptFields DEF Stages, Provisioning
    <2> QED BY <1>1, <2>1, <2>2, <2>3, MoveType DEF SameStart
<1>2. CASE ~(script.i < Len(hosts))
    <2>1. After(at)
        BY <1>2 DEF NextHost
    <2> QED BY <1>2, <2>1, AfterType
<1> QED BY <1>1, <1>2

LEMMA IdleType == Idle \in Scripts /\ Idle.at = "end"
BY NoHostsType DEF Idle, Scripts, Choices

LEMMA ExitType ==
    ASSUME NEW how \in Outcomes, Exit(how)
    PROVE  script' \in Scripts /\ outcome' \in Outcomes
BY IdleType DEF Exit

LEMMA FailType ==
    ASSUME Fail
    PROVE  script' \in Scripts /\ outcome' \in Outcomes
BY IdleType DEF Fail, Exit, Outcomes

LEMMA BecomeType ==
    ASSUME BackendType, NEW new \in [Kinds -> [Slots -> 0..MaxScripts]], Become(new)
    PROVE  /\ born' \in [Kinds -> [Slots -> 0..MaxScripts]]
           /\ DOMAIN node' = Slots
           /\ gateway' \in [Slots -> [package : Packages \cup {None}, server : Hosts("cbs") \cup {None},
                                      runs : [version : Packages \cup {None}, server : Hosts("cbs") \cup {None}]
                                             \cup {None}]]
           /\ edge' \in [Slots -> [OnEdge -> Nat]]
           /\ lb' \in [Slots -> Seq(Hosts("sgw")) \cup {None}]
           /\ slurp' \in BOOLEAN
<1>1. born' = new /\ DOMAIN node' = Slots /\ slurp' \in BOOLEAN
    BY DEF Become
<1>2. NewGateway \in [package : Packages \cup {None}, server : Hosts("cbs") \cup {None},
                      runs : [version : Packages \cup {None}, server : Hosts("cbs") \cup {None}] \cup {None}]
    BY DEF NewGateway
<1>3. NewEdge \in [OnEdge -> Nat]
    BY DEF NewEdge
<1>4. gateway' \in [Slots -> [package : Packages \cup {None}, server : Hosts("cbs") \cup {None},
                              runs : [version : Packages \cup {None}, server : Hosts("cbs") \cup {None}]
                                     \cup {None}]]
    BY <1>2 DEF Become, BackendType
<1>5. edge' \in [Slots -> [OnEdge -> Nat]]
    BY <1>3 DEF Become, BackendType
<1>6. lb' \in [Slots -> Seq(Hosts("sgw")) \cup {None}]
    BY DEF Become, BackendType
<1> QED BY <1>1, <1>4, <1>5, <1>6

LEMMA TypeBackendInit == BackendInit => BackendType
<1> SUFFICES ASSUME BackendInit PROVE BackendType
    OBVIOUS
<1>1. script \in Scripts
    BY IdleType DEF BackendInit
<1>2. gateway \in [Slots -> [package : Packages \cup {None}, server : Hosts("cbs") \cup {None},
                             runs : [version : Packages \cup {None}, server : Hosts("cbs") \cup {None}]
                                    \cup {None}]]
    BY DEF BackendInit, NewGateway
<1>3. edge \in [Slots -> [OnEdge -> Nat]] /\ ca \in [Kept -> Nat]
    BY DEF BackendInit, NewEdge
<1>4. born \in [Kinds -> [Slots -> 0..MaxScripts]] /\ scripts \in 0..MaxScripts
    BY BackendBounds DEF BackendInit
<1> QED BY <1>1, <1>2, <1>3, <1>4 DEF BackendInit, BackendType, Outcomes

\* The beginning of a script, and what it reads.
LEMMA TypeBegin ==
    ASSUME BackendType, ScriptInv,
           \/ \E t \in Topologies, steps \in StepSets : BeginStart(t, steps)
           \/ \E t \in Topologies, d \in Destroys : BeginStop(t, d.kinds, d.index)
    PROVE  BackendType'
<1>1. CASE \E t \in Topologies, steps \in StepSets : BeginStart(t, steps)
    <2> PICK t \in Topologies, steps \in StepSets : BeginStart(t, steps)
        BY <1>1
    <2>1. scripts' \in 0..MaxScripts
        <3>1. scripts \in 0..MaxScripts /\ scripts < MaxScripts /\ scripts' = scripts + 1
            BY DEF BeginStart, BackendType
        <3> QED BY <3>1, BackendBounds
    <2>2. script' \in Scripts /\ outcome' \in Outcomes
        <3>1. CASE Exit("no credentials")
            BY <3>1, ExitType DEF Outcomes
        <3>2. CASE /\ script' = [Idle EXCEPT !.kind = "start", !.topology = t, !.steps = steps,
                                            !.at = IF "apply" \in steps THEN "apply" ELSE "read"]
                   /\ outcome' = "none"
            <4>1. script' = [kind |-> "start", topology |-> t, steps |-> steps, index |-> 0,
                             at |-> IF "apply" \in steps THEN "apply" ELSE "read",
                             i |-> 1, hosts |-> NoHosts, failed |-> FALSE]
                BY <3>2 DEF Idle
            <4>2. outcome' = "none" /\ (IF "apply" \in steps THEN "apply" ELSE "read") \in Preparing
                BY <3>2 DEF Preparing
            <4> QED BY <4>1, <4>2, NoHostsType DEF Scripts, Choices, Outcomes
        <3> QED BY <3>1, <3>2 DEF BeginStart
    <2> QED BY <2>1, <2>2 DEF BeginStart, BackendType, remote, here
<1>2. CASE \E t \in Topologies, d \in Destroys : BeginStop(t, d.kinds, d.index)
    <2> PICK t \in Topologies, d \in Destroys : BeginStop(t, d.kinds, d.index)
        BY <1>2
    <2>1. scripts' \in 0..MaxScripts
        <3>1. scripts \in 0..MaxScripts /\ scripts < MaxScripts /\ scripts' = scripts + 1
            BY DEF BeginStop, BackendType
        <3> QED BY <3>1, BackendBounds
    <2>2. script' \in Scripts /\ outcome' \in Outcomes
        <3>1. /\ script' = [kind |-> "stop", topology |-> t, steps |-> d.kinds, index |-> d.index,
                             at |-> IF "all" \in d.kinds THEN "destroy" ELSE "stop_read",
                             i |-> 1, hosts |-> NoHosts, failed |-> FALSE]
              /\ outcome' = "none"
            BY DEF BeginStop, Idle
        <3> QED BY <3>1, NoHostsType DEF Scripts, Choices, Stopping, Outcomes
    <2> QED BY <2>1, <2>2 DEF BeginStop, BackendType, remote, here
<1> QED BY <1>1, <1>2

\* Terraform does all that it is asked for, or fails half way.
LEMMA ApplyIs ==
    ASSUME Apply
    PROVE  /\ At("apply") /\ UNCHANGED <<here, config, scripts>>
           /\ \/ ~HasResources(script.topology) /\ Goto("resolve") /\ UNCHANGED remote
              \/ Goto("read") /\ \E newer : Become(Wanted(script.topology, newer))
              \/ Fail /\ \E newer : \E done, gone : Become(Halfway(Wanted(script.topology, newer), done, gone))
BY DEF Apply

LEMMA WantedType ==
    ASSUME BackendType, NEW t, NEW newer
    PROVE  /\ Wanted(t, newer) \in [Kinds -> [Slots -> 0..MaxScripts]]
           /\ \A done, gone : Halfway(Wanted(t, newer), done, gone) \in [Kinds -> [Slots -> 0..MaxScripts]]
<1>1. 0 \in 0..MaxScripts /\ scripts \in 0..MaxScripts
    BY BackendBounds DEF BackendType
<1>2. \A k \in Kinds, s \in Slots : born[k][s] \in 0..MaxScripts
    BY DEF BackendType
<1>3. Wanted(t, newer) \in [Kinds -> [Slots -> 0..MaxScripts]]
    BY <1>1, <1>2 DEF Wanted
<1>4. ASSUME NEW new \in [Kinds -> [Slots -> 0..MaxScripts]], NEW done, NEW gone
      PROVE  Halfway(new, done, gone) \in [Kinds -> [Slots -> 0..MaxScripts]]
    BY <1>1, <1>2, <1>4 DEF Halfway
<1> QED BY <1>3, <1>4

LEMMA TypeTerraform ==
    ASSUME BackendType, ScriptInv, Apply \/ ReadOutputs \/ Resolve
    PROVE  BackendType'
<1>1. CASE Apply
    <2>1. CASE Goto("resolve") /\ UNCHANGED remote
        <3>1. script' \in Scripts /\ outcome' = outcome
            BY <2>1, GotoType DEF Stages, Provisioning, SameStart
        <3> QED BY <1>1, <2>1, <3>1, ApplyIs DEF BackendType, remote, here
    <2>2. ASSUME NEW new \in [Kinds -> [Slots -> 0..MaxScripts]], Become(new),
                 script' \in Scripts, outcome' \in Outcomes
          PROVE  BackendType'
        BY <1>1, <2>2, ApplyIs, BecomeType DEF BackendType, here
    <2>3. CASE Goto("read") /\ \E newer : Become(Wanted(script.topology, newer))
        <3>1. script' \in Scripts /\ outcome' = outcome
            BY <2>3, GotoType DEF Stages, Preparing, SameStart
        <3> QED BY <2>2, <2>3, <3>1, WantedType DEF BackendType
    <2>4. CASE Fail /\ \E newer : \E done, gone :
                   Become(Halfway(Wanted(script.topology, newer), done, gone))
        <3>1. script' \in Scripts /\ outcome' \in Outcomes
            BY <2>4, FailType
        <3> QED BY <2>2, <2>4, <3>1, WantedType
    <2> QED BY <1>1, <2>1, <2>3, <2>4, ApplyIs
<1>2. CASE ReadOutputs
    <2>1. script' \in Scripts /\ outcome' \in Outcomes
        <3>1. CASE Goto("resolve")
            BY <3>1, GotoType DEF Stages, Provisioning, SameStart, BackendType
        <3>2. CASE Fail
            BY <3>2, FailType
        <3>3. CASE /\ Readable(script.topology) /\ UNCHANGED outcome
                   /\ script' = [script EXCEPT !.at = "resolve", !.hosts = Read(script.topology)]
            <4>1. script.topology \in Topologies
                BY <1>2 DEF ScriptInv, ReadOutputs, At, Idle
            <4>2. Read(script.topology) \in HostLists
                BY <3>3, <4>1, ReadIsKnown
            <4> QED BY <3>3, <4>2 DEF BackendType, Scripts, Provisioning
        <3> QED BY <1>2, <3>1, <3>2, <3>3 DEF ReadOutputs
    <2> QED BY <1>2, <2>1 DEF ReadOutputs, BackendType, remote, here
<1>3. CASE Resolve
    <2>1. script' \in Scripts /\ outcome' \in Outcomes
        <3>1. CASE Goto(Step(1))
            <4>1. Step(1) \in Stages
                BY NextStep DEF Stages, Provisioning
            <4> QED BY <3>1, <4>1, GotoType DEF SameStart, BackendType
        <3>2. CASE Fail
            BY <3>2, FailType
        <3> QED BY <1>3, <3>1, <3>2 DEF Resolve
    <2> QED BY <1>3, <2>1 DEF Resolve, BackendType, remote, here
<1> QED BY <1>1, <1>2, <1>3

\* What a provisioning step can do with the script.
LEMMA TypeScript ==
    ASSUME BackendType,
           \/ \E at \in {"cbs", "sgw", "es", "lb", "ls", "ts"} : After(at)
           \/ \E at \in {"cbs", "sgw", "es", "lb"} : \E hosts : NextHost(at, hosts)
           \/ \E at \in {"sgw_install", "sgw_start", "es_install"} : Stay(at)
           \/ Fail
    PROVE  script' \in Scripts /\ outcome' \in Outcomes
<1>1. CASE \E at \in {"cbs", "sgw", "es", "lb", "ls", "ts"} : After(at)
    BY <1>1, AfterType DEF SameStart, BackendType
<1>2. CASE \E at \in {"cbs", "sgw", "es", "lb"} : \E hosts : NextHost(at, hosts)
    BY <1>2, NextHostType DEF SameStart, BackendType
<1>3. CASE \E at \in {"sgw_install", "sgw_start", "es_install"} : Stay(at)
    BY <1>3, StayType DEF SameStart, BackendType, Stages, Provisioning
<1>4. CASE Fail
    BY <1>4, FailType
<1> QED BY <1>1, <1>2, <1>3, <1>4

\* The gateway of the script, and its place.
LEMMA GatewayType ==
    ASSUME BackendType, ScriptInv, script.at \in {"sgw_install", "sgw_start"}
    PROVE  /\ Gateway \in GatewayHost /\ Gateway.host[2] \in Slots
           /\ Gateway.version \in Packages /\ Gateway.server \in Hosts("cbs")
           /\ script.i \in DOMAIN script.hosts.sgw
<1>1. script.i \in DOMAIN script.hosts.sgw
    BY DEF ScriptInv
<1> QED BY <1>1, ScriptFields DEF Gateway, GatewayHost

LEMMA TypeServer ==
    ASSUME BackendType, ScriptInv,
           ProvisionNode \/ ProvisionLogSlurp \/ RunTestServers \/ ProvisionBalancer \/ \E s \in Slots : ConfigureNode(s)
    PROVE  BackendType'
<1>1. CASE ProvisionNode
    <2>1. script' \in Scripts /\ outcome' \in Outcomes
        BY <1>1, TypeScript DEF ProvisionNode
    <2>2. DOMAIN node' = Slots
        BY <1>1 DEF ProvisionNode, BackendType
    <2> QED BY <1>1, <2>1, <2>2 DEF ProvisionNode, BackendType, here
<1>2. CASE ProvisionLogSlurp
    <2>1. script' \in Scripts /\ outcome' \in Outcomes
        BY <1>2, TypeScript DEF ProvisionLogSlurp
    <2> QED BY <1>2, <2>1 DEF ProvisionLogSlurp, BackendType, here
<1>3. CASE RunTestServers
    <2>1. script' \in Scripts /\ outcome' \in Outcomes
        BY <1>3, TypeScript DEF RunTestServers
    <2> QED BY <1>3, <2>1 DEF RunTestServers, BackendType, remote, here
<1>4. CASE ProvisionBalancer
    <2>1. script' \in Scripts /\ outcome' \in Outcomes
        BY <1>4, TypeScript DEF ProvisionBalancer
    <2>2. lb' \in [Slots -> Seq(Hosts("sgw")) \cup {None}]
        <3>1. CASE UNCHANGED lb
            BY <3>1 DEF BackendType
        <3>2. CASE script.hosts.lb # <<>>
            <4>1. script.i \in DOMAIN script.hosts.lb
                BY <1>4, <3>2 DEF ScriptInv, ProvisionBalancer, At
            <4>2. script.hosts.lb[script.i].upstreams \in Seq(Hosts("sgw"))
                BY <4>1, ScriptFields DEF Balancer
            <4> QED BY <1>4, <3>2, <4>2 DEF ProvisionBalancer, BackendType
        <3> QED BY <1>4, <3>1, <3>2 DEF ProvisionBalancer
    <2> QED BY <1>4, <2>1, <2>2 DEF ProvisionBalancer, BackendType, here
<1>5. CASE \E s \in Slots : ConfigureNode(s)
    BY <1>5 DEF ConfigureNode, BackendType, here
<1> QED BY <1>1, <1>2, <1>3, <1>4, <1>5

LEMMA GatewayUpdate ==
    ASSUME BackendType, NEW s \in Slots
    PROVE  LET allRuns == [version : Packages \cup {None}, server : Hosts("cbs") \cup {None}] \cup {None}
               all == [Slots -> [package : Packages \cup {None}, server : Hosts("cbs") \cup {None}, runs : allRuns]]
           IN  /\ gateway \in all
               /\ \A package \in Packages \cup {None}, server \in Hosts("cbs") :
                     [gateway EXCEPT ![s] = [[gateway[s] EXCEPT !.server = server] EXCEPT !.package = package]]
                         \in all
               /\ \A runs \in allRuns : [gateway EXCEPT ![s].runs = runs] \in all
<1> DEFINE allRuns == [version : Packages \cup {None}, server : Hosts("cbs") \cup {None}] \cup {None}
           one == [package : Packages \cup {None}, server : Hosts("cbs") \cup {None}, runs : allRuns]
<1>1. gateway \in [Slots -> one] /\ gateway[s] \in one
    BY DEF BackendType
<1> HIDE DEF allRuns
<1>2. ASSUME NEW package \in Packages \cup {None}, NEW server \in Hosts("cbs")
      PROVE  [[gateway[s] EXCEPT !.server = server] EXCEPT !.package = package] \in one
    BY <1>1
<1>3. ASSUME NEW runs \in allRuns PROVE [gateway[s] EXCEPT !.runs = runs] \in one
    BY <1>1
<1> HIDE DEF one
<1>4. \A new \in one : [gateway EXCEPT ![s] = new] \in [Slots -> one]
    BY <1>1
<1>5. \A runs \in allRuns : [gateway EXCEPT ![s].runs = runs] \in [Slots -> one]
    BY <1>1, <1>3
<1> QED BY <1>1, <1>2, <1>4, <1>5 DEF one, allRuns

LEMMA TypeGateway ==
    ASSUME BackendType, ScriptInv, DownloadGateway \/ InstallGateway \/ StartGateway
    PROVE  BackendType'
<1>1. CASE DownloadGateway
    <2>1. script' \in Scripts /\ outcome' \in Outcomes
        BY <1>1, TypeScript DEF DownloadGateway, Download
    <2>2. local' \in [Packages -> {"none", "partial", "whole"}]
        BY <1>1 DEF DownloadGateway, Download, BackendType, here
    <2> QED BY <1>1, <2>1, <2>2 DEF DownloadGateway, Download, BackendType, remote, here
<1>2. CASE InstallGateway
    <2> DEFINE s == Gateway.host[2]
    <2>1. script' \in Scripts /\ outcome' \in Outcomes
        BY <1>2, TypeScript DEF InstallGateway
    <2>2. s \in Slots /\ Gateway.version \in Packages /\ Gateway.server \in Hosts("cbs")
        BY <1>2, GatewayType DEF InstallGateway, At
    <2>3. \E package \in Packages \cup {None} :
             \/ gateway' = [gateway EXCEPT ![s] = [[gateway[s] EXCEPT !.server = Gateway.server] EXCEPT !.package = package]]
             \/ gateway' = gateway
        BY <1>2, <2>2 DEF InstallGateway, WithConfig, BackendType
    <2> HIDE DEF s
    <2>4. gateway' \in [Slots -> [package : Packages \cup {None}, server : Hosts("cbs") \cup {None},
                                  runs : [version : Packages \cup {None}, server : Hosts("cbs") \cup {None}]
                                         \cup {None}]]
        <3> PICK package \in Packages \cup {None} :
               \/ gateway' = [gateway EXCEPT ![s] = [[gateway[s] EXCEPT !.server = Gateway.server]
                                                        EXCEPT !.package = package]]
               \/ gateway' = gateway
            BY <2>3
        <3> DEFINE server == Gateway.server
                   all == [Slots -> [package : Packages \cup {None}, server : Hosts("cbs") \cup {None},
                           runs : [version : Packages \cup {None}, server : Hosts("cbs") \cup {None}] \cup {None}]]
        <3>1. server \in Hosts("cbs")
            BY <2>2
        <3> HIDE DEF server
        <3>2. /\ gateway \in all
              /\ [gateway EXCEPT ![s] = [[gateway[s] EXCEPT !.server = server] EXCEPT !.package = package]] \in all
            BY <2>2, <3>1, GatewayUpdate
        <3> QED BY <3>2 DEF server
    <2> QED BY <1>2, <2>1, <2>4 DEF InstallGateway, BackendType, here
<1>3. CASE StartGateway
    <2> DEFINE s == Gateway.host[2]
               allRuns == [version : Packages \cup {None}, server : Hosts("cbs") \cup {None}] \cup {None}
    <2>1. script' \in Scripts /\ outcome' \in Outcomes
        BY <1>3, TypeScript DEF StartGateway
    <2>2. s \in Slots
        BY <1>3, GatewayType DEF StartGateway, At
    <2>3. \E runs \in allRuns : gateway' = [gateway EXCEPT ![s].runs = runs]
        BY <1>3, <2>2 DEF StartGateway, BackendType
    <2> HIDE DEF s
    <2>4. gateway' \in [Slots -> [package : Packages \cup {None}, server : Hosts("cbs") \cup {None},
                                  runs : allRuns]]
        <3> PICK runs \in allRuns : gateway' = [gateway EXCEPT ![s].runs = runs]
            BY <2>3
        <3>1. [gateway EXCEPT ![s].runs = runs]
                  \in [Slots -> [package : Packages \cup {None}, server : Hosts("cbs") \cup {None}, runs : allRuns]]
            BY <2>2, GatewayUpdate
        <3> QED BY <3>1
    <2> QED BY <1>3, <2>1, <2>4 DEF StartGateway, BackendType, here
<1> QED BY <1>1, <1>2, <1>3

LEMMA TypeEdge ==
    ASSUME BackendType, ScriptInv, DownloadEdge \/ InstallEdge
    PROVE  BackendType'
<1>1. CASE DownloadEdge
    <2>1. script' \in Scripts /\ outcome' \in Outcomes
        BY <1>1, TypeScript DEF DownloadEdge, Download
    <2>2. local' \in [Packages -> {"none", "partial", "whole"}]
        BY <1>1 DEF DownloadEdge, Download, BackendType, here
    <2> QED BY <1>1, <2>1, <2>2 DEF DownloadEdge, Download, BackendType, remote, here
<1>2. CASE InstallEdge
    <2> DEFINE s == Edge[2]
    <2>1. script' \in Scripts /\ outcome' \in Outcomes
        BY <1>2, TypeScript DEF InstallEdge
    <2>2. PICK j \in 0..5 : ca' = Written(ca, j) /\ edge' = [edge EXCEPT ![s] = Written(edge[s], j)]
        BY <1>2 DEF InstallEdge
    <2>3. s \in Slots
        <3>1. script.i \in DOMAIN script.hosts.es
            BY <1>2 DEF InstallEdge, At, ScriptInv
        <3> QED BY <3>1, ScriptFields DEF Edge
    <2> HIDE DEF s
    <2>4. /\ \A certs \in [Kept -> Nat] : Written(certs, j) \in [Kept -> Nat]
          /\ \A certs \in [OnEdge -> Nat] : Written(certs, j) \in [OnEdge -> Nat]
        BY DEF Written, BackendType
    <2>5. ca' \in [Kept -> Nat] /\ edge' \in [Slots -> [OnEdge -> Nat]]
        BY <2>2, <2>3, <2>4 DEF BackendType
    <2>6. cas' \in Nat
        BY <1>2 DEF InstallEdge, BackendType
    <2> QED BY <1>2, <2>1, <2>5, <2>6 DEF InstallEdge, BackendType
<1> QED BY <1>1, <1>2

LEMMA TypeStops ==
    ASSUME BackendType, ScriptInv, WriteConfig \/ StopReads \/ Destroy \/ StopTestServers
    PROVE  BackendType'
<1>1. CASE WriteConfig
    <2>1. script' \in Scripts /\ outcome' \in Outcomes
        BY <1>1, ExitType, FailType DEF WriteConfig, Outcomes
    <2>2. config' \in Configs \cup {None}
        <3>1. script.topology \in Topologies
            BY <1>1 DEF ScriptInv, WriteConfig, At, Idle
        <3>2. [topology |-> script.topology, steps |-> script.steps, hosts |-> script.hosts] \in Configs
            BY <3>1, ScriptFields DEF Configs
        <3> QED BY <1>1, <3>2 DEF WriteConfig, BackendType
    <2> QED BY <1>1, <2>1, <2>2 DEF WriteConfig, BackendType, remote, here
<1>2. CASE StopReads
    <2>1. script' \in Scripts /\ outcome' \in Outcomes
        <3>1. CASE Goto("destroy")
            BY <3>1, GotoType DEF Stages, Stopping, SameStart, BackendType
        <3>2. CASE Fail
            BY <3>2, FailType
        <3> QED BY <1>2, <3>1, <3>2 DEF StopReads
    <2> QED BY <1>2, <2>1 DEF StopReads, BackendType, remote, here
<1>3. CASE Destroy
    <2> DEFINE targets == {x \in Kinds \X Slots : Targeted(x[1], x[2])}
    <2>1. PICK left \in SUBSET {x \in targets : born[x[1]][x[2]] # 0}, failed \in BOOLEAN :
            /\ Become([k \in Kinds |-> [s \in Slots |-> IF <<k, s>> \in targets \ left THEN 0 ELSE born[k][s]]])
            /\ script' = [script EXCEPT !.at = "stop_ts", !.failed = failed]
        BY <1>3 DEF Destroy
    <2> HIDE DEF targets
    <2>2. [k \in Kinds |-> [s \in Slots |-> IF <<k, s>> \in targets \ left THEN 0 ELSE born[k][s]]]
              \in [Kinds -> [Slots -> 0..MaxScripts]]
        BY BackendBounds DEF BackendType
    <2>3. script' \in Scripts
        BY <2>1 DEF BackendType, Scripts, Stopping
    <2> QED BY <1>3, <2>1, <2>2, <2>3, BecomeType DEF Destroy, BackendType, here
<1>4. CASE StopTestServers
    <2>1. script' \in Scripts /\ outcome' \in Outcomes
        BY <1>4, ExitType, FailType DEF StopTestServers, Outcomes
    <2> QED BY <1>4, <2>1 DEF StopTestServers, BackendType, remote, here
<1> QED BY <1>1, <1>2, <1>3, <1>4

LEMMA TypeBackendStep == BackendType /\ ScriptInv /\ [BackendNext]_backendVars => BackendType'
<1> SUFFICES ASSUME BackendType, ScriptInv, [BackendNext]_backendVars PROVE BackendType'
    OBVIOUS
<1>1. CASE UNCHANGED backendVars
    BY <1>1 DEF BackendType, backendVars, remote, here
<1> QED BY <1>1, TypeBegin, TypeTerraform, TypeServer, TypeGateway, TypeEdge, TypeStops DEF BackendNext

(***************************************************************************)
(* The rest of the invariant: steps that end a script or prepare it.       *)
(***************************************************************************)
Rest == ScriptInv /\ HostsInv /\ GatewayInv /\ BalancerInv /\ EdgeInv /\ ConfigInv

LEMMA EndsInv ==
    ASSUME script' = Idle, outcome' # "started"
    PROVE  Rest'
<1>1. script'.at = "end"
    BY IdleType
<1> QED BY <1>1 DEF Rest, ScriptInv, HostsInv, GatewayInv, BalancerInv, EdgeInv, ConfigInv, Provisioning, Preparing

LEMMA FailInv ==
    ASSUME Fail
    PROVE  Rest'
BY EndsInv DEF Fail, Exit

\* A script that has not read its hosts yet, or only stops things.
LEMMA EarlyInv ==
    ASSUME script'.at \in Preparing \cup Stopping, script'.topology \in Topologies, scripts' > 0,
           outcome' # "started", script'.at \in Preparing => script'.hosts = NoHosts,
           script'.at = "read" /\ "apply" \in script'.steps => Applied(script.topology)'
    PROVE  Rest'
<1>1. script' # Idle /\ script'.at # "end"
    BY IdleType DEF Preparing, Stopping
<1> QED BY <1>1 DEF Rest, ScriptInv, HostsInv, GatewayInv, BalancerInv, EdgeInv, ConfigInv,
                    Provisioning, Preparing, Stopping

LEMMA Going ==
    ASSUME BackendType, ScriptInv, script.at # "end"
    PROVE  script # Idle /\ script.topology \in Topologies /\ scripts > 0 /\ outcome # "started"
BY DEF ScriptInv

LEMMA RestInit == BackendInit => Rest
<1> SUFFICES ASSUME BackendInit PROVE Rest
    OBVIOUS
<1>1. script = Idle /\ script.at = "end" /\ outcome = "none"
    BY IdleType DEF BackendInit
<1> QED BY <1>1 DEF Rest, ScriptInv, HostsInv, GatewayInv, BalancerInv, EdgeInv, ConfigInv, Provisioning, Preparing

LEMMA BeginInv ==
    ASSUME BackendType, Rest,
           \/ \E t \in Topologies, steps \in StepSets : BeginStart(t, steps)
           \/ \E t \in Topologies, d \in Destroys : BeginStop(t, d.kinds, d.index)
    PROVE  Rest'
<1>1. CASE \E t \in Topologies, steps \in StepSets : BeginStart(t, steps)
    <2> PICK t \in Topologies, steps \in StepSets : BeginStart(t, steps)
        BY <1>1
    <2>1. CASE Exit("no credentials")
        BY <2>1, EndsInv DEF Exit
    <2>2. CASE /\ script' = [Idle EXCEPT !.kind = "start", !.topology = t, !.steps = steps,
                                        !.at = IF "apply" \in steps THEN "apply" ELSE "read"]
               /\ outcome' = "none"
        <3>1. script'.topology = t /\ script'.steps = steps /\ script'.hosts = NoHosts
              /\ script'.at = IF "apply" \in steps THEN "apply" ELSE "read"
            BY <2>2 DEF Idle
        <3>2. scripts' > 0
            <4>1. scripts \in 0..MaxScripts /\ scripts' = scripts + 1
                BY DEF BeginStart, BackendType
            <4> QED BY <4>1, BackendBounds
        <3>3. script'.at \in Preparing /\ (script'.at = "read" => "apply" \notin script'.steps)
            BY <3>1 DEF Preparing
        <3> QED BY <2>2, <3>1, <3>2, <3>3, EarlyInv
    <2> QED BY <2>1, <2>2 DEF BeginStart
<1>2. CASE \E t \in Topologies, d \in Destroys : BeginStop(t, d.kinds, d.index)
    <2> PICK t \in Topologies, d \in Destroys : BeginStop(t, d.kinds, d.index)
        BY <1>2
    <2>1. script'.topology = t /\ script'.at \in Stopping /\ outcome' = "none"
        BY DEF BeginStop, Idle, Stopping
    <2>2. scripts' > 0
        <3>1. scripts \in 0..MaxScripts /\ scripts' = scripts + 1
            BY DEF BeginStop, BackendType
        <3> QED BY <3>1, BackendBounds
    <2> QED BY <2>1, <2>2, EarlyInv DEF Stopping, Preparing
<1> QED BY <1>1, <1>2

\* Terraform leaves the instances of the topology.
LEMMA ApplyMakesThem ==
    ASSUME BackendType, Rest, At("apply"), NEW newer, Become(Wanted(script.topology, newer))
    PROVE  \A k \in Kinds, s \in Slots : born'[k][s] # 0 <=> s <= Count(script.topology, k)
<1>1. script.topology \in Topologies /\ scripts > 0 /\ scripts \in Nat
    BY Going DEF At, Rest, BackendType
<1>2. ASSUME NEW k \in Kinds, NEW s \in Slots PROVE born'[k][s] # 0 <=> s <= Count(script.topology, k)
    <2>1. born'[k][s] = IF s > Count(script.topology, k) THEN 0
                        ELSE IF born[k][s] # 0 /\ Image(k) \notin newer THEN born[k][s] ELSE scripts
        BY DEF Become, Wanted
    <2>2. Count(script.topology, k) \in Nat /\ s \in Nat
        BY <1>1, CountType, BackendBounds DEF Slots
    <2> QED BY <1>1, <2>1, <2>2
<1> QED BY <1>2

LEMMA StopInv ==
    ASSUME BackendType, Rest, StopReads \/ Destroy \/ StopTestServers
    PROVE  Rest'
<1>1. CASE StopReads
    <2>1. CASE Fail
        BY <2>1, FailInv
    <2>2. CASE Goto("destroy")
        <3>1. script.topology \in Topologies /\ scripts > 0 /\ outcome # "started"
            BY <1>1, Going DEF StopReads, At, Rest
        <3>2. script'.at = "destroy" /\ script'.topology = script.topology /\ outcome' = outcome
            BY <2>2, GotoType DEF Stages, Stopping, SameStart
        <3> QED BY <1>1, <3>1, <3>2, EarlyInv DEF Stopping, Preparing, StopReads
    <2> QED BY <1>1, <2>1, <2>2 DEF StopReads
<1>2. CASE Destroy
    <2>1. script.topology \in Topologies /\ scripts > 0 /\ outcome # "started"
        BY <1>2, Going DEF Destroy, At, Rest
    <2>2. script'.at = "stop_ts" /\ script'.topology = script.topology /\ outcome' = outcome /\ scripts' = scripts
        BY <1>2 DEF Destroy, BackendType, Scripts
    <2> QED BY <2>1, <2>2, EarlyInv DEF Stopping, Preparing
<1>3. CASE StopTestServers
    BY <1>3, EndsInv DEF StopTestServers, Fail, Exit
<1> QED BY <1>1, <1>2, <1>3

(***************************************************************************)
(* Steps that read the hosts.                                              *)
(***************************************************************************)
LEMMA ResolveInv ==
    ASSUME script'.at = "resolve", script'.topology \in Topologies, scripts' > 0, outcome' # "started",
           Known(script.topology, script.hosts)',
           "apply" \in script'.steps => Named(script.topology, script.hosts)'
    PROVE  Rest'
<1>1. script' # Idle
    BY IdleType
<1> QED BY <1>1 DEF Rest, ScriptInv, HostsInv, GatewayInv, BalancerInv, EdgeInv, ConfigInv, Provisioning, Preparing

LEMMA NoHostsInv ==
    ASSUME script'.at = "resolve", NEW t \in Topologies, ~HasResources(t), script'.topology = t,
           script'.hosts = NoHosts, scripts' > 0, outcome' # "started"
    PROVE  Rest'
<1>1. DOMAIN t.clusters = {} /\ Len(t.sgw) = 0 /\ t.es = 0 /\ Len(t.lb) = 0 /\ ~t.ls
    BY NoResources
<1>2. Known(script.topology, script.hosts)'
    BY DEF Known, NoHosts
<1>3. Named(script.topology, script.hosts)'
    BY <1>1 DEF Named, NoHosts
<1> QED BY <1>2, <1>3, ResolveInv

LEMMA ApplyInv ==
    ASSUME BackendType, Rest, Apply
    PROVE  Rest'
<1> DEFINE t == script.topology
<1>1. /\ t \in Topologies /\ scripts > 0 /\ outcome # "started" /\ scripts' = scripts
      /\ At("apply") /\ script.at = "apply" /\ script.hosts = NoHosts
    BY ApplyIs, Going DEF At, Rest, ScriptInv, Preparing
<1>2. CASE Goto("resolve") /\ ~HasResources(t)
    <2>1. script'.at = "resolve" /\ SameStart
        BY <1>2, GotoType DEF Stages, Provisioning
    <2> QED BY <1>1, <1>2, <2>1, NoHostsInv DEF SameStart
<1>3. CASE Goto("read") /\ \E newer : Become(Wanted(script.topology, newer))
    <2>1. script'.at = "read" /\ SameStart
        BY <1>3, GotoType DEF Stages, Preparing
    <2>2. Applied(script.topology)'
        BY <1>1, <1>3, <2>1, ApplyMakesThem DEF Applied, SameStart
    <2> QED BY <1>1, <2>1, <2>2, EarlyInv DEF SameStart, Preparing
<1>4. CASE Fail
    BY <1>4, FailInv
<1> QED BY <1>2, <1>3, <1>4, ApplyIs

LEMMA ReadInv ==
    ASSUME BackendType, Rest, ReadOutputs
    PROVE  Rest'
<1> DEFINE t == script.topology
<1>1. /\ t \in Topologies /\ scripts > 0 /\ outcome # "started" /\ scripts' = scripts
      /\ script.at = "read" /\ script.hosts = NoHosts
    BY Going DEF ReadOutputs, At, Rest, ScriptInv, Preparing
<1>2. CASE Goto("resolve") /\ ~HasResources(t)
    <2>1. script'.at = "resolve" /\ SameStart
        BY <1>2, GotoType DEF Stages, Provisioning
    <2> QED BY <1>1, <1>2, <2>1, NoHostsInv DEF SameStart
<1>3. CASE /\ Readable(t) /\ UNCHANGED outcome
           /\ script' = [script EXCEPT !.at = "resolve", !.hosts = Read(t)]
    <2>1. /\ script'.at = "resolve" /\ script'.topology = t /\ script'.steps = script.steps
          /\ script'.hosts = Read(t)
        BY <1>3 DEF BackendType, Scripts
    <2>2. Known(t, Read(t))
        BY <1>1, <1>3, ReadIsKnown
    <2>3. "apply" \in script.steps => Named(t, Read(t))
        BY <1>1, <1>3, ReadIsNamed DEF Rest, HostsInv
    <2>4. born' = born
        BY DEF ReadOutputs, remote
    <2>5. Known(script.topology, script.hosts)'
        <3> DEFINE h == Read(t)
        <3> HIDE DEF h
        <3>1. Known(t, h) /\ script'.hosts = h
            BY <2>1, <2>2 DEF h
        <3> QED BY <2>1, <2>4, <3>1 DEF Known, Alive
    <2>6. "apply" \in script.steps => Named(script.topology, script.hosts)'
        <3> DEFINE h == Read(t)
        <3> HIDE DEF h
        <3>1. ("apply" \in script.steps => Named(t, h)) /\ script'.hosts = h
            BY <2>1, <2>3 DEF h
        <3> QED BY <2>1, <2>4, <3>1 DEF Named, Alive
    <2> QED BY <1>1, <1>3, <2>1, <2>5, <2>6, ResolveInv
<1>4. CASE Fail
    BY <1>4, FailInv
<1> QED BY <1>2, <1>3, <1>4 DEF ReadOutputs

(***************************************************************************)
(* Steps that provision the hosts.                                         *)
(***************************************************************************)
\* Hosts stay known while their instances stay.
LEMMA KnownScript ==
    ASSUME NEW t, NEW h, Known(t, h), script'.topology = t, script'.hosts = h, UNCHANGED born
    PROVE  Known(script.topology, script.hosts)'
<1>1. /\ \A i \in DOMAIN h.sgw :
            /\ Alive(h.sgw[i].host)' /\ Alive(h.sgw[i].server)'
            /\ h.sgw[i].server = h.cbs[h.sgw[i].cluster][1]
      /\ \A i, j \in DOMAIN h.sgw : h.sgw[i].host[2] = h.sgw[j].host[2] => i = j
      /\ \A i, j \in DOMAIN h.lb : h.lb[i].host[2] = h.lb[j].host[2] => i = j
      /\ \A i \in DOMAIN h.lb :
            h.lb[i].upstreams = [j \in DOMAIN t.lb[i] |-> h.sgw[t.lb[i][j]].host]
    BY DEF Known, Alive
<1> QED BY <1>1 DEF Known

LEMMA KnownConfig ==
    ASSUME NEW t, NEW h, Known(t, h), config'.topology = t, config'.hosts = h, UNCHANGED born
    PROVE  Known(config.topology, config.hosts)'
<1>1. /\ \A i \in DOMAIN h.sgw :
            /\ Alive(h.sgw[i].host)' /\ Alive(h.sgw[i].server)'
            /\ h.sgw[i].server = h.cbs[h.sgw[i].cluster][1]
      /\ \A i, j \in DOMAIN h.sgw : h.sgw[i].host[2] = h.sgw[j].host[2] => i = j
      /\ \A i, j \in DOMAIN h.lb : h.lb[i].host[2] = h.lb[j].host[2] => i = j
      /\ \A i \in DOMAIN h.lb :
            h.lb[i].upstreams = [j \in DOMAIN t.lb[i] |-> h.sgw[t.lb[i][j]].host]
    BY DEF Known, Alive
<1> QED BY <1>1 DEF Known

LEMMA NamedScript ==
    ASSUME NEW t, NEW h, Named(t, h), script'.topology = t, script'.hosts = h, UNCHANGED born
    PROVE  Named(script.topology, script.hosts)'
BY DEF Named, Alive

LEMMA NamedConfig ==
    ASSUME NEW t, NEW h, Named(t, h), config'.topology = t, config'.hosts = h, UNCHANGED born
    PROVE  Named(config.topology, config.hosts)'
BY DEF Named, Alive

LEMMA HostsKept ==
    ASSUME HostsInv, script.at \in Provisioning, script'.at \in Provisioning, SameStart, UNCHANGED born
    PROVE  HostsInv'
<1>1. Known(script.topology, script.hosts)'
    BY KnownScript DEF HostsInv, SameStart
<1>2. "apply" \in script'.steps => Named(script.topology, script.hosts)'
    BY NamedScript DEF HostsInv, SameStart
<1> QED BY <1>1, <1>2 DEF HostsInv, Provisioning

\* The script goes on at a host of its topology, or has none for the step.
LEMMA ScriptKept ==
    ASSUME BackendType, ScriptInv, script.at \in Provisioning, script'.at \in Provisioning, SameStart,
           UNCHANGED scripts,
           script'.at \in {"sgw", "sgw_install", "sgw_start"} =>
              script'.i \in DOMAIN script.hosts.sgw \/ (script'.at = "sgw" /\ script.hosts.sgw = <<>>),
           script'.at \in {"es", "es_install"} =>
              script'.i \in DOMAIN script.hosts.es \/ (script'.at = "es" /\ script.hosts.es = <<>>),
           script'.at = "lb" => script'.i \in DOMAIN script.hosts.lb \/ script.hosts.lb = <<>>
    PROVE  ScriptInv'
<1>1. script.at # "end" /\ script'.at # "end" /\ script'.at \notin Preparing
    BY DEF Provisioning, Preparing
<1>2. /\ script.topology \in Topologies /\ scripts > 0 /\ outcome # "started"
    BY <1>1, Going
<1>3. script' # Idle
    BY <1>1, IdleType
<1> QED BY <1>1, <1>2, <1>3 DEF ScriptInv, SameStart

LEMMA FirstHost ==
    ASSUME BackendType
    PROVE  /\ 1 \in DOMAIN script.hosts.sgw \/ script.hosts.sgw = <<>>
           /\ 1 \in DOMAIN script.hosts.es \/ script.hosts.es = <<>>
           /\ 1 \in DOMAIN script.hosts.lb \/ script.hosts.lb = <<>>
<1>1. /\ script.hosts.sgw \in Seq(GatewayHost) /\ script.hosts.es \in Seq(Hosts("es"))
      /\ script.hosts.lb \in Seq(Balancer)
    BY ScriptFields DEF HostLists
<1>2. \A S : \A q \in Seq(S) : 1 \in DOMAIN q \/ q = <<>>
    OBVIOUS
<1> QED BY <1>1, <1>2

\* The first host of the next step: what the steps that were taken promise holds.
LEMMA AdvanceInv ==
    ASSUME BackendType, Rest, script.at \in Provisioning, SameStart, UNCHANGED <<born, scripts>>,
           script'.i = 1, script'.at \in {"cbs", "sgw", "es", "lb", "ls", "ts", "write"},
           script'.at \in {"es", "lb", "ls", "ts", "write"} /\ "sgw" \in script.steps =>
              Reach(script.hosts, Len(script.hosts.sgw))',
           script'.at \in {"ls", "ts", "write"} /\ "lb" \in script.steps =>
              Balanced(script.hosts, Len(script.hosts.lb))',
           script'.at \in {"lb", "ls", "ts", "write"} /\ "es" \in script.steps => Trusted(script.hosts)'
    PROVE  Rest'
<1>1. script'.at \in Provisioning /\ script'.at \notin {"sgw_install", "sgw_start", "es_install", "end"}
    BY DEF Provisioning
<1>2. HostsInv'
    BY <1>1, HostsKept DEF Rest
<1>3. ScriptInv'
    BY <1>1, ScriptKept, FirstHost DEF Rest
<1>4. ConfigInv'
    <2>1. outcome # "started"
        BY Going DEF Rest, Provisioning
    <2> QED BY <2>1 DEF ConfigInv, SameStart
<1>5. GatewayInv'
    <2>1. Reach(script.hosts, script.i - 1)'
        BY ScriptFields DEF Reach, SameStart
    <2> QED BY <1>1, <2>1 DEF GatewayInv, SameStart
<1>6. BalancerInv'
    <2>1. Balanced(script.hosts, script.i - 1)'
        BY ScriptFields DEF Balanced, SameStart
    <2> QED BY <1>1, <2>1 DEF BalancerInv, SameStart
<1>7. EdgeInv'
    BY <1>1 DEF EdgeInv, SameStart
<1> QED BY <1>2, <1>3, <1>4, <1>5, <1>6, <1>7 DEF Rest

\* What the hosts run stays while other hosts are provisioned.
LEMMA AllReachKept ==
    ASSUME BackendType, SameStart, UNCHANGED <<born, gateway, node>>,
           Reach(script.hosts, Len(script.hosts.sgw))
    PROVE  Reach(script.hosts, Len(script.hosts.sgw))'
BY DEF Reach, SameStart, Configured, Alive

LEMMA BalancedKept ==
    ASSUME SameStart, UNCHANGED lb, Balanced(script.hosts, Len(script.hosts.lb))
    PROVE  Balanced(script.hosts, Len(script.hosts.lb))'
BY DEF Balanced, SameStart

LEMMA TrustedKept ==
    ASSUME SameStart, UNCHANGED <<edge, ca>>, Trusted(script.hosts)
    PROVE  Trusted(script.hosts)'
BY DEF Trusted, SameStart

LEMMA FirstStepInv ==
    ASSUME BackendType, Rest, Resolve
    PROVE  Rest'
<1>1. script.at \in Provisioning /\ UNCHANGED <<born, scripts>>
    BY DEF Resolve, At, Provisioning, remote
<1>2. CASE Fail
    BY <1>2, FailInv
<1>3. CASE Goto(Step(1))
    <2>1. Step(1) \in Stages
        BY NextStep DEF Stages, Provisioning
    <2>2. script'.at = Step(1) /\ script'.i = 1 /\ SameStart
        BY <1>3, <2>1, GotoType
    <2> QED BY <1>1, <2>2, NextStep, AdvanceInv
<1> QED BY <1>2, <1>3 DEF Resolve

LEMMA NodeInv ==
    ASSUME BackendType, Rest, ProvisionNode
    PROVE  Rest'
<1> DEFINE all == Nodes(script.hosts.cbs)
<1>1. script.at = "cbs" /\ script.at \in Provisioning /\ UNCHANGED <<born, scripts>>
    BY DEF ProvisionNode, At, Provisioning
<1>2. CASE Fail
    BY <1>2, FailInv
<1>3. CASE After("cbs")
    BY <1>1, <1>3, AfterType, NextStep, AdvanceInv
<1>4. CASE NextHost("cbs", all)
    <2>1. /\ SameStart
          /\ \/ script'.at = "cbs"
             \/ script'.at = Step(2) /\ script'.i = 1
        BY <1>4, NextHostType
    <2>2. CASE script'.at = "cbs"
        <3>1. ScriptInv' /\ HostsInv'
            BY <1>1, <2>1, <2>2, ScriptKept, HostsKept DEF Rest
        <3>2. outcome' # "started"
            BY <1>1, <2>1, Going DEF Rest, SameStart
        <3> QED BY <2>2, <3>1, <3>2 DEF Rest, GatewayInv, BalancerInv, EdgeInv, ConfigInv
    <2>3. CASE script'.at = Step(2) /\ script'.i = 1
        BY <1>1, <2>1, <2>3, NextStep, AdvanceInv
    <2> QED BY <2>1, <2>2, <2>3
<1> QED BY <1>2, <1>3, <1>4 DEF ProvisionNode

\* The script stays at its host.
LEMMA StayInv ==
    ASSUME BackendType, Rest, script.at \in Provisioning, SameStart, UNCHANGED <<born, scripts>>,
           script'.i = script.i,
           \/ script.at \in {"sgw", "sgw_install"} /\ script'.at \in {"sgw_install", "sgw_start"}
              /\ script.hosts.sgw # <<>>
           \/ script.at = "es" /\ script'.at = "es_install" /\ script.hosts.es # <<>>,
           GatewayInv'
    PROVE  Rest'
<1>1. script'.at \in Provisioning /\ script'.at \in {"sgw_install", "sgw_start", "es_install"}
    BY DEF Provisioning
<1>2. HostsInv'
    BY <1>1, HostsKept DEF Rest
<1>3. /\ script'.at \in {"sgw_install", "sgw_start"} => script.i \in DOMAIN script.hosts.sgw
      /\ script'.at = "es_install" => script.i \in DOMAIN script.hosts.es
    BY DEF Rest, ScriptInv
<1>4. ScriptInv'
    BY <1>1, <1>3, ScriptKept DEF Rest
<1>5. outcome' # "started"
    BY Going DEF Rest, Provisioning, SameStart
<1> QED BY <1>1, <1>2, <1>4, <1>5 DEF Rest, BalancerInv, EdgeInv, ConfigInv

LEMMA DownloadGatewayInv ==
    ASSUME BackendType, Rest, DownloadGateway
    PROVE  Rest'
<1>1. /\ script.at = "sgw" /\ script.at \in Provisioning
      /\ UNCHANGED <<born, gateway, node, scripts>>
    BY DEF DownloadGateway, Download, At, Provisioning, remote
<1>2. CASE Fail
    BY <1>2, FailInv
<1>3. CASE script.hosts.sgw = <<>> /\ After("sgw")
    <2>1. script'.at = Step(3) /\ script'.i = 1 /\ SameStart
        BY <1>3, AfterType
    <2>2. Reach(script.hosts, Len(script.hosts.sgw))'
        BY <1>3, <2>1 DEF Reach, SameStart
    <2> QED BY <1>1, <2>1, <2>2, NextStep, AdvanceInv
<1>4. CASE script.hosts.sgw # <<>> /\ Stay("sgw_install")
    <2>1. script'.at = "sgw_install" /\ script'.i = script.i /\ SameStart
        BY <1>4, StayType DEF Stages, Provisioning
    <2>2. Reach(script.hosts, script.i - 1)'
        BY <1>1, <2>1 DEF Rest, GatewayInv, Reach, SameStart, Configured, Alive
    <2>3. GatewayInv'
        BY <2>1, <2>2 DEF GatewayInv
    <2> QED BY <1>1, <1>4, <2>1, <2>3, StayInv
<1> QED BY <1>2, <1>3, <1>4 DEF DownloadGateway, Download

\* Another gateway of the script is another instance.
LEMMA OtherGateway ==
    ASSUME BackendType, Rest, script.at \in {"sgw_install", "sgw_start"},
           NEW j \in DOMAIN script.hosts.sgw, j # script.i
    PROVE  script.hosts.sgw[j].host[2] # Gateway.host[2]
<1>1. script.i \in DOMAIN script.hosts.sgw
    BY GatewayType DEF Rest
<1>2. Known(script.topology, script.hosts)
    BY DEF Rest, HostsInv, Provisioning
<1> QED BY <1>1, <1>2 DEF Known, Gateway

LEMMA InstallGatewayInv ==
    ASSUME BackendType, Rest, InstallGateway
    PROVE  Rest'
<1> DEFINE s == Gateway.host[2]
<1>1. /\ script.at = "sgw_install" /\ script.at \in Provisioning /\ script.i \in Int
      /\ UNCHANGED <<born, node, scripts>>
    BY ScriptFields DEF InstallGateway, At, Provisioning
<1>2. CASE Fail
    BY <1>2, FailInv
<1>3. CASE /\ Stay("sgw_start")
           /\ gateway' = [gateway EXCEPT ![s] = [WithConfig(@) EXCEPT !.package = Gateway.version]]
    <2>1. script'.at = "sgw_start" /\ script'.i = script.i /\ SameStart
        BY <1>3, StayType DEF Stages, Provisioning
    <2>2. s \in Slots /\ script.i \in DOMAIN script.hosts.sgw
        BY <1>1, GatewayType DEF Rest
    <2>3. gateway'[s].package = Gateway.version /\ gateway'[s].server = Gateway.server
        BY <1>3, <2>2 DEF BackendType, WithConfig
    <2>4. \A r \in Slots : r # s => gateway'[r] = gateway[r]
        BY <1>3 DEF BackendType
    <2>5. Gateway' = Gateway
        BY <2>1 DEF Gateway, SameStart
    <2>6. Reach(script.hosts, script.i - 1)'
        <3>1. Reach(script.hosts, script.i - 1)
            BY <1>1 DEF Rest, GatewayInv
        <3> SUFFICES ASSUME NEW j \in DOMAIN script.hosts.sgw, j <= script.i - 1
                     PROVE  /\ gateway'[script.hosts.sgw[j].host[2]].runs =
                                  [version |-> script.hosts.sgw[j].version, server |-> script.hosts.sgw[j].server]
                            /\ Configured(script.hosts.sgw[j].server)'
            BY <2>1 DEF Reach, SameStart
        <3>2. j # script.i /\ script.hosts.sgw[j].host[2] \in Slots
            BY <1>1, ScriptFields
        <3>3. gateway'[script.hosts.sgw[j].host[2]] = gateway[script.hosts.sgw[j].host[2]]
            BY <1>1, <2>4, <3>2, OtherGateway
        <3>4. Configured(script.hosts.sgw[j].server)
            BY <3>1 DEF Reach
        <3>5. Configured(script.hosts.sgw[j].server)'
            BY <1>1, <2>1, <3>4 DEF Configured, Alive, SameStart
        <3> QED BY <3>1, <3>3, <3>5 DEF Reach
    <2>7. GatewayInv'
        BY <2>1, <2>3, <2>5, <2>6 DEF GatewayInv
    <2>8. script.hosts.sgw # <<>>
        BY <2>2
    <2> QED BY <1>1, <2>1, <2>7, <2>8, StayInv
<1> QED BY <1>2, <1>3 DEF InstallGateway

LEMMA StartGatewayInv ==
    ASSUME BackendType, Rest, StartGateway
    PROVE  Rest'
<1> DEFINE s == Gateway.host[2]
           g == gateway[s]
           n == script.i
<1>1. /\ script.at = "sgw_start" /\ script.at \in Provisioning /\ script.i \in Int
      /\ UNCHANGED <<born, node, scripts>>
    BY ScriptFields DEF StartGateway, At, Provisioning
<1>2. CASE Fail
    BY <1>2, FailInv
<1>3. CASE /\ Configured(g.server) /\ NextHost("sgw", script.hosts.sgw)
           /\ gateway' = [gateway EXCEPT ![s].runs = [version |-> g.package, server |-> g.server]]
    <2>1. /\ SameStart
          /\ \/ n < Len(script.hosts.sgw) /\ script'.at = "sgw" /\ script'.i = n + 1
             \/ ~(n < Len(script.hosts.sgw)) /\ script'.at = Step(3) /\ script'.i = 1
        BY <1>3, NextHostType
    <2>2. /\ s \in Slots /\ n \in DOMAIN script.hosts.sgw /\ Gateway = script.hosts.sgw[n]
          /\ DOMAIN script.hosts.sgw = 1..Len(script.hosts.sgw) /\ Len(script.hosts.sgw) \in Nat
        BY <1>1, GatewayType, ScriptFields DEF Rest, Gateway
    <2>3. g.package = Gateway.version /\ g.server = Gateway.server
        BY <1>1 DEF Rest, GatewayInv
    <2>4. gateway'[s].runs = [version |-> Gateway.version, server |-> Gateway.server]
        BY <1>3, <2>2, <2>3 DEF BackendType
    <2>5. \A r \in Slots : r # s => gateway'[r] = gateway[r]
        BY <1>3 DEF BackendType
    <2>6. ASSUME NEW j \in DOMAIN script.hosts.sgw, j <= n
          PROVE  /\ gateway'[script.hosts.sgw[j].host[2]].runs =
                       [version |-> script.hosts.sgw[j].version, server |-> script.hosts.sgw[j].server]
                 /\ Configured(script.hosts.sgw[j].server)
        <3>1. CASE j = n
            BY <1>3, <2>2, <2>3, <2>4, <3>1
        <3>2. CASE j # n
            <4>1. Reach(script.hosts, n - 1) /\ j <= n - 1
                BY <1>1, <2>2, <2>6, <3>2 DEF Rest, GatewayInv
            <4>2. script.hosts.sgw[j].host[2] \in Slots
                BY ScriptFields
            <4>3. gateway'[script.hosts.sgw[j].host[2]] = gateway[script.hosts.sgw[j].host[2]]
                BY <1>1, <2>5, <3>2, <4>2, OtherGateway
            <4> QED BY <4>1, <4>3 DEF Reach
        <3> QED BY <3>1, <3>2
    <2>7. ASSUME NEW j \in DOMAIN script.hosts.sgw, j <= n PROVE Configured(script.hosts.sgw[j].server)'
        BY <1>1, <2>1, <2>6, <2>7 DEF Configured, Alive, SameStart
    <2>8. CASE n < Len(script.hosts.sgw)
        <3>1. script'.at = "sgw" /\ script'.i = n + 1 /\ script'.at \in Provisioning
            BY <2>1, <2>8 DEF Provisioning
        <3>2. Reach(script.hosts, script.i - 1)'
            BY <1>1, <2>1, <2>6, <2>7, <3>1 DEF Reach, SameStart
        <3>3. GatewayInv'
            BY <3>1, <3>2 DEF GatewayInv
        <3>4. n + 1 \in DOMAIN script.hosts.sgw
            BY <2>2, <2>8
        <3>5. ScriptInv' /\ HostsInv'
            BY <1>1, <2>1, <3>1, <3>4, ScriptKept, HostsKept DEF Rest
        <3>6. outcome' # "started"
            BY <1>1, <2>1, Going DEF Rest, SameStart
        <3> QED BY <3>1, <3>3, <3>5, <3>6 DEF Rest, BalancerInv, EdgeInv, ConfigInv
    <2>9. CASE ~(n < Len(script.hosts.sgw))
        <3>1. \A j \in DOMAIN script.hosts.sgw : j <= n
            BY <1>1, <2>2, <2>9
        <3>2. Reach(script.hosts, Len(script.hosts.sgw))'
            BY <2>1, <2>6, <2>7, <3>1 DEF Reach, SameStart
        <3> QED BY <1>1, <2>1, <2>9, <3>2, NextStep, AdvanceInv
    <2> QED BY <2>8, <2>9
<1> QED BY <1>2, <1>3 DEF StartGateway

\* What holds when the gateways are done still does after a step that leaves them.
LEMMA GatewaysDone ==
    ASSUME BackendType, Rest, script.at \in {"es", "es_install", "lb", "ls", "ts", "write"}, SameStart,
           UNCHANGED <<born, gateway, node>>, "sgw" \in script.steps
    PROVE  Reach(script.hosts, Len(script.hosts.sgw))'
<1>1. Reach(script.hosts, Len(script.hosts.sgw))
    BY DEF Rest, GatewayInv
<1> QED BY <1>1, AllReachKept

LEMMA DownloadEdgeInv ==
    ASSUME BackendType, Rest, DownloadEdge
    PROVE  Rest'
<1>1. /\ script.at = "es" /\ script.at \in Provisioning
      /\ UNCHANGED <<born, gateway, node, edge, ca, scripts>>
    BY DEF DownloadEdge, Download, At, Provisioning, remote, here
<1>2. CASE Fail
    BY <1>2, FailInv
<1>3. CASE script.hosts.es = <<>> /\ After("es")
    <2>1. script'.at = Step(4) /\ script'.i = 1 /\ SameStart
        BY <1>3, AfterType
    <2>2. "sgw" \in script.steps => Reach(script.hosts, Len(script.hosts.sgw))'
        BY <1>1, <2>1, GatewaysDone
    <2>3. Trusted(script.hosts)'
        BY <1>3, <2>1 DEF Trusted, SameStart
    <2> QED BY <1>1, <2>1, <2>2, <2>3, NextStep, AdvanceInv
<1>4. CASE script.hosts.es # <<>> /\ Stay("es_install")
    <2>1. script'.at = "es_install" /\ script'.i = script.i /\ SameStart
        BY <1>4, StayType DEF Stages, Provisioning
    <2>2. "sgw" \in script.steps => Reach(script.hosts, Len(script.hosts.sgw))'
        BY <1>1, <2>1, GatewaysDone
    <2>3. GatewayInv'
        BY <2>1, <2>2 DEF GatewayInv, SameStart
    <2> QED BY <1>1, <1>4, <2>1, <2>3, StayInv
<1> QED BY <1>2, <1>3, <1>4 DEF DownloadEdge, Download

LEMMA InstallEdgeInv ==
    ASSUME BackendType, Rest, InstallEdge
    PROVE  Rest'
<1> DEFINE s == Edge[2]
           n == script.i
           es == script.hosts.es
<1>1. /\ script.at = "es_install" /\ script.at \in Provisioning /\ n \in Nat
      /\ UNCHANGED <<born, gateway, node, scripts>>
    BY ScriptFields DEF InstallEdge, At, Provisioning
<1>2. CASE Fail
    BY <1>2, FailInv
<1>3. CASE /\ NextHost("es", es) /\ ca' = Written(ca, 5)
           /\ edge' = [edge EXCEPT ![s] = Written(edge[s], 5)]
    <2>1. /\ SameStart
          /\ \/ n < Len(es) /\ script'.at = "es" /\ script'.i = n + 1
             \/ ~(n < Len(es)) /\ script'.at = Step(4) /\ script'.i = 1
        BY <1>3, NextHostType
    <2>2. n \in DOMAIN es /\ DOMAIN es = 1..Len(es) /\ Len(es) \in Nat
        BY <1>1, ScriptFields DEF Rest, ScriptInv
    <2>3. s \in Slots /\ Edge = es[n]
        BY <2>2, ScriptFields DEF Edge
    <2>4. \A f \in OnEdge, g \in Kept : edge'[s][f] = ca'[g]
        <3>1. edge'[s] = Written(edge[s], 5) /\ edge[s] \in [OnEdge -> Nat] /\ ca \in [Kept -> Nat]
            BY <1>3, <2>3 DEF BackendType
        <3>2. /\ \A f \in OnEdge : Written(edge[s], 5)[f] = cas + 1
              /\ \A g \in Kept : Written(ca, 5)[g] = cas + 1
            BY <3>1 DEF Written, OnEdge, Kept
        <3> QED BY <1>3, <3>1, <3>2
    <2>5. "sgw" \in script.steps => Reach(script.hosts, Len(script.hosts.sgw))'
        BY <1>1, <2>1, GatewaysDone
    <2>6. CASE n < Len(es)
        <3>1. script'.at = "es" /\ script'.i = n + 1 /\ script'.at \in Provisioning
            BY <2>1, <2>6 DEF Provisioning
        <3>2. GatewayInv'
            BY <2>1, <2>5, <3>1 DEF GatewayInv, SameStart
        <3>3. n + 1 \in DOMAIN es
            BY <2>2, <2>6
        <3>4. ScriptInv' /\ HostsInv'
            BY <1>1, <2>1, <3>1, <3>3, ScriptKept, HostsKept DEF Rest
        <3>5. outcome' # "started"
            BY <1>1, <2>1, Going DEF Rest, SameStart
        <3> QED BY <3>1, <3>2, <3>4, <3>5 DEF Rest, BalancerInv, EdgeInv, ConfigInv
    <2>7. CASE ~(n < Len(es))
        <3>1. n = Len(es)
            BY <2>2, <2>7
        <3>2. Trusted(script.hosts)'
            BY <2>1, <2>3, <2>4, <3>1 DEF Trusted, SameStart
        <3> QED BY <1>1, <2>1, <2>5, <2>7, <3>2, NextStep, AdvanceInv
    <2> QED BY <2>6, <2>7
<1> QED BY <1>2, <1>3 DEF InstallEdge

LEMMA ProvisionBalancerInv ==
    ASSUME BackendType, Rest, ProvisionBalancer
    PROVE  Rest'
<1> DEFINE all == script.hosts.lb
           n == script.i
           s == all[n].host[2]
<1>1. /\ script.at = "lb" /\ script.at \in Provisioning /\ n \in Nat
      /\ UNCHANGED <<born, gateway, node, edge, ca, scripts>>
    BY ScriptFields DEF ProvisionBalancer, At, Provisioning, here
<1>2. CASE Fail
    BY <1>2, FailInv
<1>3. ASSUME SameStart
      PROVE  /\ "sgw" \in script.steps => Reach(script.hosts, Len(script.hosts.sgw))'
             /\ "es" \in script.steps => Trusted(script.hosts)'
    <2>1. "es" \in script.steps => Trusted(script.hosts)
        BY <1>1 DEF Rest, EdgeInv
    <2> QED BY <1>1, <1>3, <2>1, GatewaysDone, TrustedKept
<1>4. CASE all = <<>> /\ After("lb")
    <2>1. script'.at = Step(5) /\ script'.i = 1 /\ SameStart
        BY <1>4, AfterType
    <2>2. Balanced(script.hosts, Len(script.hosts.lb))'
        BY <1>4, <2>1 DEF Balanced, SameStart
    <2> QED BY <1>1, <1>3, <2>1, <2>2, NextStep, AdvanceInv
<1>5. CASE all # <<>> /\ NextHost("lb", all) /\ lb' = [lb EXCEPT ![s] = all[n].upstreams]
    <2>1. /\ SameStart
          /\ \/ n < Len(all) /\ script'.at = "lb" /\ script'.i = n + 1
             \/ ~(n < Len(all)) /\ script'.at = Step(5) /\ script'.i = 1
        BY <1>5, NextHostType
    <2>2. n \in DOMAIN all /\ DOMAIN all = 1..Len(all) /\ Len(all) \in Nat
        BY <1>1, <1>5, ScriptFields DEF Rest, ScriptInv
    <2>3. /\ s \in Slots /\ lb'[s] = all[n].upstreams
          /\ \A r \in Slots : r # s => lb'[r] = lb[r]
        BY <1>5, <2>2, ScriptFields DEF BackendType
    <2>4. Known(script.topology, script.hosts) /\ Balanced(script.hosts, n - 1)
        BY <1>1 DEF Rest, HostsInv, BalancerInv
    <2>5. ASSUME NEW j \in DOMAIN all, j <= n PROVE lb'[all[j].host[2]] = all[j].upstreams
        <3>1. CASE j = n
            BY <2>3, <3>1
        <3>2. CASE j # n
            <4>1. j <= n - 1
                BY <2>2, <2>5, <3>2
            <4>2. lb[all[j].host[2]] = all[j].upstreams
                BY <2>4, <4>1 DEF Balanced
            <4>3. all[j].host[2] \in Slots /\ all[j].host[2] # s
                BY <2>2, <2>4, <3>2, ScriptFields DEF Known
            <4> QED BY <2>3, <4>2, <4>3
        <3> QED BY <3>1, <3>2
    <2>6. CASE n < Len(all)
        <3>1. script'.at = "lb" /\ script'.i = n + 1 /\ script'.at \in Provisioning
            BY <2>1, <2>6 DEF Provisioning
        <3>2. Balanced(script.hosts, script.i - 1)'
            BY <1>1, <2>1, <2>5, <3>1 DEF Balanced, SameStart
        <3>3. n + 1 \in DOMAIN all
            BY <2>2, <2>6
        <3>4. ScriptInv' /\ HostsInv'
            BY <1>1, <2>1, <3>1, <3>3, ScriptKept, HostsKept DEF Rest
        <3>5. GatewayInv' /\ BalancerInv' /\ EdgeInv'
            BY <1>3, <2>1, <3>1, <3>2 DEF GatewayInv, BalancerInv, EdgeInv, SameStart
        <3>6. outcome' # "started"
            BY <1>1, <2>1, Going DEF Rest, SameStart
        <3> QED BY <3>4, <3>5, <3>6 DEF Rest, ConfigInv
    <2>7. CASE ~(n < Len(all))
        <3>1. \A j \in DOMAIN all : j <= n
            BY <2>2, <2>7
        <3>2. Balanced(script.hosts, Len(script.hosts.lb))'
            BY <2>1, <2>5, <3>1 DEF Balanced, SameStart
        <3> QED BY <1>1, <1>3, <2>1, <2>7, <3>2, NextStep, AdvanceInv
    <2> QED BY <2>6, <2>7
<1> QED BY <1>2, <1>4, <1>5 DEF ProvisionBalancer

\* The last steps leave the servers as they are.
LEMMA LastStepsInv ==
    ASSUME BackendType, Rest, ProvisionLogSlurp \/ RunTestServers
    PROVE  Rest'
<1>1. /\ script.at \in {"ls", "ts"} /\ script.at \in Provisioning
      /\ UNCHANGED <<born, gateway, node, lb, edge, ca, scripts>>
    BY DEF ProvisionLogSlurp, RunTestServers, At, Provisioning, here, remote
<1>2. CASE Fail
    BY <1>2, FailInv
<1>3. CASE After("ls") \/ After("ts")
    <2>1. script'.at \in {"ts", "write"} /\ script'.i = 1 /\ SameStart
        BY <1>3, AfterType, NextStep
    <2>2. /\ "lb" \in script.steps => Balanced(script.hosts, Len(script.hosts.lb))
          /\ "es" \in script.steps => Trusted(script.hosts)
        BY <1>1 DEF Rest, BalancerInv, EdgeInv
    <2>3. /\ "sgw" \in script.steps => Reach(script.hosts, Len(script.hosts.sgw))'
          /\ "lb" \in script.steps => Balanced(script.hosts, Len(script.hosts.lb))'
          /\ "es" \in script.steps => Trusted(script.hosts)'
        BY <1>1, <2>1, <2>2, GatewaysDone, BalancedKept, TrustedKept
    <2> QED BY <1>1, <2>1, <2>3, AdvanceInv
<1> QED BY <1>2, <1>3 DEF ProvisionLogSlurp, RunTestServers

LEMMA WriteInv ==
    ASSUME BackendType, Rest, WriteConfig
    PROVE  Rest'
<1> DEFINE t == script.topology
           h == script.hosts
           steps == script.steps
<1> SUFFICES ASSUME ~Fail PROVE Rest'
    BY FailInv
<1>1. /\ script.at = "write" /\ script.at \in Provisioning
      /\ script' = Idle /\ outcome' = "started" /\ config' = [topology |-> t, steps |-> steps, hosts |-> h]
      /\ UNCHANGED <<born, gateway, node, lb, edge, ca, scripts>>
    BY DEF WriteConfig, At, Exit, Fail, Provisioning, here, remote
<1>2. config'.topology = t /\ config'.steps = steps /\ config'.hosts = h
    BY <1>1
<1>3. config' \in Configs
    BY <1>1, Going, ScriptFields DEF Rest, Configs
<1>4. /\ Known(t, h)
      /\ "apply" \in steps => Named(t, h)
      /\ "sgw" \in steps => Reach(h, Len(h.sgw))
      /\ "lb" \in steps => Balanced(h, Len(h.lb))
      /\ "es" \in steps => Trusted(h)
    BY <1>1 DEF Rest, HostsInv, GatewayInv, BalancerInv, EdgeInv
<1>5. Known(config.topology, config.hosts)'
    BY <1>1, <1>2, <1>4, KnownConfig
<1>6. "apply" \in steps => Named(config.topology, config.hosts)'
    BY <1>1, <1>2, <1>4, NamedConfig
<1>7. "sgw" \in steps => Reach(config.hosts, Len(config.hosts.sgw))'
    BY <1>1, <1>2, <1>4 DEF Reach, Configured, Alive
<1>8. "lb" \in steps => Balanced(config.hosts, Len(config.hosts.lb))'
    BY <1>1, <1>2, <1>4 DEF Balanced
<1>9. "es" \in steps => Trusted(config.hosts)'
    BY <1>1, <1>2, <1>4 DEF Trusted
<1>10. ConfigInv'
    BY <1>2, <1>5, <1>6, <1>7, <1>8, <1>9 DEF ConfigInv
<1>11. script'.at = "end"
    BY <1>1, IdleType
<1>12. ScriptInv'
    BY <1>1, <1>3, <1>11 DEF ScriptInv, Preparing
<1> QED BY <1>10, <1>11, <1>12
    DEF Rest, HostsInv, GatewayInv, BalancerInv, EdgeInv, Provisioning

\* A node that has configured itself stays so.
LEMMA ConfiguredStays ==
    ASSUME BackendType, NEW s \in Slots, ConfigureNode(s), NEW a \in Hosts("cbs"), Configured(a)
    PROVE  Configured(a)'
<1>1. a[2] \in Slots /\ born' = born
    BY DEF ConfigureNode, Hosts
<1>2. node[s].state = "starting" /\ node[a[2]].state = "configured" /\ a[2] # s
    BY DEF ConfigureNode, Configured
<1>3. node'[a[2]] = node[a[2]]
    BY <1>1, <1>2 DEF ConfigureNode, BackendType
<1> QED BY <1>1, <1>3 DEF Configured, Alive

LEMMA ReachStays ==
    ASSUME BackendType, NEW s \in Slots, ConfigureNode(s), NEW h \in HostLists, NEW n, Reach(h, n)
    PROVE  \A i \in DOMAIN h.sgw : i <= n =>
               /\ gateway'[h.sgw[i].host[2]].runs = [version |-> h.sgw[i].version, server |-> h.sgw[i].server]
               /\ Configured(h.sgw[i].server)'
<1> SUFFICES ASSUME NEW i \in DOMAIN h.sgw, i <= n
             PROVE  /\ gateway'[h.sgw[i].host[2]].runs =
                          [version |-> h.sgw[i].version, server |-> h.sgw[i].server]
                    /\ Configured(h.sgw[i].server)'
    OBVIOUS
<1>1. h.sgw \in Seq(GatewayHost)
    BY DEF HostLists
<1>2. h.sgw[i].server \in Hosts("cbs")
    <2>1. h.sgw[i] \in GatewayHost
        BY <1>1, ListType
    <2> QED BY <2>1 DEF GatewayHost
<1>3. gateway' = gateway
    BY DEF ConfigureNode
<1>4. /\ gateway[h.sgw[i].host[2]].runs = [version |-> h.sgw[i].version, server |-> h.sgw[i].server]
      /\ Configured(h.sgw[i].server)
    BY DEF Reach
<1> QED BY <1>2, <1>3, <1>4, ConfiguredStays

LEMMA ConfigureInv ==
    ASSUME BackendType, Rest, NEW s \in Slots, ConfigureNode(s)
    PROVE  Rest'
<1>1. UNCHANGED <<born, gateway, edge, lb, ca, script, config, outcome, scripts>>
    BY DEF ConfigureNode, here
<1>2. ScriptInv' /\ HostsInv' /\ BalancerInv' /\ EdgeInv'
    <2>1. ScriptInv'
        BY <1>1 DEF Rest, ScriptInv
    <2>2. BalancerInv' /\ EdgeInv'
        BY <1>1 DEF Rest, BalancerInv, EdgeInv, Balanced, Trusted
    <2>3. Applied(script.topology) => Applied(script.topology)'
        BY <1>1 DEF Applied
    <2>4. ASSUME Named(script.topology, script.hosts) PROVE Named(script.topology, script.hosts)'
        BY <1>1, <2>4, NamedScript
    <2>5. ASSUME Known(script.topology, script.hosts) PROVE Known(script.topology, script.hosts)'
        BY <1>1, <2>5, KnownScript
    <2> QED BY <1>1, <2>1, <2>2, <2>3, <2>4, <2>5 DEF Rest, HostsInv
<1>3. GatewayInv'
    <2>1. script.hosts \in HostLists
        BY ScriptFields
    <2>2. ASSUME Reach(script.hosts, script.i - 1) PROVE Reach(script.hosts, script.i - 1)'
        BY <1>1, <2>1, <2>2, ReachStays DEF Reach
    <2>3. ASSUME Reach(script.hosts, Len(script.hosts.sgw))
          PROVE  Reach(script.hosts, Len(script.hosts.sgw))'
        BY <1>1, <2>1, <2>3, ReachStays DEF Reach
    <2> QED BY <1>1, <2>2, <2>3 DEF Rest, GatewayInv, Gateway
<1>4. ConfigInv'
    <2> SUFFICES ASSUME outcome = "started" PROVE ConfigInv'
        BY <1>1 DEF ConfigInv
    <2>1. config.hosts \in HostLists
        BY DEF Rest, ScriptInv, Configs
    <2>2. ASSUME Reach(config.hosts, Len(config.hosts.sgw))
          PROVE  Reach(config.hosts, Len(config.hosts.sgw))'
        BY <1>1, <2>1, <2>2, ReachStays DEF Reach
    <2>3. Known(config.topology, config.hosts)'
        BY <1>1, KnownConfig DEF Rest, ConfigInv
    <2>5. "apply" \in config.steps => Named(config.topology, config.hosts)'
        BY <1>1, NamedConfig DEF Rest, ConfigInv
    <2>4. /\ "lb" \in config.steps => Balanced(config.hosts, Len(config.hosts.lb))'
          /\ "es" \in config.steps => Trusted(config.hosts)'
        BY <1>1 DEF Rest, ConfigInv, Balanced, Trusted
    <2> QED BY <1>1, <2>2, <2>3, <2>4, <2>5 DEF Rest, ConfigInv
<1> QED BY <1>2, <1>3, <1>4 DEF Rest

(***************************************************************************)
(* The invariant.                                                          *)
(***************************************************************************)
LEMMA RestStep ==
    ASSUME BackendType, Rest, [BackendNext]_backendVars
    PROVE  Rest'
<1>1. CASE \/ \E t \in Topologies, steps \in StepSets : BeginStart(t, steps)
           \/ \E t \in Topologies, d \in Destroys : BeginStop(t, d.kinds, d.index)
    BY <1>1, BeginInv
<1>2. CASE Apply \/ ReadOutputs \/ Resolve \/ ProvisionNode
    BY <1>2, ApplyInv, ReadInv, FirstStepInv, NodeInv
<1>3. CASE DownloadGateway \/ InstallGateway \/ StartGateway
    BY <1>3, DownloadGatewayInv, InstallGatewayInv, StartGatewayInv
<1>4. CASE DownloadEdge \/ InstallEdge \/ ProvisionBalancer
    BY <1>4, DownloadEdgeInv, InstallEdgeInv, ProvisionBalancerInv
<1>5. CASE ProvisionLogSlurp \/ RunTestServers \/ WriteConfig
    BY <1>5, LastStepsInv, WriteInv
<1>6. CASE StopReads \/ Destroy \/ StopTestServers
    BY <1>6, StopInv
<1>7. CASE \E s \in Slots : ConfigureNode(s)
    BY <1>7, ConfigureInv
<1>8. CASE UNCHANGED backendVars
    <2>1. UNCHANGED <<born, gateway, node, edge, lb, ca, script, config, outcome, scripts>>
        BY <1>8 DEF backendVars, remote, here
    <2>2. ScriptInv' /\ BalancerInv' /\ EdgeInv'
        BY <2>1 DEF Rest, ScriptInv, BalancerInv, EdgeInv, Balanced, Trusted
    <2>3. GatewayInv'
        BY <2>1 DEF Rest, GatewayInv, Gateway, Reach, Configured, Alive
    <2>4. HostsInv'
        <3>1. Applied(script.topology) => Applied(script.topology)'
            BY <2>1 DEF Applied
        <3>2. ASSUME Named(script.topology, script.hosts) PROVE Named(script.topology, script.hosts)'
            BY <2>1, <3>2, NamedScript
        <3>3. ASSUME Known(script.topology, script.hosts) PROVE Known(script.topology, script.hosts)'
            BY <2>1, <3>3, KnownScript
        <3> QED BY <2>1, <3>1, <3>2, <3>3 DEF Rest, HostsInv
    <2>5. ConfigInv'
        <3>1. ASSUME outcome = "started" PROVE Known(config.topology, config.hosts)'
            BY <2>1, <3>1, KnownConfig DEF Rest, ConfigInv
        <3>2. ASSUME outcome = "started" PROVE "apply" \in config.steps => Named(config.topology, config.hosts)'
            BY <2>1, <3>2, NamedConfig DEF Rest, ConfigInv
        <3>3. ASSUME outcome = "started"
              PROVE  "sgw" \in config.steps => Reach(config.hosts, Len(config.hosts.sgw))'
            BY <2>1, <3>3 DEF Rest, ConfigInv, Reach, Configured, Alive
        <3>4. ASSUME outcome = "started"
              PROVE  /\ "lb" \in config.steps => Balanced(config.hosts, Len(config.hosts.lb))'
                     /\ "es" \in config.steps => Trusted(config.hosts)'
            BY <2>1, <3>4 DEF Rest, ConfigInv, Balanced, Trusted
        <3> QED BY <2>1, <3>1, <3>2, <3>3, <3>4 DEF ConfigInv
    <2> QED BY <2>2, <2>3, <2>4, <2>5 DEF Rest
<1> QED BY <1>1, <1>2, <1>3, <1>4, <1>5, <1>6, <1>7, <1>8 DEF BackendNext

LEMMA BackendAlways == BackendSpec => []BackendInv
<1>1. BackendInit => BackendInv
    BY TypeBackendInit, RestInit DEF BackendInv, Rest
<1>2. BackendInv /\ [BackendNext]_backendVars => BackendInv'
    <2> SUFFICES ASSUME BackendInv, [BackendNext]_backendVars PROVE BackendInv'
        OBVIOUS
    <2>1. BackendType /\ Rest
        BY DEF BackendInv, Rest
    <2>2. BackendType'
        BY <2>1, TypeBackendStep DEF Rest
    <2>3. Rest'
        BY <2>1, RestStep
    <2> QED BY <2>2, <2>3 DEF BackendInv, Rest
<1> QED BY <1>1, <1>2, PTL DEF BackendSpec

\* When a start has written its configuration without an error and took
\* terraform's step, the configuration names as many hosts of each kind as the
\* topology, and every one of them is an instance that exists, whatever earlier
\* starts and stops left behind.
THEOREM ConfigNamesLiveHostsCorrect == BackendSpec => []ConfigNamesLiveHosts
<1>1. BackendInv => ConfigNamesLiveHosts
    <2> SUFFICES ASSUME BackendInv, Started("apply")
                 PROVE  Named(config.topology, config.hosts)
        BY DEF ConfigNamesLiveHosts, Named
    <2> QED BY DEF BackendInv, ConfigInv, Started
<1> QED BY <1>1, BackendAlways, PTL

\* When a start that provisions Sync Gateway has succeeded, every gateway in its
\* configuration runs the version asked for against the first node of its own
\* cluster, and that node has finished configuring itself: start-sgw.sh waits.
THEOREM GatewaysReachTheirClusterCorrect == BackendSpec => []GatewaysReachTheirCluster
<1>1. BackendInv => GatewaysReachTheirCluster
    <2> SUFFICES ASSUME BackendInv, Started("sgw"), NEW i \in DOMAIN config.hosts.sgw
                 PROVE  LET g == config.hosts.sgw[i] IN
                        /\ Alive(g.host)
                        /\ gateway[g.host[2]].runs =
                              [version |-> g.version, server |-> config.hosts.cbs[g.cluster][1]]
                        /\ Configured(g.server)
        BY DEF GatewaysReachTheirCluster
    <2>1. Known(config.topology, config.hosts) /\ Reach(config.hosts, Len(config.hosts.sgw))
        BY DEF BackendInv, ConfigInv, Started
    <2>2. i <= Len(config.hosts.sgw)
        <3>1. config.hosts.sgw \in Seq(GatewayHost)
            BY DEF BackendInv, ScriptInv, Started, Configs, HostLists
        <3> QED BY <3>1, ListType
    <2> DEFINE h == config.hosts
    <2>3. /\ Alive(h.sgw[i].host)
          /\ h.sgw[i].server = h.cbs[h.sgw[i].cluster][1]
        BY <2>1 DEF Known
    <2>4. /\ gateway[h.sgw[i].host[2]].runs = [version |-> h.sgw[i].version, server |-> h.sgw[i].server]
          /\ Configured(h.sgw[i].server)
        BY <2>1, <2>2 DEF Reach
    <2> QED BY <2>3, <2>4
<1> QED BY <1>1, BackendAlways, PTL

\* When a start that provisions load balancers has succeeded, the upstreams of
\* each are the gateways of this very environment, though its container is not
\* replaced when it runs: the file it reads has been uploaded again.
THEOREM BalancersReachTheirGatewaysCorrect == BackendSpec => []BalancersReachTheirGateways
<1>1. BackendInv => BalancersReachTheirGateways
    <2> SUFFICES ASSUME BackendInv, Started("lb"), NEW i \in DOMAIN config.hosts.lb
                 PROVE  LET b == config.hosts.lb[i]
                            behind == config.topology.lb[i]
                        IN lb[b.host[2]] = [j \in DOMAIN behind |-> config.hosts.sgw[behind[j]].host]
        BY DEF BalancersReachTheirGateways
    <2>1. Known(config.topology, config.hosts) /\ Balanced(config.hosts, Len(config.hosts.lb))
        BY DEF BackendInv, ConfigInv, Started
    <2>2. i <= Len(config.hosts.lb)
        <3>1. config.hosts.lb \in Seq(Balancer)
            BY DEF BackendInv, ScriptInv, Started, Configs, HostLists
        <3> QED BY <3>1, ListType
    <2> QED BY <2>1, <2>2 DEF Known, Balanced
<1> QED BY <1>1, BackendAlways, PTL

\* When a start that provisions Edge Servers has succeeded, the certificate files on
\* the last Edge Server and those in ~/.cbl_certs are of one CA, whatever files
\* earlier starts, and those that failed between two of them, have written.
THEOREM LastEdgeServerIsTrustedCorrect == BackendSpec => []LastEdgeServerIsTrusted
<1>1. BackendInv => LastEdgeServerIsTrusted
    BY DEF BackendInv, ConfigInv, Started, LastEdgeServerIsTrusted, Trusted
<1> QED BY <1>1, BackendAlways, PTL

=============================================================================
