------------------------------ MODULE UdpChannel ------------------------------
(***************************************************************************)
(* One UDPChannel: the datagrams of all the clients of the device go over  *)
(* one TCP connection to the udpgw server, through a forwarded port.  Four *)
(* threads share it: the reader of the tun device hands over packets, the  *)
(* channel's own thread (the writer) gives each client an id and writes,   *)
(* the ReaderThread delivers the answers by their id, and the              *)
(* KeepAliveThread writes when nobody else does.  Any of the last three    *)
(* may close the channel, which SshChannelManager then forgets.            *)
(*                                                                         *)
(* A client is [local, addr, port]: its own end point and the remote one.  *)
(* Lengths and ids are sent as bytes, which Java reads back as signed.     *)
(***************************************************************************)
EXTENDS Integers, Sequences

CONSTANTS
    Clients,        \* the clients that may send
    NoData,         \* a packet without data
    MAX_CLIENT_ID,  \* the largest id (255)
    ByteHalf,       \* half the values of a byte (128)
    MaxPackets,     \* bound: packets from the tun device
    MaxAnswers      \* bound: answers of the server

ASSUME UdpAssumption ==
    /\ Clients \subseteq [local : Nat, addr : Nat, port : Nat] /\ NoData \notin Clients
    /\ ByteHalf \in Nat \ {0} /\ MAX_CLIENT_ID = 2 * ByteHalf - 1
    /\ MaxPackets \in Nat \ {0} /\ MaxAnswers \in Nat

VARIABLES
    tun,             \* the tun reader: idle, found, added, or ended by an exception
    mPacketQueue, permits,     \* the queue, and the permits of writerLock
    writer,          \* the place of the channel's thread
    writing,         \* the client and id of the packet it writes
    interrupted,     \* its interrupt flag
    mUDPClients, mClientIdCounter,
    mClosed,
    mSession,        \* the RemoteConnection has a Session: its connect() came that far
    socket,          \* none, open, closed
    forwarded,       \* the local port is forwarded
    reader,          \* the ReaderThread: none, running, closing, ended
    keepAlive,       \* the KeepAliveThread: running, closing, ended
    mKeepAliveSent,
    registered,      \* the channel is in the table of SshChannelManager
    conns,           \* the server's connections: id -> client it was opened for
    answers,         \* answers on their way: [id, client]
    misdelivered,    \* an answer was delivered to another client than the one that asked
    reused,          \* an id was given to a second client
    packets, answered          \* what is used of the bounds

input  == <<tun, packets>>
queue  == <<mPacketQueue, permits>>
table  == <<mUDPClients, mClientIdCounter, reused>>
remote == <<socket, forwarded>>
server == <<conns, answers, answered>>
vars == <<input, queue, writer, writing, interrupted, table, mClosed, remote, reader, keepAlive,
          mKeepAliveSent, registered, server, misdelivered, mSession>>

None == [local |-> 0, addr |-> 0, port |-> 0]

Nothing == [client |-> None, id |-> 0]

TypeOK ==
    /\ tun \in {"idle", "found", "added", "ended"}
    /\ mPacketQueue \in Seq(Clients \cup {NoData}) /\ permits \in 0..MaxPackets
    /\ writer \in {"start", "forward", "connect", "loop", "acquire", "write", "close", "closing", "ended"}
    /\ writing \in [client : Clients \cup {None}, id : 0..MAX_CLIENT_ID] /\ interrupted \in BOOLEAN
    /\ mUDPClients \in Seq(Clients) /\ Len(mUDPClients) <= MAX_CLIENT_ID + 1
    /\ mClientIdCounter \in 0..MAX_CLIENT_ID
    /\ mClosed \in BOOLEAN /\ mSession \in BOOLEAN /\ socket \in {"none", "open", "closed"} /\ forwarded \in BOOLEAN
    /\ reader \in {"none", "running", "close", "closing", "ended"}
    /\ keepAlive \in {"running", "close", "closing", "ended"}
    /\ mKeepAliveSent \in BOOLEAN /\ registered \in BOOLEAN
    /\ DOMAIN conns \subseteq 0..MAX_CLIENT_ID
    /\ answers \in Seq([id : 0..MAX_CLIENT_ID, client : Clients])
    /\ misdelivered \in BOOLEAN /\ reused \in BOOLEAN
    /\ packets \in 0..MaxPackets /\ answered \in 0..MaxAnswers

\* The constructor puts the first packet into the queue and starts the
\* KeepAliveThread; the table and the thread follow.
Init ==
    /\ tun = "idle" /\ packets = 1
    /\ mPacketQueue \in {<<c>> : c \in Clients} /\ permits = 0
    /\ writer = "start" /\ writing = Nothing /\ interrupted = FALSE
    /\ mUDPClients = <<>> /\ mClientIdCounter = 0 /\ reused = FALSE
    /\ mSession \in BOOLEAN /\ mClosed = FALSE /\ socket = "none" /\ forwarded = FALSE
    /\ reader = "none" /\ keepAlive = "running" /\ mKeepAliveSent = FALSE
    /\ registered = TRUE
    /\ conns = [i \in {} |-> None] /\ answers = <<>> /\ answered = 0
    /\ misdelivered = FALSE

-------------------------------------------------------------------------------
(* close(), in two halves, run by the thread that calls it.                *)

CloseBegin ==
    /\ mClosed' = TRUE
    /\ socket' = IF socket = "none" THEN "none" ELSE "closed"

\* stopLocalPortForwarding and removeChannel, which interrupts the channel's thread.
\* Without a Session the former is a NullPointerException, which ends the thread.
CloseEnd ==
    \/ /\ mSession
       /\ forwarded' = FALSE
       /\ registered' = FALSE
       /\ interrupted' = (interrupted \/ registered)
    \/ ~mSession /\ UNCHANGED <<forwarded, registered, interrupted>>

-------------------------------------------------------------------------------
(* The tun reader: sendToRemoteServer finds the channel, finds it again    *)
(* and calls onNewPacket.                                                  *)

Find ==
    /\ tun = "idle" /\ registered
    /\ packets < MaxPackets /\ packets' = packets + 1
    /\ tun' = "found"
    /\ UNCHANGED <<queue, writer, writing, interrupted, table, mClosed, remote, reader, keepAlive,
                   mKeepAliveSent, registered, server, misdelivered, mSession>>

\* The second look-up may find the channel gone: requireNonNull throws.
Add ==
    /\ tun = "found"
    /\ \/ registered /\ tun' = "added"
          /\ \E p \in Clients \cup {NoData} : mPacketQueue' = Append(mPacketQueue, p)
       \/ ~registered /\ tun' = "ended" /\ UNCHANGED mPacketQueue
    /\ UNCHANGED <<packets, permits, writer, writing, interrupted, table, mClosed, remote,
                   reader, keepAlive, mKeepAliveSent, registered, server, misdelivered, mSession>>

\* Mutant: the packet is added and no permit released.
ReleaseNot ==
    /\ tun = "added" /\ tun' = "idle"
    /\ UNCHANGED <<packets, queue, writer, writing, interrupted, table, mClosed, remote,
                   reader, keepAlive, mKeepAliveSent, registered, server, misdelivered, mSession>>

Release ==
    /\ tun = "added" /\ tun' = "idle"
    /\ permits' = permits + 1
    /\ UNCHANGED <<packets, mPacketQueue, writer, writing, interrupted, table, mClosed,
                   remote, reader, keepAlive, mKeepAliveSent, registered, server, misdelivered, mSession>>

-------------------------------------------------------------------------------
(* The channel's thread.                                                   *)

\* isConnected(), startLocalPortForwarding
Start ==
    /\ writer = "start"
    /\ writer' = "ended" \/ (mSession /\ writer' = "forward")
    /\ UNCHANGED <<input, queue, writing, interrupted, table, mClosed, remote, reader, keepAlive,
                   mKeepAliveSent, registered, server, misdelivered, mSession>>

Forward ==
    /\ writer = "forward"
    /\ \/ writer' = "connect" /\ forwarded' = TRUE
       \/ writer' = "close" /\ UNCHANGED forwarded
    /\ UNCHANGED <<input, queue, writing, interrupted, table, mClosed, socket, reader, keepAlive,
                   mKeepAliveSent, registered, server, misdelivered, mSession>>

\* The socket, and the ReaderThread
Connect ==
    /\ writer = "connect"
    /\ \/ forwarded /\ writer' = "loop" /\ socket' = "open" /\ reader' = "running"
       \/ writer' = "close" /\ socket' \in {"none", "closed"} /\ UNCHANGED reader
    /\ UNCHANGED <<input, queue, writing, interrupted, table, mClosed, forwarded, keepAlive,
                   mKeepAliveSent, registered, server, misdelivered, mSession>>

\* The index of client c in mUDPClients, from 0
IndexOf(c) == CHOOSE i \in 0..(Len(mUDPClients) - 1) : mUDPClients[i + 1] = c

\* Mutant: the table is searched by identity, and every packet has a new object.
KnownByIdentity(c) == FALSE

\* equals(): both end points are the same
Known(c) == \E i \in DOMAIN mUDPClients : mUDPClients[i] = c

\* Mutant: the counter wraps one too late.
NextIdLate(i) == IF i > MAX_CLIENT_ID THEN 0 ELSE i + 1

NextId(i) == IF i + 1 > MAX_CLIENT_ID THEN 0 ELSE i + 1

\* Mutant: a new client is written with the id the next one will get.
generateUdpgwPacketNext(c) ==
    \/ /\ Known(c)
       /\ writing' = [client |-> c, id |-> IndexOf(c)] /\ UNCHANGED table
    \/ /\ ~Known(c)
       /\ mUDPClients' = IF Len(mUDPClients) > mClientIdCounter
                         THEN [mUDPClients EXCEPT ![mClientIdCounter + 1] = c]
                         ELSE Append(mUDPClients, c)
       /\ reused' = (reused \/ Len(mUDPClients) > mClientIdCounter)
       /\ writing' = [client |-> c, id |-> NextId(mClientIdCounter)]
       /\ mClientIdCounter' = NextId(mClientIdCounter)

\* A known client keeps its id; a new one takes the next, round-robin.
generateUdpgwPacket(c) ==
    \/ /\ Known(c)
       /\ writing' = [client |-> c, id |-> IndexOf(c)] /\ UNCHANGED table
    \/ /\ ~Known(c)
       /\ mUDPClients' = IF Len(mUDPClients) > mClientIdCounter
                         THEN [mUDPClients EXCEPT ![mClientIdCounter + 1] = c]
                         ELSE Append(mUDPClients, c)
       /\ reused' = (reused \/ Len(mUDPClients) > mClientIdCounter)
       /\ writing' = [client |-> c, id |-> mClientIdCounter]
       /\ mClientIdCounter' = NextId(mClientIdCounter)

\* One round of the loop, up to a blocking call
Loop ==
    /\ writer = "loop"
    /\ \/ mClosed /\ writer' = "close" /\ UNCHANGED <<mPacketQueue, writing, table>>
       \/ /\ ~mClosed /\ mPacketQueue = <<>>
          /\ writer' = "acquire" /\ UNCHANGED <<mPacketQueue, writing, table>>
       \/ /\ ~mClosed /\ mPacketQueue # <<>>
          /\ mPacketQueue' = Tail(mPacketQueue)
          /\ \/ Head(mPacketQueue) = NoData /\ UNCHANGED <<writer, writing, table>>
             \/ /\ Head(mPacketQueue) # NoData
                /\ generateUdpgwPacket(Head(mPacketQueue)) /\ writer' = "write"
    /\ UNCHANGED <<input, permits, interrupted, mClosed, remote, reader, keepAlive,
                   mKeepAliveSent, registered, server, misdelivered, mSession>>

\* writerLock.acquire()
Acquire ==
    /\ writer = "acquire"
    /\ \/ permits > 0 /\ ~interrupted /\ permits' = permits - 1 /\ writer' = "loop"
          /\ UNCHANGED interrupted
       \/ interrupted /\ interrupted' = FALSE /\ writer' = "close" /\ UNCHANGED permits
    /\ UNCHANGED <<input, mPacketQueue, writing, table, mClosed, remote, reader, keepAlive,
                   mKeepAliveSent, registered, server, misdelivered, mSession>>

\* The server opens a connection for a new client, and forgets the one that had
\* the id before.
Write ==
    /\ writer = "write" /\ writing' = Nothing
    /\ \/ /\ socket = "open" /\ writer' = "loop" /\ mKeepAliveSent' = FALSE
          /\ conns' = [i \in DOMAIN conns \cup {writing.id} |->
                        IF i = writing.id THEN writing.client ELSE conns[i]]
       \/ writer' = "close" /\ UNCHANGED <<mKeepAliveSent, conns>>
    /\ UNCHANGED <<input, queue, interrupted, table, mClosed, remote, reader, keepAlive,
                   registered, answers, answered, misdelivered, mSession>>

WriterCloses ==
    \/ /\ writer = "close" /\ writer' = "closing" /\ CloseBegin
       /\ UNCHANGED <<forwarded, registered, interrupted>>
    \/ /\ writer = "closing" /\ writer' = "ended" /\ CloseEnd
       /\ UNCHANGED <<mClosed, socket>>

WriterClose ==
    /\ WriterCloses
    /\ UNCHANGED <<input, queue, writing, table, reader, keepAlive, mKeepAliveSent, server, misdelivered, mSession>>

Run == Start \/ Forward \/ Connect \/ Loop \/ Acquire \/ Write \/ WriterClose

-------------------------------------------------------------------------------
(* The server, and the ReaderThread.                                       *)

ServerAnswers ==
    /\ socket = "open"
    /\ answered < MaxAnswers /\ answered' = answered + 1
    /\ \E i \in DOMAIN conns : answers' = Append(answers, [id |-> i, client |-> conns[i]])
    /\ UNCHANGED <<input, queue, writer, writing, interrupted, table, mClosed, remote, reader,
                   keepAlive, mKeepAliveSent, registered, conns, misdelivered, mSession>>

\* A byte as Java reads it
Signed(b) == IF b >= ByteHalf THEN b - 2 * ByteHalf ELSE b

\* The answer's id is negative, or nobody has it: mUDPClients.get throws.
NoClient(a) == Signed(a.id) \notin 0..(Len(mUDPClients) - 1)

\* createUDPPacket drops an answer if the address and the port are both another client's.
createUDPPacket(a) ==
    LET client == mUDPClients[Signed(a.id) + 1]
    IN  IF client.addr # a.client.addr /\ client.port # a.client.port
        THEN UNCHANGED misdelivered
        ELSE misdelivered' = (misdelivered \/ client # a.client)

\* One read: the first answer in the buffer is handled, others in it are lost.  A
\* length byte that Java takes as negative is an exception too.
Read ==
    /\ reader = "running"
    /\ answers # <<>> /\ socket = "open" /\ ~mClosed
    /\ \E k \in DOMAIN answers : answers' = SubSeq(answers, k + 1, Len(answers))
    /\ \E long \in BOOLEAN :
        \/ /\ long \/ NoClient(Head(answers))
           /\ reader' = "close" /\ UNCHANGED misdelivered
        \/ /\ ~long /\ ~NoClient(Head(answers))
           /\ createUDPPacket(Head(answers)) /\ UNCHANGED reader
    /\ UNCHANGED <<input, queue, writer, writing, interrupted, table, mClosed, remote, keepAlive,
                   mKeepAliveSent, registered, conns, answered, mSession>>

\* The connection ends or is closed, or mClosed is set.
ReadEnds ==
    /\ reader = "running" /\ reader' = "close"
    /\ UNCHANGED <<input, queue, writer, writing, interrupted, table, mClosed, remote, keepAlive,
                   mKeepAliveSent, registered, server, misdelivered, mSession>>

ReaderClose ==
    /\ \/ /\ reader = "close" /\ reader' = "closing" /\ CloseBegin
          /\ UNCHANGED <<forwarded, registered, interrupted>>
       \/ /\ reader = "closing" /\ reader' = "ended" /\ CloseEnd
          /\ UNCHANGED <<mClosed, socket>>
    /\ UNCHANGED <<input, queue, writer, writing, table, keepAlive, mKeepAliveSent, server, misdelivered, mSession>>

-------------------------------------------------------------------------------
(* The KeepAliveThread: an interval has passed without a reset.            *)

\* Mutant: doWork resets the timer although it could not write.
KeepAliveAlwaysResets ==
    /\ keepAlive = "running"
    /\ \/ /\ ~mKeepAliveSent /\ UNCHANGED keepAlive
          /\ mKeepAliveSent' = (socket = "none")
       \/ mKeepAliveSent /\ keepAlive' = "close" /\ UNCHANGED mKeepAliveSent
    /\ UNCHANGED <<input, queue, writer, writing, interrupted, table, mClosed, remote, reader,
                   registered, server, misdelivered, mSession>>

\* doWork resets the flag if it could write; the second time in a row it is onTimeOut.
KeepAlive ==
    /\ keepAlive = "running"
    /\ \/ /\ ~mKeepAliveSent /\ UNCHANGED keepAlive
          /\ mKeepAliveSent' \in {socket # "open", TRUE}
       \/ mKeepAliveSent /\ keepAlive' = "close" /\ UNCHANGED mKeepAliveSent
    /\ UNCHANGED <<input, queue, writer, writing, interrupted, table, mClosed, remote, reader,
                   registered, server, misdelivered, mSession>>

KeepAliveClose ==
    /\ \/ /\ keepAlive = "close" /\ keepAlive' = "closing" /\ CloseBegin
          /\ UNCHANGED <<forwarded, registered, interrupted>>
       \/ /\ keepAlive = "closing" /\ keepAlive' = "ended" /\ CloseEnd
          /\ UNCHANGED <<mClosed, socket>>
    /\ UNCHANGED <<input, queue, writer, writing, table, reader, mKeepAliveSent, server, misdelivered, mSession>>

-------------------------------------------------------------------------------
Next ==
    \/ Find \/ Add \/ Release
    \/ Run
    \/ ServerAnswers \/ Read \/ ReadEnds \/ ReaderClose
    \/ KeepAlive \/ KeepAliveClose

\* The threads run.  What is assumed of the connection: a closed socket ends the
\* read, and mRemoteOut.write() returns, or throws, also when the other end takes
\* nothing any more.  (A writer that stays in it holds mRemoteOutLock: the
\* KeepAliveThread waits for that lock then, and nobody closes the channel.)  As
\* long as the socket is open, the keep-alive may be written every time.
Fairness ==
    /\ WF_vars(Add \/ Release)
    /\ WF_vars(Run)
    /\ WF_vars(ReaderClose) /\ WF_vars((socket = "closed" \/ mClosed) /\ ReadEnds)
    /\ WF_vars((socket # "open" \/ mKeepAliveSent) /\ KeepAlive) /\ WF_vars(KeepAliveClose)

Spec == Init /\ [][Next]_vars
FairSpec == Spec /\ Fairness
-------------------------------------------------------------------------------
(* Properties.                                                             *)

\* An answer is delivered to the client that asked for it, as long as no id was
\* given to a second client: the ids the writer hands out, the server's
\* connections and the table the ReaderThread looks into agree at all times.
AnswerGoesToItsClient == misdelivered => reused

\* However often ids are reused, a client has one id at a time.
OneIdPerClient ==
    \A i, j \in DOMAIN mUDPClients : mUDPClients[i] = mUDPClients[j] => i = j

\* No wake-up is lost between onNewPacket and the writer, which looks at the queue
\* before it waits for a permit: a queued packet is taken or the channel closed.
QueuedIsTaken == mPacketQueue # <<>> ~> mPacketQueue = <<>> \/ mClosed

\* A channel of a RemoteConnection that has a Session (without one close() throws)
\* which any of its threads has closed, or that could not connect, is
\* forgotten by the table, gives back its port and its socket, and all of its
\* threads end.  The KeepAliveThread is the last: nobody stops it, it ends because
\* it can no longer write.
ClosedEnds ==
    mSession /\ (mClosed \/ writer = "ended") ~>
        /\ ~registered /\ ~forwarded /\ socket # "open"
        /\ writer = "ended" /\ reader \in {"none", "ended"} /\ keepAlive = "ended"
===============================================================================
