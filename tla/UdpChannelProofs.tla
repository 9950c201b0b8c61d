--------------------------- MODULE UdpChannelProofs ---------------------------
(***************************************************************************)
(* Proofs about UdpChannel, for any set of clients, any number of ids and  *)
(* any number of packets and answers.                                      *)
(***************************************************************************)
EXTENDS UdpChannel, SequenceTheorems, TLAPS

\* The table has client c at id i.
Agrees(i, c) == i + 1 \in DOMAIN mUDPClients /\ mUDPClients[i + 1] = c

\* An answer on its way
AnswerType == [id : 0..MAX_CLIENT_ID, client : Clients]

\* A permit stands for a packet of its own, also while onNewPacket is between
\* add() and release().
PermitInv ==
    IF tun \in {"found", "added"} THEN permits + 1 <= packets ELSE permits <= packets

\* What is written, and what the server remembers, are clients.
ClientInv ==
    /\ writer = "write" => writing.client \in Clients
    /\ \A i \in DOMAIN conns : conns[i] \in Clients

\* The next id is that of an entry, or of the one that will be appended.
CounterInv == mClientIdCounter <= Len(mUDPClients)

\* Until an id is reused, the packet being written, the server's connections and
\* the answers under way name a client by the id the table has it under.
IdsInv ==
    ~reused =>
        /\ writer = "write" => Agrees(writing.id, writing.client)
        /\ \A i \in DOMAIN conns : Agrees(i, conns[i])
        /\ \A k \in DOMAIN answers : Agrees(answers[k].id, answers[k].client)
        /\ ~misdelivered

Inv == TypeOK /\ PermitInv /\ ClientInv /\ CounterInv /\ OneIdPerClient /\ IdsInv

-------------------------------------------------------------------------------
\* A known client has an index, which is its place in the table.
LEMMA IndexOfKnown ==
    ASSUME NEW c, mUDPClients \in Seq(Clients), Known(c)
    PROVE  IndexOf(c) \in 0..(Len(mUDPClients) - 1) /\ mUDPClients[IndexOf(c) + 1] = c
<1>1. PICK j \in DOMAIN mUDPClients : mUDPClients[j] = c
    BY DEF Known
<1>2. j - 1 \in 0..(Len(mUDPClients) - 1) /\ mUDPClients[(j - 1) + 1] = c
    BY <1>1
<1>3. \E i \in 0..(Len(mUDPClients) - 1) : mUDPClients[i + 1] = c
    BY <1>2
<1> QED BY <1>3 DEF IndexOf

\* The elements of a sequence that has grown ...
LEMMA AppendedSequence ==
    ASSUME NEW T, NEW s \in Seq(T), NEW e \in T
    PROVE  /\ Append(s, e) \in Seq(T)
           /\ \A k \in DOMAIN Append(s, e) :
                Append(s, e)[k] = e \/ (k \in DOMAIN s /\ Append(s, e)[k] = s[k])
<1>1. Append(s, e) \in Seq(T) /\ Len(Append(s, e)) = Len(s) + 1
    BY AppendProperties
<1>2. ASSUME NEW k \in DOMAIN Append(s, e)
      PROVE  Append(s, e)[k] = e \/ (k \in DOMAIN s /\ Append(s, e)[k] = s[k])
    <2>1. k \in 1..(Len(s) + 1)
        BY <1>1
    <2>2. CASE k = Len(s) + 1
        <3>1. Append(s, e)[Len(s) + 1] = e
            BY AppendProperties
        <3> QED BY <2>2, <3>1
    <2>3. CASE k \in 1..Len(s)
        BY <2>3, AppendProperties
    <2> QED BY <2>1, <2>2, <2>3
<1> QED BY <1>1, <1>2

\* ... and of one that has lost its first elements
LEMMA RestOfSequence ==
    ASSUME NEW T, NEW s \in Seq(T), NEW k \in DOMAIN s
    PROVE  /\ SubSeq(s, k + 1, Len(s)) \in Seq(T)
           /\ \A j \in DOMAIN SubSeq(s, k + 1, Len(s)) :
                k + j \in DOMAIN s /\ SubSeq(s, k + 1, Len(s))[j] = s[k + j]
    OBVIOUS

\* The state the table is in before a packet of client c is written
TableOK ==
    /\ mUDPClients \in Seq(Clients) /\ Len(mUDPClients) <= MAX_CLIENT_ID + 1
    /\ mClientIdCounter \in 0..MAX_CLIENT_ID
    /\ CounterInv /\ OneIdPerClient /\ reused \in BOOLEAN

\* generateUdpgwPacket keeps the table in order, writes an id the table has the
\* client under, and moves no client unless it reuses an id.
LEMMA PacketHasItsId ==
    ASSUME NEW c \in Clients, TableOK, generateUdpgwPacket(c)
    PROVE  /\ TableOK'
           /\ writing' \in [client : Clients, id : 0..MAX_CLIENT_ID]
           /\ Agrees(writing.id, writing.client)'
           /\ reused => reused'
           /\ ~reused' => \A i, d : Agrees(i, d) => Agrees(i, d)'
<1> USE UdpAssumption
<1>1. CASE Known(c) /\ writing' = [client |-> c, id |-> IndexOf(c)] /\ UNCHANGED table
    <2>1. IndexOf(c) \in 0..(Len(mUDPClients) - 1) /\ mUDPClients[IndexOf(c) + 1] = c
        BY <1>1, IndexOfKnown DEF TableOK
    <2>2. TableOK' /\ (reused' <=> reused) /\ mUDPClients' = mUDPClients
        BY <1>1 DEF TableOK, table, CounterInv, OneIdPerClient
    <2>3. IndexOf(c) \in 0..MAX_CLIENT_ID /\ IndexOf(c) + 1 \in DOMAIN mUDPClients
        BY <2>1 DEF TableOK
    <2> QED BY <1>1, <2>1, <2>2, <2>3 DEF Agrees
<1>2. CASE /\ ~Known(c)
           /\ mUDPClients' = IF Len(mUDPClients) > mClientIdCounter
                             THEN [mUDPClients EXCEPT ![mClientIdCounter + 1] = c]
                             ELSE Append(mUDPClients, c)
           /\ reused' = (reused \/ Len(mUDPClients) > mClientIdCounter)
           /\ writing' = [client |-> c, id |-> mClientIdCounter]
           /\ mClientIdCounter' = NextId(mClientIdCounter)
    <2>1. mClientIdCounter' \in 0..MAX_CLIENT_ID /\ mClientIdCounter' <= mClientIdCounter + 1
        BY <1>2 DEF TableOK, NextId
    <2>2. writing' \in [client : Clients, id : 0..MAX_CLIENT_ID]
        BY <1>2 DEF TableOK
    <2>3. \A k \in DOMAIN mUDPClients : mUDPClients[k] # c
        BY <1>2 DEF Known
    <2>4. \A k, l \in DOMAIN mUDPClients : mUDPClients[k] = mUDPClients[l] => k = l
        BY DEF TableOK, OneIdPerClient
    <2>5. CASE Len(mUDPClients) > mClientIdCounter
        <3>1. mUDPClients' = [mUDPClients EXCEPT ![mClientIdCounter + 1] = c]
            BY <1>2, <2>5
        <3>2. /\ mUDPClients' \in Seq(Clients) /\ Len(mUDPClients') = Len(mUDPClients)
              /\ mClientIdCounter + 1 \in DOMAIN mUDPClients
              /\ \A j \in DOMAIN mUDPClients :
                    mUDPClients'[j] = IF j = mClientIdCounter + 1 THEN c ELSE mUDPClients[j]
            BY <2>5, <3>1 DEF TableOK
        <3>3. OneIdPerClient'
            <4> SUFFICES ASSUME NEW i \in DOMAIN mUDPClients', NEW j \in DOMAIN mUDPClients',
                                mUDPClients'[i] = mUDPClients'[j]
                         PROVE  i = j
                BY DEF OneIdPerClient
            <4>1. i \in DOMAIN mUDPClients /\ j \in DOMAIN mUDPClients
                BY <3>1
            <4> QED BY <2>3, <2>4, <3>2, <4>1
        <3>4. reused' = TRUE
            BY <1>2, <2>5
        <3>5. CounterInv'
            BY <2>1, <2>5, <3>2 DEF TableOK, CounterInv
        <3>6. Agrees(writing.id, writing.client)'
            BY <1>2, <3>2 DEF Agrees
        <3> QED BY <2>1, <2>2, <3>2, <3>3, <3>4, <3>5, <3>6 DEF TableOK
    <2>6. CASE ~(Len(mUDPClients) > mClientIdCounter)
        <3>1. mUDPClients' = Append(mUDPClients, c) /\ Len(mUDPClients) = mClientIdCounter
            BY <1>2, <2>6 DEF TableOK, CounterInv
        <3>2. /\ mUDPClients' \in Seq(Clients) /\ Len(mUDPClients') = Len(mUDPClients) + 1
              /\ \A j \in DOMAIN mUDPClients : mUDPClients'[j] = mUDPClients[j]
              /\ mUDPClients'[mClientIdCounter + 1] = c
            BY <3>1, AppendProperties DEF TableOK
        <3>3. OneIdPerClient'
            <4> SUFFICES ASSUME NEW i \in DOMAIN mUDPClients', NEW j \in DOMAIN mUDPClients',
                                mUDPClients'[i] = mUDPClients'[j]
                         PROVE  i = j
                BY DEF OneIdPerClient
            <4>1. /\ i \in DOMAIN mUDPClients \/ i = mClientIdCounter + 1
                  /\ j \in DOMAIN mUDPClients \/ j = mClientIdCounter + 1
                BY <3>1, <3>2 DEF TableOK
            <4> QED BY <2>3, <2>4, <3>2, <4>1
        <3>4. reused' = reused
            BY <1>2, <2>6 DEF TableOK
        <3>5. CounterInv'
            BY <2>1, <3>1, <3>2 DEF TableOK, CounterInv
        <3>6. Agrees(writing.id, writing.client)'
            BY <1>2, <3>1, <3>2 DEF Agrees, TableOK
        <3>7. \A i, d : Agrees(i, d) => Agrees(i, d)'
            <4> SUFFICES ASSUME NEW i, NEW d, Agrees(i, d) PROVE Agrees(i, d)'
                OBVIOUS
            <4> QED BY <3>1, <3>2 DEF Agrees, TableOK
        <3>8. Len(mUDPClients') <= MAX_CLIENT_ID + 1
            BY <3>1, <3>2 DEF TableOK
        <3> QED BY <2>1, <2>2, <3>2, <3>3, <3>4, <3>5, <3>6, <3>7, <3>8 DEF TableOK
    <2> QED BY <2>5, <2>6
<1> QED BY <1>1, <1>2 DEF generateUdpgwPacket

-------------------------------------------------------------------------------
\* The steps that hand out no id, write nothing and take no answer leave the part
\* of the invariant about clients and ids as it is.
LEMMA IdsFrame ==
    ASSUME ClientInv, CounterInv, OneIdPerClient, IdsInv,
           UNCHANGED <<table, writing, conns, answers, misdelivered>>,
           writer' = "write" => writer = "write"
    PROVE  ClientInv' /\ CounterInv' /\ OneIdPerClient' /\ IdsInv'
<1>1. ClientInv'
    BY DEF ClientInv
<1>2. CounterInv' /\ OneIdPerClient'
    BY DEF CounterInv, OneIdPerClient, table
<1>3. IdsInv'
    BY DEF IdsInv, Agrees, table
<1> QED BY <1>1, <1>2, <1>3

\* The constructor establishes the invariant.
LEMMA InitInv == Init => Inv
<1> SUFFICES ASSUME Init PROVE Inv
    OBVIOUS
<1> USE UdpAssumption
<1>1. mPacketQueue \in Seq(Clients \cup {NoData})
    <2>1. PICK c \in Clients : mPacketQueue = <<c>>
        BY Zenon DEF Init
    <2> QED BY <2>1
<1>2. writing \in [client : Clients \cup {None}, id : 0..MAX_CLIENT_ID]
    BY DEF Init, Nothing
<1>3. mUDPClients \in Seq(Clients) /\ Len(mUDPClients) <= MAX_CLIENT_ID + 1
    BY DEF Init
<1>4. answers \in Seq([id : 0..MAX_CLIENT_ID, client : Clients]) /\ DOMAIN conns \subseteq 0..MAX_CLIENT_ID
    BY DEF Init
<1>5. TypeOK
    <2>1. permits \in 0..MaxPackets /\ packets \in 0..MaxPackets /\ answered \in 0..MaxAnswers
        BY DEF Init
    <2>2. mClientIdCounter \in 0..MAX_CLIENT_ID
        BY DEF Init
    <2>3. /\ interrupted \in BOOLEAN /\ mClosed \in BOOLEAN /\ mSession \in BOOLEAN /\ forwarded \in BOOLEAN
          /\ mKeepAliveSent \in BOOLEAN /\ registered \in BOOLEAN
          /\ misdelivered \in BOOLEAN /\ reused \in BOOLEAN
        BY DEF Init
    <2>4. /\ tun = "idle" /\ writer = "start" /\ socket = "none" /\ reader = "none"
          /\ keepAlive = "running"
        BY DEF Init
    <2> QED BY <1>1, <1>2, <1>3, <1>4, <2>1, <2>2, <2>3, <2>4, Zenon DEF TypeOK
<1>6. PermitInv /\ ClientInv /\ CounterInv /\ OneIdPerClient
    BY DEF Init, PermitInv, ClientInv, CounterInv, OneIdPerClient
<1>7. IdsInv
    BY DEF Init, IdsInv
<1> QED BY <1>5, <1>6, <1>7 DEF Inv

\* Either half of close()
CloseStep ==
    \/ CloseBegin /\ UNCHANGED <<forwarded, registered, interrupted>>
    \/ CloseEnd /\ UNCHANGED <<mClosed, socket>>

\* Either half keeps the types of what it touches.
LEMMA CloseType ==
    ASSUME TypeOK, CloseStep
    PROVE  /\ mClosed' \in BOOLEAN /\ forwarded' \in BOOLEAN /\ registered' \in BOOLEAN
           /\ interrupted' \in BOOLEAN /\ socket' \in {"none", "open", "closed"}
<1>1. CASE CloseBegin /\ UNCHANGED <<forwarded, registered, interrupted>>
    BY <1>1 DEF CloseBegin, TypeOK
<1>2. CASE CloseEnd /\ UNCHANGED <<mClosed, socket>>
    BY <1>2, Zenon DEF CloseEnd, TypeOK
<1> QED BY <1>1, <1>2 DEF CloseStep

\* The steps of the tun reader keep the invariant: a packet is counted before its
\* permit is released.
LEMMA FindInv == Inv /\ Find => Inv'
<1> SUFFICES ASSUME Inv, Find PROVE Inv'
    OBVIOUS
<1>1. TypeOK' /\ PermitInv'
    BY UdpAssumption DEF Inv, TypeOK, PermitInv, Find, input, queue, table, remote, server
<1>2. UNCHANGED <<table, writing, conns, answers, misdelivered>> /\ (writer' = "write" => writer = "write")
    BY DEF Find, input, queue, table, remote, server
<1> QED BY <1>1, <1>2, IdsFrame DEF Inv

\* ... onNewPacket adds,
LEMMA AddInv == Inv /\ Add => Inv'
<1> SUFFICES ASSUME Inv, Add PROVE Inv'
    OBVIOUS
<1>1. mPacketQueue' \in Seq(Clients \cup {NoData})
    <2>1. CASE mPacketQueue' = mPacketQueue
        BY <2>1 DEF Inv, TypeOK
    <2>2. CASE \E p \in Clients \cup {NoData} : mPacketQueue' = Append(mPacketQueue, p)
        BY <2>2, AppendProperties DEF Inv, TypeOK
    <2> QED BY <2>1, <2>2 DEF Add
<1>2. TypeOK' /\ PermitInv'
    BY <1>1, UdpAssumption DEF Inv, TypeOK, PermitInv, Add, input, queue, table, remote, server
<1>3. UNCHANGED <<table, writing, conns, answers, misdelivered>> /\ (writer' = "write" => writer = "write")
    BY DEF Add, input, queue, table, remote, server
<1> QED BY <1>2, <1>3, IdsFrame DEF Inv

\* ... and releases.
LEMMA ReleaseInv == Inv /\ Release => Inv'
<1> SUFFICES ASSUME Inv, Release PROVE Inv'
    OBVIOUS
<1>1. TypeOK' /\ PermitInv'
    BY UdpAssumption DEF Inv, TypeOK, PermitInv, Release, input, queue, table, remote, server
<1>2. UNCHANGED <<table, writing, conns, answers, misdelivered>> /\ (writer' = "write" => writer = "write")
    BY DEF Release, input, queue, table, remote, server
<1> QED BY <1>1, <1>2, IdsFrame DEF Inv

\* The writer's way to its loop: the session is connected,
LEMMA StartInv == Inv /\ Start => Inv'
<1> SUFFICES ASSUME Inv, Start PROVE Inv'
    OBVIOUS
<1>1. TypeOK' /\ PermitInv'
    BY UdpAssumption DEF Inv, TypeOK, PermitInv, Start, input, queue, table, remote, server
<1>2. UNCHANGED <<table, writing, conns, answers, misdelivered>> /\ (writer' = "write" => writer = "write")
    BY DEF Start, input, queue, table, remote, server
<1> QED BY <1>1, <1>2, IdsFrame DEF Inv

\* ... the port forwarded,
LEMMA ForwardInv == Inv /\ Forward => Inv'
<1> SUFFICES ASSUME Inv, Forward PROVE Inv'
    OBVIOUS
<1>1. forwarded' \in BOOLEAN
    BY Zenon DEF Inv, TypeOK, Forward
<1>2. TypeOK' /\ PermitInv'
    BY <1>1, UdpAssumption DEF Inv, TypeOK, PermitInv, Forward, input, queue, table, remote, server
<1>3. UNCHANGED <<table, writing, conns, answers, misdelivered>> /\ (writer' = "write" => writer = "write")
    BY DEF Forward, input, queue, table, remote, server
<1> QED BY <1>2, <1>3, IdsFrame DEF Inv

\* ... the socket connected.
LEMMA ConnectInv == Inv /\ Connect => Inv'
<1> SUFFICES ASSUME Inv, Connect PROVE Inv'
    OBVIOUS
<1>1. TypeOK' /\ PermitInv'
    BY UdpAssumption DEF Inv, TypeOK, PermitInv, Connect, input, queue, table, remote, server
<1>2. UNCHANGED <<table, writing, conns, answers, misdelivered>> /\ (writer' = "write" => writer = "write")
    BY DEF Connect, input, queue, table, remote, server
<1> QED BY <1>1, <1>2, IdsFrame DEF Inv

\* The writer waits for a permit.
LEMMA AcquireInv == Inv /\ Acquire => Inv'
<1> SUFFICES ASSUME Inv, Acquire PROVE Inv'
    OBVIOUS
<1>1. interrupted' \in BOOLEAN
    BY Zenon DEF Inv, TypeOK, Acquire
<1>2. TypeOK' /\ PermitInv'
    BY <1>1, UdpAssumption DEF Inv, TypeOK, PermitInv, Acquire, input, queue, table, remote, server
<1>3. UNCHANGED <<table, writing, conns, answers, misdelivered>> /\ (writer' = "write" => writer = "write")
    BY DEF Acquire, input, queue, table, remote, server
<1> QED BY <1>2, <1>3, IdsFrame DEF Inv

\* It closes the channel.
LEMMA WriterCloseInv == Inv /\ WriterClose => Inv'
<1> SUFFICES ASSUME Inv, WriterClose PROVE Inv'
    OBVIOUS
<1>1. CloseStep /\ writer' \in {"closing", "ended"}
    BY DEF WriterClose, WriterCloses, CloseStep
<1>2. /\ mClosed' \in BOOLEAN /\ forwarded' \in BOOLEAN /\ registered' \in BOOLEAN
      /\ interrupted' \in BOOLEAN /\ socket' \in {"none", "open", "closed"}
    BY <1>1, CloseType DEF Inv
<1>3. TypeOK' /\ PermitInv'
    BY <1>1, <1>2, UdpAssumption
    DEF Inv, TypeOK, PermitInv, WriterClose, WriterCloses, input, queue, table, server
<1>4. UNCHANGED <<table, writing, conns, answers, misdelivered>> /\ (writer' = "write" => writer = "write")
    BY <1>1 DEF WriterClose, WriterCloses, input, queue, table, server
<1> QED BY <1>3, <1>4, IdsFrame DEF Inv

\* The ReaderThread leaves its loop ...
LEMMA ReadEndsInv == Inv /\ ReadEnds => Inv'
<1> SUFFICES ASSUME Inv, ReadEnds PROVE Inv'
    OBVIOUS
<1>1. TypeOK' /\ PermitInv'
    BY UdpAssumption DEF Inv, TypeOK, PermitInv, ReadEnds, input, queue, table, remote, server
<1>2. UNCHANGED <<table, writing, conns, answers, misdelivered>> /\ (writer' = "write" => writer = "write")
    BY DEF ReadEnds, input, queue, table, remote, server
<1> QED BY <1>1, <1>2, IdsFrame DEF Inv

\* ... and closes the channel.
LEMMA ReaderCloseInv == Inv /\ ReaderClose => Inv'
<1> SUFFICES ASSUME Inv, ReaderClose PROVE Inv'
    OBVIOUS
<1>1. CloseStep /\ reader' \in {"closing", "ended"}
    BY DEF ReaderClose, CloseStep
<1>2. /\ mClosed' \in BOOLEAN /\ forwarded' \in BOOLEAN /\ registered' \in BOOLEAN
      /\ interrupted' \in BOOLEAN /\ socket' \in {"none", "open", "closed"}
    BY <1>1, CloseType DEF Inv
<1>3. TypeOK' /\ PermitInv'
    BY <1>1, <1>2, UdpAssumption DEF Inv, TypeOK, PermitInv, ReaderClose, input, queue, table, server
<1>4. UNCHANGED <<table, writing, conns, answers, misdelivered>> /\ (writer' = "write" => writer = "write")
    BY <1>1 DEF ReaderClose, input, queue, table, server
<1> QED BY <1>3, <1>4, IdsFrame DEF Inv

\* The KeepAliveThread writes or gives up ...
LEMMA KeepAliveInv == Inv /\ KeepAlive => Inv'
<1> SUFFICES ASSUME Inv, KeepAlive PROVE Inv'
    OBVIOUS
<1>1. mKeepAliveSent' \in BOOLEAN
    <2>1. CASE mKeepAliveSent' = mKeepAliveSent
        BY <2>1 DEF Inv, TypeOK
    <2>2. CASE mKeepAliveSent' \in {socket # "open", TRUE}
        BY <2>2, Zenon
    <2> QED BY <2>1, <2>2 DEF KeepAlive
<1>2. TypeOK' /\ PermitInv'
    <2>1. keepAlive' \in {keepAlive, "close"}
        BY DEF KeepAlive
    <2>2. UNCHANGED <<input, queue, writer, writing, interrupted, table, mClosed, remote, reader,
                      registered, server, misdelivered, mSession>>
        BY DEF KeepAlive
    <2> QED BY <1>1, <2>1, <2>2 DEF Inv, TypeOK, PermitInv, input, queue, table, remote, server
<1>3. UNCHANGED <<table, writing, conns, answers, misdelivered>> /\ (writer' = "write" => writer = "write")
    BY DEF KeepAlive, input, queue, table, remote, server
<1> QED BY <1>2, <1>3, IdsFrame DEF Inv

\* ... and closes the channel.
LEMMA KeepAliveCloseInv == Inv /\ KeepAliveClose => Inv'
<1> SUFFICES ASSUME Inv, KeepAliveClose PROVE Inv'
    OBVIOUS
<1>1. CloseStep /\ keepAlive' \in {"closing", "ended"}
    BY DEF KeepAliveClose, CloseStep
<1>2. /\ mClosed' \in BOOLEAN /\ forwarded' \in BOOLEAN /\ registered' \in BOOLEAN
      /\ interrupted' \in BOOLEAN /\ socket' \in {"none", "open", "closed"}
    BY <1>1, CloseType DEF Inv
<1>3. TypeOK' /\ PermitInv'
    BY <1>1, <1>2, UdpAssumption DEF Inv, TypeOK, PermitInv, KeepAliveClose, input, queue, table, server
<1>4. UNCHANGED <<table, writing, conns, answers, misdelivered>> /\ (writer' = "write" => writer = "write")
    BY <1>1 DEF KeepAliveClose, input, queue, table, server
<1> QED BY <1>3, <1>4, IdsFrame DEF Inv

\* The writer takes a packet: only here an id is handed out.
LEMMA LoopInv == Inv /\ Loop => Inv'
<1> SUFFICES ASSUME Inv, Loop PROVE Inv'
    OBVIOUS
<1>1. CASE /\ writer' \in {"close", "acquire", "loop"} /\ UNCHANGED <<writing, table>>
           /\ mPacketQueue' \in Seq(Clients \cup {NoData})
    <2>1. TypeOK' /\ PermitInv'
        BY <1>1 DEF Inv, TypeOK, PermitInv, Loop, input, table, remote, server
    <2>2. UNCHANGED <<table, writing, conns, answers, misdelivered>> /\ (writer' = "write" => writer = "write")
        BY <1>1 DEF Loop, server
    <2> QED BY <2>1, <2>2, IdsFrame DEF Inv
<1>2. CASE /\ mPacketQueue # <<>> /\ mPacketQueue' = Tail(mPacketQueue) /\ Head(mPacketQueue) # NoData
           /\ generateUdpgwPacket(Head(mPacketQueue)) /\ writer' = "write"
    <2>1. Head(mPacketQueue) \in Clients /\ mPacketQueue' \in Seq(Clients \cup {NoData})
        BY <1>2 DEF Inv, TypeOK
    <2>2. TableOK
        BY DEF Inv, TypeOK, TableOK
    <2>3. /\ TableOK'
          /\ writing' \in [client : Clients, id : 0..MAX_CLIENT_ID]
          /\ Agrees(writing.id, writing.client)'
          /\ reused => reused'
          /\ ~reused' => \A i, d : Agrees(i, d) => Agrees(i, d)'
        BY <1>2, <2>1, <2>2, PacketHasItsId
    <2>4. UNCHANGED <<input, permits, interrupted, mClosed, remote, reader, keepAlive,
                      mKeepAliveSent, registered, server, misdelivered, mSession>>
        BY DEF Loop
    <2>5. writing'.client \in Clients /\ writing' \in [client : Clients \cup {None}, id : 0..MAX_CLIENT_ID]
        BY <2>3
    <2>6. TypeOK' /\ PermitInv'
        BY <1>2, <2>1, <2>3, <2>4, <2>5
           DEF Inv, TypeOK, TableOK, PermitInv, input, remote, server
    <2>7. ClientInv'
        BY <2>4, <2>5 DEF Inv, ClientInv, server
    <2>8. IdsInv'
        <3> SUFFICES ASSUME ~reused' PROVE IdsInv'
            BY DEF IdsInv
        <3>1. ~reused
            BY <2>3
        <3>2. conns' = conns /\ answers' = answers /\ misdelivered' = misdelivered
            BY <2>4 DEF server
        <3>3. \A i \in DOMAIN conns : Agrees(i, conns[i])'
            <4> SUFFICES ASSUME NEW i \in DOMAIN conns PROVE Agrees(i, conns[i])'
                OBVIOUS
            <4>1. Agrees(i, conns[i])
                BY <3>1 DEF Inv, IdsInv
            <4> QED BY <2>3, <3>2, <4>1 DEF Agrees
        <3>4. \A k \in DOMAIN answers : Agrees(answers[k].id, answers[k].client)'
            <4> SUFFICES ASSUME NEW k \in DOMAIN answers
                         PROVE  Agrees(answers[k].id, answers[k].client)'
                OBVIOUS
            <4>1. Agrees(answers[k].id, answers[k].client)
                BY <3>1 DEF Inv, IdsInv
            <4> QED BY <2>3, <3>2, <4>1 DEF Agrees
        <3>5. ~misdelivered'
            BY <3>1, <3>2 DEF Inv, IdsInv
        <3> QED BY <2>3, <3>2, <3>3, <3>4, <3>5 DEF IdsInv
    <2> QED BY <2>3, <2>6, <2>7, <2>8 DEF Inv, TableOK
<1>3. CASE mPacketQueue # <<>> /\ mPacketQueue' = Tail(mPacketQueue) /\ UNCHANGED <<writer, writing, table>>
    <2>1. mPacketQueue' \in Seq(Clients \cup {NoData})
        BY <1>3 DEF Inv, TypeOK
    <2>2. writer' = "loop"
        BY <1>3 DEF Loop
    <2> QED BY <1>1, <1>3, <2>1, <2>2
<1>4. CASE writer' \in {"close", "acquire"} /\ UNCHANGED <<mPacketQueue, writing, table>>
    BY <1>1, <1>4 DEF Inv, TypeOK
<1> QED BY <1>2, <1>3, <1>4 DEF Loop

\* The server learns the client of the id that is written.
LEMMA WriteInv == Inv /\ Write => Inv'
<1> SUFFICES ASSUME Inv, Write PROVE Inv'
    OBVIOUS
<1> USE UdpAssumption
<1>1. /\ UNCHANGED <<input, queue, interrupted, table, mClosed, remote, reader, keepAlive,
                     registered, answers, answered, misdelivered, mSession>>
      /\ writing' = Nothing /\ writer = "write" /\ writer' \in {"loop", "close"}
    BY DEF Write
<1>2. writing.id \in 0..MAX_CLIENT_ID /\ writing.client \in Clients
    BY <1>1 DEF Inv, TypeOK, ClientInv
<1>3. \/ conns' = conns
      \/ conns' = [i \in DOMAIN conns \cup {writing.id} |->
                    IF i = writing.id THEN writing.client ELSE conns[i]]
    BY DEF Write
<1>4. /\ DOMAIN conns' \subseteq 0..MAX_CLIENT_ID
      /\ \A i \in DOMAIN conns' :
            \/ conns'[i] = writing.client /\ i = writing.id
            \/ i \in DOMAIN conns /\ conns'[i] = conns[i]
    <2>1. CASE conns' = conns
        BY <2>1 DEF Inv, TypeOK
    <2>2. CASE conns' = [i \in DOMAIN conns \cup {writing.id} |->
                          IF i = writing.id THEN writing.client ELSE conns[i]]
        <3>1. DOMAIN conns' = DOMAIN conns \cup {writing.id}
            BY <2>2
        <3>2. \A i \in DOMAIN conns' : conns'[i] = IF i = writing.id THEN writing.client ELSE conns[i]
            BY <2>2
        <3>3. DOMAIN conns \subseteq 0..MAX_CLIENT_ID
            BY DEF Inv, TypeOK
        <3>4. DOMAIN conns' \subseteq 0..MAX_CLIENT_ID
            BY <1>2, <3>1, <3>3, Zenon
        <3>5. ASSUME NEW i \in DOMAIN conns'
              PROVE  \/ conns'[i] = writing.client /\ i = writing.id
                     \/ i \in DOMAIN conns /\ conns'[i] = conns[i]
            BY <3>1, <3>2
        <3> QED BY <3>4, <3>5
    <2> QED BY <1>3, <2>1, <2>2
<1>5. mKeepAliveSent' \in BOOLEAN
    BY Zenon DEF Write, Inv, TypeOK
<1>6. writing' \in [client : Clients \cup {None}, id : 0..MAX_CLIENT_ID]
    BY <1>1 DEF Nothing
<1>7. TypeOK' /\ PermitInv'
    BY <1>1, <1>4, <1>5, <1>6 DEF Inv, TypeOK, PermitInv, input, queue, table, remote
<1>8. ClientInv'
    BY <1>1, <1>2, <1>4 DEF Inv, ClientInv
<1>9. CounterInv' /\ OneIdPerClient'
    BY <1>1 DEF Inv, CounterInv, OneIdPerClient, table
<1>10. IdsInv'
    BY <1>1, <1>4 DEF Inv, IdsInv, Agrees, table
<1> QED BY <1>7, <1>8, <1>9, <1>10 DEF Inv

\* An answer carries the id its client was written with.
LEMMA ServerAnswersInv == Inv /\ ServerAnswers => Inv'
<1> SUFFICES ASSUME Inv, ServerAnswers PROVE Inv'
    OBVIOUS
<1> USE UdpAssumption
<1>1. PICK i \in DOMAIN conns : answers' = Append(answers, [id |-> i, client |-> conns[i]])
    BY DEF ServerAnswers
<1> DEFINE a == [id |-> i, client |-> conns[i]]
<1>2. a \in AnswerType
    BY DEF Inv, TypeOK, ClientInv, AnswerType
<1>3. answers \in Seq(AnswerType)
    BY DEF Inv, TypeOK, AnswerType
<1> HIDE DEF a
<1>4. /\ answers' \in Seq(AnswerType)
      /\ \A k \in DOMAIN answers' : answers'[k] = a \/ (k \in DOMAIN answers /\ answers'[k] = answers[k])
    <2>1. answers' = Append(answers, a)
        BY <1>1 DEF a
    <2> QED BY <1>2, <1>3, <2>1, AppendedSequence
<1>5. TypeOK' /\ PermitInv'
    <2>1. answers' \in Seq([id : 0..MAX_CLIENT_ID, client : Clients])
        BY <1>4 DEF AnswerType
    <2> QED BY <2>1 DEF ServerAnswers, Inv, TypeOK, PermitInv, input, queue, table, remote
<1>6. ClientInv' /\ CounterInv' /\ OneIdPerClient'
    BY DEF ServerAnswers, Inv, ClientInv, CounterInv, OneIdPerClient, table
<1>7. IdsInv'
    <2> SUFFICES ASSUME ~reused' PROVE IdsInv'
        BY DEF IdsInv
    <2>1. UNCHANGED <<table, writer, writing, conns, misdelivered>> /\ ~reused
        BY DEF ServerAnswers, table
    <2>2. Agrees(a.id, a.client)
        BY <2>1 DEF Inv, IdsInv, a
    <2> QED BY <1>4, <2>1, <2>2 DEF Inv, IdsInv, Agrees, table
<1> QED BY <1>5, <1>6, <1>7 DEF Inv

\* The ReaderThread looks the first answer up: this is where it could go astray.
LEMMA ReadInv == Inv /\ Read => Inv'
<1> SUFFICES ASSUME Inv, Read PROVE Inv'
    OBVIOUS
<1> USE UdpAssumption
<1>1. PICK k \in DOMAIN answers : answers' = SubSeq(answers, k + 1, Len(answers))
    BY DEF Read
<1>2. answers \in Seq(AnswerType)
    BY DEF Inv, TypeOK, AnswerType
<1>3. /\ answers' \in Seq(AnswerType)
      /\ \A j \in DOMAIN answers' : k + j \in DOMAIN answers /\ answers'[j] = answers[k + j]
    BY <1>1, <1>2, RestOfSequence
<1>4. reader' \in {"running", "close"}
    BY DEF Read
<1>5. misdelivered' \in BOOLEAN
    BY Zenon DEF Read, createUDPPacket, Inv, TypeOK
<1>6. TypeOK' /\ PermitInv'
    <2>1. UNCHANGED <<input, queue, writer, writing, interrupted, table, mClosed, remote, keepAlive,
                      mKeepAliveSent, registered, conns, answered, mSession>>
        BY DEF Read
    <2>2. answers' \in Seq([id : 0..MAX_CLIENT_ID, client : Clients])
        BY <1>3 DEF AnswerType
    <2>3. TypeOK'
        <3>1. /\ UNCHANGED <<tun, mPacketQueue, permits, writer, writing, interrupted, mUDPClients,
                             mClientIdCounter, mClosed, socket, forwarded, keepAlive, mKeepAliveSent>>
              /\ UNCHANGED <<registered, conns, reused, packets, answered, mSession>>
            BY <2>1 DEF input, queue, table, remote
        <3>2. reader' \in {"none", "running", "close", "closing", "ended"}
            BY <1>4
        <3> QED BY <1>5, <2>2, <3>1, <3>2 DEF Inv, TypeOK
    <2>4. PermitInv'
        BY <2>1 DEF Inv, PermitInv, input, queue
    <2> QED BY <2>3, <2>4
<1>7. ClientInv' /\ CounterInv' /\ OneIdPerClient'
    BY DEF Read, Inv, ClientInv, CounterInv, OneIdPerClient, table
<1>8. IdsInv'
    <2> SUFFICES ASSUME ~reused' PROVE IdsInv'
        BY DEF IdsInv
    <2>1. UNCHANGED <<table, writer, writing, conns>> /\ ~reused
        BY DEF Read, table
    <2>2. ~misdelivered'
        <3>1. ~misdelivered
            BY <2>1 DEF Inv, IdsInv
        <3>2. CASE UNCHANGED misdelivered
            BY <3>1, <3>2
        <3>3. CASE /\ ~NoClient(Head(answers)) /\ createUDPPacket(Head(answers))
            <4>1. answers # <<>> /\ Head(answers) = answers[1] /\ 1 \in DOMAIN answers
                BY <1>2 DEF Read
            <4>2. /\ answers[1].id + 1 \in DOMAIN mUDPClients
                  /\ mUDPClients[answers[1].id + 1] = answers[1].client
                BY <2>1, <4>1 DEF Inv, IdsInv, Agrees
            <4>3. Signed(answers[1].id) = answers[1].id
                <5>1. answers[1].id \in 0..MAX_CLIENT_ID
                    <6>1. answers[1] \in AnswerType
                        BY <1>2, <4>1
                    <6> QED BY <6>1 DEF AnswerType
                <5>2. Signed(answers[1].id) >= 0
                    BY <3>3, <4>1 DEF NoClient
                <5> QED BY <5>1, <5>2 DEF Signed
            <4> QED BY <3>1, <3>3, <4>1, <4>2, <4>3 DEF createUDPPacket
        <3> QED BY <3>2, <3>3 DEF Read
    <2> QED BY <1>3, <2>1, <2>2 DEF Inv, IdsInv, Agrees, table
<1> QED BY <1>6, <1>7, <1>8 DEF Inv

-------------------------------------------------------------------------------
\* So every step keeps it.
LEMMA NextInv == Inv /\ [Next]_vars => Inv'
<1>1. Inv /\ UNCHANGED vars => Inv'
    BY DEF Inv, TypeOK, PermitInv, ClientInv, CounterInv, OneIdPerClient, IdsInv, Agrees,
           vars, input, queue, table, remote, server
<1> QED BY <1>1, FindInv, AddInv, ReleaseInv, StartInv, ForwardInv, ConnectInv, LoopInv, AcquireInv,
           WriteInv, WriterCloseInv, ServerAnswersInv, ReadInv, ReadEndsInv, ReaderCloseInv,
           KeepAliveInv, KeepAliveCloseInv
        DEF Next, Run

\* It holds in every reachable state.
LEMMA InvHolds == Spec => []Inv
    BY InitInv, NextInv, PTL DEF Spec

\* The types of the channel's state: in particular the table never has more
\* entries than there are ids, and no more permits are released than packets came.
THEOREM TypeCorrect == Spec => []TypeOK
<1>1. Inv => TypeOK
    BY DEF Inv
<1> QED BY <1>1, InvHolds, PTL

\* The client table of generateUdpgwPacket never has a client twice.
THEOREM ClientsAreDistinct == Spec => []OneIdPerClient
<1>1. Inv => OneIdPerClient
    BY DEF Inv
<1> QED BY <1>1, InvHolds, PTL

\* Until generateUdpgwPacket reuses an id, createUDPPacket hands no answer to
\* another client than the one that asked, whatever is under way when the table
\* grows.
THEOREM AnswersReachTheirClients == Spec => []AnswerGoesToItsClient
<1>1. Inv => AnswerGoesToItsClient
    BY DEF Inv, IdsInv, AnswerGoesToItsClient
<1> QED BY <1>1, InvHolds, PTL

-------------------------------------------------------------------------------
(* The safety behind the liveness of the runs: what the fairness of the    *)
(* threads needs in order to lead anywhere.                                *)

\* Whenever the writer waits for a permit although a packet is queued, the permit
\* is there, or the tun reader is about to release it (behind QueuedIsTaken).
WakeupPending ==
    writer = "acquire" /\ mPacketQueue # <<>> => permits > 0 \/ tun = "added"

\* A channel whose threads have all ended has given back its port and its socket
\* and is forgotten, whichever thread was the first to close it (behind ClosedEnds),
\* if its RemoteConnection has a Session.
EndedHoldsNothing ==
    mSession /\ writer = "ended" /\ keepAlive = "ended" =>
        mClosed /\ ~registered /\ ~forwarded /\ socket # "open"

\* Only the writer takes: what it may have taken at each of its places, and
\* that the KeepAliveThread ends by a complete close().
HoldsInv ==
    /\ writer \in {"start", "forward"} => socket = "none" /\ ~forwarded
    /\ writer = "connect" => socket = "none"
    /\ writer \in {"closing", "ended"} => socket # "open"
    /\ writer = "ended" => ~forwarded
    /\ keepAlive \in {"closing", "ended"} => mClosed
    /\ mSession /\ keepAlive = "ended" => ~registered
    /\ ~mSession => writer \in {"start", "ended"}

\* No packet is queued without a permit for it, whatever the order in which the
\* tun reader adds and releases and the writer looks and waits.
THEOREM NoWakeupIsLost == Spec => []WakeupPending
<1>1. Init => WakeupPending
    BY DEF Init, WakeupPending
<1>2. Inv /\ WakeupPending /\ [Next]_vars => WakeupPending'
    <2> SUFFICES ASSUME Inv, WakeupPending, [Next]_vars PROVE WakeupPending'
        OBVIOUS
    <2>0. permits \in Int /\ permits >= 0
        BY DEF Inv, TypeOK
    <2>1. CASE Find \/ Start \/ Forward \/ Connect \/ Write \/ WriterClose \/ ServerAnswers \/ Read
               \/ ReadEnds \/ ReaderClose \/ KeepAlive \/ KeepAliveClose
        <3>1. /\ UNCHANGED queue
              /\ writer' = writer \/ writer' # "acquire"
              /\ tun' = tun \/ tun = "idle"
            BY <2>1 DEF Find, Start, Forward, Connect, Write, WriterClose, WriterCloses,
                        ServerAnswers, Read, ReadEnds, ReaderClose, KeepAlive, KeepAliveClose, input
        <3> QED BY <3>1 DEF WakeupPending, queue
    <2>2. CASE Add
        <3>1. tun' = "added" \/ (mPacketQueue' = mPacketQueue /\ tun = "found")
            BY <2>2 DEF Add
        <3> QED BY <2>2, <3>1 DEF Add, WakeupPending
    <2>3. CASE Release
        <3>1. permits' > 0
            BY <2>0, <2>3 DEF Release
        <3> QED BY <3>1 DEF WakeupPending
    <2>4. CASE Loop
        <3>1. writer' = "acquire" => mPacketQueue' = <<>>
            BY <2>4 DEF Loop
        <3> QED BY <3>1 DEF WakeupPending
    <2>5. CASE Acquire
        <3>1. writer' # "acquire"
            BY <2>5 DEF Acquire
        <3> QED BY <3>1 DEF WakeupPending
    <2>6. CASE UNCHANGED vars
        BY <2>6 DEF vars, input, queue, WakeupPending
    <2> QED BY <2>1, <2>2, <2>3, <2>4, <2>5, <2>6 DEF Next, Run
<1> QED BY <1>1, <1>2, InvHolds, PTL DEF Spec

\* A channel of a connection with a Session whose threads have ended holds nothing, although the writer may open
\* its port and socket after another thread has closed the channel.
THEOREM EndedIsReleased == Spec => []EndedHoldsNothing
<1>1. Init => HoldsInv
    BY DEF Init, HoldsInv
<1>2. HoldsInv /\ [Next]_vars => HoldsInv'
    <2> SUFFICES ASSUME HoldsInv, [Next]_vars PROVE HoldsInv'
        OBVIOUS
    <2>1. CASE Find \/ Add \/ Release \/ ServerAnswers \/ Read \/ ReadEnds
        <3>1. UNCHANGED <<writer, socket, forwarded, keepAlive, mClosed, registered, mSession>>
            BY <2>1 DEF Find, Add, Release, ServerAnswers, Read, ReadEnds, remote
        <3> QED BY <3>1 DEF HoldsInv
    <2>2. CASE Start \/ Forward \/ Connect \/ Loop \/ Acquire \/ Write
        <3>1. UNCHANGED <<keepAlive, mClosed, registered, mSession>>
            BY <2>2 DEF Start, Forward, Connect, Loop, Acquire, Write
        <3>2. CASE Start
            BY <2>2, <3>1, <3>2 DEF Start, remote, HoldsInv
        <3>3. CASE Forward
            BY <3>1, <3>3 DEF Forward, HoldsInv
        <3>4. CASE Connect
            BY <3>1, <3>4 DEF Connect, HoldsInv
        <3>5. CASE Loop \/ Acquire \/ Write
            <4>1. /\ UNCHANGED <<socket, forwarded>> /\ writer \in {"loop", "acquire", "write"}
                  /\ writer' \in {"loop", "acquire", "write", "close"}
                BY <3>5 DEF Loop, Acquire, Write, remote
            <4> QED BY <3>1, <4>1 DEF HoldsInv
        <3> QED BY <2>2, <3>2, <3>3, <3>4, <3>5
    <2>3. CASE WriterClose
        <3>1. CASE writer = "close"
            BY <2>3, <3>1 DEF WriterClose, WriterCloses, CloseBegin, HoldsInv
        <3>2. CASE writer = "closing"
            BY <2>3, <3>2 DEF WriterClose, WriterCloses, CloseEnd, HoldsInv
        <3> QED BY <2>3, <3>1, <3>2 DEF WriterClose, WriterCloses
    <2>4. CASE ReaderClose
        <3>1. CASE reader = "close"
            BY <2>4, <3>1 DEF ReaderClose, CloseBegin, HoldsInv
        <3>2. CASE reader = "closing"
            BY <2>4, <3>2 DEF ReaderClose, CloseEnd, HoldsInv
        <3> QED BY <2>4, <3>1, <3>2 DEF ReaderClose
    <2>5. CASE KeepAlive
        BY <2>5 DEF KeepAlive, remote, HoldsInv
    <2>6. CASE KeepAliveClose
        <3>1. CASE keepAlive = "close"
            BY <2>6, <3>1 DEF KeepAliveClose, CloseBegin, HoldsInv
        <3>2. CASE keepAlive = "closing"
            BY <2>6, <3>2 DEF KeepAliveClose, CloseEnd, HoldsInv
        <3> QED BY <2>6, <3>1, <3>2 DEF KeepAliveClose
    <2>7. CASE UNCHANGED vars
        BY <2>7 DEF vars, remote, HoldsInv
    <2> QED BY <2>1, <2>2, <2>3, <2>4, <2>5, <2>6, <2>7 DEF Next, Run
<1>3. HoldsInv => EndedHoldsNothing
    BY DEF HoldsInv, EndedHoldsNothing
<1> QED BY <1>1, <1>2, <1>3, PTL DEF Spec
===============================================================================
