------------------------------ MODULE TcpUplink -------------------------------
(***************************************************************************)
(* The client's data on its way to the remote server, for one connection   *)
(* of the TCP stack: the PacketProcessor thread of TCPController accepts,  *)
(* buffers or drops the segments the tun device delivers, the channel's    *)
(* thread (ChannelV4TCP.run) writes what it polls to the remote stream.    *)
(* A byte is its position 1, 2, ... in the client's stream.                *)
(***************************************************************************)
EXTENDS TCPPacketQueue, Sequences

CONSTANTS
    Segments,      \* what the client may send: [off, len, fin], at offset off of the stream;
                   \* fin is a segment with FIN and without PSH
    FirstSeq,      \* the sequence number of byte 1
    MaxReceived    \* bound: segments the client sends, repeated ones included

ASSUME UplinkAssumption ==
    /\ Segments \subseteq [off : Nat \ {0}, len : Nat \ {0}, fin : BOOLEAN]
    \* A FIN ends the stream.
    /\ \A s, t \in Segments : s.fin => t.off + t.len <= s.off + s.len
    /\ FirstSeq \in (-Half)..(Half - 1)
    /\ MaxReceived \in Nat

VARIABLES
    mClientNexSeqNumber,
    dropped,      \* bytes of a FIN segment before that number that were not put in the queue
    pending,      \* the wrapper whose placeholder putToQueue() has yet to put, if any
    written,      \* the bytes written to the remote server
    closed,       \* the channel's thread has closed the channel
    ahead,        \* a segment has come ahead of the expected one
    received      \* segments received

client == <<ahead, received>>
vars == <<mPackets, poller, mClientNexSeqNumber, dropped, pending, written, closed, client>>

\* The number and the bytes of a segment
SeqOf(off) == Signed(FirstSeq + off - 1)
Bytes(seg) == [i \in 1..seg.len |-> seg.off + i - 1]
ASSUME NoPacketAssumption == \A seg \in Segments : Bytes(seg) # NoPacket

Idle == [busy |-> FALSE, next |-> 0, accept |-> FALSE]

TypeOK ==
    /\ DOMAIN mPackets \subseteq (-Half)..(Half - 1)
    /\ \A s \in DOMAIN mPackets : mPackets[s] = NoPacket \/ mPackets[s] \in Seq(Nat)
    /\ poller \in {"peek", "take", "wait", "waiting"}
    /\ mClientNexSeqNumber \in (-Half)..(Half - 1) /\ dropped \in Nat
    /\ pending \in [busy : BOOLEAN, next : (-Half)..(Half - 1), accept : BOOLEAN]
    /\ written \in Seq(Nat)
    /\ closed \in BOOLEAN
    /\ ahead \in BOOLEAN /\ received \in 0..MaxReceived

\* After the handshake
Init ==
    /\ mPackets = [s \in {} |-> NoPacket] /\ poller = "peek"
    /\ mClientNexSeqNumber = SeqOf(1) /\ dropped = 0
    /\ pending = Idle
    /\ written = <<>> /\ closed = FALSE
    /\ ahead = FALSE /\ received = 0

-------------------------------------------------------------------------------
(* The PacketProcessor thread, for segments that carry data; RST, SYN and  *)
(* segments without data are not sent here.                                *)

\* The first half of putToQueue: the segment itself
PutSegment(seg, accept) ==
    /\ put(SeqOf(seg.off), Bytes(seg))
    /\ pending' = [busy |-> TRUE, next |-> Signed(SeqOf(seg.off) + seg.len), accept |-> accept]
    /\ UNCHANGED <<mClientNexSeqNumber, dropped, written, closed>>

\* The expected segment
Accept(seg) ==
    /\ SeqOf(seg.off) = mClientNexSeqNumber /\ ~seg.fin
    /\ PutSegment(seg, TRUE)

\* With FIN and without PSH it passes both branches that call putToQueue(); the
\* FIN branch then counts its data, and acknowledges it.
AcceptFin(seg) ==
    /\ SeqOf(seg.off) = mClientNexSeqNumber /\ seg.fin
    /\ mClientNexSeqNumber' = Signed(SeqOf(seg.off) + seg.len)
    /\ dropped' = seg.len
    /\ UNCHANGED <<mPackets, poller, pending, written, closed>>

\* A keep-alive repeats the last byte before the expected one.
IsKeepAlive(seg) == SeqOf(seg.off) = Signed(mClientNexSeqNumber - 1)

\* A segment after a gap is buffered, and acknowledged with a SACK option.
Buffer(seg) ==
    /\ SeqOf(seg.off) > mClientNexSeqNumber /\ ~IsKeepAlive(seg)
    /\ PutSegment(seg, FALSE)

\* Mutant: a segment that comes again is taken for the expected one.
IgnoreAccepts(seg) ==
    /\ SeqOf(seg.off) < mClientNexSeqNumber
    /\ PutSegment(seg, TRUE)

\* Anything else is a keep-alive, which is answered, or a duplicate.
Ignore(seg) ==
    /\ SeqOf(seg.off) < mClientNexSeqNumber \/ IsKeepAlive(seg)
    /\ UNCHANGED <<mPackets, poller, pending, mClientNexSeqNumber, dropped, written, closed>>

Receive(seg) ==
    /\ ~pending.busy
    /\ received < MaxReceived /\ received' = received + 1
    /\ ahead' = (ahead \/ SeqOf(seg.off) > mClientNexSeqNumber)
    /\ Accept(seg) \/ AcceptFin(seg) \/ Buffer(seg) \/ Ignore(seg)

\* Mutant: the placeholder is put at the number that was expected so far.
PutPlaceholderStale ==
    /\ pending.busy
    /\ put(mClientNexSeqNumber, NoPacket)
    /\ mClientNexSeqNumber' = IF pending.accept THEN pending.next ELSE mClientNexSeqNumber
    /\ pending' = Idle
    /\ UNCHANGED <<dropped, written, closed, client>>

\* The second half of putToQueue, then updateClientSeqNumber
PutPlaceholder ==
    /\ pending.busy
    /\ put(pending.next, NoPacket)
    /\ mClientNexSeqNumber' = IF pending.accept THEN pending.next ELSE mClientNexSeqNumber
    /\ pending' = Idle
    /\ UNCHANGED <<dropped, written, closed, client>>

-------------------------------------------------------------------------------
(* The channel's thread.                                                   *)

Peek ==
    /\ ~closed
    /\ PollPeek \/ PollWait
    /\ UNCHANGED <<mClientNexSeqNumber, dropped, pending, written, closed, client>>

\* poll() returns and the packet is written, or the remote connection is closed or
\* fails.  A placeholder, which has no packet, is a NullPointerException: run()
\* catches it.  Either way run() closes the channel and ends.
Write ==
    /\ ~closed
    /\ PollTake
    /\ \/ /\ Ready(mPackets)
          /\ written' = written \o mPackets[First(mPackets)] /\ UNCHANGED closed
       \/ closed' = TRUE /\ UNCHANGED written
    /\ UNCHANGED <<mClientNexSeqNumber, dropped, pending, client>>

-------------------------------------------------------------------------------
Next ==
    \/ \E seg \in Segments : Receive(seg)
    \/ PutPlaceholder
    \/ Peek
    \/ Write

\* Both threads run; nothing is assumed of the client.
Fairness == WF_vars(PutPlaceholder) /\ WF_vars(Peek \/ Write)

Spec == Init /\ [][Next]_vars
FairSpec == Spec /\ Fairness
-------------------------------------------------------------------------------
(* Properties.                                                             *)

\* poll() returns a packet, never a placeholder, although it looks at the first
\* entry and removes it under two separate holds of the lock.  (As long as no
\* segment comes ahead of the expected one: else a placeholder can replace what poll() has seen.)
PollReturnsPacket == ~ahead /\ poller = "take" => Ready(mPackets)

\* Byte b is in the queue or was written.
Kept(b) ==
    \/ b \in {written[i] : i \in DOMAIN written}
    \/ \E s \in DOMAIN mPackets :
            /\ mPackets[s] # NoPacket
            /\ b \in {mPackets[s][i] : i \in DOMAIN mPackets[s]}
KeptUpTo(n) == \A b \in 1..(n - FirstSeq) : Kept(b)

\* What the client is told is received (every byte before the acknowledged
\* number) is kept, until the channel is closed: it is in the queue or was written.
\* (Except for the data of a FIN segment without PSH, which is acknowledged and dropped.)
AckedIsKept == ~closed => KeptUpTo(mClientNexSeqNumber - dropped)

\* The remote server gets the client's stream: no byte lost, twice or out of
\* order, however the client cuts and repeats it.  (As long as no segment comes ahead
\* of the expected one: if the queue is empty that one is written at once.)
StreamIsPrefix == ~ahead => \A i \in DOMAIN written : written[i] = i

\* tcpPacketQueueTest: the packet put while poll() is on its way to wait is
\* returned by it.
PutIsPolled == Ready(mPackets) ~> poller = "take" \/ closed
===============================================================================
