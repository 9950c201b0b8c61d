--------------------------- MODULE TcpUplinkProofs ----------------------------
(***************************************************************************)
(* What the client is told is received is kept (but for the data of a FIN  *)
(* segment without PSH), and as long as no segment                         *)
(* comes ahead of the expected one poll() returns packets only and the     *)
(* remote server gets the client's stream: for every stream, every way to  *)
(* cut it, to reorder, lose and repeat its segments, as long as the        *)
(* sequence numbers of the stream do not pass the largest int.             *)
(***************************************************************************)
EXTENDS TcpUplink, WellFoundedInduction, TLAPS

\* The sequence numbers of the stream do not wrap.
NoWrap == \A seg \in Segments : FirstSeq + seg.off + seg.len <= Half

HasByte(packet, b) == \E i \in DOMAIN packet : packet[i] = b

\* The entry at s carries bytes from its own place on: nothing before s is in it.
EntryInv ==
    \A s \in DOMAIN mPackets :
        /\ s \in Int /\ s >= FirstSeq
        /\ mPackets[s] # NoPacket =>
              /\ mPackets[s] \in Seq(Nat)
              /\ \A b \in Nat : HasByte(mPackets[s], b) => b >= s - FirstSeq + 1

\* While putToQueue() is between its two steps, the bytes it is about to
\* acknowledge are kept already, and its placeholder goes to their end.
PendingInv ==
    pending.busy =>
        /\ pending.next \in Int /\ pending.next >= mClientNexSeqNumber
        /\ pending.accept => \A b \in 1..(pending.next - FirstSeq) : Kept(b)

\* Once the data of the FIN segment is dropped, no segment is put any more: the
\* FIN ends the stream, so that every segment is before the expected number.
FinInv ==
    /\ dropped \in Nat
    /\ dropped > 0 => /\ ~pending.busy
                      /\ \A seg \in Segments : SeqOf(seg.off) < mClientNexSeqNumber

\* Everything before the expected number, but for the dropped bytes, is kept.
AllKept == KeptUpTo(mClientNexSeqNumber - dropped)

KeptInv ==
    /\ mClientNexSeqNumber \in Int /\ mClientNexSeqNumber >= FirstSeq
    /\ written \in Seq(Nat)
    /\ EntryInv
    /\ PendingInv
    /\ FinInv
    /\ AllKept

\* The inductive invariant: nothing is promised once the channel is closed.
OpenInv == ~closed => KeptInv

-------------------------------------------------------------------------------
\* A set of integers with a lower bound has a least element.
LEMMA MinNat == ASSUME NEW T, T \subseteq Nat, T # {} PROVE \E n \in T : \A k \in T : n <= k
  <1> DEFINE R == {ss \in Nat \X Nat : ss[1] < ss[2]}
  <1>0. OpToRel(<, Nat) = R
    BY Zenon DEF OpToRel
  <1>1. IsWellFoundedOn(R, Nat)
    BY <1>0, NatLessThanWellFounded, Zenon
  <1>2. \E x \in T : \A y \in T : ~(<<y, x>> \in R)
    <2> HIDE DEF R
    <2> QED BY <1>1, WFMin
  <1>3. PICK x \in T : \A y \in T : ~(<<y, x>> \in R)
    BY <1>2
  <1>4. \A y \in T : x <= y
    <2> SUFFICES ASSUME NEW y \in T PROVE x <= y
      OBVIOUS
    <2>1. x \in Nat /\ y \in Nat
      OBVIOUS
    <2>2. ~(y < x)
      BY <1>3, <2>1
    <2> QED BY <2>1, <2>2
  <1> QED BY <1>4

\* The first entry of a queue that is not empty is the least of its entries.
LEMMA FirstIsEntry ==
    ASSUME NEW packets, NEW low \in Int, DOMAIN packets # {},
           \A s \in DOMAIN packets : s \in Int /\ s >= low
    PROVE  First(packets) \in DOMAIN packets /\ \A t \in DOMAIN packets : First(packets) <= t
  <1> DEFINE T == {s - low : s \in DOMAIN packets}
  <1>1. T \subseteq Nat /\ T # {}
    OBVIOUS
  <1>2. PICK n \in T : \A k \in T : n <= k
    <2> HIDE DEF T
    <2> QED BY <1>1, MinNat
  <1>3. PICK s \in DOMAIN packets : n = s - low
    OBVIOUS
  <1>4. \A t \in DOMAIN packets : s <= t
    <2> SUFFICES ASSUME NEW t \in DOMAIN packets PROVE s <= t
      OBVIOUS
    <2>1. n <= t - low
      BY <1>2
    <2> QED BY <2>1, <1>3
  <1> QED BY <1>4 DEF First

\* Below the wrap, an int is its own number.
LEMMA SignedId ==
    ASSUME NEW x \in (-Half)..(Half - 1)
    PROVE  Signed(x) = x
  BY HalfAssumption DEF Signed

\* The number of a segment and of the one after it
LEMMA SegmentNumbers ==
    ASSUME NoWrap, NEW seg \in Segments
    PROVE  /\ SeqOf(seg.off) = FirstSeq + seg.off - 1
           /\ Signed(SeqOf(seg.off) + seg.len) = FirstSeq + seg.off + seg.len - 1
           /\ SeqOf(seg.off) \in Int /\ SeqOf(seg.off) >= FirstSeq
           /\ seg.off \in Nat \ {0} /\ seg.len \in Nat \ {0} /\ FirstSeq \in Int
  <1>1. seg.off \in Nat \ {0} /\ seg.len \in Nat \ {0}
    BY UplinkAssumption
  <1>2. FirstSeq \in (-Half)..(Half - 1) /\ Half \in Nat
    BY UplinkAssumption, HalfAssumption
  <1>3. FirstSeq + seg.off + seg.len <= Half
    BY DEF NoWrap
  <1>4. FirstSeq + seg.off - 1 \in (-Half)..(Half - 1)
    BY <1>1, <1>2, <1>3
  <1>5. FirstSeq + seg.off + seg.len - 1 \in (-Half)..(Half - 1)
    BY <1>1, <1>2, <1>3
  <1>6. SeqOf(seg.off) = FirstSeq + seg.off - 1
    BY <1>4, SignedId DEF SeqOf
  <1>7. SeqOf(seg.off) + seg.len = FirstSeq + seg.off + seg.len - 1
    BY <1>6, <1>1, <1>2
  <1>8. Signed(SeqOf(seg.off) + seg.len) = FirstSeq + seg.off + seg.len - 1
    BY <1>5, <1>7, SignedId
  <1> QED BY <1>1, <1>2, <1>6, <1>8

-------------------------------------------------------------------------------
\* The constants are numbers.
LEMMA FirstSeqInt == FirstSeq \in Int /\ Half \in Nat
  BY UplinkAssumption, HalfAssumption

\* A put() at or after the number nex takes no byte before nex away.
LEMMA PutKeeps ==
    ASSUME NEW s \in Int, NEW packet, put(s, packet), EntryInv, UNCHANGED written,
           NEW b \in Nat, b <= s - FirstSeq, Kept(b)
    PROVE  Kept(b)'
  <1>0. FirstSeq \in Int
    BY FirstSeqInt
  <1>1. CASE b \in {written[i] : i \in DOMAIN written}
    BY <1>1 DEF Kept
  <1>2. CASE \E t \in DOMAIN mPackets :
                 /\ mPackets[t] # NoPacket
                 /\ b \in {mPackets[t][i] : i \in DOMAIN mPackets[t]}
    <2>1. PICK t \in DOMAIN mPackets :
                 /\ mPackets[t] # NoPacket
                 /\ b \in {mPackets[t][i] : i \in DOMAIN mPackets[t]}
      BY <1>2
    <2>2. HasByte(mPackets[t], b)
      BY <2>1 DEF HasByte
    <2>3. t \in Int /\ b >= t - FirstSeq + 1
      BY <2>1, <2>2 DEF EntryInv
    <2>4. t # s
      BY <2>3, <1>0
    <2>5. t \in DOMAIN mPackets' /\ mPackets'[t] = mPackets[t]
      BY <2>4 DEF put
    <2> QED BY <2>1, <2>5 DEF Kept
  <1> QED BY <1>1, <1>2 DEF Kept

\* A put() of a placeholder, or of a segment at its own number, keeps EntryInv.
LEMMA PutEntries ==
    ASSUME NEW s \in Int, s >= FirstSeq, NEW packet, put(s, packet), EntryInv,
           packet # NoPacket =>
              /\ packet \in Seq(Nat)
              /\ \A b \in Nat : HasByte(packet, b) => b >= s - FirstSeq + 1
    PROVE  EntryInv'
  <1> SUFFICES ASSUME NEW t \in DOMAIN mPackets'
               PROVE  /\ t \in Int /\ t >= FirstSeq
                      /\ mPackets'[t] # NoPacket =>
                            /\ mPackets'[t] \in Seq(Nat)
                            /\ \A b \in Nat : HasByte(mPackets'[t], b) => b >= t - FirstSeq + 1
    BY DEF EntryInv
  <1>1. CASE t = s
    <2>1. mPackets'[t] = packet
      BY <1>1 DEF put
    <2> QED BY <1>1, <2>1
  <1>2. CASE t # s
    <2>1. t \in DOMAIN mPackets /\ mPackets'[t] = mPackets[t]
      BY <1>2 DEF put
    <2> QED BY <2>1 DEF EntryInv
  <1> QED BY <1>1, <1>2

\* The bytes of a segment
LEMMA BytesOf ==
    ASSUME NEW seg \in Segments
    PROVE  /\ Bytes(seg) \in Seq(Nat) /\ Bytes(seg) # NoPacket
           /\ DOMAIN Bytes(seg) = 1..seg.len
           /\ \A b \in Nat : HasByte(Bytes(seg), b) <=> b \in seg.off..(seg.off + seg.len - 1)
  <1>1. seg.off \in Nat \ {0} /\ seg.len \in Nat \ {0}
    BY UplinkAssumption
  <1>2. Bytes(seg) \in Seq(Nat) /\ DOMAIN Bytes(seg) = 1..seg.len
    BY <1>1 DEF Bytes
  <1>3. ASSUME NEW b \in Nat PROVE HasByte(Bytes(seg), b) <=> b \in seg.off..(seg.off + seg.len - 1)
    <2>1. ASSUME NEW i \in 1..seg.len PROVE Bytes(seg)[i] = seg.off + i - 1
      BY DEF Bytes
    <2>2. ASSUME HasByte(Bytes(seg), b) PROVE b \in seg.off..(seg.off + seg.len - 1)
      <3>1. PICK i \in 1..seg.len : Bytes(seg)[i] = b
        BY <2>2, <1>2 DEF HasByte
      <3> QED BY <3>1, <2>1, <1>1
    <2>3. ASSUME b \in seg.off..(seg.off + seg.len - 1) PROVE HasByte(Bytes(seg), b)
      <3>1. b - seg.off + 1 \in 1..seg.len
        BY <2>3, <1>1
      <3>2. Bytes(seg)[b - seg.off + 1] = b
        BY <3>1, <2>1, <1>1
      <3> QED BY <3>1, <3>2, <1>2 DEF HasByte
    <2> QED BY <2>2, <2>3
  <1> QED BY <1>2, <1>3, NoPacketAssumption

-------------------------------------------------------------------------------
\* FinInv depends on no other variable.
LEMMA FinSame ==
    ASSUME FinInv, UNCHANGED <<mClientNexSeqNumber, dropped, pending>>
    PROVE  FinInv'
  BY DEF FinInv

\* The expected segment, or a later one, comes before anything is dropped.
LEMMA NothingDropped ==
    ASSUME FinInv, NEW seg \in Segments, SeqOf(seg.off) \in Int, mClientNexSeqNumber \in Int,
           SeqOf(seg.off) >= mClientNexSeqNumber
    PROVE  dropped = 0
  <1>1. ~(SeqOf(seg.off) < mClientNexSeqNumber)
    OBVIOUS
  <1> QED BY <1>1 DEF FinInv

\* While putToQueue() is between its two steps, nothing is dropped.
LEMMA NothingDroppedYet ==
    ASSUME FinInv, pending.busy
    PROVE  dropped = 0
  BY DEF FinInv

\* With nothing dropped, FinInv says nothing else.
LEMMA FinNothing == ASSUME dropped' = 0 PROVE FinInv'
  BY DEF FinInv

\* The FIN segment is the end of the stream: no segment is at or after it.
LEMMA FinEnds ==
    ASSUME NoWrap, NEW seg \in Segments, AcceptFin(seg), ~pending.busy
    PROVE  /\ FinInv' /\ mClientNexSeqNumber' - dropped' = SeqOf(seg.off)
           /\ mClientNexSeqNumber' \in Int /\ mClientNexSeqNumber' > mClientNexSeqNumber
  <1>1. /\ SeqOf(seg.off) = FirstSeq + seg.off - 1
        /\ Signed(SeqOf(seg.off) + seg.len) = FirstSeq + seg.off + seg.len - 1
        /\ seg.off \in Nat \ {0} /\ seg.len \in Nat \ {0} /\ FirstSeq \in Int
    BY SegmentNumbers
  <1>2. /\ mClientNexSeqNumber' = FirstSeq + seg.off + seg.len - 1 /\ dropped' = seg.len
        /\ ~pending'.busy /\ seg.fin /\ mClientNexSeqNumber = FirstSeq + seg.off - 1
    BY <1>1 DEF AcceptFin
  <1>3. ASSUME NEW t \in Segments PROVE SeqOf(t.off) < mClientNexSeqNumber'
    <2>1. /\ SeqOf(t.off) = FirstSeq + t.off - 1
          /\ t.off \in Nat \ {0} /\ t.len \in Nat \ {0}
      BY SegmentNumbers
    <2>2. t.off + t.len <= seg.off + seg.len
      BY <1>2, UplinkAssumption
    <2> QED BY <1>1, <1>2, <2>1, <2>2
  <1>4. FinInv'
    <2>1. \A t \in Segments : SeqOf(t.off)' < mClientNexSeqNumber'
      BY <1>3 DEF SeqOf, Signed
    <2> QED BY <1>1, <1>2, <2>1 DEF FinInv
  <1> QED BY <1>1, <1>2, <1>4

-------------------------------------------------------------------------------
\* One lemma per action.

\* The first half of putToQueue(), for the expected or a later segment
LEMMA PutSegmentKeeps ==
    ASSUME NoWrap, KeptInv, NEW seg \in Segments, NEW accept \in BOOLEAN,
           PutSegment(seg, accept), SeqOf(seg.off) >= mClientNexSeqNumber,
           accept => SeqOf(seg.off) = mClientNexSeqNumber
    PROVE  KeptInv'
  <1> DEFINE s == SeqOf(seg.off)
             n == Signed(SeqOf(seg.off) + seg.len)
  <1>1. /\ s = FirstSeq + seg.off - 1 /\ n = s + seg.len
        /\ s \in Int /\ s >= FirstSeq /\ n \in Int
        /\ seg.off \in Nat \ {0} /\ seg.len \in Nat \ {0} /\ FirstSeq \in Int
    BY SegmentNumbers
  <1>2. /\ put(s, Bytes(seg)) /\ UNCHANGED written
        /\ mClientNexSeqNumber' = mClientNexSeqNumber /\ dropped' = dropped
    BY DEF PutSegment
  <1>3. pending'.next = n /\ pending'.accept = accept
    BY DEF PutSegment
  <1>4. /\ Bytes(seg) \in Seq(Nat) /\ Bytes(seg) # NoPacket
        /\ \A b \in Nat : HasByte(Bytes(seg), b) <=> b \in seg.off..(seg.off + seg.len - 1)
    BY BytesOf
  <1> HIDE DEF s, n
  <1>5. mClientNexSeqNumber \in Int /\ mClientNexSeqNumber >= FirstSeq /\ EntryInv /\ AllKept
    BY DEF KeptInv
  <1>5a. s >= mClientNexSeqNumber /\ (accept => s = mClientNexSeqNumber)
    BY DEF s
  <1>5b. dropped = 0 /\ dropped' = 0 /\ FinInv'
    <2>1. dropped = 0
      BY <1>1, <1>5, NothingDropped DEF s, KeptInv
    <2> QED BY <1>2, <2>1, FinNothing
  <1>5c. mClientNexSeqNumber - dropped = mClientNexSeqNumber
    BY <1>5, <1>5b
  <1>6. EntryInv'
    <2>1. \A b \in Nat : HasByte(Bytes(seg), b) => b >= s - FirstSeq + 1
      BY <1>1, <1>4
    <2> QED BY <2>1, <1>1, <1>2, <1>4, <1>5, PutEntries
  <1>7. AllKept'
    <2> SUFFICES ASSUME NEW b \in 1..(mClientNexSeqNumber - FirstSeq) PROVE Kept(b)'
      BY <1>2, <1>5c DEF AllKept, KeptUpTo
    <2>1. b \in Nat /\ b <= s - FirstSeq
      BY <1>1, <1>5, <1>5a
    <2>2. Kept(b)
      BY <1>5, <1>5c DEF AllKept, KeptUpTo
    <2> QED BY <1>1, <1>2, <1>5, <2>1, <2>2, PutKeeps
  <1>8. ASSUME accept, NEW b \in 1..(n - FirstSeq) PROVE Kept(b)'
    <2>1. CASE b <= mClientNexSeqNumber - FirstSeq
      <3>1. b \in 1..(mClientNexSeqNumber - FirstSeq)
        BY <2>1, <1>1, <1>5
      <3> QED BY <3>1, <1>7, <1>2, <1>5c DEF AllKept, KeptUpTo
    <2>2. CASE b > mClientNexSeqNumber - FirstSeq
      <3>1. b \in Nat /\ b \in seg.off..(seg.off + seg.len - 1)
        BY <2>2, <1>1, <1>5, <1>5a, <1>8
      <3>2. HasByte(Bytes(seg), b)
        BY <3>1, <1>4
      <3>3. s \in DOMAIN mPackets' /\ mPackets'[s] = Bytes(seg)
        BY <1>2 DEF put
      <3> QED BY <3>2, <3>3, <1>4 DEF Kept, HasByte
    <2> QED BY <2>1, <2>2, <1>1, <1>5
  <1>9. PendingInv'
    <2>1. n >= mClientNexSeqNumber'
      BY <1>1, <1>2, <1>5, <1>5a
    <2> QED BY <2>1, <1>1, <1>3, <1>8 DEF PendingInv
  <1> QED BY <1>2, <1>5, <1>5b, <1>6, <1>7, <1>9 DEF KeptInv

\* The number passes the data of a FIN segment, which is counted as dropped.
LEMMA AcceptFinKeeps ==
    ASSUME NoWrap, KeptInv, ~pending.busy, NEW seg \in Segments, AcceptFin(seg)
    PROVE  KeptInv'
  <1>1. /\ FinInv' /\ mClientNexSeqNumber' - dropped' = SeqOf(seg.off)
        /\ mClientNexSeqNumber' \in Int /\ mClientNexSeqNumber' > mClientNexSeqNumber
    BY FinEnds
  <1>2. /\ mClientNexSeqNumber \in Int /\ mClientNexSeqNumber >= FirstSeq
        /\ written \in Seq(Nat) /\ EntryInv /\ AllKept /\ FinInv /\ FirstSeq \in Int
    BY FirstSeqInt DEF KeptInv
  <1>3. SeqOf(seg.off) = mClientNexSeqNumber /\ UNCHANGED <<mPackets, written, pending>>
    BY DEF AcceptFin
  <1>4. dropped = 0
    BY <1>2, <1>3, NothingDropped
  <1>5. AllKept'
    <2>1. mClientNexSeqNumber' - dropped' = mClientNexSeqNumber - dropped
      BY <1>1, <1>2, <1>3, <1>4
    <2> QED BY <1>2, <1>3, <2>1 DEF AllKept, KeptUpTo, Kept
  <1>6. EntryInv'
    BY <1>2, <1>3 DEF EntryInv
  <1>7. PendingInv'
    BY <1>3 DEF PendingInv
  <1> QED BY <1>1, <1>2, <1>3, <1>5, <1>6, <1>7 DEF KeptInv

\* A segment is accepted, buffered or ignored.
LEMMA ReceiveKeeps ==
    ASSUME NoWrap, KeptInv, NEW seg \in Segments, Receive(seg)
    PROVE  KeptInv'
  <1>0. mClientNexSeqNumber \in Int /\ SeqOf(seg.off) \in Int
    BY SegmentNumbers DEF KeptInv
  <1>1. CASE Accept(seg)
    <2>1. PutSegment(seg, TRUE)
      BY <1>1, Zenon DEF Accept
    <2>2. SeqOf(seg.off) = mClientNexSeqNumber
      BY <1>1, Zenon DEF Accept
    <2>3. SeqOf(seg.off) >= mClientNexSeqNumber
      BY <1>0, <2>2
    <2> QED BY <2>1, <2>2, <2>3, PutSegmentKeeps, Zenon
  <1>2. CASE Buffer(seg)
    <2>1. PutSegment(seg, FALSE)
      BY <1>2, Zenon DEF Buffer
    <2>2. SeqOf(seg.off) > mClientNexSeqNumber
      BY <1>2, Zenon DEF Buffer
    <2>3. SeqOf(seg.off) >= mClientNexSeqNumber
      BY <1>0, <2>2
    <2> QED BY <2>1, <2>3, PutSegmentKeeps, Zenon
  <1>3. CASE Ignore(seg)
    <2>1. UNCHANGED <<mPackets, pending, mClientNexSeqNumber, dropped, written>>
      BY <1>3, Zenon DEF Ignore
    <2> QED BY <2>1, FinSame DEF KeptInv, EntryInv, PendingInv, AllKept, KeptUpTo, Kept
  <1>4. CASE AcceptFin(seg)
    BY <1>4, AcceptFinKeeps, Zenon DEF Receive
  <1> QED BY <1>1, <1>2, <1>3, <1>4, Zenon DEF Receive

\* The bytes before n are bytes before m.
LEMMA Below ==
    ASSUME NEW n \in Int, NEW m \in Int, NEW low \in Int, n <= m, NEW b \in 1..(n - low)
    PROVE  b \in Nat /\ b <= m - low
  OBVIOUS

\* The placeholder goes to, or after, the end of what is acknowledged.
LEMMA PutPlaceholderKeeps ==
    ASSUME KeptInv, PutPlaceholder
    PROVE  KeptInv'
  <1>1. /\ pending.next \in Int /\ pending.next >= mClientNexSeqNumber
        /\ pending.accept => \A b \in 1..(pending.next - FirstSeq) : Kept(b)
    BY DEF KeptInv, PendingInv, PutPlaceholder
  <1>2. put(pending.next, NoPacket) /\ UNCHANGED written
    BY DEF PutPlaceholder
  <1>3. /\ mClientNexSeqNumber \in Int /\ mClientNexSeqNumber >= FirstSeq
        /\ written \in Seq(Nat) /\ EntryInv /\ AllKept /\ FirstSeq \in Int
    BY FirstSeqInt DEF KeptInv
  <1>3a. dropped = 0 /\ dropped' = 0 /\ FinInv'
    <2>1. dropped = 0
      BY NothingDroppedYet DEF PutPlaceholder, KeptInv
    <2>2. dropped' = dropped
      BY Zenon DEF PutPlaceholder
    <2> QED BY <2>1, <2>2, FinNothing
  <1>4. EntryInv'
    BY <1>1, <1>2, <1>3, PutEntries
  <1>5. /\ mClientNexSeqNumber' \in Int /\ mClientNexSeqNumber' >= FirstSeq
        /\ mClientNexSeqNumber' <= pending.next
    BY <1>1, <1>3 DEF PutPlaceholder
  <1>6. PendingInv'
    BY DEF PutPlaceholder, PendingInv, Idle
  <1>7. AllKept'
    <2> SUFFICES ASSUME NEW b \in 1..(mClientNexSeqNumber' - FirstSeq) PROVE Kept(b)'
      BY <1>3a, <1>5 DEF AllKept, KeptUpTo
    <2>0. PICK n \in Int, m \in Int : n = mClientNexSeqNumber' /\ m = pending.next /\ n <= m
      BY <1>1, <1>5
    <2>1. b \in Nat /\ b <= m - FirstSeq
      <3>1. b \in 1..(n - FirstSeq)
        BY <2>0
      <3> QED BY <2>0, <3>1, FirstSeqInt, Below
    <2>2. Kept(b)
      <3>1. mClientNexSeqNumber - dropped = mClientNexSeqNumber
        BY <1>3, <1>3a
      <3> QED BY <1>1, <1>3, <3>1 DEF PutPlaceholder, AllKept, KeptUpTo
    <2> QED BY <1>1, <1>2, <1>3, <2>0, <2>1, <2>2, PutKeeps
  <1> QED BY <1>2, <1>3, <1>3a, <1>4, <1>5, <1>6, <1>7 DEF KeptInv

\* Writing a packet appends its bytes.
LEMMA Appended ==
    ASSUME NEW a \in Seq(Nat), NEW c \in Seq(Nat)
    PROVE  /\ a \o c \in Seq(Nat)
           /\ \A i \in DOMAIN a : i \in DOMAIN (a \o c) /\ (a \o c)[i] = a[i]
           /\ \A i \in DOMAIN c : /\ Len(a) + i \in DOMAIN (a \o c)
                                  /\ (a \o c)[Len(a) + i] = c[i]
  OBVIOUS

\* The entry that poll() removes is written, unless the channel is closed.
LEMMA WriteKeeps ==
    ASSUME KeptInv, Write, ~closed'
    PROVE  KeptInv'
  <1> DEFINE f == First(mPackets)
  <1>1. /\ mClientNexSeqNumber \in Int /\ mClientNexSeqNumber >= FirstSeq
        /\ written \in Seq(Nat) /\ EntryInv /\ AllKept /\ PendingInv /\ FinInv /\ FirstSeq \in Int
    BY FirstSeqInt DEF KeptInv
  <1>2. mPackets' = [t \in DOMAIN mPackets \ {f} |-> mPackets[t]]
    BY DEF Write, PollTake
  <1>3. UNCHANGED <<mClientNexSeqNumber, dropped, pending>>
    BY DEF Write
  <1>4. \/ /\ f \in DOMAIN mPackets /\ mPackets[f] # NoPacket /\ mPackets[f] \in Seq(Nat)
           /\ written' = written \o mPackets[f]
        \/ /\ f \notin DOMAIN mPackets \/ mPackets[f] = NoPacket
           /\ written' = written
    <2>1. CASE DOMAIN mPackets = {}
      BY <2>1 DEF Write, Ready
    <2>2. CASE DOMAIN mPackets # {}
      <3>1. f \in DOMAIN mPackets
        BY <1>1, <2>2, FirstIsEntry DEF EntryInv
      <3>2. mPackets[f] # NoPacket => mPackets[f] \in Seq(Nat)
        BY <1>1, <3>1 DEF EntryInv
      <3> QED BY <2>2, <3>1, <3>2 DEF Write, Ready
    <2> QED BY <2>1, <2>2
  <1> HIDE DEF f
  <1>5. written' \in Seq(Nat)
    BY <1>1, <1>4, Appended
  <1>6. EntryInv'
    BY <1>1, <1>2 DEF EntryInv
  <1>7. ASSUME NEW b, Kept(b) PROVE Kept(b)'
    <2>1. CASE b \in {written[i] : i \in DOMAIN written}
      <3>1. PICK i \in DOMAIN written : b = written[i]
        BY <2>1
      <3>2. CASE written' = written
        BY <3>1, <3>2, <2>1 DEF Kept
      <3>3. CASE mPackets[f] \in Seq(Nat) /\ written' = written \o mPackets[f]
        <4>1. i \in DOMAIN written' /\ written'[i] = written[i]
          BY <1>1, <3>1, <3>3, Appended
        <4> QED BY <3>1, <4>1 DEF Kept
      <3> QED BY <1>4, <3>2, <3>3
    <2>2. CASE \E t \in DOMAIN mPackets :
                 /\ mPackets[t] # NoPacket
                 /\ b \in {mPackets[t][i] : i \in DOMAIN mPackets[t]}
      <3>1. PICK t \in DOMAIN mPackets :
                 /\ mPackets[t] # NoPacket
                 /\ b \in {mPackets[t][i] : i \in DOMAIN mPackets[t]}
        BY <2>2
      <3>2. CASE t # f
        <4>1. t \in DOMAIN mPackets' /\ mPackets'[t] = mPackets[t]
          BY <1>2, <3>2
        <4> QED BY <3>1, <4>1 DEF Kept
      <3>3. CASE t = f
        <4>1. mPackets[f] \in Seq(Nat) /\ written' = written \o mPackets[f]
          BY <1>4, <3>1, <3>3
        <4>2. PICK i \in DOMAIN mPackets[f] : b = mPackets[f][i]
          BY <3>1, <3>3
        <4>3. Len(written) + i \in DOMAIN written' /\ written'[Len(written) + i] = b
          BY <1>1, <4>1, <4>2, Appended
        <4> QED BY <4>3 DEF Kept
      <3> QED BY <3>2, <3>3
    <2> QED BY <1>7, <2>1, <2>2 DEF Kept
  <1>8. AllKept'
    BY <1>1, <1>3, <1>7 DEF AllKept, KeptUpTo
  <1>9. PendingInv'
    BY <1>1, <1>3, <1>7 DEF PendingInv
  <1> QED BY <1>1, <1>3, <1>5, <1>6, <1>8, <1>9, FinSame DEF KeptInv

\* The acknowledged bytes, but for those of a FIN segment without PSH, are in the
\* queue or written, in every behaviour of the two threads and for every way the
\* client cuts, repeats and reorders a stream whose numbers do not wrap.
THEOREM AckedStaysKept == NoWrap => (Spec => []AckedIsKept)
  <1> SUFFICES ASSUME NoWrap PROVE Spec => []AckedIsKept
    OBVIOUS
  <1>1. Init => OpenInv
    <2> SUFFICES ASSUME Init PROVE KeptInv
      BY DEF OpenInv
    <2>1. FirstSeq \in (-Half)..(Half - 1) /\ Half \in Nat
      BY UplinkAssumption, HalfAssumption
    <2>2. mClientNexSeqNumber = FirstSeq
      <3>1. SeqOf(1) = Signed(FirstSeq)
        BY <2>1 DEF SeqOf
      <3> QED BY <2>1, <3>1, SignedId DEF Init
    <2>3. EntryInv /\ PendingInv /\ written \in Seq(Nat)
      BY DEF Init, EntryInv, PendingInv, Idle
    <2>4. AllKept /\ FinInv
      <3>1. dropped = 0
        BY DEF Init
      <3> QED BY <2>1, <2>2, <3>1 DEF AllKept, KeptUpTo, FinInv
    <2> QED BY <2>1, <2>2, <2>3, <2>4 DEF KeptInv
  <1>2. OpenInv /\ [Next]_vars => OpenInv'
    <2> SUFFICES ASSUME OpenInv, [Next]_vars, ~closed' PROVE KeptInv'
      BY DEF OpenInv
    <2>0. KeptInv
      <3> SUFFICES ~closed
        BY DEF OpenInv
      <3>1. ASSUME NEW seg \in Segments, Receive(seg) PROVE ~closed
        BY <3>1, Zenon DEF Receive, Accept, AcceptFin, Buffer, Ignore, PutSegment
      <3>2. CASE PutPlaceholder
        BY <3>2, Zenon DEF PutPlaceholder
      <3>3. CASE Peek \/ Write
        BY <3>3, Zenon DEF Peek, Write
      <3>4. CASE UNCHANGED vars
        BY <3>4, Zenon DEF vars
      <3> QED BY <3>1, <3>2, <3>3, <3>4 DEF Next
    <2>1. ASSUME NEW seg \in Segments, Receive(seg) PROVE KeptInv'
      BY <2>0, <2>1, ReceiveKeeps
    <2>2. CASE PutPlaceholder
      BY <2>0, <2>2, PutPlaceholderKeeps
    <2>3. CASE Peek
      <3>1. UNCHANGED <<mPackets, mClientNexSeqNumber, dropped, pending, written>>
        BY <2>3, Zenon DEF Peek, PollPeek, PollWait
      <3> QED BY <2>0, <3>1, FinSame DEF KeptInv, EntryInv, PendingInv, AllKept, KeptUpTo, Kept
    <2>4. CASE Write
      BY <2>0, <2>4, WriteKeeps
    <2>5. CASE UNCHANGED vars
      BY <2>0, <2>5, FinSame DEF vars, KeptInv, EntryInv, PendingInv, AllKept, KeptUpTo, Kept
    <2> QED BY <2>1, <2>2, <2>3, <2>4, <2>5 DEF Next
  <1>3. OpenInv => AckedIsKept
    BY DEF OpenInv, KeptInv, AckedIsKept, AllKept
  <1> QED BY <1>1, <1>2, <1>3, PTL DEF Spec

-------------------------------------------------------------------------------
\* Whatever is computed wraps to an int.
LEMMA SignedRange ==
    ASSUME NEW x \in Int
    PROVE  Signed(x) \in (-Half)..(Half - 1)
  <1>1. Half \in Nat \ {0}
    BY HalfAssumption
  <1>2. 2 * Half \in Nat \ {0} /\ x + Half \in Int
    BY <1>1
  <1>3. (x + Half) % (2 * Half) \in 0..(2 * Half - 1)
    BY <1>2
  <1> QED BY <1>1, <1>3 DEF Signed

\* The ints are bounded below, so the queue's first entry is the least one.
LEMMA FirstOfInts ==
    ASSUME NEW packets, DOMAIN packets # {}, DOMAIN packets \subseteq (-Half)..(Half - 1)
    PROVE  First(packets) \in DOMAIN packets /\ \A t \in DOMAIN packets : First(packets) <= t
  <1>1. -Half \in Int /\ \A s \in DOMAIN packets : s \in Int /\ s >= -Half
    BY HalfAssumption
  <1> QED BY <1>1, FirstIsEntry

\* The queue's type, and poll()'s
PacketsOK(packets) ==
    /\ DOMAIN packets \subseteq (-Half)..(Half - 1)
    /\ \A s \in DOMAIN packets : packets[s] = NoPacket \/ packets[s] \in Seq(Nat)
Pollers == {"peek", "take", "wait", "waiting"}

\* put() of a placeholder or of data keeps them.
LEMMA PutType ==
    ASSUME NEW s \in (-Half)..(Half - 1), NEW packet, packet = NoPacket \/ packet \in Seq(Nat),
           put(s, packet), PacketsOK(mPackets), poller \in Pollers
    PROVE  PacketsOK(mPackets)' /\ poller' \in Pollers
  <1>1. PacketsOK(mPackets)'
    BY DEF put, PacketsOK
  <1>2. poller' \in Pollers
    BY DEF put, Pollers
  <1> QED BY <1>1, <1>2

\* Every state the connection reaches is well-typed: the queue's numbers are ints
\* even when the stream passes the largest one, and what poll() hands to the
\* remote stream is data.
THEOREM TypeCorrect == Spec => []TypeOK
  <1>0. /\ Half \in Nat \ {0} /\ FirstSeq \in (-Half)..(Half - 1) /\ MaxReceived \in Nat
        /\ 0 \in (-Half)..(Half - 1)
    BY HalfAssumption, UplinkAssumption
  <1>1. Init => TypeOK
    <2> SUFFICES ASSUME Init PROVE TypeOK
      OBVIOUS
    <2>1. mClientNexSeqNumber \in (-Half)..(Half - 1)
      BY <1>0, SignedRange DEF Init, SeqOf
    <2>2. pending \in [busy : BOOLEAN, next : (-Half)..(Half - 1), accept : BOOLEAN]
      BY <1>0 DEF Init, Idle
    <2>3. DOMAIN mPackets = {}
      BY DEF Init
    <2>4. written \in Seq(Nat) /\ received \in 0..MaxReceived /\ dropped \in Nat
      BY <1>0 DEF Init
    <2> QED BY <2>1, <2>2, <2>3, <2>4 DEF Init, TypeOK
  <1>2. TypeOK /\ [Next]_vars => TypeOK'
    <2> SUFFICES ASSUME TypeOK, [Next]_vars PROVE TypeOK'
      OBVIOUS
    <2> DEFINE Ints == (-Half)..(Half - 1)
               Wrappers == [busy : BOOLEAN, next : Ints, accept : BOOLEAN]
    <2>0. /\ PacketsOK(mPackets) /\ poller \in Pollers /\ mClientNexSeqNumber \in Ints
          /\ pending \in Wrappers /\ written \in Seq(Nat)
          /\ closed \in BOOLEAN /\ ahead \in BOOLEAN /\ received \in 0..MaxReceived
          /\ dropped \in Nat
      BY DEF TypeOK, PacketsOK, Pollers
    <2>a. SUFFICES /\ PacketsOK(mPackets)' /\ poller' \in Pollers /\ mClientNexSeqNumber' \in Ints
                   /\ pending' \in Wrappers /\ written' \in Seq(Nat)
                   /\ closed' \in BOOLEAN /\ ahead' \in BOOLEAN /\ received' \in 0..MaxReceived
                   /\ dropped' \in Nat
      BY DEF TypeOK, PacketsOK, Pollers
    <2>1. ASSUME NEW seg \in Segments, NEW accept \in BOOLEAN, PutSegment(seg, accept)
          PROVE  /\ PacketsOK(mPackets)' /\ poller' \in Pollers /\ mClientNexSeqNumber' \in Ints
                 /\ pending' \in Wrappers /\ written' \in Seq(Nat) /\ closed' = closed
                 /\ dropped' = dropped
      <3>1. seg.off \in Nat \ {0} /\ seg.len \in Nat \ {0}
        BY UplinkAssumption
      <3>2. SeqOf(seg.off) \in Ints
        BY <1>0, <3>1, SignedRange DEF SeqOf
      <3>3. Signed(SeqOf(seg.off) + seg.len) \in Ints
        <4>1. SeqOf(seg.off) + seg.len \in Int
          BY <1>0, <3>1, <3>2
        <4> QED BY <4>1, SignedRange
      <3>4. PacketsOK(mPackets)' /\ poller' \in Pollers
        BY <2>0, <2>1, <3>2, BytesOf, PutType DEF PutSegment
      <3>5. pending' \in Wrappers
        BY <2>1, <3>3 DEF PutSegment
      <3> QED BY <2>0, <2>1, <3>4, <3>5, Zenon DEF PutSegment
    <2>2. ASSUME NEW seg \in Segments, Receive(seg) PROVE <2>a!1
      <3>1. received' \in 0..MaxReceived
        BY <1>0, <2>0, <2>2 DEF Receive
      <3>2. ahead' \in BOOLEAN
        BY <2>0, <2>2, Zenon DEF Receive
      <3>3. CASE Accept(seg)
        BY <2>0, <2>1, <3>1, <3>2, <3>3, Zenon DEF Accept
      <3>4. CASE Buffer(seg)
        BY <2>0, <2>1, <3>1, <3>2, <3>4, Zenon DEF Buffer
      <3>5. CASE Ignore(seg)
        BY <2>0, <3>1, <3>2, <3>5 DEF Ignore
      <3>6. CASE AcceptFin(seg)
        <4>1. seg.off \in Nat \ {0} /\ seg.len \in Nat \ {0}
          BY UplinkAssumption
        <4>2. SeqOf(seg.off) \in Ints
          BY <1>0, <4>1, SignedRange DEF SeqOf
        <4>3. SeqOf(seg.off) + seg.len \in Int
          BY <1>0, <4>1, <4>2
        <4>4. mClientNexSeqNumber' \in Ints
          BY <3>6, <4>3, SignedRange DEF AcceptFin
        <4>5. dropped' \in Nat
          BY <3>6, <4>1 DEF AcceptFin
        <4>6. UNCHANGED <<mPackets, poller, pending, written, closed>>
          BY <3>6, Zenon DEF AcceptFin
        <4> QED BY <2>0, <3>1, <3>2, <4>4, <4>5, <4>6
      <3> QED BY <2>2, <3>3, <3>4, <3>5, <3>6, Zenon DEF Receive
    <2>3. CASE PutPlaceholder
      <3>1. pending.next \in Ints
        BY <2>0
      <3>2. PacketsOK(mPackets)' /\ poller' \in Pollers
        BY <2>0, <2>3, <3>1, PutType DEF PutPlaceholder
      <3>3. mClientNexSeqNumber' \in Ints
        BY <2>0, <2>3, <3>1 DEF PutPlaceholder
      <3>4. pending' \in Wrappers
        BY <1>0, <2>3 DEF PutPlaceholder, Idle
      <3>5. UNCHANGED <<written, closed, ahead, received, dropped>>
        BY <2>3 DEF PutPlaceholder, client
      <3> QED BY <2>0, <3>2, <3>3, <3>4, <3>5
    <2>4. CASE Peek
      <3>1. UNCHANGED <<mPackets, mClientNexSeqNumber, dropped, pending, written, closed, ahead, received>>
        BY <2>4, Zenon DEF Peek, PollPeek, PollWait, client
      <3>2. poller' \in Pollers
        BY <2>4 DEF Peek, PollPeek, PollWait, Pollers
      <3> QED BY <2>0, <3>1, <3>2
    <2>5. CASE Write
      <3>1. UNCHANGED <<mClientNexSeqNumber, dropped, pending, ahead, received>>
        BY <2>5, Zenon DEF Write, client
      <3>2. PacketsOK(mPackets)' /\ poller' \in Pollers
        BY <2>0, <2>5 DEF Write, PollTake, PacketsOK, Pollers
      <3>3. closed' \in BOOLEAN
        BY <2>0, <2>5, Zenon DEF Write
      <3>4. written' \in Seq(Nat)
        <4>1. CASE written' = written
          BY <2>0, <4>1
        <4>2. CASE Ready(mPackets) /\ written' = written \o mPackets[First(mPackets)]
          <5>1. First(mPackets) \in DOMAIN mPackets
            BY <2>0, <4>2, FirstOfInts DEF Ready, PacketsOK
          <5>2. mPackets[First(mPackets)] \in Seq(Nat)
            BY <2>0, <4>2, <5>1 DEF Ready, PacketsOK
          <5> QED BY <2>0, <4>2, <5>2
        <4> QED BY <2>5, <4>1, <4>2 DEF Write
      <3> QED BY <2>0, <3>1, <3>2, <3>3, <3>4
    <2>6. CASE UNCHANGED vars
      BY <2>0, <2>6 DEF vars, client
    <2> QED BY <2>2, <2>3, <2>4, <2>5, <2>6 DEF Next
  <1> QED BY <1>1, <1>2, PTL DEF Spec

-------------------------------------------------------------------------------
(* No segment has come ahead of the expected one.                          *)

\* Where the accepted part of the stream ends, and where the written part does
End == IF pending.busy THEN pending.next ELSE mClientNexSeqNumber - dropped
NextOut == FirstSeq + Len(written)

\* The packet at s carries the stream's bytes from s on, up to the place of the
\* next entry, or to that of the placeholder that is about to be put.
PacketInv(s, packet) ==
    /\ Len(packet) > 0
    /\ \A i \in 1..Len(packet) : packet[i] = s - FirstSeq + i
    /\ s + Len(packet) <= End
    /\ s + Len(packet) \in DOMAIN mPackets \/ (pending.busy /\ s + Len(packet) = End)
    /\ \A t \in DOMAIN mPackets : ~(s < t /\ t < s + Len(packet))

\* The entries follow one another from where the written part ends to where the
\* accepted part does; the only placeholder is at that end.
OrderInv ==
    /\ pending.busy => pending.accept /\ pending.next > mClientNexSeqNumber
    /\ \A s \in DOMAIN mPackets : NextOut <= s /\ s <= End
    /\ NextOut \in DOMAIN mPackets \/ NextOut = End
    /\ \A s \in DOMAIN mPackets :
          IF mPackets[s] = NoPacket THEN ~pending.busy /\ s = End
                                    ELSE PacketInv(s, mPackets[s])

\* The inductive invariant: what poll() has seen first it still finds there.
Written == \A i \in DOMAIN written : written[i] = i
OpenStream == OrderInv /\ FinInv /\ (poller = "take" => Ready(mPackets))
StreamInv == ~ahead => Written /\ IF closed THEN poller # "take" ELSE OpenStream

\* What the lemmas below need of the types
Numbers ==
    /\ FirstSeq \in Int
    /\ \A s \in DOMAIN mPackets :
          s \in Int /\ (mPackets[s] # NoPacket => mPackets[s] \in Seq(Nat))
    /\ mClientNexSeqNumber \in Int /\ pending.next \in Int /\ dropped \in Nat
    /\ written \in Seq(Nat)

\* They follow from the type invariant.
LEMMA TypeNumbers == ASSUME TypeOK PROVE Numbers
  <1>1. Half \in Nat /\ FirstSeq \in Int
    BY FirstSeqInt
  <1> QED BY <1>1 DEF TypeOK, Numbers

\* The expected segment is put at the end of the entries, over the placeholder.
LEMMA AcceptStream ==
    ASSUME NoWrap, TypeOK, OrderInv, ~pending.busy, dropped = 0, NEW seg \in Segments, Accept(seg)
    PROVE  OrderInv' /\ Ready(mPackets)'
  <1> DEFINE s == mClientNexSeqNumber
             n == s + seg.len
             p == Bytes(seg)
  <1>1. /\ Numbers /\ s \in Int /\ n \in Int /\ n > s /\ FirstSeq \in Int
        /\ seg.off \in Nat \ {0} /\ seg.len \in Nat \ {0}
        /\ s = FirstSeq + seg.off - 1 /\ SeqOf(seg.off) = s
        /\ Signed(SeqOf(seg.off) + seg.len) = n
    BY SegmentNumbers, TypeNumbers DEF Accept, Numbers
  <1>2. put(s, p) /\ written' = written /\ mClientNexSeqNumber' = s
    BY <1>1 DEF Accept, PutSegment
  <1>3. pending' = [busy |-> TRUE, next |-> n, accept |-> TRUE]
    BY <1>1 DEF Accept, PutSegment
  <1>4. End = s /\ End' = n /\ NextOut' = NextOut /\ NextOut \in Int
    BY <1>1, <1>2, <1>3 DEF End, NextOut, Numbers
  <1>5. p \in Seq(Nat) /\ p # NoPacket /\ Len(p) = seg.len
        /\ \A i \in 1..seg.len : p[i] = s - FirstSeq + i
    <2>1. p \in Seq(Nat) /\ p # NoPacket
      BY BytesOf
    <2>2. Len(p) = seg.len
      BY <1>1 DEF Bytes
    <2>3. ASSUME NEW i \in 1..seg.len PROVE p[i] = s - FirstSeq + i
      <3>1. p[i] = seg.off + i - 1
        BY DEF Bytes
      <3> HIDE DEF p
      <3> QED BY <1>1, <3>1
    <2> HIDE DEF p
    <2> QED BY <2>1, <2>2, <2>3
  <1> HIDE DEF n, p
  <1>6. /\ DOMAIN mPackets' = DOMAIN mPackets \cup {s} /\ mPackets'[s] = p
        /\ \A t \in DOMAIN mPackets : t # s => mPackets'[t] = mPackets[t]
    BY <1>2 DEF put
  <1>7. /\ \A t \in DOMAIN mPackets : t \in Int /\ NextOut <= t /\ t <= s
        /\ NextOut <= s /\ NextOut \in DOMAIN mPackets'
    BY <1>1, <1>4, <1>6 DEF OrderInv, Numbers
  <1>8. ASSUME NEW t, t = s PROVE PacketInv(t, mPackets[t])'
    <2>1. \A u \in DOMAIN mPackets' : ~(t < u /\ u < t + Len(p))
      BY <1>1, <1>6, <1>7, <1>8
    <2>2. t + Len(p) = n /\ mPackets'[t] = p
      BY <1>5, <1>6, <1>8 DEF n
    <2>3. n <= n
      BY <1>1
    <2> QED BY <1>1, <1>3, <1>4, <1>5, <1>8, <2>1, <2>2, <2>3 DEF PacketInv
  <1>9. ASSUME NEW t \in DOMAIN mPackets, t # s
        PROVE  mPackets[t] # NoPacket /\ PacketInv(t, mPackets[t])'
    <2>1. mPackets[t] # NoPacket /\ PacketInv(t, mPackets[t]) /\ mPackets'[t] = mPackets[t]
      BY <1>4, <1>6, <1>9 DEF OrderInv
    <2> DEFINE q == mPackets[t]
    <2>2. q \in Seq(Nat) /\ t \in Int /\ Len(q) \in Nat
      BY <1>1, <2>1 DEF Numbers
    <2>3. /\ Len(q) > 0 /\ \A i \in 1..Len(q) : q[i] = t - FirstSeq + i
          /\ t + Len(q) <= s
          /\ t + Len(q) \in DOMAIN mPackets
          /\ \A u \in DOMAIN mPackets : ~(t < u /\ u < t + Len(q))
      BY <2>1, <1>4 DEF PacketInv
    <2> HIDE DEF q
    <2>4. \A u \in DOMAIN mPackets' : ~(t < u /\ u < t + Len(q))
      BY <2>2, <2>3, <1>1, <1>6
    <2>5. t + Len(q) <= n
      BY <2>2, <2>3, <1>1
    <2>6. mPackets'[t] = q
      BY <2>1 DEF q
    <2>7. PacketInv(t, mPackets[t])'
      BY <2>3, <2>4, <2>5, <2>6, <1>4, <1>6 DEF PacketInv
    <2> QED BY <2>1, <2>7 DEF q
  <1>10. OrderInv'
    <2>1. pending'.busy => pending'.accept /\ pending'.next > mClientNexSeqNumber'
      BY <1>1, <1>2, <1>3
    <2>2. \A t \in DOMAIN mPackets' : NextOut <= t /\ t <= n
      BY <1>1, <1>4, <1>6, <1>7
    <2>3. \A t \in DOMAIN mPackets' : mPackets'[t] # NoPacket /\ PacketInv(t, mPackets[t])'
      BY <1>5, <1>6, <1>8, <1>9
    <2> QED BY <2>1, <2>2, <2>3, <1>4, <1>7 DEF OrderInv
  <1>11. Ready(mPackets)'
    <2>1. \A t \in DOMAIN mPackets' : t \in Int /\ t >= NextOut /\ mPackets'[t] # NoPacket
      BY <1>1, <1>5, <1>6, <1>7, <1>9
    <2>2. DOMAIN mPackets' # {}
      BY <1>6
    <2>3. First(mPackets') \in DOMAIN mPackets'
      BY <1>4, <2>1, <2>2, FirstIsEntry
    <2> QED BY <2>1, <2>2, <2>3 DEF Ready
  <1> QED BY <1>10, <1>11

\* The placeholder goes to the end, after every packet.
LEMMA PlaceholderStream ==
    ASSUME TypeOK, OrderInv, dropped = 0, PutPlaceholder
    PROVE  OrderInv' /\ (Ready(mPackets) => Ready(mPackets)')
  <1> DEFINE n == pending.next
  <1>1. Numbers /\ n \in Int /\ FirstSeq \in Int /\ mClientNexSeqNumber \in Int
    BY TypeNumbers DEF Numbers
  <1>2. /\ pending.busy /\ pending.accept /\ put(n, NoPacket) /\ written' = written
        /\ mClientNexSeqNumber' = n /\ pending' = Idle
    BY DEF PutPlaceholder, OrderInv
  <1>3. ~pending'.busy /\ End = n /\ End' = n /\ NextOut' = NextOut /\ NextOut \in Int
    <2>1. dropped' = 0
      BY Zenon DEF PutPlaceholder
    <2> QED BY <1>1, <1>2, <2>1 DEF End, NextOut, Numbers, Idle
  <1> HIDE DEF n
  <1>4. /\ DOMAIN mPackets' = DOMAIN mPackets \cup {n} /\ mPackets'[n] = NoPacket
        /\ \A t \in DOMAIN mPackets : t # n => mPackets'[t] = mPackets[t]
    BY <1>2 DEF put
  <1>5. ASSUME NEW t \in DOMAIN mPackets
        PROVE  /\ mPackets[t] # NoPacket /\ mPackets[t] \in Seq(Nat) /\ t \in Int
               /\ t < n /\ mPackets'[t] = mPackets[t] /\ PacketInv(t, mPackets[t])'
    <2> DEFINE q == mPackets[t]
    <2>1. q # NoPacket /\ PacketInv(t, q)
      BY <1>2 DEF OrderInv
    <2>2. q \in Seq(Nat) /\ t \in Int /\ Len(q) \in Nat
      BY <1>1, <2>1 DEF Numbers
    <2>3. /\ Len(q) > 0 /\ \A i \in 1..Len(q) : q[i] = t - FirstSeq + i
          /\ t + Len(q) <= n
          /\ t + Len(q) \in DOMAIN mPackets \/ t + Len(q) = n
          /\ \A u \in DOMAIN mPackets : ~(t < u /\ u < t + Len(q))
      BY <2>1, <1>3 DEF PacketInv
    <2> HIDE DEF q
    <2>4. t < n
      BY <2>2, <2>3, <1>1
    <2>5. mPackets'[t] = q
      BY <2>4, <1>1, <1>4 DEF q
    <2>6. \A u \in DOMAIN mPackets' : ~(t < u /\ u < t + Len(q))
      BY <2>2, <2>3, <1>1, <1>4
    <2>7. t + Len(q) \in DOMAIN mPackets'
      BY <2>3, <1>4
    <2>8. PacketInv(t, mPackets[t])'
      BY <2>3, <2>5, <2>6, <2>7, <1>3 DEF PacketInv
    <2> QED BY <2>1, <2>2, <2>4, <2>5, <2>8 DEF q
  <1>6. OrderInv'
    <2>1. NextOut <= n
      BY <1>1, <1>3 DEF OrderInv
    <2>2. \A t \in DOMAIN mPackets' : NextOut <= t /\ t <= n
      BY <1>1, <1>3, <1>4, <1>5, <2>1 DEF OrderInv
    <2>3. NextOut \in DOMAIN mPackets' \/ NextOut = n
      BY <1>3, <1>4 DEF OrderInv
    <2>4. \A t \in DOMAIN mPackets' :
             IF mPackets'[t] = NoPacket THEN t = n ELSE PacketInv(t, mPackets[t])' 
      BY <1>4, <1>5
    <2> QED BY <2>2, <2>3, <2>4, <1>2, <1>3 DEF OrderInv
  <1>7. ASSUME Ready(mPackets) PROVE Ready(mPackets)'
    <2>1. PICK t \in DOMAIN mPackets : TRUE
      BY <1>7 DEF Ready
    <2>2. \A u \in DOMAIN mPackets' : u \in Int /\ u >= NextOut
      BY <1>1, <1>3, <1>4, <1>6 DEF OrderInv, Numbers
    <2>3. First(mPackets') \in DOMAIN mPackets' /\ First(mPackets') <= t
      BY <2>1, <2>2, <1>3, <1>4, FirstIsEntry
    <2>4. First(mPackets') \in DOMAIN mPackets
      BY <1>1, <1>4, <1>5, <2>1, <2>2, <2>3
    <2> QED BY <1>5, <2>3, <2>4 DEF Ready
  <1> QED BY <1>6, <1>7

\* poll() removes the packet at the place where the written part ends.
LEMMA WriteStream ==
    ASSUME TypeOK, OrderInv, Written, Ready(mPackets), Write, ~closed'
    PROVE  OrderInv' /\ Written'
  <1> DEFINE f == First(mPackets)
             p == mPackets[f]
             m == f + Len(p)
  <1>1. Numbers /\ FirstSeq \in Int /\ mClientNexSeqNumber \in Int /\ pending.next \in Int
        /\ written \in Seq(Nat) /\ Len(written) \in Nat
    BY TypeNumbers DEF Numbers
  <1>2. NextOut \in Int /\ End \in Int
    <2>1. dropped \in Int
      BY <1>1 DEF Numbers
    <2> QED BY <1>1, <2>1 DEF NextOut, End
  <1>3. f \in DOMAIN mPackets /\ \A t \in DOMAIN mPackets : f <= t
    BY FirstOfInts DEF Ready, TypeOK
  <1>4. p # NoPacket /\ PacketInv(f, p) /\ p \in Seq(Nat) /\ f \in Int /\ Len(p) \in Nat
    BY <1>1, <1>3 DEF Ready, OrderInv, Numbers
  <1>5. /\ Len(p) > 0 /\ \A i \in 1..Len(p) : p[i] = f - FirstSeq + i
        /\ m <= End
        /\ m \in DOMAIN mPackets \/ (pending.busy /\ m = End)
        /\ \A t \in DOMAIN mPackets : ~(f < t /\ t < m)
    BY <1>4 DEF PacketInv
  <1>6. mPackets' = [t \in DOMAIN mPackets \ {f} |-> mPackets[t]]
    BY DEF Write, PollTake
  <1>7. UNCHANGED <<mClientNexSeqNumber, dropped, pending>> /\ written' = written \o p
    BY DEF Write
  <1> HIDE DEF f, p
  <1>8. f = NextOut
    <2>1. NextOut <= f /\ f <= End
      BY <1>3 DEF OrderInv
    <2>2. NextOut # End
      BY <1>2, <1>4, <1>5, <2>1
    <2>3. NextOut \in DOMAIN mPackets
      BY <2>2 DEF OrderInv
    <2> QED BY <1>2, <1>3, <1>4, <2>1, <2>3
  <1>9. /\ written' \in Seq(Nat) /\ Len(written') = Len(written) + Len(p)
        /\ DOMAIN written' = 1..(Len(written) + Len(p))
        /\ \A i \in 1..Len(written) : written'[i] = written[i]
        /\ \A i \in 1..Len(p) : written'[Len(written) + i] = p[i]
    BY <1>1, <1>4, <1>7
  <1>10. NextOut' = m /\ End' = End /\ m \in Int
    BY <1>1, <1>4, <1>7, <1>8, <1>9 DEF NextOut, End
  <1> HIDE DEF m
  <1>10a. m = f + Len(p)
    BY DEF m
  <1>11. Written'
    <2> SUFFICES ASSUME NEW i \in DOMAIN written' PROVE written'[i] = i
      BY DEF Written
    <2>1. CASE i <= Len(written)
      <3>1. i \in 1..Len(written) /\ i \in DOMAIN written
        BY <1>1, <1>4, <1>9, <2>1
      <3> QED BY <3>1, <1>9 DEF Written
    <2>2. CASE i > Len(written)
      <3> DEFINE j == i - Len(written)
      <3>1. j \in 1..Len(p) /\ i = Len(written) + j
        BY <1>1, <1>4, <1>9, <2>2
      <3>2. written'[i] = f - FirstSeq + j
        BY <3>1, <1>5, <1>9
      <3>3. f = FirstSeq + Len(written)
        BY <1>8 DEF NextOut
      <3> QED BY <3>1, <3>2, <3>3, <1>1
    <2> QED BY <1>1, <1>4, <1>9, <2>1, <2>2
  <1>12. ASSUME NEW t \in DOMAIN mPackets, t # f
         PROVE  t \in Int /\ m <= t /\ t \in DOMAIN mPackets' /\ mPackets'[t] = mPackets[t]
    <2>1. t \in Int /\ f <= t /\ ~(f < t /\ t < m)
      BY <1>1, <1>3, <1>5 DEF Numbers
    <2> QED BY <2>1, <1>4, <1>6, <1>10, <1>12
  <1>13. ASSUME NEW t \in DOMAIN mPackets', mPackets'[t] # NoPacket
         PROVE  PacketInv(t, mPackets[t])'
    <2> DEFINE q == mPackets[t]
    <2>1. t \in DOMAIN mPackets /\ t # f /\ mPackets'[t] = q /\ t \in Int /\ m <= t
      BY <1>6, <1>12
    <2>2. PacketInv(t, q) /\ q \in Seq(Nat) /\ Len(q) \in Nat
      BY <1>1, <1>13, <2>1 DEF OrderInv, Numbers
    <2>3. /\ Len(q) > 0 /\ \A i \in 1..Len(q) : q[i] = t - FirstSeq + i
          /\ t + Len(q) <= End
          /\ t + Len(q) \in DOMAIN mPackets \/ (pending.busy /\ t + Len(q) = End)
          /\ \A u \in DOMAIN mPackets : ~(t < u /\ u < t + Len(q))
      BY <2>2 DEF PacketInv
    <2> HIDE DEF q
    <2>4. t + Len(q) # f
      BY <2>1, <2>2, <2>3, <1>4, <1>10, <1>10a
    <2>5. t + Len(q) \in DOMAIN mPackets' \/ (pending'.busy /\ t + Len(q) = End')
      BY <2>3, <2>4, <1>7, <1>10, <1>12
    <2>6. \A u \in DOMAIN mPackets' : ~(t < u /\ u < t + Len(q))
      BY <2>3, <1>6
    <2>7. mPackets'[t] = q
      BY <2>1 DEF q
    <2> QED BY <2>3, <2>5, <2>6, <2>7, <1>10 DEF PacketInv
  <1>14. OrderInv'
    <2>1. pending'.busy => pending'.accept /\ pending'.next > mClientNexSeqNumber'
      BY <1>7 DEF OrderInv
    <2>2. \A t \in DOMAIN mPackets' : m <= t /\ t <= End
      BY <1>6, <1>12 DEF OrderInv
    <2>3. m \in DOMAIN mPackets' \/ m = End
      <3>1. m # f
        BY <1>4, <1>5, <1>10a
      <3> QED BY <3>1, <1>5, <1>12
    <2>4. \A t \in DOMAIN mPackets' :
             mPackets'[t] = NoPacket => ~pending'.busy /\ t = End'
      BY <1>6, <1>7, <1>10 DEF OrderInv
    <2> QED BY <2>1, <2>2, <2>3, <2>4, <1>10, <1>13 DEF OrderInv
  <1> QED BY <1>11, <1>14

\* The data of a FIN segment comes after the end of the entries, and stays out.
LEMMA AcceptFinStream ==
    ASSUME NoWrap, TypeOK, OrderInv, ~pending.busy, dropped = 0,
           NEW seg \in Segments, AcceptFin(seg)
    PROVE  OrderInv' /\ FinInv'
  <1>1. /\ FinInv' /\ mClientNexSeqNumber' - dropped' = SeqOf(seg.off)
    BY FinEnds
  <1>2. SeqOf(seg.off) = mClientNexSeqNumber /\ UNCHANGED <<mPackets, written, pending>>
    BY DEF AcceptFin
  <1>3. mClientNexSeqNumber - dropped = mClientNexSeqNumber
    BY TypeNumbers DEF Numbers
  <1>4. End' = End /\ NextOut' = NextOut
    BY <1>1, <1>2, <1>3 DEF End, NextOut
  <1> QED BY <1>1, <1>2, <1>4 DEF OrderInv, PacketInv

\* After the handshake the queue is empty and nothing is written.
LEMMA StreamInit == ASSUME Init PROVE StreamInv
  <1>1. FirstSeq \in (-Half)..(Half - 1) /\ FirstSeq \in Int
    BY UplinkAssumption, FirstSeqInt
  <1>2. mClientNexSeqNumber = FirstSeq
    <2>1. SeqOf(1) = Signed(FirstSeq)
      BY <1>1 DEF SeqOf
    <2> QED BY <1>1, <2>1, SignedId DEF Init
  <1>3. ~pending.busy /\ End = FirstSeq /\ FinInv
    BY <1>1, <1>2 DEF Init, Idle, End, FinInv
  <1>4. NextOut = FirstSeq
    BY <1>1 DEF Init, NextOut
  <1>5. DOMAIN mPackets = {} /\ poller # "take" /\ ~closed /\ DOMAIN written = {}
    BY DEF Init
  <1> QED BY <1>3, <1>4, <1>5 DEF StreamInv, OpenStream, OrderInv, Written

\* Every step of the two threads keeps StreamInv.
LEMMA StreamNext ==
    ASSUME NoWrap, TypeOK, StreamInv, [Next]_vars
    PROVE  StreamInv'
  <1> SUFFICES ASSUME ~ahead' PROVE Written' /\ IF closed' THEN poller' # "take" ELSE OpenStream'
    BY DEF StreamInv
  <1>0. Numbers
    BY TypeNumbers
  <1>1. ASSUME NEW seg \in Segments, Receive(seg) PROVE ~ahead /\ ~Buffer(seg)
    BY <1>1, Zenon DEF Receive, Buffer
  <1>2. ~ahead
    <2>1. CASE PutPlaceholder \/ Peek \/ Write
      BY <2>1, Zenon DEF PutPlaceholder, Peek, Write, client
    <2>2. CASE UNCHANGED vars
      BY <2>2, Zenon DEF vars, client
    <2> QED BY <1>1, <2>1, <2>2, Zenon DEF Next
  <1>3. Written /\ (closed => poller # "take") /\ (~closed => OpenStream)
    BY <1>2, Zenon DEF StreamInv
  <1>4. ASSUME NEW s, NEW packet, put(s, packet), poller # "take" PROVE poller' # "take"
    BY <1>4 DEF put
  <1>5. ASSUME NEW seg \in Segments, Accept(seg), ~pending.busy
        PROVE  Written' /\ IF closed' THEN poller' # "take" ELSE OpenStream'
    <2>1. UNCHANGED <<written, closed>>
      BY <1>5, Zenon DEF Accept, PutSegment
    <2>2. Written'
      BY <1>3, <2>1 DEF Written
    <2>3. CASE closed
      BY <1>3, <1>4, <1>5, <2>1, <2>2, <2>3, Zenon DEF Accept, PutSegment
    <2>4. CASE ~closed
      <3>1. OrderInv /\ FinInv
        BY <1>3, <2>4 DEF OpenStream
      <3>2. dropped = 0 /\ dropped' = 0
        <4>1. SeqOf(seg.off) = mClientNexSeqNumber /\ dropped' = dropped
          BY <1>5, Zenon DEF Accept, PutSegment
        <4> QED BY <1>0, <3>1, <4>1, NothingDropped DEF Numbers
      <3>3. OrderInv' /\ Ready(mPackets)' /\ FinInv'
        BY <1>5, <3>1, <3>2, AcceptStream, FinNothing
      <3> QED BY <2>1, <2>2, <2>4, <3>3 DEF OpenStream
    <2> QED BY <2>3, <2>4
  <1>6. ASSUME UNCHANGED <<mPackets, poller, mClientNexSeqNumber, dropped, pending, written, closed>>
        PROVE  Written' /\ IF closed' THEN poller' # "take" ELSE OpenStream'
    BY <1>3, <1>6, FinSame DEF Written, OpenStream, OrderInv, PacketInv, End, NextOut
  <1>7. ASSUME NEW seg \in Segments, Receive(seg)
        PROVE  Written' /\ IF closed' THEN poller' # "take" ELSE OpenStream'
    <2>1. CASE Accept(seg)
      BY <1>5, <1>7, <2>1, Zenon DEF Receive
    <2>2. CASE Ignore(seg)
      BY <1>6, <2>2 DEF Ignore
    <2>3. CASE AcceptFin(seg)
      <3>1. UNCHANGED <<mPackets, poller, written, closed>> /\ ~pending.busy
            /\ SeqOf(seg.off) = mClientNexSeqNumber
        BY <1>7, <2>3, Zenon DEF AcceptFin, Receive
      <3>2. Written'
        BY <1>3, <3>1 DEF Written
      <3>3. CASE closed
        BY <1>3, <3>1, <3>2, <3>3
      <3>4. CASE ~closed
        <4>1. OrderInv /\ FinInv
          BY <1>3, <3>4 DEF OpenStream
        <4>2. dropped = 0
          BY <1>0, <3>1, <4>1, NothingDropped DEF Numbers
        <4>3. OrderInv' /\ FinInv'
          BY <2>3, <3>1, <4>1, <4>2, AcceptFinStream
        <4>4. poller' = "take" => Ready(mPackets)'
          BY <1>3, <3>1, <3>4 DEF OpenStream
        <4> QED BY <3>1, <3>2, <3>4, <4>3, <4>4 DEF OpenStream
      <3> QED BY <3>3, <3>4
    <2> QED BY <1>1, <1>7, <2>1, <2>2, <2>3, Zenon DEF Receive
  <1>8. CASE PutPlaceholder
    <2>1. UNCHANGED <<written, closed>>
      BY <1>8, Zenon DEF PutPlaceholder
    <2>2. Written'
      BY <1>3, <2>1 DEF Written
    <2>3. CASE closed
      BY <1>3, <1>4, <1>8, <2>1, <2>2, <2>3, Zenon DEF PutPlaceholder
    <2>4. CASE ~closed
      <3>0. dropped = 0 /\ dropped' = 0 /\ FinInv'
        <4>1. dropped = 0
          BY <1>3, <1>8, <2>4, NothingDroppedYet DEF OpenStream, PutPlaceholder
        <4>2. dropped' = dropped
          BY <1>8, Zenon DEF PutPlaceholder
        <4> QED BY <4>1, <4>2, FinNothing
      <3>1. OrderInv' /\ (Ready(mPackets) => Ready(mPackets)')
        BY <1>3, <1>8, <2>4, <3>0, PlaceholderStream DEF OpenStream
      <3>2. poller' = "take" => poller = "take"
        BY <1>4, <1>8 DEF PutPlaceholder
      <3> QED BY <1>3, <2>1, <2>2, <2>4, <3>0, <3>1, <3>2, Zenon DEF OpenStream
    <2> QED BY <2>3, <2>4
  <1>9. CASE Peek
    <2>1. ~closed /\ UNCHANGED <<mPackets, mClientNexSeqNumber, dropped, pending, written, closed>>
      BY <1>9, Zenon DEF Peek, PollPeek, PollWait
    <2>2. Written' /\ OrderInv' /\ FinInv'
      BY <1>3, <2>1, FinSame DEF Written, OpenStream, OrderInv, PacketInv, End, NextOut
    <2>3. poller' = "take" => Ready(mPackets)
      BY <1>9 DEF Peek, PollPeek, PollWait
    <2> QED BY <2>1, <2>2, <2>3 DEF OpenStream
  <1>10. CASE Write
    <2>1. ~closed /\ poller = "take" /\ poller' = "peek"
      BY <1>10, Zenon DEF Write, PollTake
    <2>2. OrderInv /\ Ready(mPackets)
      BY <1>3, <2>1 DEF OpenStream
    <2>3. CASE closed'
      <3>1. written' = written
        BY <1>10, <2>1, <2>3, Zenon DEF Write
      <3> QED BY <1>3, <2>1, <2>3, <3>1 DEF Written
    <2>4. CASE ~closed'
      <3>1. UNCHANGED <<mClientNexSeqNumber, dropped, pending>>
        BY <1>10, Zenon DEF Write
      <3>2. FinInv'
        BY <1>3, <2>1, <3>1, FinSame DEF OpenStream
      <3> QED BY <1>3, <1>10, <2>1, <2>2, <2>4, <3>2, WriteStream DEF OpenStream
    <2> QED BY <2>3, <2>4
  <1>11. CASE UNCHANGED vars
    BY <1>6, <1>11 DEF vars
  <1> QED BY <1>7, <1>8, <1>9, <1>10, <1>11 DEF Next

\* StreamInv holds in every state the connection reaches.
LEMMA StreamAlways == NoWrap => (Spec => []StreamInv)
  <1> SUFFICES ASSUME NoWrap PROVE Spec => []StreamInv
    OBVIOUS
  <1>1. Init => StreamInv
    BY StreamInit
  <1>2. TypeOK /\ StreamInv /\ [Next]_vars => StreamInv'
    BY StreamNext
  <1> QED BY <1>1, <1>2, TypeCorrect, PTL DEF Spec

\* While no segment comes ahead of the expected one, poll() returns a packet: no
\* put() between its look at the first entry and its removal takes that away.
THEOREM PollsPackets == NoWrap => (Spec => []PollReturnsPacket)
  <1> SUFFICES ASSUME NoWrap PROVE Spec => []PollReturnsPacket
    OBVIOUS
  <1>1. StreamInv => PollReturnsPacket
    BY DEF StreamInv, OpenStream, PollReturnsPacket
  <1>2. Spec => []StreamInv
    BY StreamAlways
  <1> QED BY <1>1, <1>2, PTL

\* While no segment comes ahead of the expected one, what the channel's thread
\* writes is the client's stream, byte for byte, however it is cut and repeated.
THEOREM StreamInOrder == NoWrap => (Spec => []StreamIsPrefix)
  <1> SUFFICES ASSUME NoWrap PROVE Spec => []StreamIsPrefix
    OBVIOUS
  <1>1. StreamInv => StreamIsPrefix
    BY DEF StreamInv, Written, StreamIsPrefix
  <1>2. Spec => []StreamInv
    BY StreamAlways
  <1> QED BY <1>1, <1>2, PTL
===============================================================================
