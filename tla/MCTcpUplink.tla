---------------------------- MODULE MCTcpUplink -------------------------------
(* TcpUplink for short streams cut into segments in several ways.          *)
EXTENDS TcpUplink
Seg(off, len) == [off |-> off, len |-> len, fin |-> FALSE]
FinSeg(off, len) == [off |-> off, len |-> len, fin |-> TRUE]

\* The stream is a single segment, which may come again.
Single == {Seg(1, 2)}

\* It cuts a retransmission in another way.
Recut == {Seg(1, 1), Seg(1, 2), Seg(2, 1), Seg(2, 2), Seg(3, 1), Seg(4, 1),
          FinSeg(3, 2), FinSeg(4, 1)}

\* The sequence numbers of the stream change their sign.
NearZero == -2
===============================================================================
