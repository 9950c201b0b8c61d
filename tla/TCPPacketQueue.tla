---------------------------- MODULE TCPPacketQueue ----------------------------
(***************************************************************************)
(* TCPPacketQueue: the segments of one TCP connection on their way from    *)
(* the client to the remote server.  An entry without a packet marks the   *)
(* place of a segment that has not come yet; poll() waits while it is the  *)
(* first one.  put() is called by the PacketProcessor thread, poll() by    *)
(* the channel's thread.                                                   *)
(***************************************************************************)
EXTENDS Integers

CONSTANTS
    Half,        \* half the number of sequence numbers (2^31), which are signed ints
    NoPacket     \* the null packet of a placeholder

ASSUME HalfAssumption == Half \in Nat \ {0}

VARIABLES
    mPackets,    \* the list, sorted and without duplicates: sequence number -> packet
    poller       \* where poll() is

\* Mutant: sequence numbers are taken as unsigned.
SignedUnsigned(x) == x % (2 * Half)

\* The int a sequence number wraps to.
Signed(x) == ((x + Half) % (2 * Half)) - Half

\* mPackets.peek(), when there is an entry: the first one in the order of
\* compareTo, which compares signed numbers.
First(packets) == CHOOSE s \in DOMAIN packets : \A t \in DOMAIN packets : s <= t
Ready(packets) == DOMAIN packets # {} /\ packets[First(packets)] # NoPacket

\* Mutant: put() keeps the entry it finds.
PutKeepsOld(s, packet) ==
    /\ mPackets' = [t \in DOMAIN mPackets \cup {s} |->
                        IF t \in DOMAIN mPackets THEN mPackets[t] ELSE packet]
    /\ poller' = IF poller = "waiting" /\ Ready(mPackets') THEN "peek" ELSE poller

\* put(): the entry replaces one with the same number; notify() wakes a poll()
\* that is waiting, and is lost on one that is not.
put(s, packet) ==
    /\ mPackets' = [t \in DOMAIN mPackets \cup {s} |-> IF t = s THEN packet ELSE mPackets[t]]
    /\ poller' = IF poller = "waiting" /\ Ready(mPackets') THEN "peek" ELSE poller

\* poll() looks at the first entry and releases the list's lock ...
PollPeek ==
    /\ poller = "peek"
    /\ poller' = IF Ready(mPackets) THEN "take" ELSE "wait"
    /\ UNCHANGED mPackets

\* ... then takes the other lock and waits on it, ...
PollWait ==
    /\ poller = "wait"
    /\ poller' = "waiting"
    /\ UNCHANGED mPackets

\* ... or takes whatever is the first entry by then.
PollTake ==
    /\ poller = "take"
    /\ poller' = "peek"
    /\ mPackets' = [t \in DOMAIN mPackets \ {First(mPackets)} |-> mPackets[t]]
===============================================================================
