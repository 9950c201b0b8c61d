------------------------------ MODULE SshConfig -------------------------------
(***************************************************************************)
(* One SSHConfig object: connect(), which the service's handler thread     *)
(* runs, against cancel(), which any of its threads may run at the same    *)
(* time, and the threads connect() starts.  What is tracked is who holds   *)
(* which resource: the SSH sessions of the chain (global proxy, jumper,    *)
(* main server), the fixed local ports, the tun device, the tun2socks      *)
(* process and the DNS gateway's socket.                                   *)
(*                                                                         *)
(* An uncaught exception of any of these threads ends the app: the state   *)
(* "crashed" is final, and Android takes every resource back.              *)
(***************************************************************************)
EXTENDS Integers, Sequences

CONSTANTS
    Chain,            \* the SSH proxies before the main server, nearest first
    UseRemoteSocks,   \* useRemoteSocksServer
    Cancelers,        \* the threads that may call cancel()
    NoThread,         \* the owner of a port nobody has bound
    DuringConnect,    \* may cancel() start, or a session be lost, within connect()?
    MaxCancels        \* bound: calls of cancel()

Hops == {Chain[i] : i \in DOMAIN Chain}
Nodes == Hops \cup {"main"}

ASSUME ChainAssumption ==
    Chain \in {<<>>, <<"jumper">>, <<"proxy">>, <<"proxy", "jumper">>}
ASSUME SshConfigAssumption ==
    /\ UseRemoteSocks \in BOOLEAN /\ DuringConnect \in BOOLEAN
    /\ MaxCancels \in Nat
    /\ NoThread \notin {"proxy", "jumper", "main"}

\* LOCAL_SOCKS_PORT, mUDPGWPort, LOCAL_TCP_DNS_PORT, the expire date's port and
\* SSHProxy.LOCAL_PORT.
Ports == {"socks", "udpgw", "dns", "expire", "hop"}

ConnectPlaces == {"dns", "dial", "auth", "hop", "socks", "udpgw", "dnsgw", "expire", "tun",
                  "tun2socks", "report", "returned", "thrown"}
CancelPlaces == {"idle", "join", "fd", "close", "remote", "jumper", "proxy", "dnsgw", "interrupt"}

VARIABLES
    pc,          \* where connect() is
    hop,         \* the node of the chain it works on
    session,     \* of each node: none, dial, auth (isConnected), open, closed
    mCanceled,   \* the nodes whose mCanceled is set
    owner,       \* the node whose session has bound a port
    dynamic,     \* the DynamicForwarder's thread
    tun,         \* mFileDescriptor is not null
    process,     \* mTun2SocksProcess (and mTun2socksThread, which waits for it)
    dnsgw,       \* the DnsgwThread
    mDnsgwThread,   \* the field is not null
    expire,      \* the expire date thread runs
    reconnects,  \* calls of MyVpnService.reconnect
    at,          \* where each canceler is, and whether connect() had ended before
    cancels,     \* calls of cancel()
    canceledOnce,   \* a call of cancel() has returned
    released,    \* a call of cancel() that began after connect() ended has returned
    crashed

connecting == <<pc, hop>>
forwarders == <<dynamic, dnsgw, mDnsgwThread, expire>>
tunnel == <<tun, process>>
canceling == <<at, cancels, canceledOnce, released>>
vars == <<connecting, session, mCanceled, owner, forwarders, tunnel, reconnects, canceling, crashed>>

TypeOK ==
    /\ pc \in ConnectPlaces
    /\ hop \in 1..(Len(Chain) + 1)
    /\ session \in [Nodes -> {"none", "dial", "auth", "open", "closed"}]
    /\ mCanceled \subseteq Nodes
    /\ owner \in [Ports -> Nodes \cup {NoThread}]
    /\ dynamic \in {"none", "starting", "bound", "ended"}
    /\ tun \in BOOLEAN
    /\ process \in {"none", "running", "killed", "dead"}
    /\ dnsgw \in {"none", "starting", "bound", "ended"}
    /\ mDnsgwThread \in BOOLEAN
    /\ expire \in BOOLEAN
    /\ reconnects \in Nat
    /\ at \in [Cancelers -> [place : CancelPlaces, late : BOOLEAN]]
    /\ cancels \in 0..MaxCancels
    /\ canceledOnce \in BOOLEAN /\ released \in BOOLEAN /\ crashed \in BOOLEAN

Init ==
    /\ pc = "dns" /\ hop = 1
    /\ session = [n \in Nodes |-> "none"]
    /\ mCanceled = {}
    /\ owner = [p \in Ports |-> NoThread]
    /\ dynamic = "none" /\ dnsgw = "none" /\ mDnsgwThread = FALSE /\ expire = FALSE
    /\ tun = FALSE /\ process = "none"
    /\ reconnects = 0
    /\ at = [t \in Cancelers |-> [place |-> "idle", late |-> FALSE]]
    /\ cancels = 0 /\ canceledOnce = FALSE /\ released = FALSE
    /\ crashed = FALSE

\* The node connect() works on
node == IF hop <= Len(Chain) THEN Chain[hop] ELSE "main"
Ended == pc \in {"returned", "thrown"}

-------------------------------------------------------------------------------
(* Sessions and ports.                                                     *)

\* Mutant: the thread that closes the session and the session's own thread both
\* run the listener.
disconnectTwice(n, canceledNow) ==
    IF session[n] \in {"auth", "open"}
    THEN /\ session' = [session EXCEPT ![n] = "closed"]
         /\ owner' = [p \in Ports |-> IF owner[p] = n THEN NoThread ELSE owner[p]]
         /\ reconnects' = IF n \in canceledNow THEN reconnects ELSE reconnects + 2
    ELSE UNCHANGED <<session, owner, reconnects>>

\* Session.disconnect() of node n, which also runs the disconnect listener: it
\* asks the service for a reconnect unless cancel() came first (onDisconnected).
\* canceledNow is mCanceled when it runs.
disconnect(n, canceledNow) ==
    IF session[n] \in {"auth", "open"}
    THEN /\ session' = [session EXCEPT ![n] = "closed"]
         /\ owner' = [p \in Ports |-> IF owner[p] = n THEN NoThread ELSE owner[p]]
         /\ reconnects' = IF n \in canceledNow THEN reconnects ELSE reconnects + 1
    ELSE UNCHANGED <<session, owner, reconnects>>

\* connect() goes on at place p, or throws a ConfigException.
Goto(p) == pc' = p /\ UNCHANGED hop
Throw == Goto("thrown")

\* startLocalPortForwarding: binds the port, whatever became of the session
Bind(p) ==
    /\ owner[p] = NoThread
    /\ owner' = [owner EXCEPT ![p] = node]

-------------------------------------------------------------------------------
(* connect(), one action per call that takes time or opens a resource.     *)

\* The DNS setting, the key and the address of the server are looked up.
StartSession ==
    /\ pc = "dns"
    /\ \/ Goto("dial") /\ session' = [session EXCEPT ![node] = "dial"]
       \/ Throw /\ UNCHANGED session
    /\ UNCHANGED <<mCanceled, owner, forwarders, tunnel, reconnects, canceling, crashed>>

\* Session.connect(15000) up to isConnected = true
Dial ==
    /\ pc = "dial"
    /\ \/ Goto("auth") /\ session' = [session EXCEPT ![node] = "auth"]
       \/ Throw /\ session' = [session EXCEPT ![node] = "closed"]
    /\ UNCHANGED <<mCanceled, owner, forwarders, tunnel, reconnects, canceling, crashed>>

\* Mutant: connect() goes on as for a hop whatever mConfigMode is.
AuthenticateAlwaysHop ==
    /\ pc = "auth"
    /\ \/ /\ Goto("hop")
          /\ session' = [session EXCEPT ![node] = IF @ = "auth" THEN "open" ELSE @]
          /\ UNCHANGED <<owner, reconnects>>
       \/ Throw /\ disconnect(node, mCanceled)
    /\ UNCHANGED <<mCanceled, forwarders, tunnel, canceling, crashed>>

\* The rest of Session.connect: key exchange and authentication.  A failure
\* disconnects the session; one that was closed meanwhile fails as a rule, but
\* not when it was already authenticated.
Authenticate ==
    /\ pc = "auth"
    /\ \/ /\ Goto(IF node = "main" THEN "socks" ELSE "hop")
          /\ session' = [session EXCEPT ![node] = IF @ = "auth" THEN "open" ELSE @]
          /\ UNCHANGED <<owner, reconnects>>
       \/ Throw /\ disconnect(node, mCanceled)
    /\ UNCHANGED <<mCanceled, forwarders, tunnel, canceling, crashed>>

\* connectSSHProxy: the local port that leads to the next server of the chain
ForwardHop ==
    /\ pc = "hop"
    /\ \/ Bind("hop") /\ pc' = "dns" /\ hop' = hop + 1
       \/ Throw /\ UNCHANGED owner
    /\ UNCHANGED <<session, mCanceled, forwarders, tunnel, reconnects, canceling, crashed>>

\* The local SOCKS port: a forwarded port, or a server thread of its own
StartSocks ==
    /\ pc = "socks"
    /\ \/ /\ UseRemoteSocks /\ UNCHANGED dynamic
          /\ \/ Bind("socks") /\ Goto("udpgw")
             \/ Throw /\ UNCHANGED owner
       \/ /\ ~UseRemoteSocks /\ dynamic' = "starting"
          /\ Goto("udpgw") /\ UNCHANGED owner
    /\ UNCHANGED <<session, mCanceled, dnsgw, mDnsgwThread, expire, tunnel, reconnects,
                   canceling, crashed>>

ForwardUdpgw ==
    /\ pc = "udpgw"
    /\ \/ Bind("udpgw") /\ Goto("dnsgw")
       \/ Throw /\ UNCHANGED owner
    /\ UNCHANGED <<session, mCanceled, forwarders, tunnel, reconnects, canceling, crashed>>

startDnsGw ==
    /\ pc = "dnsgw"
    /\ \/ /\ Bind("dns") /\ Goto("expire")
          /\ dnsgw' = "starting" /\ mDnsgwThread' = TRUE
       \/ Throw /\ UNCHANGED <<owner, dnsgw, mDnsgwThread>>
    /\ UNCHANGED <<session, mCanceled, dynamic, expire, tunnel, reconnects, canceling, crashed>>

\* A failure here is ignored.
fetchExpireDate ==
    /\ pc = "expire" /\ Goto("tun")
    /\ \/ Bind("expire") /\ expire' = TRUE
       \/ UNCHANGED <<owner, expire>>
    /\ UNCHANGED <<session, mCanceled, dynamic, dnsgw, mDnsgwThread, tunnel, reconnects,
                   canceling, crashed>>

\* Returns null when Android refuses the tun device.
openTun ==
    /\ pc = "tun" /\ Goto("tun2socks")
    /\ tun' \in BOOLEAN
    /\ UNCHANGED <<session, mCanceled, owner, forwarders, process, reconnects, canceling, crashed>>

\* The process, the thread that waits for it, and sendFd(), which dereferences
\* mFileDescriptor.  A process that does not start is a RuntimeException.
runTun2socks ==
    /\ pc = "tun2socks"
    /\ \/ process' = "running" /\ crashed' = ~tun
       \/ crashed' = TRUE /\ UNCHANGED process
    /\ Goto("report")
    /\ UNCHANGED <<session, mCanceled, owner, forwarders, tun, reconnects, canceling>>

\* onConnect() and the end of connect()
Report ==
    /\ pc = "report" /\ Goto("returned")
    /\ UNCHANGED <<session, mCanceled, owner, forwarders, tunnel, reconnects, canceling, crashed>>

connect ==
    \/ StartSession \/ Dial \/ Authenticate \/ ForwardHop \/ StartSocks \/ ForwardUdpgw
    \/ startDnsGw \/ fetchExpireDate \/ openTun \/ runTun2socks \/ Report

-------------------------------------------------------------------------------
(* What connect() has started.                                             *)

\* DnsgwThread binds its socket, or another app has the port and the thread ends.
DnsgwRun ==
    /\ dnsgw = "starting" /\ dnsgw' \in {"bound", "ended"}
    /\ UNCHANGED <<connecting, session, mCanceled, owner, dynamic, mDnsgwThread, expire, tunnel,
                   reconnects, canceling, crashed>>

\* So does the thread of the DynamicForwarder.
DynamicRun ==
    /\ dynamic = "starting" /\ dynamic' \in {"bound", "ended"}
    /\ UNCHANGED <<connecting, session, mCanceled, owner, dnsgw, mDnsgwThread, expire, tunnel,
                   reconnects, canceling, crashed>>

\* The expire date thread has its answer, or none, and stops its forwarding.
ExpireRun ==
    /\ expire /\ expire' = FALSE
    /\ owner' = [owner EXCEPT !["expire"] = NoThread]
    /\ UNCHANGED <<connecting, session, mCanceled, dynamic, dnsgw, mDnsgwThread, tunnel,
                   reconnects, canceling, crashed>>

\* The tun2socks process ends by itself or because it was destroyed.
ProcessEnds ==
    /\ process \in {"running", "killed"} /\ process' = "dead"
    /\ UNCHANGED <<connecting, session, mCanceled, owner, forwarders, tun, reconnects,
                   canceling, crashed>>

\* An authenticated session ends by itself.
SessionLost(n) ==
    /\ session[n] = "open"
    /\ DuringConnect \/ Ended
    /\ disconnect(n, mCanceled)
    /\ UNCHANGED <<connecting, mCanceled, forwarders, tunnel, canceling, crashed>>

-------------------------------------------------------------------------------
(* cancel(), run by thread t.                                              *)

\* Mutant: the process is left running.
CancelBeginNoDestroy(t) ==
    /\ at[t].place = "idle" /\ cancels < MaxCancels /\ cancels' = cancels + 1
    /\ DuringConnect \/ Ended
    /\ mCanceled' = mCanceled \cup {"main"}
    /\ at' = [at EXCEPT ![t] = [place |-> "join", late |-> Ended]]
    /\ UNCHANGED <<connecting, session, owner, forwarders, tun, process, reconnects, canceledOnce,
                   released, crashed>>

\* Sets mCanceled and destroys the process it finds.
CancelBegin(t) ==
    /\ at[t].place = "idle" /\ cancels < MaxCancels /\ cancels' = cancels + 1
    /\ DuringConnect \/ Ended
    /\ mCanceled' = mCanceled \cup {"main"}
    /\ process' = IF process = "running" THEN "killed" ELSE process
    /\ at' = [at EXCEPT ![t] = [place |-> "join", late |-> Ended]]
    /\ UNCHANGED <<connecting, session, owner, forwarders, tun, reconnects, canceledOnce,
                   released, crashed>>

\* t goes from one place of cancel() to the next.
Step(t, from, to) ==
    /\ at[t].place = from
    /\ at' = [at EXCEPT ![t].place = to]
    /\ UNCHANGED <<connecting, cancels>>

\* mTun2socksThread.join(), when there is a thread
Join(t) ==
    /\ Step(t, "join", "fd")
    /\ process \in {"none", "dead"}
    /\ UNCHANGED <<session, mCanceled, owner, forwarders, tunnel, reconnects, canceledOnce,
                   released, crashed>>

\* if (mFileDescriptor != null) ...
CheckFd(t) ==
    /\ Step(t, "fd", IF tun THEN "close" ELSE "remote")
    /\ UNCHANGED <<session, mCanceled, owner, forwarders, tunnel, reconnects, canceledOnce,
                   released, crashed>>

\* ... mFileDescriptor.close(); a NullPointerException if another thread was faster
CloseFd(t) ==
    /\ Step(t, "close", "remote")
    /\ crashed' = ~tun
    /\ tun' = FALSE
    /\ UNCHANGED <<session, mCanceled, owner, forwarders, process, reconnects, canceledOnce,
                   released>>

\* Mutant: without a DynamicForwarder, disconnect() returns before the session.
DisconnectRemoteForwarderOnly(t) ==
    /\ Step(t, "remote", "jumper")
    /\ IF dynamic # "none" THEN disconnect("main", mCanceled)
                           ELSE UNCHANGED <<session, owner, reconnects>>
    /\ dynamic' = IF dynamic = "bound" THEN "ended" ELSE dynamic
    /\ UNCHANGED <<mCanceled, dnsgw, mDnsgwThread, expire, tunnel, canceledOnce, released, crashed>>

\* RemoteConnection.disconnect() of the main connection.  A forwarder that has
\* no server socket yet is not stopped.
DisconnectRemote(t) ==
    /\ Step(t, "remote", "jumper")
    /\ disconnect("main", mCanceled)
    /\ dynamic' = IF dynamic = "bound" THEN "ended" ELSE dynamic
    /\ UNCHANGED <<mCanceled, dnsgw, mDnsgwThread, expire, tunnel, canceledOnce, released, crashed>>

\* Mutant: the hop's session is closed, but its own cancel() is not called.
CancelHopNoFlag(t, from, to) ==
    /\ Step(t, from, to)
    /\ IF from \in Hops THEN disconnect(from, mCanceled) ELSE UNCHANGED <<session, owner, reconnects>>
    /\ UNCHANGED <<mCanceled, forwarders, tunnel, canceledOnce, released, crashed>>

\* Mutant: only the main session is closed.
CancelHopFlagOnly(t, from, to) ==
    /\ Step(t, from, to)
    /\ mCanceled' = mCanceled \cup ({from} \cap Hops)
    /\ UNCHANGED <<session, owner, reconnects, forwarders, tunnel, canceledOnce, released, crashed>>

\* cancel() of the jumper's or the proxy's SSHConfig
CancelHop(t, from, to) ==
    /\ Step(t, from, to)
    /\ mCanceled' = mCanceled \cup ({from} \cap Hops)
    /\ IF from \in Hops THEN disconnect(from, mCanceled') ELSE UNCHANGED <<session, owner, reconnects>>
    /\ UNCHANGED <<forwarders, tunnel, canceledOnce, released, crashed>>

\* cancel() returns.
Return(t) ==
    /\ canceledOnce' = TRUE
    /\ released' = (released \/ at[t].late)

\* if (mDnsgwThread != null) ...
CheckDnsgw(t) ==
    /\ Step(t, "dnsgw", IF mDnsgwThread THEN "interrupt" ELSE "idle")
    /\ IF mDnsgwThread THEN UNCHANGED <<canceledOnce, released>> ELSE Return(t)
    /\ UNCHANGED <<session, mCanceled, owner, forwarders, tunnel, reconnects, crashed>>

\* ... mDnsgwThread.interrupt(), which closes the thread's socket: another
\* canceler may have been faster, or the socket may not exist.  The thread, if it
\* is about to test its loop condition, finds the field null.
InterruptDnsgw(t) ==
    /\ Step(t, "interrupt", "idle")
    /\ \/ /\ mDnsgwThread /\ dnsgw = "bound"
          /\ dnsgw' = "ended" /\ mDnsgwThread' = FALSE
          /\ crashed' \in BOOLEAN
       \/ /\ ~(mDnsgwThread /\ dnsgw = "bound")
          /\ crashed' = TRUE
          /\ UNCHANGED <<dnsgw, mDnsgwThread>>
    /\ Return(t)
    /\ UNCHANGED <<session, mCanceled, owner, dynamic, expire, tunnel, reconnects>>

cancelStep(t) ==
    \/ Join(t) \/ CheckFd(t) \/ CloseFd(t) \/ DisconnectRemote(t)
    \/ CancelHop(t, "jumper", "proxy") \/ CancelHop(t, "proxy", "dnsgw")
    \/ CheckDnsgw(t) \/ InterruptDnsgw(t)

-------------------------------------------------------------------------------
Next ==
    \/ ~crashed /\ connect
    \/ ~crashed /\ DnsgwRun
    \/ ~crashed /\ DynamicRun
    \/ ~crashed /\ ExpireRun
    \/ ~crashed /\ ProcessEnds
    \/ \E n \in Nodes : ~crashed /\ SessionLost(n)
    \/ \E t \in Cancelers : ~crashed /\ CancelBegin(t)
    \/ \E t \in Cancelers : ~crashed /\ cancelStep(t)

\* The threads run, and a process that was destroyed ends.
Fairness ==
    /\ WF_vars(~crashed /\ connect)
    /\ WF_vars(~crashed /\ process = "killed" /\ ProcessEnds)
    /\ \A t \in Cancelers : WF_vars(~crashed /\ cancelStep(t))

Spec == Init /\ [][Next]_vars
FairSpec == Spec /\ Fairness
-------------------------------------------------------------------------------
(* Properties.                                                             *)

\* A cancel() that was called after connect() had ended, and has returned, leaves
\* no session of the chain, no tun device, no process and no DNS socket behind,
\* at whatever point connect() failed and whatever other threads did meanwhile.
LastCancelReleases ==
    released /\ ~crashed =>
        /\ \A n \in Nodes : session[n] \in {"none", "closed"}
        /\ ~tun
        /\ process \in {"none", "dead"}
        /\ dnsgw \in {"none", "ended"}

\* If nothing happens to the sessions while connect() runs, cancel() also frees
\* every forwarded port, so that the next attempt can bind it.
PortsReleased ==
    released /\ ~crashed => \A p \in Ports : owner[p] = NoThread

\* Once cancel() has returned, none of the chain's sessions asks for a reconnect.
NoReconnectAfterCancel ==
    [][canceledOnce => reconnects' = reconnects]_vars

\* cancel() returns: it does not wait for ever for the tun2socks thread.
CancelEnds ==
    \A t \in Cancelers : at[t].place # "idle" ~> at[t].place = "idle" \/ crashed
-------------------------------------------------------------------------------
(* SSHConfig is a Config.                                                  *)

\* What the object holds: sessions that are being set up or are open, the tun
\* device, the process and the DNS gateway's socket.
Held ==
    {n \in Nodes : session[n] \in {"dial", "auth", "open"}}
    \cup {r \in {"tun", "process", "dnsgw"} :
            \/ r = "tun" /\ tun
            \/ r = "process" /\ process \in {"running", "killed"}
            \/ r = "dnsgw" /\ dnsgw \in {"starting", "bound"}}

Abstract ==
    INSTANCE Config WITH
        Resources <- Nodes \cup {"tun", "process", "dnsgw"},
        phase <- IF Ended THEN "ended" ELSE "connecting",
        held <- Held,
        inCancel <- [t \in Cancelers |-> CASE at[t].place = "idle" -> "out"
                                          [] at[t].place # "idle" /\ at[t].late -> "late"
                                          [] OTHER -> "early"],
        done <- canceledOnce,
        asks <- reconnects,
        failed <- crashed

\* connect() and cancel() of SSHConfig keep the promises the service relies on:
\* every step is a step of Config or changes nothing that Config speaks of.
ImplementsConfig == Abstract!Spec
===============================================================================
