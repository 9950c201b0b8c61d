----------------------------- MODULE OpenVpnConfig ----------------------------
(***************************************************************************)
(* One OpenVpnConfig object: connect(), run by the service's handler       *)
(* thread (svc), which opens an SSH session, forwards a port to the        *)
(* OpenVPN server and starts the OpenVPN process and the thread that talks *)
(* to it over the management socket; cancel(), which any thread of the     *)
(* service may run; and what the management thread does with the lines the *)
(* process sends.  Unlike SSHConfig it reports CONNECTED, and asks for a   *)
(* reconnect, from the management thread, long after connect() returned.   *)
(*                                                                         *)
(* A step of the management thread is one line and its handler.  cancel()  *)
(* sleeps a second after it has closed the management socket, so a handler *)
(* that is under way then ends before cancel() returns.                    *)
(*                                                                         *)
(* The fields are read and written without a lock; a null field that is    *)
(* dereferenced outside a try block ends the app ("crashed").              *)
(***************************************************************************)
EXTENDS Integers

CONSTANTS
    Cancelers,        \* the threads of the service that may call cancel()
    DuringConnect,    \* may cancel() start, or the session be lost, within connect()?
    MaxCancels,       \* bound: calls of cancel() by Cancelers
    MaxConnects,      \* bound: CONNECTED lines
    MaxReconnecting   \* bound: RECONNECTING lines while the session is up

ASSUME OpenVpnConfigAssumption ==
    /\ DuringConnect \in BOOLEAN
    /\ MaxCancels \in Nat /\ MaxConnects \in Nat /\ MaxReconnecting \in Nat
    /\ "connect" \notin Cancelers

\* connect() itself calls cancel() when it fails.
Threads == Cancelers \cup {"connect"}

State == {"NEW", "CONNECTED", "DISCONNECTED", "DISCONNECTING", "CONNECTING", "RECONNECTING"}

\* "cancel": connect() has failed and is in its own cancel().
ConnectPlaces == {"start", "proxy", "dns", "dial", "auth", "protect", "expire", "profile",
                  "forward", "management", "process", "write", "cancel", "returned", "thrown"}
CancelPlaces == {"idle", "disconnect", "null", "stop", "replace", "signal", "force", "clear",
                 "interrupt", "return"}

VARIABLES
    pc,               \* where connect() is
    mState,
    session,          \* the JSch session: none, dial, auth (isConnected), open, closed
    mRemoteConnection,       \* the field is not null
    port,             \* the forwarded port is bound
    expire,           \* the expire date thread: none, running, ended
    mExpireDateCheckThread,  \* the field is not null
    management,       \* OpenVpnManagementThread: none, waiting (in accept), connected, ended
    mShuttingDown,
    mOpenVPNThread,   \* the field is not null
    process,          \* the OpenVPN process: none, running, signalled (SIGINT), dead
    interrupted,      \* mProcessThread is interrupted
    hold,             \* the process waits for the hold release: waiting, posted, released
    tun,              \* the tun device: none, ours (open descriptor), process (handed over)
    onConnects, reconnects,  \* calls of MyVpnService's onConnect() and reconnect()
    waited,           \* a RECONNECTING line has found no network
    reconnecting,     \* RECONNECTING lines so far
    at,               \* where each thread is in cancel(), and whether connect() had ended before
    cancels, canceledOnce, released, crashed

remote     == <<session, mRemoteConnection, port>>
expiring   == <<expire, mExpireDateCheckThread>>
engine     == <<management, mShuttingDown, process, interrupted, hold, reconnecting>>
reports    == <<onConnects, reconnects, waited>>
canceling  == <<at, cancels, canceledOnce, released>>
vars == <<pc, mState, remote, expiring, engine, mOpenVPNThread, tun, reports, canceling, crashed>>

TypeOK ==
    /\ pc \in ConnectPlaces /\ mState \in State
    /\ session \in {"none", "dial", "auth", "open", "closed"}
    /\ mRemoteConnection \in BOOLEAN /\ port \in BOOLEAN
    /\ expire \in {"none", "running", "ended"} /\ mExpireDateCheckThread \in BOOLEAN
    /\ management \in {"none", "waiting", "connected", "ended"}
    /\ mShuttingDown \in BOOLEAN /\ mOpenVPNThread \in BOOLEAN
    /\ process \in {"none", "running", "signalled", "dead"} /\ interrupted \in BOOLEAN
    /\ hold \in {"waiting", "posted", "released"}
    /\ tun \in {"none", "ours", "process"}
    /\ onConnects \in 0..MaxConnects /\ reconnects \in Nat /\ waited \in BOOLEAN
    /\ reconnecting \in 0..MaxReconnecting
    /\ at \in [Threads -> [place : CancelPlaces, late : BOOLEAN]]
    /\ cancels \in 0..MaxCancels
    /\ canceledOnce \in BOOLEAN /\ released \in BOOLEAN /\ crashed \in BOOLEAN

Init ==
    /\ pc = "start" /\ mState = "NEW"
    /\ session = "none" /\ mRemoteConnection = FALSE /\ port = FALSE
    /\ expire = "none" /\ mExpireDateCheckThread = FALSE
    /\ management = "none" /\ mShuttingDown = FALSE /\ mOpenVPNThread = FALSE
    /\ process = "none" /\ interrupted = FALSE /\ hold = "waiting"
    /\ tun = "none"
    /\ onConnects = 0 /\ reconnects = 0 /\ waited = FALSE /\ reconnecting = 0
    /\ at = [t \in Threads |-> [place |-> "idle", late |-> FALSE]]
    /\ cancels = 0 /\ canceledOnce = FALSE /\ released = FALSE
    /\ crashed = FALSE

Ended == pc \in {"returned", "thrown"}

\* Mutant: a session that was ever started counts as connected.
isConnectedOnce == session # "none"

\* isConnected()
isConnected == mRemoteConnection /\ session \in {"auth", "open"}

-------------------------------------------------------------------------------
(* connect(), one action per call that takes time or opens a resource.     *)

\* The catch block: mState = DISCONNECTING, and cancel(), after which it throws.
FailConnect == pc' = "cancel" /\ mState' = "DISCONNECTING"

\* init(); there is no previous connection, for the object is new.  The service
\* may have given it a global proxy.
Start ==
    /\ pc = "start"
    /\ mState' = "CONNECTING"
    /\ pc' \in {"proxy", "dns"}
    /\ UNCHANGED <<remote, expiring, engine, mOpenVPNThread, tun, reports, canceling, crashed>>

\* connectSSHProxy: the proxy's SSHConfig has no mVpnService, which its
\* connect() dereferences.
connectSSHProxy ==
    /\ pc = "proxy" /\ crashed' = TRUE
    /\ UNCHANGED <<pc, mState, remote, expiring, engine, mOpenVPNThread, tun, reports, canceling>>

\* No DNS server is set: a ConfigException, which the catch block does not catch.
StartSession ==
    /\ pc = "dns"
    /\ \/ /\ pc' = "dial" /\ session' = "dial" /\ mRemoteConnection' = TRUE
       \/ /\ pc' = "thrown" /\ UNCHANGED <<session, mRemoteConnection>>
    /\ UNCHANGED <<mState, port, expiring, engine, mOpenVPNThread, tun, reports, canceling, crashed>>

\* JschRemoteConnection.connect(), up to isConnected and after
Dial ==
    /\ pc = "dial"
    /\ \/ pc' = "auth" /\ session' = "auth" /\ UNCHANGED mState
       \/ FailConnect /\ session' = "closed"
    /\ UNCHANGED <<mRemoteConnection, port, expiring, engine, mOpenVPNThread, tun, reports,
                   canceling, crashed>>

Authenticate ==
    /\ pc = "auth"
    /\ \/ /\ pc' = "protect" /\ session' = IF session = "auth" THEN "open" ELSE session
          /\ UNCHANGED mState
       \/ FailConnect /\ session' = "closed"
    /\ UNCHANGED <<mRemoteConnection, port, expiring, engine, mOpenVPNThread, tun, reports,
                   canceling, crashed>>

\* mRemoteConnection.getMainSocketDescriptor(): a NullPointerException if cancel()
\* has cleared the field meanwhile
Protect ==
    /\ pc = "protect" /\ pc' = "expire"
    /\ crashed' = ~mRemoteConnection
    /\ UNCHANGED <<mState, remote, expiring, engine, mOpenVPNThread, tun, reports, canceling>>

\* Forwards the expire date's port and starts its thread; a port that is taken
\* is ignored.
fetchExpireDate ==
    /\ pc = "expire" /\ pc' = "profile"
    /\ crashed' = ~mRemoteConnection
    /\ \/ expire' = "running" /\ mExpireDateCheckThread' = TRUE
       \/ UNCHANGED expiring
    /\ UNCHANGED <<mState, remote, engine, mOpenVPNThread, tun, reports, canceling>>

\* A profile without a server ends connect().
CheckProfile ==
    /\ pc = "profile"
    /\ \/ pc' = "forward" /\ UNCHANGED mState
       \/ FailConnect
    /\ UNCHANGED <<remote, expiring, engine, mOpenVPNThread, tun, reports, canceling, crashed>>

\* startLocalPortForwarding, on the server's port number or on any
ForwardPort ==
    /\ pc = "forward"
    /\ crashed' = ~mRemoteConnection
    /\ \/ pc' = "management" /\ port' = TRUE /\ UNCHANGED mState
       \/ FailConnect /\ UNCHANGED port
    /\ UNCHANGED <<session, mRemoteConnection, expiring, engine, mOpenVPNThread, tun, reports,
                   canceling>>

\* openManagementInterface and the thread that waits for the process.  (There
\* is no old process of this object to stop.)  If the socket cannot be bound,
\* cancel() is called without a new mState.
OpenManagement ==
    /\ pc = "management"
    /\ \/ pc' = "process" /\ management' = "waiting"
       \/ pc' = "cancel" /\ UNCHANGED management
    /\ UNCHANGED <<mState, remote, expiring, mShuttingDown, process, interrupted, hold,
                   reconnecting, mOpenVPNThread, tun, reports, canceling, crashed>>

\* The OpenVPNThread starts the process, or fails to and ends.
StartProcess ==
    /\ pc = "process" /\ pc' = "write"
    /\ mOpenVPNThread' = TRUE
    /\ process' \in {"running", "dead"}
    /\ UNCHANGED <<mState, remote, expiring, management, mShuttingDown, interrupted, hold,
                   reconnecting, tun, reports, canceling, crashed>>

\* writeConfigFileOutput, to the process's standard input: mOpenVPNThread may be
\* null by now.  An IOException makes the service disconnect.
WriteConfig ==
    /\ pc = "write" /\ pc' = "returned"
    /\ crashed' = ~mOpenVPNThread
    /\ \/ process # "dead" /\ UNCHANGED mState
       \/ mState' = "DISCONNECTING"
    /\ UNCHANGED <<remote, expiring, engine, mOpenVPNThread, tun, reports, canceling>>

connect ==
    \/ Start \/ connectSSHProxy \/ StartSession \/ Dial \/ Authenticate \/ Protect
    \/ fetchExpireDate \/ CheckProfile \/ ForwardPort \/ OpenManagement \/ StartProcess
    \/ WriteConfig

-------------------------------------------------------------------------------
(* The threads connect() has started, the process and the session.         *)

\* The expire date thread has its answer, or none; its finally block uses
\* mRemoteConnection, which cancel() may have cleared.
ExpireRun ==
    /\ expire = "running" /\ expire' = "ended"
    /\ crashed' = ~mRemoteConnection
    /\ UNCHANGED <<pc, mState, remote, mExpireDateCheckThread, engine, mOpenVPNThread, tun, reports,
                   canceling>>

\* The session ends by itself, and its forwarded port with it.  Nobody listens.
SessionLost ==
    /\ session = "open" /\ (DuringConnect \/ Ended)
    /\ session' = "closed" /\ port' = FALSE
    /\ UNCHANGED <<pc, mState, mRemoteConnection, expiring, engine, mOpenVPNThread, tun, reports,
                   canceling, crashed>>

\* The process reads its configuration and connects to the management socket.
ProcessConnects ==
    /\ process = "running" /\ pc = "returned"
    /\ management = "waiting" /\ management' = "connected"
    /\ UNCHANGED <<pc, mState, remote, expiring, mShuttingDown, process, interrupted, hold,
                   reconnecting, mOpenVPNThread, tun, reports, canceling, crashed>>

\* The process ends: on SIGINT, or because its thread finds itself interrupted
\* after the next line of output and destroys it.
ProcessStops ==
    /\ process = "signalled" \/ (process = "running" /\ interrupted)
    /\ process' = "dead"
    /\ tun' = IF tun = "process" THEN "none" ELSE tun
    /\ management' = IF management = "connected" THEN "ended" ELSE management
    /\ UNCHANGED <<pc, mState, remote, expiring, mShuttingDown, interrupted, hold, reconnecting,
                   mOpenVPNThread, reports, canceling, crashed>>

-------------------------------------------------------------------------------
(* OpenVpnManagementThread: the lines of the process.                      *)

Listening == management = "connected" /\ process = "running"

\* stopVPN: SIGINT, if the process is connected, and the socket is closed.
stopVPN ==
    IF Listening
    THEN /\ process' = "signalled" /\ management' = "ended" /\ mShuttingDown' = TRUE
    ELSE UNCHANGED <<process, management, mShuttingDown>>

\* handleHold: the release is posted to the thread that ran connect().
handleHold ==
    /\ Listening /\ hold = "waiting" /\ isConnected
    /\ hold' = "posted"
    /\ UNCHANGED <<pc, mState, remote, expiring, management, mShuttingDown, process, interrupted,
                   reconnecting, mOpenVPNThread, tun, reports, canceling, crashed>>

\* mResumeHoldRunnable
ResumeHold ==
    /\ hold = "posted" /\ Ended
    /\ hold' = IF isConnected /\ Listening THEN "released" ELSE "waiting"
    /\ UNCHANGED <<pc, mState, remote, expiring, management, mShuttingDown, process, interrupted,
                   reconnecting, mOpenVPNThread, tun, reports, canceling, crashed>>

\* NEED-OK OPENTUN: opens the device and sends its descriptor to the process.
\* Android may refuse it, and the sending may fail.
sendTunFD ==
    /\ Listening /\ hold = "released" /\ tun = "none"
    /\ tun' \in {"none", "ours", "process"}
    /\ UNCHANGED <<pc, mState, remote, expiring, engine, mOpenVPNThread, reports, canceling, crashed>>

\* STATE CONNECTED
onOpenVpnConnected ==
    /\ Listening /\ ~mShuttingDown /\ hold = "released" /\ tun = "process"
    /\ onConnects < MaxConnects /\ onConnects' = onConnects + 1
    /\ mState' = "CONNECTED"
    /\ UNCHANGED <<pc, remote, expiring, engine, mOpenVPNThread, tun, reconnects, waited, canceling,
                   crashed>>

isCanceled == mState \in {"DISCONNECTING", "DISCONNECTED"}

\* Mutant: onOpenVpnDisconnected asks whatever mState is.
onOpenVpnDisconnectedAsks ==
    /\ Listening
    /\ process' = "dead" /\ management' = "ended"
    /\ tun' = IF tun = "process" THEN "none" ELSE tun
    /\ mState' = "DISCONNECTING" /\ reconnects' = reconnects + 1
    /\ UNCHANGED <<pc, remote, expiring, mShuttingDown, interrupted, hold, reconnecting,
                   mOpenVPNThread, onConnects, waited, canceling, crashed>>

\* STATE EXITING, or nothing if the process was killed; the process has ended
onOpenVpnDisconnected ==
    /\ Listening
    /\ process' = "dead" /\ management' = "ended"
    /\ tun' = IF tun = "process" THEN "none" ELSE tun
    /\ \/ /\ mShuttingDown \/ isCanceled
          /\ UNCHANGED <<mState, reconnects>>
       \/ /\ ~mShuttingDown /\ ~isCanceled
          /\ \/ mState' = "DISCONNECTING" /\ reconnects' = reconnects + 1
             \/ UNCHANGED <<mState, reconnects>>
    /\ UNCHANGED <<pc, remote, expiring, mShuttingDown, interrupted, hold, reconnecting,
                   mOpenVPNThread, onConnects, waited, canceling, crashed>>

\* Mutant: a state that no handler expects.
retryWaits ==
    IF mState \in {"RECONNECTING", "CONNECTING", "DISCONNECTED", "DISCONNECTING"}
    THEN UNCHANGED <<mState, reconnects, process, management, mShuttingDown>>
    ELSE mState' = "WAITING_FOR_NETWORK" /\ reconnects' = reconnects + 1 /\ stopVPN

\* retry()
retry ==
    IF mState \in {"RECONNECTING", "CONNECTING", "DISCONNECTED", "DISCONNECTING"}
    THEN UNCHANGED <<mState, reconnects, process, management, mShuttingDown>>
    ELSE mState' = "RECONNECTING" /\ reconnects' = reconnects + 1 /\ stopVPN

\* STATE RECONNECTING, after which the process waits for a hold release again.
\* With the session up, the service is only told to show it.  Without it, and
\* without a network, nothing is done: the service hears of that by itself.
onOpenVpnReconnecting ==
    /\ Listening /\ ~mShuttingDown /\ hold = "released"
    /\ hold' = "waiting"
    /\ \/ /\ isConnected
          /\ reconnecting < MaxReconnecting /\ reconnecting' = reconnecting + 1
          /\ UNCHANGED <<mState, reconnects, waited, process, management, mShuttingDown>>
       \/ /\ ~isConnected /\ waited' = TRUE
          /\ UNCHANGED <<mState, reconnects, process, management, mShuttingDown, reconnecting>>
       \/ ~isConnected /\ retry /\ UNCHANGED <<waited, reconnecting>>
    /\ UNCHANGED <<pc, remote, expiring, interrupted, mOpenVPNThread, tun, onConnects, canceling,
                   crashed>>

managementStep ==
    \/ handleHold \/ ResumeHold \/ sendTunFD \/ onOpenVpnConnected \/ onOpenVpnDisconnected
    \/ onOpenVpnReconnecting

-------------------------------------------------------------------------------
(* cancel(), run by thread t.                                              *)

\* Who may call cancel(), and when
Calls(t) ==
    \/ t = "connect" /\ pc = "cancel" /\ UNCHANGED cancels
    \/ t # "connect" /\ cancels < MaxCancels /\ cancels' = cancels + 1 /\ (DuringConnect \/ Ended)

\* t goes from one place of cancel() to the next.
Step(t, from, to) ==
    /\ at[t].place = from
    /\ at' = [at EXCEPT ![t].place = to]
    /\ UNCHANGED <<pc, cancels, canceledOnce, released>>

\* It does nothing once mState is DISCONNECTED.
CancelBegin(t) ==
    /\ at[t].place = "idle" /\ Calls(t)
    /\ at' = [at EXCEPT ![t] = [place |-> IF mState = "DISCONNECTED" THEN "return" ELSE "disconnect",
                                late |-> Ended]]
    /\ mState' = "DISCONNECTED"
    /\ UNCHANGED <<pc, remote, expiring, engine, mOpenVPNThread, tun, reports, canceledOnce,
                   released, crashed>>

\* disConnectPreviousConnection, up to mRemoteConnection.disconnect(), which
\* leaves a session alone that is not connected yet
Disconnect(t) ==
    /\ Step(t, "disconnect", "null")
    /\ \/ /\ mRemoteConnection /\ port' = FALSE
          /\ session' = IF session \in {"auth", "open"} THEN "closed" ELSE session
       \/ ~mRemoteConnection /\ UNCHANGED <<session, port>>
    /\ UNCHANGED <<mState, mRemoteConnection, expiring, engine, mOpenVPNThread, tun, reports, crashed>>

\* ... mRemoteConnection = null, and the tun descriptor is closed
ClearRemote(t) ==
    /\ Step(t, "null", "stop")
    /\ mRemoteConnection' = FALSE
    /\ tun' = IF tun = "ours" THEN "none" ELSE tun
    /\ UNCHANGED <<mState, session, port, expiring, engine, mOpenVPNThread, reports, crashed>>

\* stopOldOpenVPNProcess: if (mManagement != null) if (mOpenVPNThread != null) ...
CheckThread(t) ==
    /\ Step(t, "stop", CASE management = "none" -> "force"
                              [] management # "none" /\ mOpenVPNThread -> "replace"
                              [] OTHER -> "signal")
    /\ UNCHANGED <<mState, remote, expiring, engine, mOpenVPNThread, tun, reports, crashed>>

\* ... mOpenVPNThread.setReplaceConnection(), whoever has cleared it meanwhile
SetReplace(t) ==
    /\ Step(t, "replace", "signal")
    /\ crashed' = ~mOpenVPNThread
    /\ UNCHANGED <<mState, remote, expiring, engine, mOpenVPNThread, tun, reports>>

Signal(t) ==
    /\ Step(t, "signal", "force")
    /\ stopVPN
    /\ UNCHANGED <<mState, remote, expiring, interrupted, hold, reconnecting, mOpenVPNThread, tun,
                   reports, crashed>>

\* Mutant: the process thread is not interrupted.
forceStopOpenVpnProcessNot(t) ==
    /\ Step(t, "force", "clear")
    /\ UNCHANGED <<mState, remote, expiring, engine, mOpenVPNThread, tun, reports, crashed>>

forceStopOpenVpnProcess(t) ==
    /\ Step(t, "force", "clear")
    /\ interrupted' = (interrupted \/ process # "none")
    /\ UNCHANGED <<mState, remote, expiring, management, mShuttingDown, process, hold, reconnecting,
                   mOpenVPNThread, tun, reports, crashed>>

\* mOpenVPNThread = null, and if (mExpireDateCheckThread != null ...) ...
ClearThread(t) ==
    /\ mOpenVPNThread' = FALSE
    /\ Step(t, "clear", IF mExpireDateCheckThread THEN "interrupt" ELSE "return")
    /\ UNCHANGED <<mState, remote, expiring, engine, tun, reports, crashed>>

\* ... mExpireDateCheckThread.interrupt(), and the field is cleared
InterruptExpire(t) ==
    /\ Step(t, "interrupt", "return")
    /\ crashed' = ~mExpireDateCheckThread
    /\ mExpireDateCheckThread' = FALSE
    /\ UNCHANGED <<mState, remote, expire, engine, mOpenVPNThread, tun, reports>>

\* cancel() returns: to connect(), which throws, or to the service.
Return(t) ==
    /\ at[t].place = "return"
    /\ at' = [at EXCEPT ![t].place = "idle"]
    /\ \/ t = "connect" /\ pc' = "thrown" /\ UNCHANGED <<canceledOnce, released>>
       \/ /\ t # "connect" /\ UNCHANGED pc
          /\ canceledOnce' = TRUE /\ released' = (released \/ at[t].late)
    /\ UNCHANGED <<mState, remote, expiring, engine, mOpenVPNThread, tun, reports, cancels, crashed>>

cancelStep(t) ==
    \/ Disconnect(t) \/ ClearRemote(t) \/ CheckThread(t) \/ SetReplace(t) \/ Signal(t)
    \/ forceStopOpenVpnProcess(t) \/ ClearThread(t) \/ InterruptExpire(t) \/ Return(t)

-------------------------------------------------------------------------------
Next ==
    \/ ~crashed /\ connect
    \/ ~crashed /\ ExpireRun
    \/ ~crashed /\ SessionLost
    \/ ~crashed /\ ProcessConnects
    \/ ~crashed /\ ProcessStops
    \/ ~crashed /\ managementStep
    \/ \E t \in Threads : ~crashed /\ CancelBegin(t)
    \/ \E t \in Threads : ~crashed /\ cancelStep(t)

\* The threads run, a process that was told to stop does, and one whose server
\* cannot be reached says so.
Fairness ==
    /\ WF_vars(~crashed /\ connect)
    /\ WF_vars(~crashed /\ CancelBegin("connect"))
    /\ WF_vars(~crashed /\ ProcessStops)
    /\ WF_vars(~crashed /\ ~isConnected /\ onOpenVpnReconnecting)
    /\ \A t \in Threads : WF_vars(~crashed /\ cancelStep(t))

Spec == Init /\ [][Next]_vars
FairSpec == Spec /\ Fairness

-------------------------------------------------------------------------------
(* Properties.                                                             *)

\* Once cancel() has returned, onConnect() is not called again, whether it was
\* before or not: either the management thread was shut down, or the process
\* waits for a hold release it cannot get without the SSH session.
NoConnectAfterCancel == [][canceledOnce => onConnects' = onConnects]_vars

\* The process outlives cancel(), which only asks it to end, but not for ever,
\* whatever it was doing.
ProcessIsStopped == released ~> process \in {"none", "dead"} \/ crashed

\* onOpenVpnReconnecting: "the remoteConnection is not connected. We ask Config to
\* retry".  A process that has lost its connection because the SSH session is gone,
\* and says so while there is a network, is not left to itself.
LostSessionIsRepaired ==
    (/\ Listening /\ hold = "released"
     /\ session = "closed" /\ mState \in {"CONNECTING", "CONNECTED"})
        ~> reconnects > 0 \/ cancels > 0 \/ ~Listening \/ waited \/ crashed

-------------------------------------------------------------------------------
(* OpenVpnConfig is a Config.                                              *)

\* What is released when cancel() returns.  The process is not (ProcessIsStopped),
\* nor is the tun device: the process may hold it, and a descriptor that
\* sendTunFD opens and cannot send between ClearRemote and Signal stays open.
Held ==
    {r \in {"session", "port"} :
        \/ r = "session" /\ session \in {"dial", "auth", "open"}
        \/ r = "port" /\ port}

Abstract ==
    INSTANCE Config WITH
        Resources <- {"session", "port"},
        phase <- IF Ended THEN "ended" ELSE "connecting",
        held <- Held,
        inCancel <- [t \in Cancelers |-> CASE at[t].place = "idle" -> "out"
                                          [] at[t].place # "idle" /\ at[t].late -> "late"
                                          [] OTHER -> "early"],
        done <- canceledOnce,
        asks <- reconnects,
        failed <- crashed

\* When cancel() is called once connect() is over, and by one thread at a time,
\* OpenVpnConfig keeps the promises the service relies on.
ImplementsConfig == Abstract!Spec
===============================================================================
