------------------------------ MODULE VpnService ------------------------------
(***************************************************************************)
(* The life cycle of the VPN connection: MyVpnService, the broadcasts of   *)
(* NetworkStateReceiver it listens to, the connect button of HomeFragment  *)
(* and the notification's buttons, for configurations whose connect()      *)
(* reports its result before it returns (SSHConfig).                       *)
(*                                                                         *)
(* Three threads run the service's code: the handler thread                *)
(* "vpnServiceThread" (svc), the main thread (ui) and the binder thread on *)
(* which Android calls onRevoke (binder).  A step of a thread runs from    *)
(* one call that leaves the process or waits to the next: Config.connect() *)
(* and Config.cancel(), the look at the network, the file that loadConfig()*)
(* reads, and the notification that sendStatusChangedSignal() updates      *)
(* before it assigns mStatus.  No lock keeps the other threads out between *)
(* a handler's checks and what it does after such a call.                  *)
(***************************************************************************)
EXTENDS Integers, Sequences, FiniteSets

CONSTANTS
    Networks,       \* the networks the device can be attached to
    NoNetwork,      \* the value of "net" when there is none
    MaxTaps,        \* bound: intents sent by the user or the system
    MaxChanges,     \* bound: network changes
    MaxFailures,    \* bound: connect() or loadConfig() failures
    MaxLosses,      \* bound: established sessions that are lost by themselves
    MaxRevokes,     \* bound: calls of onRevoke
    MaxFaults       \* bound: network changes, failures, losses and revocations together

ASSUME NetworksAssumption == NoNetwork \notin Networks /\ Networks # {}
ASSUME BoundsAssumption ==
    {MaxTaps, MaxChanges, MaxFailures, MaxLosses, MaxRevokes, MaxFaults} \subseteq Nat

Status == {"CONNECTED", "CONNECTING", "DISCONNECTED", "NETWORK_ERROR",
           "DISCONNECTING", "RETRYING"}

\* COMMAND_CONNECT in its two modes, COMMAND_DISCONNECT with and without
\* by_user, COMMAND_RECONNECT.
Commands == {"CONNECT", "CONNECT_AGAIN", "DISCONNECT_BY_USER", "DISCONNECT",
             "RECONNECT"}

Threads == {"svc", "ui", "binder"}

\* Where a thread stands: out of the service's code, or at the call it is in.
\*   handler thread, in connect(): it has looked at the network (online,
\*     offline), announces CONNECTING, loads the Config, is in Config.connect(),
\*     announces CONNECTED, has looked at the network after a failure (failed);
\*   every thread: in retry() before RETRYING is assigned (retrying), in its
\*     cancel() (retry); in disconnect() before DISCONNECTING is assigned
\*     (stopping), before mStopService is set (stop), in its cancel()
\*     (disconnect), before stopSelf() (stopself);
\*   main thread: the receiver has looked at the network (gone, back, other);
\*     onNetworkDisconnected() before NETWORK_ERROR is assigned (losing), in
\*     its cancel() (network); in the cancel() of onDestroy() (destroy).
ConnectPlaces == {"online", "offline", "connecting", "load", "connect", "connected", "failed"}
NetworkPlaces == {"gone", "back", "other", "losing"}
Places == {"idle", "retrying", "retry", "stopping", "stop", "disconnect", "stopself",
           "network", "destroy"} \cup ConnectPlaces \cup NetworkPlaces

\* connect() has looked at the network and not yet called Config.connect().
Preparing == {"online", "offline", "connecting", "load"}
\* A handler has found that it may connect or retry, and has not yet done so.
Committed == {"connecting", "load", "retrying"}
\* A disconnect() has begun and has not yet set mStopService.
Stopping == {"stopping", "stop"}
Deciding == Committed \cup Stopping

VARIABLES
    mStatus, mStopService, retryCount, retryWaitTime,
    hasConfigId,     \* mConfigId is not empty
    mCurrentConfig,  \* the number of the Config object, 0 for null
    retryPosted,     \* mRetryRunnable waits in the main thread's handler
    intents,         \* main thread: start intents (and onDestroy) to deliver
    messages,        \* vpnServiceThread: the handler's message queue
    at,              \* at[t]: the place of thread t and the Config it uses there
    loaded,          \* how many Config objects were loaded so far
    canceled,        \* the ones whose cancel() was called
    raced,           \* two threads were Deciding at the same time
    overtaken,       \* ... and one of them was Stopping, the other Committed
    up,              \* the ones whose connect() returned normally
    lost,            \* the ones whose SSH session ended by itself
    net, lastConnectedNetwork,
    broadcasts,      \* CONNECTIVITY_ACTION broadcasts not yet received
    flapped,         \* the network has changed while its last change was to be dealt with
    stale,           \* ... while connect() was Preparing with what it had seen of it
    destroyed,       \* onDestroy was called
    taps, changes, failures, losses, revokes    \* what is used of the bounds

service  == <<mStatus, mStopService, retryCount, retryWaitTime, retryPosted>>
objects  == <<mCurrentConfig, loaded, up, lost>>
queues   == <<intents, messages>>
network  == <<net, lastConnectedNetwork, broadcasts, flapped, stale>>
counters == <<taps, changes, failures, losses, revokes>>
control  == <<at, canceled, raced, overtaken>>
vars == <<service, hasConfigId, queues, control, objects, network, destroyed, counters>>

Idle == [place |-> "idle", config |-> 0]

TypeOK ==
    /\ mStatus \in Status
    /\ mStopService \in BOOLEAN
    /\ retryCount \in Nat /\ retryWaitTime \in Nat
    /\ hasConfigId \in BOOLEAN
    /\ retryPosted \in BOOLEAN
    /\ intents \in Seq(Commands \cup {"DESTROY"})
    /\ messages \in Seq(Commands)
    /\ at \in [Threads -> [place : Places, config : Nat]]
    /\ raced \in BOOLEAN /\ overtaken \in BOOLEAN
    /\ loaded \in Nat /\ mCurrentConfig \in 0..loaded
    /\ canceled \subseteq 1..loaded /\ up \subseteq 1..loaded /\ lost \subseteq 1..loaded
    /\ net \in Networks \cup {NoNetwork}
    /\ lastConnectedNetwork \in Networks \cup {NoNetwork}
    /\ broadcasts \in Nat /\ flapped \in BOOLEAN /\ stale \in BOOLEAN
    /\ destroyed \in BOOLEAN
    /\ taps \in 0..MaxTaps /\ changes \in 0..MaxChanges /\ failures \in 0..MaxFailures
    /\ losses \in 0..MaxLosses /\ revokes \in 0..MaxRevokes

\* onCreate has registered the receiver, which has fetched the initial network
\* state; a service can also be created by the RECONNECT of an older instance.
Init ==
    /\ mStatus = "DISCONNECTED" /\ mStopService = FALSE
    /\ retryCount = 0 /\ retryWaitTime = 0 /\ retryPosted = FALSE
    /\ hasConfigId = FALSE
    /\ intents \in {<<>>, <<"RECONNECT">>}
    /\ messages = <<>>
    /\ at = [t \in Threads |-> Idle] /\ raced = FALSE /\ overtaken = FALSE
    /\ mCurrentConfig = 0 /\ loaded = 0 /\ canceled = {} /\ up = {} /\ lost = {}
    /\ net \in Networks \cup {NoNetwork}
    /\ lastConnectedNetwork = net
    /\ broadcasts = 0 /\ flapped = FALSE /\ stale = FALSE /\ destroyed = FALSE
    /\ taps = 0 /\ changes = 0 /\ failures = 0 /\ losses = 0 /\ revokes = 0

\* Bounds one more network change, failure, loss or revocation.
MayFault == changes + failures + losses + revokes < MaxFaults

\* NetworkUtils.isConnected()
isConnected == net # NoNetwork

IsIdle(t) == at[t].place = "idle"

-------------------------------------------------------------------------------
(* Going from one call to the next.                                        *)

\* A thread other than t is in one of the places.
Other(t, places) == \E u \in Threads \ {t} : at[u].place \in places

\* Thread t goes on to a place where it uses no Config; decisions that overlap
\* are remembered.
Go(t, place) ==
    /\ at' = [at EXCEPT ![t] = [place |-> place, config |-> 0]]
    /\ raced' = (raced \/ (place \in Deciding /\ Other(t, Deciding)))
    /\ overtaken' = \/ overtaken
                    \/ place \in Stopping /\ Other(t, Committed)
                    \/ place \in Committed /\ Other(t, Stopping)
    /\ UNCHANGED canceled

\* The handler has nothing (more) to do.
Return(t) == Go(t, "idle")

\* Mutant: terminate() forgets to call cancel().
terminateNoCancel(t, place, c) ==
    /\ at' = [at EXCEPT ![t] = [place |-> place, config |-> c]]
    /\ UNCHANGED <<canceled, raced, overtaken>>

\* terminate() on the Config object c, called by thread t
terminate(t, place, c) ==
    /\ at' = [at EXCEPT ![t] = [place |-> place, config |-> c]]
    /\ canceled' = canceled \cup ({c} \ {0})
    /\ UNCHANGED <<raced, overtaken>>

-------------------------------------------------------------------------------
(* disconnect(), on any thread.                                            *)

\* Mutant: no disconnect while waiting for the network, whoever asks.
disconnectIgnoresUser(t, byUser) ==
    \/ mStatus = "NETWORK_ERROR" /\ Return(t)
    \/ mStatus # "NETWORK_ERROR" /\ Go(t, "stopping")

\* disconnect() up to the DISCONNECTING signal
disconnect(t, byUser) ==
    \/ mStatus = "NETWORK_ERROR" /\ ~byUser /\ Return(t)
    \/ (mStatus = "NETWORK_ERROR" => byUser) /\ Go(t, "stopping")

DisconnectSignal(t) ==
    /\ at[t].place = "stopping"
    /\ mStatus' = "DISCONNECTING"
    /\ Go(t, "stop")
    /\ UNCHANGED <<mStopService, retryCount, retryWaitTime, retryPosted, hasConfigId, queues,
                   objects, network, destroyed, counters>>

\* Mutant: the attempt counter is reset to a wrong start value.
DisconnectStopOffByOne(t) ==
    /\ at[t].place = "stop"
    /\ mStopService' = TRUE
    /\ retryCount' = -1 /\ retryWaitTime' = 0
    /\ retryPosted' = FALSE
    /\ terminate(t, "disconnect", mCurrentConfig)
    /\ UNCHANGED <<mStatus, hasConfigId, queues, objects, network, destroyed, counters>>

\* From mStopService to terminate()
DisconnectStop(t) ==
    /\ at[t].place = "stop"
    /\ mStopService' = TRUE
    /\ retryCount' = 0 /\ retryWaitTime' = 0
    /\ retryPosted' = FALSE
    /\ terminate(t, "disconnect", mCurrentConfig)
    /\ UNCHANGED <<mStatus, hasConfigId, queues, objects, network, destroyed, counters>>

\* Mutant: the DISCONNECTED signal is missing.
DisconnectEndSilent(t) ==
    /\ at[t].place = "disconnect"
    /\ Go(t, "stopself")
    /\ UNCHANGED <<service, hasConfigId, queues, objects, network, destroyed, counters>>

\* cancel() has returned: the DISCONNECTED signal
DisconnectEnd(t) ==
    /\ at[t].place = "disconnect"
    /\ mStatus' = "DISCONNECTED"
    /\ Go(t, "stopself")
    /\ UNCHANGED <<mStopService, retryCount, retryWaitTime, retryPosted, hasConfigId, queues,
                   objects, network, destroyed, counters>>

\* stopSelf(): Android schedules onDestroy on the main thread, unless an
\* activity is bound to the service.
StopSelf ==
    \/ UNCHANGED intents
    \/ /\ ~destroyed /\ \A i \in DOMAIN intents : intents[i] # "DESTROY"
       /\ intents' = Append(intents, "DESTROY")

DisconnectStopSelf(t) ==
    /\ at[t].place = "stopself"
    /\ StopSelf
    /\ Return(t)
    /\ UNCHANGED <<service, hasConfigId, messages, objects, network, destroyed, counters>>

DisconnectStep(t) ==
    DisconnectSignal(t) \/ DisconnectStop(t) \/ DisconnectEnd(t) \/ DisconnectStopSelf(t)

-------------------------------------------------------------------------------
(* retry(), on the handler thread and the main thread.                     *)

\* Mutants: the guard on mStopService is missing; retry() ignores a lost session.
RetryIgnoredNoStop == mStatus \in {"DISCONNECTING", "DISCONNECTED", "RETRYING"}
RetryIgnoredConnected ==
    \/ mStatus \in {"DISCONNECTING", "DISCONNECTED", "RETRYING", "CONNECTED"}
    \/ mStopService

RetryIgnored ==
    mStatus \in {"DISCONNECTING", "DISCONNECTED", "RETRYING"} \/ mStopService

\* retry() up to the RETRYING signal
retry(t) ==
    \/ ~hasConfigId /\ Go(t, "stopping")
    \/ hasConfigId /\ RetryIgnored /\ Return(t)
    \/ hasConfigId /\ ~RetryIgnored /\ Go(t, "retrying")

\* Mutants: the counter is incremented before it is tested; terminate() is missing.
RetrySignalCountFirst(t) ==
    /\ at[t].place = "retrying"
    /\ mStatus' = "RETRYING"
    /\ retryWaitTime' = IF (retryCount + 1) % 3 = 0 THEN retryWaitTime + 2 ELSE retryWaitTime
    /\ retryCount' = retryCount + 1
    /\ terminate(t, "retry", mCurrentConfig)
    /\ UNCHANGED <<mStopService, retryPosted, hasConfigId, queues, objects, network, destroyed,
                   counters>>
RetrySignalNoTerminate(t) ==
    /\ at[t].place = "retrying"
    /\ mStatus' = "RETRYING"
    /\ retryWaitTime' = IF retryCount % 3 = 0 THEN retryWaitTime + 2 ELSE retryWaitTime
    /\ retryCount' = retryCount + 1
    /\ terminate(t, "retry", 0)
    /\ UNCHANGED <<mStopService, retryPosted, hasConfigId, queues, objects, network, destroyed,
                   counters>>

\* From the RETRYING signal to terminate()
RetrySignal(t) ==
    /\ at[t].place = "retrying"
    /\ mStatus' = "RETRYING"
    /\ retryWaitTime' = IF retryCount % 3 = 0 THEN retryWaitTime + 2 ELSE retryWaitTime
    /\ retryCount' = retryCount + 1
    /\ terminate(t, "retry", mCurrentConfig)
    /\ UNCHANGED <<mStopService, retryPosted, hasConfigId, queues, objects, network, destroyed,
                   counters>>

\* Mutant: removeCallbacks comes after postDelayed.
RetryEndRemovesPosted(t) ==
    /\ at[t].place = "retry"
    /\ retryPosted' = FALSE
    /\ Return(t)
    /\ UNCHANGED <<mStatus, mStopService, retryCount, retryWaitTime, hasConfigId, queues,
                   objects, network, destroyed, counters>>

\* cancel() has returned: postDelayed of a new RetryRunnable, after
\* removeCallbacks of the old one
RetryEnd(t) ==
    /\ at[t].place = "retry"
    /\ retryPosted' = TRUE
    /\ Return(t)
    /\ UNCHANGED <<mStatus, mStopService, retryCount, retryWaitTime, hasConfigId, queues,
                   objects, network, destroyed, counters>>

RetryStep(t) == RetrySignal(t) \/ RetryEnd(t)

-------------------------------------------------------------------------------
(* The handler thread.                                                     *)

\* COMMAND_CONNECT: connect() looks at the status and at the network.
HandleConnect ==
    /\ Head(messages) \in {"CONNECT", "CONNECT_AGAIN"}
    /\ hasConfigId' = TRUE
    /\ mStopService' = (mStopService /\ Head(messages) # "CONNECT")
    /\ \/ mStatus = "NETWORK_ERROR" /\ Return("svc")
       \/ mStatus # "NETWORK_ERROR" /\ Go("svc", IF isConnected THEN "online" ELSE "offline")
    /\ UNCHANGED <<mStatus, retryCount, retryWaitTime, retryPosted>>

HandleDisconnect ==
    /\ Head(messages) \in {"DISCONNECT", "DISCONNECT_BY_USER"}
    /\ disconnect("svc", Head(messages) = "DISCONNECT_BY_USER")
    /\ UNCHANGED <<service, hasConfigId>>

HandleReconnect ==
    /\ Head(messages) = "RECONNECT"
    /\ retry("svc")
    /\ UNCHANGED <<service, hasConfigId>>

handleMessage ==
    /\ IsIdle("svc") /\ messages # <<>>
    /\ messages' = Tail(messages)
    /\ HandleConnect \/ HandleDisconnect \/ HandleReconnect
    /\ UNCHANGED <<intents, objects, network, destroyed, counters>>

\* There was no network: the status is assigned without a signal.
ConnectOffline ==
    /\ at["svc"].place = "offline"
    /\ mStatus' = "NETWORK_ERROR"
    /\ Return("svc")
    /\ UNCHANGED <<mStopService, retryCount, retryWaitTime, retryPosted, hasConfigId, queues,
                   objects, network, destroyed, counters>>

\* Mutant: connect() does not look at mStopService.
ConnectChecksNoStop ==
    /\ at["svc"].place = "online"
    /\ \/ mStatus = "CONNECTED" /\ Return("svc")
       \/ mStatus # "CONNECTED" /\ Go("svc", "connecting")
    /\ UNCHANGED <<service, hasConfigId, queues, objects, network, destroyed, counters>>

\* There was a network: the other conditions of connect()
ConnectChecks ==
    /\ at["svc"].place = "online"
    /\ \/ (mStopService \/ mStatus = "CONNECTED") /\ Return("svc")
       \/ ~(mStopService \/ mStatus = "CONNECTED") /\ Go("svc", "connecting")
    /\ UNCHANGED <<service, hasConfigId, queues, objects, network, destroyed, counters>>

ConnectSignal ==
    /\ at["svc"].place = "connecting"
    /\ mStatus' = "CONNECTING"
    /\ Go("svc", "load")
    /\ UNCHANGED <<mStopService, retryCount, retryWaitTime, retryPosted, hasConfigId, queues,
                   objects, network, destroyed, counters>>

\* loadConfig() makes a new Config object, and Config.connect() is called on it.
LoadConfig ==
    /\ at["svc"].place = "load"
    /\ loaded' = loaded + 1 /\ mCurrentConfig' = loaded + 1
    /\ at' = [at EXCEPT !["svc"] = [place |-> "connect", config |-> loaded + 1]]
    /\ UNCHANGED <<service, hasConfigId, queues, canceled, raced, overtaken, up, lost,
                   network, destroyed, counters>>

\* loadConfig() throws (mCurrentConfig keeps its value) or returns null, or
\* loadProxy() throws after it: forceDisconnect().
LoadFails ==
    /\ at["svc"].place = "load"
    /\ MayFault /\ failures < MaxFailures /\ failures' = failures + 1
    /\ \/ mCurrentConfig' \in {mCurrentConfig, 0} /\ UNCHANGED loaded
       \/ loaded' = loaded + 1 /\ mCurrentConfig' = loaded + 1
    /\ Go("svc", "stopping")
    /\ UNCHANGED <<service, hasConfigId, queues, up, lost, network, destroyed,
                   taps, changes, losses, revokes>>

\* Config.connect() calls onConnect() as its last step.
ConnectReturns ==
    /\ at["svc"].place = "connect"
    /\ up' = up \cup {at["svc"].config}
    /\ retryCount' = 0 /\ retryWaitTime' = 0
    /\ Go("svc", "connected")
    /\ UNCHANGED <<mStatus, mStopService, retryPosted, hasConfigId, queues, mCurrentConfig, loaded,
                   lost, network, destroyed, counters>>

\* The CONNECTED signal of onConnect()
ConnectedSignal ==
    /\ at["svc"].place = "connected"
    /\ mStatus' = "CONNECTED"
    /\ Return("svc")
    /\ UNCHANGED <<mStopService, retryCount, retryWaitTime, retryPosted, hasConfigId, queues,
                   objects, network, destroyed, counters>>

\* Mutant: a failed connect() is only logged.
ConnectThrowsNoRetry ==
    /\ at["svc"].place = "connect"
    /\ MayFault /\ failures < MaxFailures /\ failures' = failures + 1
    /\ Return("svc")
    /\ UNCHANGED <<service, hasConfigId, queues, objects, network, destroyed,
                   taps, changes, losses, revokes>>

\* Config.connect() throws a ConfigException: connect() gives up when there is
\* no network.
ConnectThrows ==
    /\ at["svc"].place = "connect"
    /\ MayFault /\ failures < MaxFailures /\ failures' = failures + 1
    /\ \/ (mStatus = "NETWORK_ERROR" \/ ~isConnected) /\ Return("svc")
       \/ mStatus # "NETWORK_ERROR" /\ isConnected /\ Go("svc", "failed")
    /\ UNCHANGED <<service, hasConfigId, queues, objects, network, destroyed,
                   taps, changes, losses, revokes>>

\* Authentication failed: forceDisconnect(); otherwise retry()
ConnectFailed ==
    /\ at["svc"].place = "failed"
    /\ Go("svc", "stopping") \/ retry("svc")
    /\ UNCHANGED <<service, hasConfigId, queues, objects, network, destroyed, counters>>

\* connect() after its look at the network, without Config.connect() itself
ConnectStep ==
    \/ ConnectOffline \/ ConnectChecks \/ ConnectSignal \/ LoadConfig \/ LoadFails
    \/ ConnectThrows \/ ConnectFailed

-------------------------------------------------------------------------------
(* The main thread.                                                        *)

\* onStartCommand hands the intent's command to the handler thread.
onStartCommand ==
    /\ IsIdle("ui") /\ ~destroyed
    /\ intents # <<>> /\ Head(intents) # "DESTROY"
    /\ intents' = Tail(intents)
    /\ messages' = Append(messages, Head(intents))
    /\ UNCHANGED <<service, hasConfigId, control, objects, network, destroyed, counters>>

onDestroy ==
    /\ IsIdle("ui") /\ ~destroyed
    /\ intents # <<>> /\ Head(intents) = "DESTROY"
    /\ intents' = Tail(intents)
    /\ destroyed' = TRUE
    /\ terminate("ui", "destroy", mCurrentConfig)
    /\ UNCHANGED <<service, hasConfigId, messages, objects, network, counters>>

\* Mutant: the runnable also gives up while RETRYING.
RetryRunnableRunGivesUp ==
    /\ IsIdle("ui") /\ retryPosted
    /\ retryPosted' = FALSE
    /\ intents' = IF mStatus \in {"DISCONNECTING", "DISCONNECTED", "NETWORK_ERROR", "RETRYING"}
                    THEN intents ELSE Append(intents, "CONNECT_AGAIN")
    /\ UNCHANGED <<mStatus, mStopService, retryCount, retryWaitTime, hasConfigId, messages,
                   control, objects, network, destroyed, counters>>

\* RetryRunnable.run: the delay has passed
RetryRunnableRun ==
    /\ IsIdle("ui") /\ retryPosted
    /\ retryPosted' = FALSE
    /\ intents' = IF mStatus \in {"DISCONNECTING", "DISCONNECTED", "NETWORK_ERROR"}
                    THEN intents ELSE Append(intents, "CONNECT_AGAIN")
    /\ UNCHANGED <<mStatus, mStopService, retryCount, retryWaitTime, hasConfigId, messages,
                   control, objects, network, destroyed, counters>>

\* The receiver reads the network as it is now, not as it was when the
\* broadcast was sent.
networkStateChange ==
    /\ IsIdle("ui") /\ ~destroyed
    /\ broadcasts > 0 /\ broadcasts' = broadcasts - 1
    /\ Go("ui", IF ~isConnected THEN "gone"
                ELSE IF net = lastConnectedNetwork THEN "back" ELSE "other")
    /\ lastConnectedNetwork' = IF isConnected THEN net ELSE lastConnectedNetwork
    /\ UNCHANGED <<service, hasConfigId, queues, objects, net, flapped, stale, destroyed,
                   counters>>

\* onNetworkDisconnected up to the NETWORK_ERROR signal
onNetworkDisconnected ==
    /\ at["ui"].place = "gone"
    /\ \/ mStatus \in {"DISCONNECTED", "DISCONNECTING"} /\ Return("ui")
       \/ mStatus \notin {"DISCONNECTED", "DISCONNECTING"} /\ Go("ui", "losing")
    /\ UNCHANGED <<service, hasConfigId, queues, objects, network, destroyed, counters>>

\* From the NETWORK_ERROR signal to cancel()
NetworkErrorSignal ==
    /\ at["ui"].place = "losing"
    /\ mStatus' = "NETWORK_ERROR"
    /\ retryCount' = 0 /\ retryWaitTime' = 0
    /\ terminate("ui", "network", mCurrentConfig)
    /\ UNCHANGED <<mStopService, retryPosted, hasConfigId, queues, objects, network, destroyed,
                   counters>>

\* Mutant: only a change of network ends the wait for it.
onNetworkConnectedChangedOnly ==
    /\ at["ui"].place \in {"back", "other"}
    /\ LET heeded == at["ui"].place = "other" /\ mStatus \in {"CONNECTED", "NETWORK_ERROR"}
       IN IF heeded THEN retry("ui") ELSE Return("ui")
    /\ UNCHANGED <<service, hasConfigId, queues, objects, network, destroyed, counters>>

onNetworkConnected ==
    /\ at["ui"].place \in {"back", "other"}
    /\ LET heeded == \/ at["ui"].place = "other" /\ mStatus = "CONNECTED"
                     \/ mStatus = "NETWORK_ERROR"
       IN IF heeded THEN retry("ui") ELSE Return("ui")
    /\ UNCHANGED <<service, hasConfigId, queues, objects, network, destroyed, counters>>

\* onNetworkDisconnected and onDestroy do nothing after cancel().
HandlerEnd ==
    /\ at["ui"].place \in {"network", "destroy"}
    /\ Return("ui")
    /\ UNCHANGED <<service, hasConfigId, queues, objects, network, destroyed, counters>>

NetworkStep ==
    onNetworkDisconnected \/ NetworkErrorSignal \/ onNetworkConnected \/ HandlerEnd

-------------------------------------------------------------------------------
(* The user, Android and the network.                                      *)

\* Intents for this instance: after stopSelf() a new instance would get them.
Send(command) ==
    /\ ~destroyed /\ \A i \in DOMAIN intents : intents[i] # "DESTROY"
    /\ taps < MaxTaps /\ taps' = taps + 1
    /\ intents' = Append(intents, command)
    /\ UNCHANGED <<service, hasConfigId, messages, control, objects, network, destroyed,
                   changes, failures, losses, revokes>>

\* The connect button of HomeFragment
TapButton ==
    /\ IsIdle("ui")
    /\ mStatus # "DISCONNECTING"
    /\ \/ mStatus = "DISCONNECTED" /\ isConnected /\ Send("CONNECT")
       \/ mStatus # "DISCONNECTED" /\ Send("DISCONNECT_BY_USER")

\* The notification's buttons, there once a connection was asked for
TapNotification ==
    /\ hasConfigId
    /\ Send("DISCONNECT_BY_USER") \/ Send("RECONNECT")

\* Android starts the service with an intent of its own, which has no
\* "command" extra (always-on VPN): COMMAND_DISCONNECT, not by the user.
SystemStart == Send("DISCONNECT")

\* Another VPN app takes over.  VpnService.onRevoke() itself calls stopSelf().
onRevoke ==
    /\ IsIdle("binder")
    /\ MayFault /\ revokes < MaxRevokes /\ revokes' = revokes + 1
    /\ StopSelf
    /\ Go("binder", "stopping")
    /\ UNCHANGED <<service, hasConfigId, messages, objects, network, destroyed,
                   taps, changes, failures, losses>>

\* An SSH session of Config c ends by itself; its listener asks for a reconnect
\* unless cancel() came first.  A chain has several sessions, each may end, and
\* cancel() reaches one after the other.
onDisconnected(c) ==
    /\ c \in canceled => \E t \in Threads : at[t].place # "connect" /\ at[t].config = c
    /\ MayFault /\ losses < MaxLosses /\ losses' = losses + 1
    /\ lost' = lost \cup {c}
    /\ intents' = Append(intents, "RECONNECT")
    /\ UNCHANGED <<service, hasConfigId, messages, control, mCurrentConfig, loaded, up, network,
                   destroyed, taps, changes, failures, revokes>>

NetworkChange(n) ==
    /\ n # net /\ net' = n
    /\ flapped' = (flapped \/ broadcasts > 0 \/ at["ui"].place \in NetworkPlaces)
    /\ stale' = (stale \/ at["svc"].place \in Preparing)
    /\ MayFault /\ changes < MaxChanges /\ changes' = changes + 1
    /\ broadcasts' = broadcasts + 1
    /\ UNCHANGED <<service, hasConfigId, queues, control, objects, lastConnectedNetwork,
                   destroyed, taps, failures, losses, revokes>>

-------------------------------------------------------------------------------
Next ==
    \/ handleMessage
    \/ ConnectStep \/ ConnectReturns \/ ConnectedSignal
    \/ \E t \in Threads : DisconnectStep(t) \/ RetryStep(t)
    \/ onStartCommand
    \/ onDestroy
    \/ RetryRunnableRun
    \/ networkStateChange \/ NetworkStep
    \/ TapButton
    \/ TapNotification
    \/ SystemStart
    \/ onRevoke
    \/ \E c \in 1..loaded : onDisconnected(c)
    \/ \E n \in Networks \cup {NoNetwork} : NetworkChange(n)

\* The threads run; nothing is assumed of the user, Android's calls, the
\* network and the sessions.  Config.connect() has time-outs and Config.cancel()
\* waits for a process it has killed, so both return.
Fairness ==
    /\ WF_vars(handleMessage)
    /\ WF_vars(ConnectStep \/ ConnectReturns \/ ConnectedSignal)
    /\ \A t \in Threads : WF_vars(DisconnectStep(t) \/ RetryStep(t))
    /\ WF_vars(NetworkStep)
    /\ WF_vars(onStartCommand)
    /\ WF_vars(onDestroy)
    /\ WF_vars(RetryRunnableRun)
    /\ WF_vars(networkStateChange)

Spec == Init /\ [][Next]_vars
FairSpec == Spec /\ Fairness
-------------------------------------------------------------------------------
(* Properties.                                                             *)

InFlight(commands) ==
    \E i \in DOMAIN intents \cup DOMAIN messages :
        \/ i \in DOMAIN intents /\ intents[i] \in commands
        \/ i \in DOMAIN messages /\ messages[i] \in commands

\* Once disconnect() has set mStopService, no thread dials or announces a retry
\* until the user connects again: the guards of connect() and retry() hold
\* against every order of the three threads, unless a thread passed them while
\* the disconnect() was under way (overtaken; see DisconnectedIsTrue).
StoppedNeverDials ==
    mStopService /\ ~overtaken => mStatus \notin {"CONNECTING", "RETRYING"}

\* A retry is never lost: whenever the service shows RETRYING, some thread is
\* still inside retry(), its runnable is posted, or the connect command it leads
\* to is on its way to the handler or in connect().
RetryNeverLost ==
    mStatus = "RETRYING" /\ ~overtaken =>
        \/ \E t \in Threads : at[t].place = "retry"
        \/ retryPosted
        \/ InFlight({"CONNECT", "CONNECT_AGAIN"})
        \/ at["svc"].place \in {"online", "offline", "connecting"}

\* The wait of retry() grows by two seconds every third attempt and is reset
\* together with the attempt counter by all three handlers that reset it.
BackoffShape == retryWaitTime = 2 * ((retryCount + 2) \div 3)

\* No Config object is forgotten: one that connect() has replaced was canceled,
\* so its session, tunnel and process are being released.  The exceptions: the
\* network changed behind the back of a handler that had looked at it; two
\* handlers decided at the same time; a revocation's late DISCONNECTED hid a
\* connection from the button.
NoOrphanConfig ==
    ~flapped /\ ~stale /\ ~raced /\ revokes = 0
        => \A c \in 1..loaded : c # mCurrentConfig => c \in canceled

\* CONNECTED shown after a stop can only come from a connect() that was under
\* way; its Config was canceled by that stop.
LateConnectIsCanceled ==
    mStopService /\ mStatus = "CONNECTED" /\ ~overtaken => mCurrentConfig \in canceled

\* A step that leaves the service stopped changes the status only towards
\* DISCONNECTED.  The exceptions are handlers that were under way: the CONNECTED
\* of a connect(), the NETWORK_ERROR of a connect() or of a broadcast that found
\* no network.
StopIsFinal ==
    [][mStopService /\ mStopService' /\ ~overtaken
        => \/ mStatus' \in {mStatus, "DISCONNECTING", "DISCONNECTED"}
           \/ at["svc"].place = "connected" /\ mStatus' = "CONNECTED"
           \/ at["svc"].place = "offline" /\ mStatus' = "NETWORK_ERROR"
           \/ at["ui"].place = "losing" /\ mStatus' = "NETWORK_ERROR"]_vars

\* disconnect: "YOU ARE DISCONNECTED".  When every handler is done, a service
\* that was stopped does not show CONNECTED for a Config that nobody canceled.
DisconnectedIsTrue ==
    mStopService /\ mStatus = "CONNECTED" /\ (\A t \in Threads : IsIdle(t))
        => mCurrentConfig \in canceled

\* RETRYING is never the last word of a service that is not destroyed, unless a
\* disconnect() has overlapped the decision to retry.
RetryEnds == mStatus = "RETRYING" ~> mStatus # "RETRYING" \/ destroyed \/ overtaken

\* Nor is DISCONNECTING, in which the button of HomeFragment ignores taps.
DisconnectEnds == mStatus = "DISCONNECTING" ~> mStatus # "DISCONNECTING" \/ destroyed

\* Nor is CONNECTING, unless the network changes behind the back of a handler
\* that has looked at it, or a disconnect() overlaps the decision to connect.
ConnectEnds == mStatus = "CONNECTING" ~> mStatus # "CONNECTING" \/ destroyed \/ flapped \/ stale \/ overtaken

\* A service that waits for the network, and is not stopped, does not go on
\* waiting when the broadcast of its return is still to be received.
NetworkErrorEnds ==
    mStatus = "NETWORK_ERROR" /\ isConnected /\ broadcasts > 0 /\ ~mStopService
        ~> mStatus # "NETWORK_ERROR" \/ ~isConnected \/ mStopService \/ destroyed

\* A disconnect the user asked for happens, whatever else is queued.
UserDisconnectHappens ==
    "DISCONNECT_BY_USER" \in {messages[i] : i \in DOMAIN messages} ~> mStatus = "DISCONNECTED"

\* A lost session is noticed: the service does not go on showing CONNECTED for
\* a Config whose session has ended by itself.
LossIsNoticed ==
    mCurrentConfig \in lost \ canceled
        ~> mCurrentConfig \notin lost \ canceled \/ destroyed \/ revokes > 0

\* onNetworkDisconnected: "Network is disconnected. Wating for connecting again".
\* A Config that was canceled because the network was lost is replaced when the
\* network is back.
CanceledIsReplaced ==
    isConnected /\ mCurrentConfig \in canceled /\ ~mStopService
        ~> ~isConnected \/ mCurrentConfig \notin canceled \/ mStopService \/ destroyed \/ flapped
===============================================================================
