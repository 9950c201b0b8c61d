--------------------------- MODULE VpnServiceOpenVpn ---------------------------
(***************************************************************************)
(* The service of VpnService with an OpenVpnConfig in the place of the     *)
(* SSHConfig: connect() returns once the OpenVPN process is started, and   *)
(* what becomes of the tunnel is reported later, by the management thread. *)
(* Of the Config only its reports are here, with what OpenVpnConfig shows  *)
(* about them: there are none once cancel() has returned.                  *)
(***************************************************************************)
EXTENDS VpnService

CONSTANT MaxReports      \* bound: CONNECTED and RECONNECTING lines

VARIABLES
    engines,    \* the Configs whose process is there and heard
    announcing, \* the ones whose management thread is in onConnect()
    posted,     \* calls of onReconnecting() waiting in the main thread's handler
    reports     \* CONNECTED and RECONNECTING lines so far

engine == <<engines, announcing, posted, reports>>
allVars == <<vars, engine>>

InitOpenVpn == Init /\ engines = {} /\ announcing = {} /\ posted = 0 /\ reports = 0

\* connect() has started the process and returns, without a report.
OpenVpnReturns ==
    /\ at["svc"].place = "connect"
    /\ up' = up \cup {at["svc"].config}
    /\ engines' = engines \cup {at["svc"].config}
    /\ Return("svc")
    /\ UNCHANGED <<service, hasConfigId, queues, mCurrentConfig, loaded, lost, network, destroyed,
                   counters, announcing, posted, reports>>

\* The process of Config c is heard until its cancel() returns.
Heard(c) ==
    /\ c \in engines
    /\ c \in canceled => \E t \in Threads : ~IsIdle(t) /\ at[t].config = c

\* A line of the process, read by a management thread that is in no call
Report(c) ==
    /\ Heard(c) /\ c \notin announcing
    /\ reports < MaxReports /\ reports' = reports + 1

\* STATE CONNECTED: onConnect(), on the management thread ...
onOpenVpnConnected(c) ==
    /\ Report(c)
    /\ retryCount' = 0 /\ retryWaitTime' = 0
    /\ announcing' = announcing \cup {c}
    /\ UNCHANGED <<mStatus, mStopService, retryPosted, hasConfigId, queues, control, objects,
                   network, destroyed, counters, engines, posted>>

\* ... and its CONNECTED signal
onConnectSignal(c) ==
    /\ c \in announcing /\ announcing' = announcing \ {c}
    /\ mStatus' = "CONNECTED"
    /\ UNCHANGED <<mStopService, retryCount, retryWaitTime, retryPosted, hasConfigId, queues,
                   control, objects, network, destroyed, counters, engines, posted, reports>>

\* STATE RECONNECTING with the SSH session up: onReconnecting() is posted ...
onOpenVpnReconnecting(c) ==
    /\ Report(c)
    /\ posted' = posted + 1
    /\ UNCHANGED <<vars, engines, announcing>>

\* ... runs on the main thread ...
onReconnecting ==
    /\ IsIdle("ui") /\ posted > 0
    /\ posted' = posted - 1
    /\ Go("ui", "reconnecting")
    /\ UNCHANGED <<service, hasConfigId, queues, objects, network, destroyed, counters,
                   engines, announcing, reports>>

\* ... and shows RETRYING, whatever the status is by then.
ReconnectingSignal ==
    /\ at["ui"].place = "reconnecting"
    /\ mStatus' = "RETRYING"
    /\ Return("ui")
    /\ UNCHANGED <<mStopService, retryCount, retryWaitTime, retryPosted, hasConfigId, queues,
                   objects, network, destroyed, counters, engine>>

\* The process exits; unless cancel() came first the service is asked to reconnect.
onOpenVpnDisconnected(c) ==
    /\ Heard(c) /\ c \notin canceled
    /\ MayFault /\ losses < MaxLosses /\ losses' = losses + 1
    /\ engines' = engines \ {c} /\ lost' = lost \cup {c}
    /\ intents' = Append(intents, "RECONNECT")
    /\ UNCHANGED <<service, hasConfigId, messages, control, mCurrentConfig, loaded, up, network,
                   destroyed, taps, changes, failures, revokes, announcing, posted, reports>>

\* What VpnService has of the service itself
ServiceStep ==
    \/ handleMessage \/ ConnectStep
    \/ \E t \in Threads : DisconnectStep(t) \/ RetryStep(t)
    \/ onStartCommand \/ onDestroy \/ RetryRunnableRun \/ networkStateChange \/ NetworkStep
    \/ TapButton \/ TapNotification \/ SystemStart \/ onRevoke
    \/ \E n \in Networks \cup {NoNetwork} : NetworkChange(n)

NextOpenVpn ==
    \/ ServiceStep /\ UNCHANGED engine
    \/ OpenVpnReturns
    \/ onReconnecting \/ ReconnectingSignal
    \/ \E c \in 1..loaded :
        \/ onOpenVpnConnected(c) \/ onConnectSignal(c)
        \/ onOpenVpnReconnecting(c) \/ onOpenVpnDisconnected(c)

\* The threads run; the process need not report anything.
FairOpenVpn ==
    /\ WF_allVars(handleMessage /\ UNCHANGED engine)
    /\ WF_allVars(OpenVpnReturns \/ (ConnectStep /\ UNCHANGED engine))
    /\ \A t \in Threads : WF_allVars((DisconnectStep(t) \/ RetryStep(t)) /\ UNCHANGED engine)
    /\ WF_allVars(NetworkStep /\ UNCHANGED engine)
    /\ WF_allVars(ReconnectingSignal)
    /\ WF_allVars(\E c \in announcing : onConnectSignal(c))
    /\ WF_allVars(onStartCommand /\ UNCHANGED engine)
    /\ WF_allVars(onDestroy /\ UNCHANGED engine)
    /\ WF_allVars(RetryRunnableRun /\ UNCHANGED engine)
    /\ WF_allVars(networkStateChange /\ UNCHANGED engine)
    /\ WF_allVars(onReconnecting)

FairSpecOpenVpn == InitOpenVpn /\ [][NextOpenVpn]_allVars /\ FairOpenVpn

-------------------------------------------------------------------------------
\* onOpenVpnDisconnected: "OpenVPN disconnected asking MyVpnService to reconnect".
\* The request of the current Config leads to its replacement, unless the service
\* is stopped.
ReconnectIsHeard ==
    mCurrentConfig \in lost \ canceled /\ ~mStopService
        ~> mCurrentConfig \notin lost \ canceled \/ mStopService \/ destroyed
===============================================================================
