--------------------------- MODULE VpnServiceProofs ---------------------------
(***************************************************************************)
(* Theorems about VpnService, for every set of networks and all bounds.    *)
(***************************************************************************)
EXTENDS VpnService, TLAPS

\* The Config object the handler thread is connecting was loaded.
ConnectUsesLoaded == at["svc"].place = "connect" => at["svc"].config \in 1..loaded

TypeInv == TypeOK /\ ConnectUsesLoaded

\* Init satisfies the type invariant (the fields' initial values, onCreate).
LEMMA InitTypeInv == Init => TypeInv
  <1> SUFFICES ASSUME Init PROVE TypeInv
    OBVIOUS
  <1> USE DEF Init
  <1>1. intents \in Seq(Commands \cup {"DESTROY"})
    <2>1. "RECONNECT" \in Commands \cup {"DESTROY"}
      BY DEF Commands
    <2>2. <<>> \in Seq(Commands \cup {"DESTROY"}) /\ <<"RECONNECT">> \in Seq(Commands \cup {"DESTROY"})
      BY <2>1
    <2>3. QED
      BY <2>2
  <1>5. messages \in Seq(Commands)
    OBVIOUS
  <1>6. /\ loaded \in Nat /\ mCurrentConfig \in 0..loaded
        /\ canceled \subseteq 1..loaded /\ up \subseteq 1..loaded /\ lost \subseteq 1..loaded
    OBVIOUS
  <1>7. /\ net \in Networks \cup {NoNetwork}
        /\ lastConnectedNetwork \in Networks \cup {NoNetwork}
    OBVIOUS
  <1>8. /\ mStatus \in Status /\ mStopService \in BOOLEAN
        /\ retryCount \in Nat /\ retryWaitTime \in Nat
        /\ hasConfigId \in BOOLEAN /\ retryPosted \in BOOLEAN
        /\ broadcasts \in Nat /\ flapped \in BOOLEAN /\ stale \in BOOLEAN /\ destroyed \in BOOLEAN
        /\ raced \in BOOLEAN /\ overtaken \in BOOLEAN
    BY DEF Status
  <1>2. at \in [Threads -> [place : Places, config : Nat]] /\ ConnectUsesLoaded
    <2>1. Idle \in [place : Places, config : Nat] /\ Idle.place # "connect"
      BY DEF Idle, Places
    <2>2. QED
      BY <2>1 DEF ConnectUsesLoaded, Threads
  <1>3. /\ taps \in 0..MaxTaps /\ changes \in 0..MaxChanges /\ failures \in 0..MaxFailures
        /\ losses \in 0..MaxLosses /\ revokes \in 0..MaxRevokes
    BY BoundsAssumption
  <1>4. QED
    BY <1>1, <1>2, <1>3, <1>5, <1>6, <1>7, <1>8 DEF TypeInv, TypeOK

-------------------------------------------------------------------------------
(* What a handler's step does to the places of the threads.                *)

\* Thread t has gone on to place p, and the decisions that overlap with its own
\* are remembered.
Moves(t, p) ==
    /\ at'[t].place = p /\ \A u \in Threads \ {t} : at'[u] = at[u]
    /\ (raced => raced') /\ (overtaken => overtaken')
    /\ ~raced' /\ p \in Deciding => ~Other(t, Deciding)
    /\ ~overtaken' /\ p \in Stopping => ~Other(t, Committed)
    /\ ~overtaken' /\ p \in Committed => ~Other(t, Stopping)

ControlType ==
    /\ at' \in [Threads -> [place : Places, config : Nat]]
    /\ canceled' \subseteq 1..loaded
    /\ raced' \in BOOLEAN /\ overtaken' \in BOOLEAN
    /\ at'["svc"].place = "connect" => at'["svc"] = at["svc"]

\* Going on to a place without a Config keeps the types ...
LEMMA GoMoves ==
  ASSUME TypeInv, NEW t \in Threads, NEW p \in Places \ {"connect"}, Go(t, p)
  PROVE  Moves(t, p) /\ ControlType /\ canceled' = canceled
  <1>0. /\ at \in [Threads -> [place : Places, config : Nat]]
        /\ canceled \subseteq 1..loaded /\ raced \in BOOLEAN /\ overtaken \in BOOLEAN
    BY DEF TypeInv, TypeOK
  <1>1. [place |-> p, config |-> 0] \in [place : Places, config : Nat]
    OBVIOUS
  <1>2. /\ at' \in [Threads -> [place : Places, config : Nat]]
        /\ at'[t] = [place |-> p, config |-> 0] /\ \A u \in Threads \ {t} : at'[u] = at[u]
    BY <1>0, <1>1 DEF Go
  <1>3. raced' \in BOOLEAN /\ overtaken' \in BOOLEAN
    BY DEF Go
  <1>4. canceled' = canceled
    BY DEF Go
  <1>5. at'["svc"].place = "connect" => at'["svc"] = at["svc"]
    BY <1>2 DEF Threads
  <1>6. /\ (raced => raced') /\ (overtaken => overtaken')
        /\ ~raced' /\ p \in Deciding => ~Other(t, Deciding)
        /\ ~overtaken' /\ p \in Stopping => ~Other(t, Committed)
        /\ ~overtaken' /\ p \in Committed => ~Other(t, Stopping)
    BY DEF Go
  <1> QED BY <1>0, <1>2, <1>3, <1>4, <1>5, <1>6 DEF Moves, ControlType

\* ... and so does going on to cancel a Config.
LEMMA TerminateMoves ==
  ASSUME TypeInv, NEW t \in Threads, NEW p \in Places \ ({"connect"} \cup Deciding),
         NEW c \in 0..loaded, terminate(t, p, c)
  PROVE  Moves(t, p) /\ ControlType /\ canceled' = canceled \cup ({c} \ {0})
  <1>0. /\ at \in [Threads -> [place : Places, config : Nat]] /\ loaded \in Nat
        /\ canceled \subseteq 1..loaded /\ raced \in BOOLEAN /\ overtaken \in BOOLEAN
    BY DEF TypeInv, TypeOK
  <1>1. [place |-> p, config |-> c] \in [place : Places, config : Nat]
    BY <1>0
  <1>2. /\ at' \in [Threads -> [place : Places, config : Nat]]
        /\ at'[t] = [place |-> p, config |-> c] /\ \A u \in Threads \ {t} : at'[u] = at[u]
    BY <1>0, <1>1 DEF terminate
  <1>3. raced' = raced /\ overtaken' = overtaken /\ canceled' = canceled \cup ({c} \ {0})
    BY DEF terminate
  <1>4. canceled' \subseteq 1..loaded
    BY <1>0, <1>3
  <1>5. at'["svc"].place = "connect" => at'["svc"] = at["svc"]
    BY <1>2 DEF Threads
  <1>6. p \notin Stopping /\ p \notin Committed /\ p \notin Deciding
    BY DEF Deciding
  <1> QED BY <1>0, <1>2, <1>3, <1>4, <1>5, <1>6 DEF Moves, ControlType

\* The places that several lemmas name.
LEMMA PlacesFacts ==
  /\ {"idle", "online", "offline", "connecting", "load", "connected", "failed", "retrying",
      "stopping", "stop", "stopself", "gone", "back", "other", "losing"} \subseteq Places \ {"connect"}
  /\ {"retry", "disconnect", "network", "destroy"} \subseteq Places \ ({"connect"} \cup Deciding)
  /\ {"idle", "online", "offline", "connect", "connected", "failed", "stopself", "gone", "back",
      "other", "losing", "retry", "disconnect", "network", "destroy"} \cap Deciding = {}
  /\ "connecting" \in Committed /\ "load" \in Committed /\ "retrying" \in Committed
  /\ "stopping" \in Stopping /\ "stop" \in Stopping
  /\ Committed \cap Stopping = {} /\ Deciding = Committed \cup Stopping
  /\ "svc" \in Threads /\ "ui" \in Threads /\ "binder" \in Threads
  BY DEF Places, ConnectPlaces, NetworkPlaces, Deciding, Committed, Stopping, Threads

-------------------------------------------------------------------------------
(* Type correctness.                                                       *)

ServiceType ==
    /\ mStatus' \in Status /\ mStopService' \in BOOLEAN
    /\ retryCount' \in Nat /\ retryWaitTime' \in Nat /\ retryPosted' \in BOOLEAN

\* When a step keeps the types of the fields and of the threads' places, and
\* nothing else changes but queues and counters within their types, TypeInv is
\* preserved.
LEMMA FrameType ==
  ASSUME TypeInv, ControlType, ServiceType, UNCHANGED <<objects, network, destroyed>>,
         hasConfigId' \in BOOLEAN,
         intents' \in Seq(Commands \cup {"DESTROY"}), messages' \in Seq(Commands),
         taps' \in 0..MaxTaps, changes' \in 0..MaxChanges, failures' \in 0..MaxFailures,
         losses' \in 0..MaxLosses, revokes' \in 0..MaxRevokes
  PROVE  TypeInv'
  BY DEF TypeInv, TypeOK, ConnectUsesLoaded, ControlType, ServiceType, objects, network

\* stopSelf() leaves a sequence of intents.
LEMMA DestroyType ==
  ASSUME intents \in Seq(Commands \cup {"DESTROY"}),
         UNCHANGED intents \/ intents' = Append(intents, "DESTROY")
  PROVE  intents' \in Seq(Commands \cup {"DESTROY"})
  <1> DEFINE S == Commands \cup {"DESTROY"}
  <1>1. "DESTROY" \in S /\ intents \in Seq(S)
    OBVIOUS
  <1> HIDE DEF S
  <1>2. Append(intents, "DESTROY") \in Seq(S)
    BY <1>1
  <1>3. intents' \in Seq(S)
    BY <1>1, <1>2
  <1> QED BY <1>3 DEF S

\* retry() and disconnect() decide, and change nothing but the thread's place.
LEMMA DecideMoves ==
  ASSUME TypeInv, NEW t \in Threads, NEW b,
         retry(t) \/ disconnect(t, b) \/ Return(t) \/ Go(t, "stopping")
  PROVE  ControlType /\ canceled' = canceled
  BY GoMoves, PlacesFacts DEF retry, disconnect, Return

\* The fields of the service keep their types when only the status changes.
LEMMA StatusType ==
  ASSUME TypeInv, mStatus' \in Status, UNCHANGED <<mStopService, retryCount, retryWaitTime, retryPosted>>
  PROVE  ServiceType
  BY DEF ServiceType, TypeInv, TypeOK

\* Every step keeps TypeInv.
LEMMA NextTypeInv == TypeInv /\ [Next]_vars => TypeInv'
  <1> SUFFICES ASSUME TypeInv, [Next]_vars PROVE TypeInv'
    OBVIOUS
  <1> USE BoundsAssumption
  <1>0. /\ mCurrentConfig \in 0..loaded /\ 0 \in 0..loaded
        /\ hasConfigId \in BOOLEAN /\ mStatus \in Status
        /\ intents \in Seq(Commands \cup {"DESTROY"}) /\ messages \in Seq(Commands)
        /\ taps \in 0..MaxTaps /\ changes \in 0..MaxChanges /\ failures \in 0..MaxFailures
        /\ losses \in 0..MaxLosses /\ revokes \in 0..MaxRevokes
        /\ {"CONNECTED", "CONNECTING", "DISCONNECTED", "NETWORK_ERROR", "DISCONNECTING",
            "RETRYING"} \subseteq Status
    BY DEF TypeInv, TypeOK, Status
  <1>1. CASE handleMessage
    <2>1. /\ messages' \in Seq(Commands) /\ intents' = intents
          /\ UNCHANGED <<objects, network, destroyed, counters>>
      BY <1>1, <1>0 DEF handleMessage
    <2>2. ControlType
      BY <1>1, DecideMoves, GoMoves, PlacesFacts
      DEF handleMessage, HandleConnect, HandleDisconnect, HandleReconnect, Return
    <2>3. mStopService' \in BOOLEAN /\ hasConfigId' \in BOOLEAN
      BY <1>1, <1>0 DEF handleMessage, HandleConnect, HandleDisconnect, HandleReconnect, service,
                        TypeInv, TypeOK
    <2>4. UNCHANGED <<mStatus, retryCount, retryWaitTime, retryPosted>>
      BY <1>1 DEF handleMessage, HandleConnect, HandleDisconnect, HandleReconnect, service
    <2>5. ServiceType
      BY <2>3, <2>4 DEF ServiceType, TypeInv, TypeOK
    <2> QED BY <2>1, <2>2, <2>3, <2>5, <1>0, FrameType DEF counters
  <1>2. CASE ConnectOffline \/ ConnectChecks \/ ConnectSignal \/ ConnectFailed \/ ConnectedSignal
    <2>1. ControlType
      BY <1>2, DecideMoves, GoMoves, PlacesFacts
      DEF ConnectOffline, ConnectChecks, ConnectSignal, ConnectFailed, ConnectedSignal, Return
    <2>2. /\ UNCHANGED <<objects, network, destroyed, hasConfigId, intents, messages, counters>>
          /\ UNCHANGED <<mStopService, retryCount, retryWaitTime, retryPosted>>
      BY <1>2 DEF ConnectOffline, ConnectChecks, ConnectSignal, ConnectFailed, ConnectedSignal,
                  service, queues
    <2>3. mStatus' \in Status
      BY <1>2, <1>0 DEF ConnectOffline, ConnectChecks, ConnectSignal, ConnectFailed, ConnectedSignal,
                        service
    <2> QED BY <2>1, <2>2, <2>3, <1>0, StatusType, FrameType DEF counters
  <1>3. CASE LoadConfig
    <2>1. [place |-> "connect", config |-> loaded + 1] \in [place : Places, config : Nat]
      BY DEF TypeInv, TypeOK, Places, ConnectPlaces
    <2>2. loaded' \in Nat /\ mCurrentConfig' \in 0..loaded' /\ 1..loaded \subseteq 1..loaded'
          /\ loaded + 1 \in 1..loaded'
      BY <1>3 DEF LoadConfig, TypeInv, TypeOK
    <2>3. /\ at' \in [Threads -> [place : Places, config : Nat]]
          /\ at'["svc"] = [place |-> "connect", config |-> loaded + 1]
      BY <2>1, <1>3, PlacesFacts DEF LoadConfig, TypeInv, TypeOK
    <2> QED BY <2>2, <2>3, <1>3
            DEF LoadConfig, TypeInv, TypeOK, ConnectUsesLoaded, service, queues, network, counters
  <1>4. CASE LoadFails
    <2>1. ControlType
      BY <1>4, GoMoves, PlacesFacts DEF LoadFails
    <2>0. loaded \in Nat /\ failures' \in 0..MaxFailures
      BY <1>4, <1>0 DEF LoadFails, TypeInv, TypeOK
    <2>2. loaded' \in Nat /\ mCurrentConfig' \in 0..loaded' /\ 1..loaded \subseteq 1..loaded'
      <3>1. CASE mCurrentConfig' \in {mCurrentConfig, 0} /\ UNCHANGED loaded
        BY <3>1, <2>0, <1>0
      <3>2. CASE loaded' = loaded + 1 /\ mCurrentConfig' = loaded + 1
        BY <3>2, <2>0
      <3> QED BY <1>4, <3>1, <3>2 DEF LoadFails
    <2>3. canceled' \subseteq 1..loaded' /\ up' \subseteq 1..loaded' /\ lost' \subseteq 1..loaded'
      BY <1>4, <2>1, <2>2 DEF LoadFails, TypeInv, TypeOK, ControlType
    <2>4. ConnectUsesLoaded'
      BY <2>1, <2>2 DEF ControlType, ConnectUsesLoaded, TypeInv
    <2> QED BY <1>4, <2>0, <2>1, <2>2, <2>3, <2>4
            DEF LoadFails, ControlType, TypeInv, TypeOK, service, queues, network, counters
  <1>5. CASE ConnectReturns
    <2>1. ControlType
      BY <1>5, GoMoves, PlacesFacts DEF ConnectReturns
    <2>2. up' \subseteq 1..loaded
      BY <1>5 DEF ConnectReturns, TypeInv, TypeOK, ConnectUsesLoaded
    <2> QED BY <1>5, <2>1, <2>2
            DEF ConnectReturns, ControlType, TypeInv, TypeOK, ConnectUsesLoaded, queues, network,
                counters
  <1>6. CASE ConnectThrows
    <2>1. ControlType
      BY <1>6, GoMoves, PlacesFacts DEF ConnectThrows, Return
    <2>2. failures' \in 0..MaxFailures
      BY <1>6, <1>0 DEF ConnectThrows
    <2>3. ServiceType
      BY <1>6, StatusType, <1>0 DEF ConnectThrows, service
    <2> QED BY <1>6, <2>1, <2>2, <2>3, <1>0, FrameType DEF ConnectThrows, queues
  <1>7. ASSUME NEW t \in Threads, DisconnectSignal(t) \/ DisconnectEnd(t) PROVE TypeInv'
    <2>1. ControlType
      BY <1>7, GoMoves, PlacesFacts DEF DisconnectSignal, DisconnectEnd
    <2>2. ServiceType
      BY <1>7, StatusType, <1>0 DEF DisconnectSignal, DisconnectEnd
    <2> QED BY <1>7, <2>1, <2>2, <1>0, FrameType DEF DisconnectSignal, DisconnectEnd, queues, counters
  <1>8. ASSUME NEW t \in Threads, DisconnectStop(t) PROVE TypeInv'
    <2>1. ControlType
      BY <1>8, TerminateMoves, PlacesFacts, <1>0 DEF DisconnectStop
    <2>2. ServiceType
      BY <1>8, <1>0 DEF DisconnectStop, ServiceType
    <2> QED BY <1>8, <2>1, <2>2, <1>0, FrameType DEF DisconnectStop, queues, counters
  <1>9. ASSUME NEW t \in Threads, DisconnectStopSelf(t) PROVE TypeInv'
    <2>1. ControlType
      BY <1>9, GoMoves, PlacesFacts DEF DisconnectStopSelf, Return
    <2>2. ServiceType
      BY <1>9, StatusType, <1>0 DEF DisconnectStopSelf, service
    <2>3. intents' \in Seq(Commands \cup {"DESTROY"})
      BY <1>9, <1>0, DestroyType DEF DisconnectStopSelf, StopSelf
    <2> QED BY <1>9, <2>1, <2>2, <2>3, <1>0, FrameType DEF DisconnectStopSelf, counters
  <1>10. ASSUME NEW t \in Threads, RetryStep(t) PROVE TypeInv'
    <2>1. ControlType
      BY <1>10, GoMoves, TerminateMoves, PlacesFacts, <1>0 DEF RetryStep, RetrySignal, RetryEnd, Return
    <2>2. ServiceType
      <3>1. retryCount \in Nat /\ retryWaitTime \in Nat /\ mStopService \in BOOLEAN
            /\ retryPosted \in BOOLEAN
        BY DEF TypeInv, TypeOK
      <3>2. CASE RetrySignal(t)
        <4>1. retryCount' \in Nat /\ retryWaitTime' \in Nat
          BY <3>1, <3>2 DEF RetrySignal
        <4> QED BY <3>1, <3>2, <4>1, <1>0 DEF RetrySignal, ServiceType
      <3>3. CASE RetryEnd(t)
        BY <3>1, <3>3, <1>0 DEF RetryEnd, ServiceType
      <3> QED BY <1>10, <3>2, <3>3 DEF RetryStep
    <2> QED BY <1>10, <2>1, <2>2, <1>0, FrameType DEF RetryStep, RetrySignal, RetryEnd, queues, counters
  <1>11. CASE onStartCommand
    <2>1. Head(intents) \in Commands /\ intents' \in Seq(Commands \cup {"DESTROY"})
      BY <1>11, <1>0 DEF onStartCommand
    <2>2. messages' \in Seq(Commands)
      BY <2>1, <1>11, <1>0 DEF onStartCommand
    <2> QED BY <1>11, <2>1, <2>2
            DEF onStartCommand, service, control, objects, network, counters, TypeInv, TypeOK,
                ConnectUsesLoaded
  <1>12. CASE onDestroy
    <2>1. ControlType
      BY <1>12, TerminateMoves, PlacesFacts, <1>0 DEF onDestroy
    <2>2. intents' \in Seq(Commands \cup {"DESTROY"}) /\ destroyed' \in BOOLEAN
      BY <1>12, <1>0 DEF onDestroy
    <2> QED BY <1>12, <2>1, <2>2
            DEF onDestroy, ControlType, service, objects, network, counters, TypeInv, TypeOK,
                ConnectUsesLoaded
  <1>13. CASE RetryRunnableRun
    <2>1. "CONNECT_AGAIN" \in Commands \cup {"DESTROY"}
      BY DEF Commands
    <2>2. intents' \in Seq(Commands \cup {"DESTROY"})
      BY <1>13, <2>1, <1>0 DEF RetryRunnableRun
    <2> QED BY <1>13, <2>2
            DEF RetryRunnableRun, control, objects, network, counters, TypeInv, TypeOK,
                ConnectUsesLoaded
  <1>14. CASE networkStateChange
    <2>1. ControlType
      BY <1>14, GoMoves, PlacesFacts DEF networkStateChange
    <2>2. /\ lastConnectedNetwork' \in Networks \cup {NoNetwork} /\ broadcasts' \in Nat
          /\ UNCHANGED <<net, flapped, stale, destroyed, hasConfigId>>
      BY <1>14 DEF networkStateChange, TypeInv, TypeOK
    <2> QED BY <1>14, <2>1, <2>2
            DEF networkStateChange, ControlType, service, queues, objects, counters, TypeInv, TypeOK,
                ConnectUsesLoaded
  <1>15. CASE NetworkStep
    <2>1. ControlType
      BY <1>15, DecideMoves, GoMoves, TerminateMoves, PlacesFacts, <1>0
      DEF NetworkStep, onNetworkDisconnected, NetworkErrorSignal, onNetworkConnected, HandlerEnd, Return
    <2>2. ServiceType
      <3>1. CASE NetworkErrorSignal
        BY <3>1, <1>0 DEF NetworkErrorSignal, ServiceType, TypeInv, TypeOK
      <3>2. CASE UNCHANGED service
        BY <3>2, <1>0, StatusType DEF service
      <3> QED BY <1>15, <3>1, <3>2 DEF NetworkStep, onNetworkDisconnected, onNetworkConnected, HandlerEnd
    <2> QED BY <1>15, <2>1, <2>2, <1>0, FrameType
            DEF NetworkStep, onNetworkDisconnected, NetworkErrorSignal, onNetworkConnected,
                HandlerEnd, queues, counters
  <1>16. ASSUME NEW command \in Commands, Send(command) PROVE TypeInv'
    <2>1. intents' \in Seq(Commands \cup {"DESTROY"}) /\ taps' \in 0..MaxTaps
      BY <1>16, <1>0 DEF Send
    <2> QED BY <1>16, <2>1
            DEF Send, service, control, objects, network, TypeInv, TypeOK, ConnectUsesLoaded
  <1>17. CASE onRevoke
    <2>1. ControlType
      BY <1>17, GoMoves, PlacesFacts DEF onRevoke
    <2>2. ServiceType
      BY <1>17, StatusType, <1>0 DEF onRevoke, service
    <2>3. intents' \in Seq(Commands \cup {"DESTROY"}) /\ revokes' \in 0..MaxRevokes
      BY <1>17, <1>0, DestroyType DEF onRevoke, StopSelf
    <2> QED BY <1>17, <2>1, <2>2, <2>3, <1>0, FrameType DEF onRevoke
  <1>18. ASSUME NEW c \in 1..loaded, onDisconnected(c) PROVE TypeInv'
    <2>1. "RECONNECT" \in Commands \cup {"DESTROY"}
      BY DEF Commands
    <2>2. intents' \in Seq(Commands \cup {"DESTROY"}) /\ losses' \in 0..MaxLosses
      BY <1>18, <2>1, <1>0 DEF onDisconnected
    <2>3. lost' \subseteq 1..loaded
      BY <1>18 DEF onDisconnected, TypeInv, TypeOK
    <2>4. UNCHANGED <<service, control, network, hasConfigId, messages, mCurrentConfig, loaded, up,
                      destroyed, taps, changes, failures, revokes>>
      BY <1>18 DEF onDisconnected
    <2> QED BY <2>2, <2>3, <2>4 DEF service, control, network, TypeInv, TypeOK, ConnectUsesLoaded
  <1>19. ASSUME NEW n \in Networks \cup {NoNetwork}, NetworkChange(n) PROVE TypeInv'
    <2>1. changes' \in 0..MaxChanges /\ broadcasts' \in Nat
      BY <1>19, <1>0 DEF NetworkChange, TypeInv, TypeOK
    <2>2. flapped' \in BOOLEAN /\ stale' \in BOOLEAN /\ net' \in Networks \cup {NoNetwork}
      BY <1>19 DEF NetworkChange
    <2> QED BY <1>19, <2>1, <2>2
            DEF NetworkChange, service, queues, control, objects, TypeInv, TypeOK, ConnectUsesLoaded
  <1>20. CASE UNCHANGED vars
    <2>1. ControlType /\ ServiceType
      BY <1>20, StatusType, <1>0 DEF vars, control, service, ControlType, TypeInv, TypeOK
    <2> QED BY <1>20, <2>1, <1>0, FrameType DEF vars, queues, counters
  <1>21. {"CONNECT", "DISCONNECT_BY_USER", "RECONNECT", "DISCONNECT"} \subseteq Commands
    BY DEF Commands
  <1> QED BY <1>1, <1>2, <1>3, <1>4, <1>5, <1>6, <1>7, <1>8, <1>9, <1>10, <1>11, <1>12, <1>13,
             <1>14, <1>15, <1>16, <1>17, <1>18, <1>19, <1>20, <1>21
          DEF Next, ConnectStep, DisconnectStep, TapButton, TapNotification, SystemStart

\* In every reachable state of the service, for every set of networks and all
\* bounds, the fields and queues have the values the code can give them.
THEOREM TypeCorrect == Spec => []TypeOK
  <1>1. TypeInv => TypeOK
    BY DEF TypeInv
  <1> QED BY <1>1, InitTypeInv, NextTypeInv, PTL DEF Spec

-------------------------------------------------------------------------------
(* A stopped service does not dial.  mStopService and mStatus alone would  *)
(* not do as an invariant: a thread that is Committed writes the status    *)
(* later, so the places of the threads have to be part of it.              *)

Underway == {"CONNECTING", "RETRYING"}

StopInv ==
    ~overtaken =>
        /\ \A t, u \in Threads : t # u /\ at[t].place \in Stopping => at[u].place \notin Committed
        /\ mStopService => \A t \in Threads : at[t].place \notin Committed
        /\ mStopService \/ (\E t \in Threads : at[t].place = "stop") => mStatus \notin Underway

\* A step of thread t that does not set mStopService keeps StopInv, when it
\* commits itself only if the service is not stopped and announces a connection
\* or a retry only if it was committed.
LEMMA StopMoves ==
  ASSUME TypeInv, StopInv, NEW t \in Threads, NEW p, Moves(t, p),
         mStopService' => mStopService,
         ~overtaken /\ p \in Committed => ~mStopService',
         mStatus' = mStatus \/ mStatus' \notin Underway \/ at[t].place \in Committed,
         p = "stop" => mStatus' \notin Underway
  PROVE  StopInv'
  <1> SUFFICES ASSUME ~overtaken'
               PROVE  /\ \A v, u \in Threads : v # u /\ at'[v].place \in Stopping => at'[u].place \notin Committed
                      /\ mStopService' => \A v \in Threads : at'[v].place \notin Committed
                      /\ mStopService' \/ (\E v \in Threads : at'[v].place = "stop") => mStatus' \notin Underway
    BY DEF StopInv
  <1>1. ~overtaken /\ at'[t].place = p /\ \A u \in Threads \ {t} : at'[u] = at[u]
    BY DEF Moves
  <1>2. \A v, u \in Threads : v # u /\ at'[v].place \in Stopping => at'[u].place \notin Committed
    BY <1>1 DEF Moves, Other, StopInv
  <1>3. mStopService' => \A v \in Threads : at'[v].place \notin Committed
    BY <1>1 DEF StopInv
  <1>4. ASSUME mStopService' \/ (\E v \in Threads : at'[v].place = "stop") PROVE mStatus' \notin Underway
    <2>1. CASE p = "stop" \/ mStatus' \notin Underway
      BY <2>1
    <2>2. CASE p # "stop" /\ mStatus' = mStatus
      BY <2>2, <1>1, <1>4 DEF StopInv
    <2>3. CASE p # "stop" /\ at[t].place \in Committed
      BY <2>3, <1>1, <1>4, PlacesFacts DEF StopInv
    <2> QED BY <2>1, <2>2, <2>3
  <1> QED BY <1>2, <1>3, <1>4

\* A step that leaves the places and the status alone keeps StopInv.
LEMMA StopKept ==
  ASSUME StopInv, UNCHANGED <<control, mStatus, mStopService>>
  PROVE  StopInv'
  BY DEF StopInv, control

\* The decision of retry(), disconnect() or of a handler that returns keeps it.
LEMMA StopDecides ==
  ASSUME TypeInv, StopInv, NEW t \in Threads, NEW b,
         retry(t) \/ disconnect(t, b) \/ Return(t) \/ Go(t, "stopping"),
         UNCHANGED <<mStatus, mStopService>>
  PROVE  StopInv'
  <1>0. "stopping" \notin Committed /\ "idle" \notin Committed
    BY PlacesFacts
  <1>1. CASE Go(t, "stopping") \/ Return(t)
    <2>1. PICK p \in {"stopping", "idle"} : Moves(t, p)
      BY <1>1, GoMoves, PlacesFacts DEF Return
    <2> QED BY <2>1, <1>0, StopMoves
  <1>2. CASE ~RetryIgnored /\ Go(t, "retrying")
    <2>1. Moves(t, "retrying") /\ ~mStopService
      BY <1>2, GoMoves, PlacesFacts DEF RetryIgnored
    <2> QED BY <2>1, StopMoves
  <1> QED BY <1>1, <1>2 DEF retry, disconnect

\* Every step keeps StopInv: the announcements come from committed threads, and
\* disconnect() sets mStopService when none is left.
LEMMA NextStopInv == TypeInv /\ StopInv /\ [Next]_vars => StopInv'
  <1> SUFFICES ASSUME TypeInv, StopInv, [Next]_vars PROVE StopInv'
    OBVIOUS
  <1>0. /\ {"idle", "online", "offline", "connected", "failed", "gone", "back", "other", "losing",
            "stopself", "stopping", "stop", "retry", "network", "destroy", "disconnect"} \cap Committed = {}
        /\ mCurrentConfig \in 0..loaded
    BY PlacesFacts DEF TypeInv, TypeOK
  <1>1. CASE handleMessage
    <2>1. CASE HandleConnect
      <3>1. PICK p \in {"idle", "online", "offline"} : Moves("svc", p)
        BY <2>1, GoMoves, PlacesFacts DEF HandleConnect, Return
      <3> QED BY <2>1, <3>1, <1>0, PlacesFacts, StopMoves DEF HandleConnect
    <2>2. CASE HandleDisconnect \/ HandleReconnect
      BY <2>2, PlacesFacts, StopDecides DEF HandleDisconnect, HandleReconnect, service
    <2> QED BY <1>1, <2>1, <2>2 DEF handleMessage
  <1>2. CASE ConnectOffline \/ ConnectedSignal
    <2>1. Moves("svc", "idle") /\ mStatus' \notin Underway /\ UNCHANGED mStopService
      BY <1>2, GoMoves, PlacesFacts DEF ConnectOffline, ConnectedSignal, Return, Underway
    <2> QED BY <2>1, <1>0, PlacesFacts, StopMoves
  <1>3. CASE ConnectChecks
    <2>1. CASE Return("svc")
      BY <1>3, <2>1, PlacesFacts, StopDecides DEF ConnectChecks, service
    <2>2. CASE ~mStopService /\ Go("svc", "connecting")
      <3>1. Moves("svc", "connecting") /\ UNCHANGED <<mStatus, mStopService>>
        BY <1>3, <2>2, GoMoves, PlacesFacts DEF ConnectChecks, service
      <3> QED BY <2>2, <3>1, PlacesFacts, StopMoves
    <2> QED BY <1>3, <2>1, <2>2 DEF ConnectChecks
  <1>4. CASE ConnectSignal
    <2>1. Moves("svc", "load") /\ at["svc"].place \in Committed /\ UNCHANGED mStopService
      BY <1>4, GoMoves, PlacesFacts DEF ConnectSignal
    <2>2. ~overtaken => ~mStopService
      BY <2>1, PlacesFacts DEF StopInv
    <2> QED BY <2>1, <2>2, PlacesFacts, StopMoves
  <1>5. CASE LoadConfig
    <2>1. Moves("svc", "connect") /\ UNCHANGED <<mStatus, mStopService>> /\ "connect" \notin Committed
      BY <1>5, PlacesFacts DEF LoadConfig, Moves, service, TypeInv, TypeOK
    <2> QED BY <2>1, PlacesFacts, StopMoves
  <1>6. CASE LoadFails
    BY <1>6, PlacesFacts, StopDecides DEF LoadFails, service
  <1>7. CASE ConnectReturns
    <2>1. Moves("svc", "connected") /\ UNCHANGED <<mStatus, mStopService>>
      BY <1>7, GoMoves, PlacesFacts DEF ConnectReturns
    <2> QED BY <2>1, <1>0, PlacesFacts, StopMoves
  <1>8. CASE ConnectThrows
    <2>1. PICK p \in {"idle", "failed"} : Moves("svc", p)
      BY <1>8, GoMoves, PlacesFacts DEF ConnectThrows, Return
    <2> QED BY <1>8, <2>1, <1>0, PlacesFacts, StopMoves DEF ConnectThrows, service
  <1>9. CASE ConnectFailed
    BY <1>9, PlacesFacts, StopDecides DEF ConnectFailed, service
  <1>10. ASSUME NEW t \in Threads, DisconnectStep(t) PROVE StopInv'
    <2>1. CASE DisconnectSignal(t)
      <3>1. Moves(t, "stop") /\ mStatus' \notin Underway /\ UNCHANGED mStopService
        BY <2>1, GoMoves, PlacesFacts DEF DisconnectSignal, Underway
      <3> QED BY <3>1, <1>0, StopMoves
    <2>2. CASE DisconnectStop(t)
      <3>1. Moves(t, "disconnect") /\ at[t].place = "stop" /\ UNCHANGED mStatus
        BY <2>2, TerminateMoves, PlacesFacts, <1>0 DEF DisconnectStop
      <3>2. SUFFICES ASSUME ~overtaken'
                     PROVE  /\ \A u \in Threads : at'[u].place \notin Committed
                            /\ mStatus' \notin Underway
        BY DEF StopInv
      <3>3. ~overtaken /\ at'[t].place = "disconnect" /\ \A u \in Threads \ {t} : at'[u] = at[u]
        BY <3>1, <3>2 DEF Moves
      <3> QED BY <3>1, <3>3, <1>0, PlacesFacts DEF StopInv
    <2>3. CASE DisconnectEnd(t)
      <3>1. Moves(t, "stopself") /\ mStatus' \notin Underway /\ UNCHANGED mStopService
        BY <2>3, GoMoves, PlacesFacts DEF DisconnectEnd, Underway
      <3> QED BY <3>1, <1>0, StopMoves
    <2>4. CASE DisconnectStopSelf(t)
      BY <2>4, StopDecides DEF DisconnectStopSelf, service
    <2> QED BY <1>10, <2>1, <2>2, <2>3, <2>4 DEF DisconnectStep
  <1>11. ASSUME NEW t \in Threads, RetryStep(t) PROVE StopInv'
    <2>1. CASE RetrySignal(t)
      <3>1. Moves(t, "retry") /\ at[t].place \in Committed /\ UNCHANGED mStopService
        BY <2>1, TerminateMoves, PlacesFacts, <1>0 DEF RetrySignal
      <3> QED BY <3>1, <1>0, StopMoves
    <2>2. CASE RetryEnd(t)
      BY <2>2, StopDecides DEF RetryEnd
    <2> QED BY <1>11, <2>1, <2>2 DEF RetryStep
  <1>12. CASE onDestroy
    <2>1. Moves("ui", "destroy") /\ UNCHANGED <<mStatus, mStopService>>
      BY <1>12, TerminateMoves, PlacesFacts, <1>0 DEF onDestroy, service
    <2> QED BY <2>1, <1>0, PlacesFacts, StopMoves
  <1>13. CASE networkStateChange
    <2>1. PICK p \in {"gone", "back", "other"} : Moves("ui", p)
      BY <1>13, GoMoves, PlacesFacts DEF networkStateChange
    <2> QED BY <1>13, <2>1, <1>0, PlacesFacts, StopMoves DEF networkStateChange, service
  <1>14. CASE NetworkStep
    <2>1. CASE onNetworkDisconnected
      <3>1. PICK p \in {"idle", "losing"} : Moves("ui", p)
        BY <2>1, GoMoves, PlacesFacts DEF onNetworkDisconnected, Return
      <3> QED BY <2>1, <3>1, <1>0, PlacesFacts, StopMoves DEF onNetworkDisconnected, service
    <2>2. CASE NetworkErrorSignal
      <3>1. Moves("ui", "network") /\ mStatus' \notin Underway /\ UNCHANGED mStopService
        BY <2>2, TerminateMoves, PlacesFacts, <1>0 DEF NetworkErrorSignal, Underway
      <3> QED BY <3>1, <1>0, PlacesFacts, StopMoves
    <2>3. CASE onNetworkConnected \/ HandlerEnd
      BY <2>3, PlacesFacts, StopDecides DEF onNetworkConnected, HandlerEnd, service
    <2> QED BY <1>14, <2>1, <2>2, <2>3 DEF NetworkStep
  <1>15. CASE onRevoke
    BY <1>15, PlacesFacts, StopDecides DEF onRevoke, service
  <1>16. CASE \/ onStartCommand \/ RetryRunnableRun \/ TapButton \/ TapNotification \/ SystemStart
              \/ (\E c \in 1..loaded : onDisconnected(c))
              \/ (\E n \in Networks \cup {NoNetwork} : NetworkChange(n)) \/ UNCHANGED vars
    <2>1. UNCHANGED <<control, mStatus, mStopService>>
      BY <1>16 DEF onStartCommand, RetryRunnableRun, TapButton, TapNotification, SystemStart, Send,
                   onDisconnected, NetworkChange, vars, service
    <2> QED BY <2>1, StopKept
  <1> QED BY <1>1, <1>2, <1>3, <1>4, <1>5, <1>6, <1>7, <1>8, <1>9, <1>10, <1>11, <1>12, <1>13,
             <1>14, <1>15, <1>16
          DEF Next, ConnectStep

\* Init satisfies StopInv.
LEMMA InitStopInv == Init => StopInv
  <1>1. Idle.place \notin Committed /\ Idle.place \notin Stopping /\ Idle.place # "stop"
    BY DEF Idle, Committed, Stopping
  <1> QED BY <1>1 DEF Init, StopInv, Underway

\* A service that was stopped shows neither CONNECTING nor RETRYING until the
\* user connects again, unless a disconnect() has overlapped a decision.
THEOREM NeverDialsWhenStopped == Spec => []StoppedNeverDials
  <1>1. StopInv => StoppedNeverDials
    BY DEF StopInv, StoppedNeverDials, Underway
  <1> QED BY <1>1, InitTypeInv, NextTypeInv, InitStopInv, NextStopInv, PTL DEF Spec

-------------------------------------------------------------------------------
(* Who writes the status and the counters of retry().                      *)

Retries  == /\ retryWaitTime' = IF retryCount % 3 = 0 THEN retryWaitTime + 2 ELSE retryWaitTime
            /\ retryCount' = retryCount + 1
Resets   == retryCount' = 0 /\ retryWaitTime' = 0
Counters == Retries \/ Resets \/ UNCHANGED <<retryCount, retryWaitTime>>

\* The status is written by a thread that has come to the place before it.
Writes == \/ mStatus' \in {mStatus, "DISCONNECTING", "DISCONNECTED"}
          \/ at["svc"].place = "connected" /\ mStatus' = "CONNECTED"
          \/ at["svc"].place = "offline" /\ mStatus' = "NETWORK_ERROR"
          \/ at["ui"].place = "losing" /\ mStatus' = "NETWORK_ERROR"
          \/ \E t \in Threads : at[t].place \in Committed

\* Every step has one of these effects.
LEMMA StepEffect == ASSUME [Next]_vars PROVE Counters /\ Writes
  <1> USE PlacesFacts DEF Counters, Retries, Resets, Writes, service
  <1>1. CASE handleMessage
    BY <1>1 DEF handleMessage, HandleConnect, HandleDisconnect, HandleReconnect
  <1>2. CASE ConnectStep
    BY <1>2 DEF ConnectStep, ConnectOffline, ConnectChecks, ConnectSignal, LoadConfig, LoadFails,
                ConnectThrows, ConnectFailed
  <1>3. CASE ConnectReturns \/ ConnectedSignal
    BY <1>3 DEF ConnectReturns, ConnectedSignal
  <1>4. ASSUME NEW t \in Threads, DisconnectStep(t) PROVE Counters /\ Writes
    BY <1>4 DEF DisconnectStep, DisconnectSignal, DisconnectStop, DisconnectEnd, DisconnectStopSelf
  <1>5. ASSUME NEW t \in Threads, RetryStep(t) PROVE Counters /\ Writes
    BY <1>5 DEF RetryStep, RetrySignal, RetryEnd
  <1>6. CASE onStartCommand \/ onDestroy \/ RetryRunnableRun
    BY <1>6 DEF onStartCommand, onDestroy, RetryRunnableRun
  <1>7. CASE networkStateChange \/ NetworkStep
    BY <1>7 DEF networkStateChange, NetworkStep, onNetworkDisconnected, NetworkErrorSignal,
                onNetworkConnected, HandlerEnd
  <1>8. CASE TapButton \/ TapNotification \/ SystemStart \/ onRevoke
    BY <1>8 DEF TapButton, TapNotification, SystemStart, Send, onRevoke
  <1>9. CASE \/ \E c \in 1..loaded : onDisconnected(c)
             \/ \E n \in Networks \cup {NoNetwork} : NetworkChange(n)
             \/ UNCHANGED vars
    BY <1>9 DEF onDisconnected, NetworkChange, vars
  <1> QED BY <1>1, <1>2, <1>3, <1>4, <1>5, <1>6, <1>7, <1>8, <1>9 DEF Next

\* Two more seconds every third attempt, for any number of attempts.
LEMMA BackoffArithmetic ==
  ASSUME NEW n \in Nat
  PROVE  2 * ((n + 1 + 2) \div 3)
           = IF n % 3 = 0 THEN 2 * ((n + 2) \div 3) + 2 ELSE 2 * ((n + 2) \div 3)
  OBVIOUS

\* The wait of retry() is a function of the number of attempts since the last
\* reset, for every number of attempts.
THEOREM Backoff == Spec => []BackoffShape
  <1>1. Init => BackoffShape
    BY DEF Init, BackoffShape
  <1>2. TypeInv /\ BackoffShape /\ [Next]_vars => BackoffShape'
    <2> SUFFICES ASSUME TypeInv, BackoffShape, [Next]_vars PROVE BackoffShape'
      OBVIOUS
    <2>1. retryCount \in Nat
      BY DEF TypeInv, TypeOK
    <2>2. CASE Retries
      BY <2>1, <2>2, BackoffArithmetic DEF Retries, BackoffShape
    <2>3. CASE Resets
      BY <2>3 DEF Resets, BackoffShape
    <2>4. CASE UNCHANGED <<retryCount, retryWaitTime>>
      BY <2>4 DEF BackoffShape
    <2> QED BY <2>2, <2>3, <2>4, StepEffect DEF Counters
  <1> QED BY <1>1, <1>2, InitTypeInv, NextTypeInv, PTL DEF Spec

\* After a stop that overlapped no decision, the status is written only by
\* handlers that were past their last look at mStopService.
THEOREM StopsAreFinal == Spec => StopIsFinal
  <1>1. StopInv /\ [Next]_vars =>
          [mStopService /\ mStopService' /\ ~overtaken
             => \/ mStatus' \in {mStatus, "DISCONNECTING", "DISCONNECTED"}
                \/ at["svc"].place = "connected" /\ mStatus' = "CONNECTED"
                \/ at["svc"].place = "offline" /\ mStatus' = "NETWORK_ERROR"
                \/ at["ui"].place = "losing" /\ mStatus' = "NETWORK_ERROR"]_vars
    BY StepEffect DEF StopInv, Writes
  <1> QED BY <1>1, InitTypeInv, NextTypeInv, InitStopInv, NextStopInv, PTL DEF Spec, StopIsFinal

-------------------------------------------------------------------------------
(* A retry is never lost.                                                  *)

\* Some element of the queue q is in S.
Has(q, S) == \E i \in DOMAIN q : q[i] \in S

\* A queue keeps its commands when one is appended ...
LEMMA HasAppend ==
  ASSUME NEW T, NEW q \in Seq(T), NEW e \in T, NEW S
  PROVE  Has(Append(q, e), S) <=> Has(q, S) \/ e \in S
  <1>1. Has(q, S) => Has(Append(q, e), S)
    BY DEF Has
  <1>2. e \in S => Has(Append(q, e), S)
    <2>1. Len(q) + 1 \in DOMAIN Append(q, e) /\ Append(q, e)[Len(q) + 1] = e
      OBVIOUS
    <2>2. QED
      BY <2>1 DEF Has
  <1>3. Has(Append(q, e), S) => Has(q, S) \/ e \in S
    BY DEF Has
  <1>4. QED
    BY <1>1, <1>2, <1>3

\* ... and all but the first when that one is taken.
LEMMA HasTail ==
  ASSUME NEW T, NEW q \in Seq(T), q # <<>>, NEW S, Has(q, S), Head(q) \notin S
  PROVE  Has(Tail(q), S)
  <1>1. PICK i \in DOMAIN q : q[i] \in S
    BY DEF Has
  <1>2. i # 1 /\ i \in 1..Len(q)
    BY <1>1
  <1>3. i - 1 \in DOMAIN Tail(q) /\ Tail(q)[i - 1] = q[i]
    BY <1>2
  <1>4. QED
    BY <1>1, <1>3 DEF Has

\* A command is in flight when one of the two queues has it.
LEMMA InFlightHas ==
  ASSUME NEW S PROVE InFlight(S) <=> Has(intents, S) \/ Has(messages, S)
  BY DEF InFlight, Has

Dialing == {"CONNECT", "CONNECT_AGAIN"}

\* What keeps a retry going.
Wakeup == \/ \E t \in Threads : at[t].place = "retry"
          \/ retryPosted
          \/ Has(intents, Dialing) \/ Has(messages, Dialing)
          \/ at["svc"].place \in {"online", "offline", "connecting"}

RetryInv == mStatus = "RETRYING" /\ ~overtaken => Wakeup

\* A thread that is not what keeps the retry going moves on.
LEMMA WakeupMoves ==
  ASSUME Wakeup, NEW t \in Threads, NEW p, Moves(t, p),
         at[t].place \notin {"retry", "online", "offline", "connecting"},
         retryPosted => retryPosted',
         Has(intents, Dialing) => Has(intents', Dialing),
         Has(messages, Dialing) => Has(messages', Dialing)
  PROVE  Wakeup'
  <1>1. \A u \in Threads : u # t => at'[u] = at[u]
    BY DEF Moves
  <1>2. (\E u \in Threads : at[u].place = "retry") => (\E u \in Threads : at'[u].place = "retry")
    BY <1>1
  <1>3. at["svc"].place \in {"online", "offline", "connecting"}
          => at'["svc"].place \in {"online", "offline", "connecting"}
    BY <1>1, PlacesFacts
  <1> QED BY <1>2, <1>3 DEF Wakeup

\* Every step keeps the promise of RETRYING: whoever announces a retry sees it through.
LEMMA NextRetryInv == TypeInv /\ StopInv /\ RetryInv /\ [Next]_vars => RetryInv'
  <1> SUFFICES ASSUME TypeInv, StopInv, RetryInv, [Next]_vars, mStatus' = "RETRYING", ~overtaken'
               PROVE  Wakeup'
    BY DEF RetryInv
  <1>0. /\ intents \in Seq(Commands \cup {"DESTROY"}) /\ messages \in Seq(Commands)
        /\ mCurrentConfig \in 0..loaded
    BY DEF TypeInv, TypeOK
  \* A step that leaves the status and what keeps the retry going alone.
  <1>a. ASSUME NEW t \in Threads, NEW p, Moves(t, p), UNCHANGED <<mStatus, queues>>,
               retryPosted => retryPosted',
               at[t].place \notin {"retry", "online", "offline", "connecting"}
        PROVE  Wakeup'
    <2>1. Wakeup
      BY <1>a DEF Moves, RetryInv
    <2> QED BY <2>1, <1>a, WakeupMoves DEF queues
  <1>b. ASSUME NEW t \in Threads, NEW b, UNCHANGED <<service, queues>>,
               retry(t) \/ disconnect(t, b) \/ Return(t) \/ Go(t, "stopping"),
               at[t].place \notin {"retry", "online", "offline", "connecting"}
        PROVE  Wakeup'
    <2>1. PICK p : Moves(t, p)
      BY <1>b, GoMoves, PlacesFacts DEF retry, disconnect, Return
    <2> QED BY <2>1, <1>a, <1>b DEF service
  <1>1. CASE handleMessage
    <2>0. at["svc"].place = "idle" /\ messages # <<>> /\ messages' = Tail(messages) /\ UNCHANGED intents
      BY <1>1 DEF handleMessage, IsIdle
    <2>1. CASE HandleConnect
      <3>1. PICK p \in {"online", "offline"} : Moves("svc", p)
        BY <2>1, GoMoves, PlacesFacts DEF HandleConnect
      <3> QED BY <3>1 DEF Moves, Wakeup
    <2>2. CASE HandleDisconnect \/ HandleReconnect
      <3>1. Has(messages, Dialing) => Has(messages', Dialing)
        BY <2>2, <2>0, <1>0, HasTail DEF HandleDisconnect, HandleReconnect, Dialing
      <3>2. PICK p : Moves("svc", p)
        BY <2>2, GoMoves, PlacesFacts DEF HandleDisconnect, HandleReconnect, retry, disconnect, Return
      <3>3. UNCHANGED service /\ Wakeup
        BY <2>2, <3>2 DEF HandleDisconnect, HandleReconnect, service, Moves, RetryInv
      <3> QED BY <2>0, <3>1, <3>2, <3>3, PlacesFacts, WakeupMoves DEF service
    <2> QED BY <1>1, <2>1, <2>2 DEF handleMessage
  <1>2. CASE ConnectOffline \/ ConnectSignal \/ ConnectedSignal
    BY <1>2 DEF ConnectOffline, ConnectSignal, ConnectedSignal
  <1>3. CASE ConnectChecks
    <2>1. PICK p \in {"idle", "connecting"} : Moves("svc", p) /\ (p = "idle" => mStopService \/ mStatus = "CONNECTED")
      BY <1>3, GoMoves, PlacesFacts DEF ConnectChecks, Return
    <2>2. ~mStopService /\ mStatus = "RETRYING"
      BY <1>3, <2>1 DEF ConnectChecks, service, Moves, StopInv, Underway
    <2> QED BY <2>1, <2>2 DEF Moves, Wakeup
  <1>4. CASE LoadConfig
    <2>1. Moves("svc", "connect")
      BY <1>4, PlacesFacts DEF LoadConfig, Moves, TypeInv, TypeOK
    <2> QED BY <1>4, <2>1, <1>a, PlacesFacts DEF LoadConfig, service
  <1>5. CASE LoadFails \/ ConnectFailed
    BY <1>5, <1>b, PlacesFacts DEF LoadFails, ConnectFailed
  <1>6. CASE ConnectReturns
    <2>1. Moves("svc", "connected")
      BY <1>6, GoMoves, PlacesFacts DEF ConnectReturns
    <2> QED BY <1>6, <2>1, <1>a, PlacesFacts DEF ConnectReturns
  <1>7. CASE ConnectThrows
    <2>1. PICK p \in {"idle", "failed"} : Moves("svc", p)
      BY <1>7, GoMoves, PlacesFacts DEF ConnectThrows, Return
    <2> QED BY <1>7, <2>1, <1>a, PlacesFacts DEF ConnectThrows, service
  <1>8. ASSUME NEW t \in Threads, DisconnectStep(t) PROVE Wakeup'
    <2>1. CASE DisconnectStop(t)
      <3>1. ~overtaken /\ mStatus = "RETRYING"
        BY <2>1 DEF DisconnectStop, terminate
      <3> QED BY <2>1, <3>1 DEF DisconnectStop, StopInv, Underway
    <2>2. CASE DisconnectStopSelf(t)
      <3>1. Moves(t, "idle") /\ UNCHANGED <<service, messages>> /\ at[t].place = "stopself"
        BY <2>2, GoMoves, PlacesFacts DEF DisconnectStopSelf, Return
      <3>2. "DESTROY" \in Commands \cup {"DESTROY"}
        OBVIOUS
      <3>3. Has(intents, Dialing) => Has(intents', Dialing)
        BY <2>2, <3>2, <1>0, HasAppend DEF DisconnectStopSelf, StopSelf
      <3>4. Wakeup
        BY <3>1 DEF service, Moves, RetryInv
      <3> QED BY <3>1, <3>3, <3>4, WakeupMoves DEF service
    <2> QED BY <1>8, <2>1, <2>2 DEF DisconnectStep, DisconnectSignal, DisconnectEnd
  <1>9. ASSUME NEW t \in Threads, RetryStep(t) PROVE Wakeup'
    <2>1. CASE RetrySignal(t)
      <3>1. Moves(t, "retry")
        BY <2>1, TerminateMoves, PlacesFacts, <1>0 DEF RetrySignal
      <3> QED BY <3>1 DEF Moves, Wakeup
    <2>2. CASE RetryEnd(t)
      BY <2>2 DEF RetryEnd, Wakeup
    <2> QED BY <1>9, <2>1, <2>2 DEF RetryStep
  <1>10. CASE onStartCommand
    <2>0. /\ intents # <<>> /\ Head(intents) \in Commands /\ intents' = Tail(intents)
          /\ messages' = Append(messages, Head(intents)) /\ UNCHANGED <<service, control>>
      BY <1>10, <1>0 DEF onStartCommand
    <2>1. Has(messages', Dialing) <=> Has(messages, Dialing) \/ Head(intents) \in Dialing
      BY <2>0, <1>0, HasAppend
    <2>2. Has(intents, Dialing) => Has(intents', Dialing) \/ Head(intents) \in Dialing
      BY <2>0, <1>0, HasTail
    <2> QED BY <2>0, <2>1, <2>2 DEF service, control, RetryInv, Wakeup
  <1>11. CASE onDestroy
    <2>0. /\ intents # <<>> /\ Head(intents) = "DESTROY" /\ intents' = Tail(intents)
          /\ at["ui"].place = "idle" /\ UNCHANGED <<service, messages>>
      BY <1>11 DEF onDestroy, IsIdle
    <2>1. Has(intents, Dialing) => Has(intents', Dialing)
      BY <2>0, <1>0, HasTail DEF Dialing
    <2>2. Moves("ui", "destroy")
      BY <1>11, TerminateMoves, PlacesFacts, <1>0 DEF onDestroy
    <2>3. Wakeup
      BY <2>0, <2>2 DEF service, Moves, RetryInv
    <2> QED BY <2>0, <2>1, <2>2, <2>3, PlacesFacts, WakeupMoves DEF service
  <1>12. CASE RetryRunnableRun
    <2>1. intents' = Append(intents, "CONNECT_AGAIN")
      BY <1>12 DEF RetryRunnableRun
    <2>2. "CONNECT_AGAIN" \in Commands \cup {"DESTROY"} /\ "CONNECT_AGAIN" \in Dialing
      BY DEF Commands, Dialing
    <2>3. Has(intents', Dialing)
      BY <2>1, <2>2, <1>0, HasAppend
    <2> QED BY <2>3 DEF Wakeup
  <1>13. CASE networkStateChange
    <2>1. PICK p \in {"gone", "back", "other"} : Moves("ui", p)
      BY <1>13, GoMoves, PlacesFacts DEF networkStateChange
    <2> QED BY <1>13, <2>1, <1>a, PlacesFacts DEF networkStateChange, IsIdle, service
  <1>14. CASE NetworkStep
    <2>1. CASE onNetworkDisconnected
      <3>1. PICK p \in {"idle", "losing"} : Moves("ui", p)
        BY <2>1, GoMoves, PlacesFacts DEF onNetworkDisconnected, Return
      <3> QED BY <2>1, <3>1, <1>a, PlacesFacts DEF onNetworkDisconnected, service
    <2>2. CASE onNetworkConnected \/ HandlerEnd
      BY <2>2, <1>b, PlacesFacts DEF onNetworkConnected, HandlerEnd
    <2> QED BY <1>14, <2>1, <2>2 DEF NetworkStep, NetworkErrorSignal
  <1>15. ASSUME NEW command \in Commands, Send(command) PROVE Wakeup'
    <2>1. intents' = Append(intents, command) /\ UNCHANGED <<service, messages, control>>
      BY <1>15 DEF Send
    <2>2. Has(intents, Dialing) => Has(intents', Dialing)
      BY <2>1, <1>0, HasAppend
    <2> QED BY <2>1, <2>2 DEF service, control, RetryInv, Wakeup
  <1>16. CASE onRevoke
    <2>1. Moves("binder", "stopping") /\ UNCHANGED <<service, messages>> /\ at["binder"].place = "idle"
      BY <1>16, GoMoves, PlacesFacts DEF onRevoke, IsIdle
    <2>2. "DESTROY" \in Commands \cup {"DESTROY"}
      OBVIOUS
    <2>3. Has(intents, Dialing) => Has(intents', Dialing)
      BY <1>16, <2>2, <1>0, HasAppend DEF onRevoke, StopSelf
    <2>4. Wakeup
      BY <2>1 DEF service, Moves, RetryInv
    <2> QED BY <2>1, <2>3, <2>4, PlacesFacts, WakeupMoves DEF service
  <1>17. ASSUME NEW c \in 1..loaded, onDisconnected(c) PROVE Wakeup'
    <2>1. intents' = Append(intents, "RECONNECT") /\ UNCHANGED <<service, messages, control>>
      BY <1>17 DEF onDisconnected
    <2>2. "RECONNECT" \in Commands \cup {"DESTROY"}
      BY DEF Commands
    <2>3. Has(intents, Dialing) => Has(intents', Dialing)
      BY <2>1, <2>2, <1>0, HasAppend
    <2> QED BY <2>1, <2>3 DEF service, control, RetryInv, Wakeup
  <1>18. CASE (\E n \in Networks \cup {NoNetwork} : NetworkChange(n)) \/ UNCHANGED vars
    BY <1>18 DEF NetworkChange, vars, service, control, queues, RetryInv, Wakeup
  <1>19. {"CONNECT", "DISCONNECT_BY_USER", "RECONNECT", "DISCONNECT"} \subseteq Commands
    BY DEF Commands
  <1> QED BY <1>1, <1>2, <1>3, <1>4, <1>5, <1>6, <1>7, <1>8, <1>9, <1>10, <1>11, <1>12, <1>13,
             <1>14, <1>15, <1>16, <1>17, <1>18, <1>19
          DEF Next, ConnectStep, TapButton, TapNotification, SystemStart

\* Whenever the service shows RETRYING, the next attempt is on its way: a thread
\* is inside retry(), the runnable is posted, or the connect command is queued.
THEOREM RetriesAreKept == Spec => []RetryNeverLost
  <1>1. Init => RetryInv
    BY DEF Init, RetryInv
  <1>2. RetryInv => RetryNeverLost
    BY InFlightHas DEF RetryInv, RetryNeverLost, Wakeup, Dialing
  <1> QED BY <1>1, <1>2, InitTypeInv, NextTypeInv, InitStopInv, NextStopInv, NextRetryInv, PTL DEF Spec

-------------------------------------------------------------------------------
(* The handler thread connects the current Config, and whoever stops the   *)
(* service cancels that one.                                               *)

LateInv ==
    /\ at["svc"].place = "connect" => mCurrentConfig = at["svc"].config
    /\ at["svc"].place = "connected" => mCurrentConfig # 0
    /\ at["svc"].place = "load" => mStatus # "CONNECTED"
    /\ mStatus = "CONNECTED" => mCurrentConfig # 0
    /\ mStopService /\ ~overtaken => mCurrentConfig \in canceled \cup {0}

\* A step that loads no Config, does not announce CONNECTED and does not set
\* mStopService, or cancels the current Config with it.
LEMMA LateMoves ==
  ASSUME TypeInv, LateInv, ControlType, NEW t \in Threads,
         NEW p, p \notin {"connect", "connected", "load"}, Moves(t, p),
         UNCHANGED mCurrentConfig, canceled \subseteq canceled',
         mStatus' = mStatus \/ mStatus' # "CONNECTED",
         (mStopService' => mStopService) \/ mCurrentConfig \in canceled' \cup {0}
  PROVE  LateInv'
  <1>1. \A q \in {"connect", "connected", "load"} : at'["svc"].place = q => at'["svc"] = at["svc"]
    BY PlacesFacts DEF Moves
  <1>2. overtaken => overtaken'
    BY DEF Moves
  <1> QED BY <1>1, <1>2 DEF LateInv

\* A step that only decides.
LEMMA LateDecides ==
  ASSUME TypeInv, LateInv, NEW t \in Threads, NEW b,
         retry(t) \/ disconnect(t, b) \/ Return(t) \/ Go(t, "stopping"),
         UNCHANGED mCurrentConfig, mStopService' => mStopService,
         mStatus' = mStatus \/ mStatus' # "CONNECTED"
  PROVE  LateInv'
  <1>1. PICK p \in {"idle", "stopping", "retrying"} : Moves(t, p) /\ ControlType /\ canceled' = canceled
    BY GoMoves, PlacesFacts DEF retry, disconnect, Return
  <1> QED BY <1>1, LateMoves

\* Every step keeps it, the loading of a new Config and its late return included.
LEMMA NextLateInv == TypeInv /\ StopInv /\ LateInv /\ [Next]_vars => LateInv'
  <1> SUFFICES ASSUME TypeInv, StopInv, LateInv, [Next]_vars PROVE LateInv'
    OBVIOUS
  <1>0. mCurrentConfig \in 0..loaded /\ loaded \in Nat
    BY DEF TypeInv, TypeOK
  <1>1. CASE handleMessage
    <2>1. CASE HandleConnect
      <3>1. PICK p \in {"idle", "online", "offline"} :
               Moves("svc", p) /\ ControlType /\ canceled' = canceled
        BY <2>1, GoMoves, PlacesFacts DEF HandleConnect, Return
      <3> QED BY <1>1, <2>1, <3>1, PlacesFacts, LateMoves DEF handleMessage, HandleConnect, objects
    <2>2. CASE HandleDisconnect \/ HandleReconnect
      BY <1>1, <2>2, PlacesFacts, LateDecides
      DEF handleMessage, HandleDisconnect, HandleReconnect, service, objects
    <2> QED BY <1>1, <2>1, <2>2 DEF handleMessage
  <1>2. CASE ConnectOffline
    BY <1>2, PlacesFacts, LateDecides DEF ConnectOffline, objects
  <1>3. CASE ConnectChecks
    <2>1. PICK p \in {"idle", "connecting"} : Moves("svc", p) /\ ControlType /\ canceled' = canceled
      BY <1>3, GoMoves, PlacesFacts DEF ConnectChecks, Return
    <2> QED BY <1>3, <2>1, PlacesFacts, LateMoves DEF ConnectChecks, service, objects
  <1>4. CASE ConnectSignal
    <2>1. Moves("svc", "load") /\ canceled' = canceled
      BY <1>4, GoMoves, PlacesFacts DEF ConnectSignal
    <2> QED BY <1>4, <2>1 DEF ConnectSignal, objects, Moves, LateInv
  <1>5. CASE LoadConfig
    <2>1. at'["svc"] = [place |-> "connect", config |-> loaded + 1]
      BY <1>5, PlacesFacts DEF LoadConfig, TypeInv, TypeOK
    <2>2. /\ mCurrentConfig' = loaded + 1 /\ loaded + 1 # 0
          /\ UNCHANGED <<mStatus, mStopService, overtaken>>
      BY <1>5, <1>0 DEF LoadConfig, service
    <2>3. ~overtaken => ~mStopService
      BY <1>5, PlacesFacts DEF LoadConfig, StopInv
    <2> QED BY <1>5, <2>1, <2>2, <2>3 DEF LoadConfig, LateInv
  <1>6. CASE LoadFails
    <2>1. Moves("svc", "stopping") /\ UNCHANGED <<mStatus, mStopService>>
      BY <1>6, GoMoves, PlacesFacts DEF LoadFails, service
    <2>2. ~overtaken => ~mStopService
      BY <1>6, PlacesFacts DEF LoadFails, StopInv
    <2> QED BY <1>6, <2>1, <2>2 DEF LoadFails, Moves, LateInv
  <1>7. CASE ConnectReturns
    <2>1. Moves("svc", "connected") /\ canceled' = canceled
      BY <1>7, GoMoves, PlacesFacts DEF ConnectReturns
    <2>2. mCurrentConfig # 0
      BY <1>7, <1>0 DEF ConnectReturns, LateInv, TypeInv, ConnectUsesLoaded
    <2> QED BY <1>7, <2>1, <2>2 DEF ConnectReturns, Moves, LateInv
  <1>8. CASE ConnectedSignal
    <2>1. Moves("svc", "idle") /\ canceled' = canceled
      BY <1>8, GoMoves, PlacesFacts DEF ConnectedSignal, Return
    <2> QED BY <1>8, <2>1 DEF ConnectedSignal, objects, Moves, LateInv
  <1>9. CASE ConnectThrows
    <2>1. PICK p \in {"idle", "failed"} : Moves("svc", p) /\ ControlType /\ canceled' = canceled
      BY <1>9, GoMoves, PlacesFacts DEF ConnectThrows, Return
    <2> QED BY <1>9, <2>1, PlacesFacts, LateMoves DEF ConnectThrows, service, objects
  <1>10. CASE ConnectFailed
    BY <1>10, PlacesFacts, LateDecides DEF ConnectFailed, service, objects
  <1>11. ASSUME NEW t \in Threads, DisconnectStep(t) PROVE LateInv'
    <2>1. CASE DisconnectSignal(t) \/ DisconnectEnd(t)
      <3>1. PICK p \in {"stop", "stopself"} : Moves(t, p) /\ ControlType /\ canceled' = canceled
        BY <2>1, GoMoves, PlacesFacts DEF DisconnectSignal, DisconnectEnd
      <3> QED BY <2>1, <3>1, LateMoves DEF DisconnectSignal, DisconnectEnd, objects
    <2>2. CASE DisconnectStop(t)
      <3>1. Moves(t, "disconnect") /\ ControlType /\ canceled' = canceled \cup ({mCurrentConfig} \ {0})
        BY <2>2, TerminateMoves, PlacesFacts, <1>0 DEF DisconnectStop
      <3> QED BY <2>2, <3>1, LateMoves DEF DisconnectStop, objects
    <2>3. CASE DisconnectStopSelf(t)
      BY <2>3, LateDecides DEF DisconnectStopSelf, service, objects
    <2> QED BY <1>11, <2>1, <2>2, <2>3 DEF DisconnectStep
  <1>12. ASSUME NEW t \in Threads, RetryStep(t) PROVE LateInv'
    <2>1. CASE RetrySignal(t)
      <3>1. Moves(t, "retry") /\ ControlType /\ canceled' = canceled \cup ({mCurrentConfig} \ {0})
        BY <2>1, TerminateMoves, PlacesFacts, <1>0 DEF RetrySignal
      <3> QED BY <2>1, <3>1, LateMoves DEF RetrySignal, objects
    <2>2. CASE RetryEnd(t)
      BY <2>2, LateDecides DEF RetryEnd, objects
    <2> QED BY <1>12, <2>1, <2>2 DEF RetryStep
  <1>13. CASE onDestroy
    <2>1. Moves("ui", "destroy") /\ ControlType /\ canceled' = canceled \cup ({mCurrentConfig} \ {0})
      BY <1>13, TerminateMoves, PlacesFacts, <1>0 DEF onDestroy
    <2> QED BY <1>13, <2>1, PlacesFacts, LateMoves DEF onDestroy, service, objects
  <1>14. CASE networkStateChange
    <2>1. PICK p \in {"gone", "back", "other"} : Moves("ui", p) /\ ControlType /\ canceled' = canceled
      BY <1>14, GoMoves, PlacesFacts DEF networkStateChange
    <2> QED BY <1>14, <2>1, PlacesFacts, LateMoves DEF networkStateChange, service, objects
  <1>15. CASE NetworkStep
    <2>1. CASE onNetworkDisconnected
      <3>1. PICK p \in {"idle", "losing"} : Moves("ui", p) /\ ControlType /\ canceled' = canceled
        BY <2>1, GoMoves, PlacesFacts DEF onNetworkDisconnected, Return
      <3> QED BY <2>1, <3>1, PlacesFacts, LateMoves DEF onNetworkDisconnected, service, objects
    <2>2. CASE NetworkErrorSignal
      <3>1. Moves("ui", "network") /\ ControlType /\ canceled' = canceled \cup ({mCurrentConfig} \ {0})
        BY <2>2, TerminateMoves, PlacesFacts, <1>0 DEF NetworkErrorSignal
      <3> QED BY <2>2, <3>1, PlacesFacts, LateMoves DEF NetworkErrorSignal, objects
    <2>3. CASE onNetworkConnected \/ HandlerEnd
      BY <2>3, PlacesFacts, LateDecides DEF onNetworkConnected, HandlerEnd, service, objects
    <2> QED BY <1>15, <2>1, <2>2, <2>3 DEF NetworkStep
  <1>16. CASE onRevoke
    BY <1>16, PlacesFacts, LateDecides DEF onRevoke, service, objects
  <1>17. CASE \/ onStartCommand \/ RetryRunnableRun \/ TapButton \/ TapNotification \/ SystemStart
              \/ (\E c \in 1..loaded : onDisconnected(c))
              \/ (\E n \in Networks \cup {NoNetwork} : NetworkChange(n)) \/ UNCHANGED vars
    <2>1. UNCHANGED <<control, mStatus, mStopService, mCurrentConfig>>
      BY <1>17 DEF onStartCommand, RetryRunnableRun, TapButton, TapNotification, SystemStart, Send,
                   onDisconnected, NetworkChange, vars, service, objects
    <2> QED BY <2>1 DEF control, LateInv
  <1> QED BY <1>1, <1>2, <1>3, <1>4, <1>5, <1>6, <1>7, <1>8, <1>9, <1>10, <1>11, <1>12, <1>13,
             <1>14, <1>15, <1>16, <1>17
          DEF Next, ConnectStep

\* Init satisfies LateInv.
LEMMA InitLateInv == Init => LateInv
  <1>1. Idle.place \notin {"connect", "connected", "load"}
    BY DEF Idle
  <1> QED BY <1>1, PlacesFacts DEF Init, LateInv

\* CONNECTED shown by a stopped service is that of a Config the stop has
\* canceled, unless a disconnect() has overlapped a decision.
THEOREM LateConnects == Spec => []LateConnectIsCanceled
  <1>1. LateInv => LateConnectIsCanceled
    BY DEF LateInv, LateConnectIsCanceled
  <1> QED BY <1>1, InitTypeInv, NextTypeInv, InitStopInv, NextStopInv, InitLateInv, NextLateInv, PTL
          DEF Spec

-------------------------------------------------------------------------------
(* No Config object is forgotten.                                          *)

\* Before a connection was asked for there is nothing to retry or to lose.
ConfigIdInv ==
    ~hasConfigId =>
        /\ mStatus \in {"DISCONNECTED", "DISCONNECTING"}
        /\ \A t \in Threads : at[t].place \notin ConnectPlaces \cup {"retrying", "retry", "losing"}

\* The history NoOrphanConfig speaks of.
Quiet == ~flapped /\ ~stale /\ ~raced /\ revokes = 0

Svc == at["svc"].place
Ui  == at["ui"].place

\* Only the handler thread disconnects, and one thread decides at a time.
OneDecides ==
    /\ \A t \in Threads : at[t].place \in {"stopping", "stop", "disconnect"} => t = "svc"
    /\ \A t, u \in Threads : t # u /\ at[t].place \in Deciding => at[u].place \notin Deciding

\* connect() is not under way in a stopped service ...
NotStopped ==
    /\ mStopService => Svc \notin {"connecting", "load", "connect", "connected", "failed"}
    /\ mStopService \/ Svc = "stop" => mStatus # "CONNECTING"
    /\ Svc = "load" => mStatus = "CONNECTING"

\* ... what the handlers have seen of the network is still so, and CONNECTING
\* stands for a connect() under way or for a loss still to be dealt with ...
Seen ==
    /\ Svc \in {"online", "connecting", "load"} => isConnected
    /\ Ui \in {"gone", "losing"} => ~isConnected
    /\ mStatus = "CONNECTING"
        => Svc \in {"load", "connect", "connected", "failed", "stopping", "retrying"} \/ ~isConnected
    /\ mStatus = "CONNECTING" /\ ~isConnected => broadcasts > 0 \/ Ui \in {"gone", "losing"}

\* ... so the current Config is canceled before connect() replaces it.
Released ==
    /\ mStatus \in {"RETRYING", "DISCONNECTING", "DISCONNECTED"}
        => mCurrentConfig \in canceled \cup {0} \/ Svc = "stop"
    /\ Svc \in {"connecting", "load", "disconnect"} \/ (Svc = "online" /\ mStatus # "CONNECTED")
        => mCurrentConfig \in canceled \cup {0}
    /\ \A c \in 1..loaded : c # mCurrentConfig => c \in canceled

ReplaceInv == OneDecides /\ NotStopped /\ Seen /\ Released

OrphanInv == ConfigIdInv /\ (Quiet => ReplaceInv)

\* ConfigIdInv for a step of thread t that does not erase the configuration's id.
LEMMA ConfigIdMoves ==
  ASSUME TypeInv, ConfigIdInv, NEW t \in Threads, NEW p, Moves(t, p), hasConfigId => hasConfigId',
         ~hasConfigId' => /\ p \notin ConnectPlaces \cup {"retrying", "retry", "losing"}
                          /\ mStatus' \in {mStatus, "DISCONNECTED", "DISCONNECTING"}
  PROVE  ConfigIdInv'
  BY DEF ConfigIdInv, Moves

\* The decisions of retry() and disconnect() keep ConfigIdInv.
LEMMA ConfigIdDecides ==
  ASSUME TypeInv, ConfigIdInv, NEW t \in Threads, NEW b,
         retry(t) \/ disconnect(t, b) \/ Return(t) \/ Go(t, "stopping"),
         UNCHANGED <<hasConfigId, mStatus>>
  PROVE  ConfigIdInv'
  <1>1. PICK p \in {"idle", "stopping", "retrying"} : Moves(t, p) /\ (p = "retrying" => hasConfigId)
    BY GoMoves, PlacesFacts DEF retry, disconnect, Return
  <1>2. {"idle", "stopping"} \cap (ConnectPlaces \cup {"retrying", "retry", "losing"}) = {}
    BY DEF ConnectPlaces
  <1> QED BY <1>1, <1>2, ConfigIdMoves

\* Every step keeps ConfigIdInv.
LEMMA NextConfigIdInv == TypeInv /\ ConfigIdInv /\ [Next]_vars => ConfigIdInv'
  <1> SUFFICES ASSUME TypeInv, ConfigIdInv, [Next]_vars PROVE ConfigIdInv'
    OBVIOUS
  <1>0. /\ {"idle", "stopping", "stop", "disconnect", "stopself", "gone", "back", "other", "network",
            "destroy"} \cap (ConnectPlaces \cup {"retrying", "retry", "losing"}) = {}
        /\ {"online", "offline", "connecting", "load", "connect", "connected", "failed"} = ConnectPlaces
        /\ mCurrentConfig \in 0..loaded /\ hasConfigId \in BOOLEAN
    BY DEF ConnectPlaces, TypeInv, TypeOK
  <1>1. CASE handleMessage
    <2>1. CASE HandleConnect
      BY <2>1 DEF HandleConnect, ConfigIdInv
    <2>2. CASE HandleDisconnect \/ HandleReconnect
      BY <2>2, PlacesFacts, ConfigIdDecides DEF HandleDisconnect, HandleReconnect, service
    <2> QED BY <1>1, <2>1, <2>2 DEF handleMessage
  <1>2. CASE ConnectStep \/ ConnectReturns \/ ConnectedSignal
    <2>1. at["svc"].place \in ConnectPlaces /\ UNCHANGED hasConfigId
      BY <1>2, <1>0 DEF ConnectStep, ConnectOffline, ConnectChecks, ConnectSignal, LoadConfig, LoadFails,
                  ConnectThrows, ConnectFailed, ConnectReturns, ConnectedSignal
    <2> QED BY <2>1, PlacesFacts DEF ConfigIdInv
  <1>3. ASSUME NEW t \in Threads, DisconnectStep(t) PROVE ConfigIdInv'
    <2>1. PICK p \in {"idle", "stop", "disconnect", "stopself"} : Moves(t, p)
      BY <1>3, GoMoves, TerminateMoves, PlacesFacts, <1>0
      DEF DisconnectStep, DisconnectSignal, DisconnectStop, DisconnectEnd, DisconnectStopSelf, Return
    <2>2. UNCHANGED hasConfigId /\ mStatus' \in {mStatus, "DISCONNECTED", "DISCONNECTING"}
      BY <1>3 DEF DisconnectStep, DisconnectSignal, DisconnectStop, DisconnectEnd, DisconnectStopSelf, service
    <2> QED BY <2>1, <2>2, <1>0, ConfigIdMoves
  <1>4. ASSUME NEW t \in Threads, RetryStep(t) PROVE ConfigIdInv'
    BY <1>4 DEF RetryStep, RetrySignal, RetryEnd, ConfigIdInv
  <1>5. CASE onDestroy \/ networkStateChange \/ HandlerEnd
    <2>1. PICK p \in {"idle", "destroy", "gone", "back", "other"} : Moves("ui", p)
      BY <1>5, GoMoves, TerminateMoves, PlacesFacts, <1>0
      DEF onDestroy, networkStateChange, HandlerEnd, Return
    <2>2. UNCHANGED <<hasConfigId, mStatus>>
      BY <1>5 DEF onDestroy, networkStateChange, HandlerEnd, service
    <2> QED BY <2>1, <2>2, <1>0, PlacesFacts, ConfigIdMoves
  <1>6. CASE onNetworkDisconnected
    <2>1. PICK p \in {"idle", "losing"} :
             Moves("ui", p) /\ (p = "losing" => mStatus \notin {"DISCONNECTED", "DISCONNECTING"})
      BY <1>6, GoMoves, PlacesFacts DEF onNetworkDisconnected, Return
    <2>2. UNCHANGED <<hasConfigId, mStatus>>
      BY <1>6 DEF onNetworkDisconnected, service
    <2>3. p = "losing" => hasConfigId
      BY <2>1 DEF ConfigIdInv
    <2> QED BY <2>1, <2>2, <2>3, <1>0, PlacesFacts, ConfigIdMoves
  <1>7. CASE NetworkErrorSignal
    BY <1>7, PlacesFacts DEF NetworkErrorSignal, ConfigIdInv
  <1>8. CASE onNetworkConnected \/ onRevoke
    BY <1>8, PlacesFacts, ConfigIdDecides DEF onNetworkConnected, onRevoke, service
  <1>9. CASE \/ onStartCommand \/ RetryRunnableRun \/ TapButton \/ TapNotification \/ SystemStart
             \/ (\E c \in 1..loaded : onDisconnected(c))
             \/ (\E n \in Networks \cup {NoNetwork} : NetworkChange(n)) \/ UNCHANGED vars
    <2>1. UNCHANGED <<control, mStatus, hasConfigId>>
      BY <1>9 DEF onStartCommand, RetryRunnableRun, TapButton, TapNotification, SystemStart, Send,
                  onDisconnected, NetworkChange, vars, service
    <2> QED BY <2>1 DEF control, ConfigIdInv
  <1> QED BY <1>1, <1>2, <1>3, <1>4, <1>5, <1>6, <1>7, <1>8, <1>9 DEF Next, NetworkStep

\* A step remembers what disturbs the quiet, and never forgets it.
LEMMA QuietKept == ASSUME TypeInv, [Next]_vars, Quiet' PROVE Quiet
  <1>0. revokes \in Nat
    BY BoundsAssumption DEF TypeInv, TypeOK
  <1>1. UNCHANGED revokes \/ revokes' = revokes + 1
    BY DEF Next, handleMessage, ConnectStep, ConnectOffline, ConnectChecks, ConnectSignal, LoadConfig,
           LoadFails, ConnectThrows, ConnectFailed, ConnectReturns, ConnectedSignal, DisconnectStep,
           DisconnectSignal, DisconnectStop, DisconnectEnd, DisconnectStopSelf, RetryStep, RetrySignal,
           RetryEnd, onStartCommand, onDestroy, RetryRunnableRun, networkStateChange, NetworkStep,
           onNetworkDisconnected, NetworkErrorSignal, onNetworkConnected, HandlerEnd, TapButton,
           TapNotification, SystemStart, Send, onRevoke, onDisconnected, NetworkChange, vars, counters
  <1>2. (flapped => flapped') /\ (stale => stale')
    <2>1. CASE networkStateChange
      BY <2>1 DEF networkStateChange
    <2>3. CASE \E n \in Networks \cup {NoNetwork} : NetworkChange(n)
      <3>1. PICK n \in Networks \cup {NoNetwork} : NetworkChange(n)
        BY <2>3
      <3>2. flapped' = (flapped \/ broadcasts > 0 \/ at["ui"].place \in NetworkPlaces)
        BY <3>1 DEF NetworkChange
      <3>3. stale' = (stale \/ at["svc"].place \in Preparing)
        BY <3>1 DEF NetworkChange
      <3> QED BY <3>2, <3>3
    <2>2. CASE UNCHANGED network
      BY <2>2 DEF network
    <2> QED
      BY <2>1, <2>2, <2>3
      DEF Next, handleMessage, ConnectStep, ConnectOffline, ConnectChecks, ConnectSignal, LoadConfig,
          LoadFails, ConnectThrows, ConnectFailed, ConnectReturns, ConnectedSignal, DisconnectStep,
          DisconnectSignal, DisconnectStop, DisconnectEnd, DisconnectStopSelf, RetryStep, RetrySignal,
          RetryEnd, onStartCommand, onDestroy, RetryRunnableRun, NetworkStep,
          onNetworkDisconnected, NetworkErrorSignal, onNetworkConnected, HandlerEnd, TapButton,
          TapNotification, SystemStart, Send, onRevoke, onDisconnected, vars
  <1>3. raced => raced'
    BY DEF Next, handleMessage, HandleConnect, HandleDisconnect, HandleReconnect, retry, disconnect,
           Return, Go, terminate, ConnectStep, ConnectOffline, ConnectChecks, ConnectSignal, LoadConfig,
           LoadFails, ConnectThrows, ConnectFailed, ConnectReturns, ConnectedSignal, DisconnectStep,
           DisconnectSignal, DisconnectStop, DisconnectEnd, DisconnectStopSelf, RetryStep, RetrySignal,
           RetryEnd, onStartCommand, onDestroy, RetryRunnableRun, networkStateChange, NetworkStep,
           onNetworkDisconnected, NetworkErrorSignal, onNetworkConnected, HandlerEnd, TapButton,
           TapNotification, SystemStart, Send, onRevoke, onDisconnected, NetworkChange, vars, control
  <1> QED BY <1>0, <1>1, <1>2, <1>3 DEF Quiet

\* A thread that decides is alone with it, since no two decisions overlapped.
LEMMA OneMoves ==
  ASSUME OneDecides, ~raced', NEW t \in Threads, NEW p, Moves(t, p),
         p \in {"stopping", "stop", "disconnect"} => t = "svc"
  PROVE  OneDecides'
  BY DEF OneDecides, Moves, Other

\* retry() and disconnect() in a quiet service: the places they lead to.
LEMMA DecideSteps ==
  ASSUME TypeInv, NEW t \in Threads, NEW b,
         retry(t) \/ disconnect(t, b) \/ Return(t) \/ Go(t, "stopping")
  PROVE  \E p \in {"idle", "stopping", "retrying"} :
            /\ Moves(t, p) /\ canceled' = canceled
            /\ p = "idle" => Return(t) \/ RetryIgnored \/ mStatus = "NETWORK_ERROR"
  BY GoMoves, PlacesFacts DEF retry, disconnect, Return

\* Every step of a service that stays quiet keeps ReplaceInv.
LEMMA NextReplaceInv ==
  ASSUME TypeInv, ConfigIdInv, ReplaceInv, [Next]_vars, Quiet, Quiet'
  PROVE  ReplaceInv'
  <1>0. /\ mCurrentConfig \in 0..loaded /\ loaded \in Nat /\ canceled \subseteq 1..loaded
        /\ OneDecides /\ NotStopped /\ Seen /\ Released
        /\ ~raced' /\ ~flapped' /\ ~stale'
        /\ "svc" \in Threads /\ "ui" \in Threads /\ "svc" # "ui"
        /\ "load" \in Deciding /\ "retrying" \in Deciding /\ "connecting" \in Deciding
    BY PlacesFacts DEF ReplaceInv, Quiet, TypeInv, TypeOK
  <1>1. CASE handleMessage
    <2>0. Svc = "idle" /\ UNCHANGED <<mStatus, objects, network>>
      BY <1>1 DEF handleMessage, IsIdle, Svc, HandleConnect, HandleDisconnect, HandleReconnect, service
    <2>1. CASE HandleConnect
      <3>1. PICK p \in {"idle", "online", "offline"} :
               /\ Moves("svc", p) /\ canceled' = canceled
               /\ p = "online" => isConnected
        BY <2>1, GoMoves, PlacesFacts DEF HandleConnect, Return
      <3>2. Svc' = p /\ Ui' = Ui /\ OneDecides' /\ (mStopService' => mStopService)
        BY <2>1, <3>1, <1>0, OneMoves DEF Svc, Ui, Moves, HandleConnect
      <3>3. p = "online" /\ mStatus # "CONNECTED" => mCurrentConfig \in canceled \cup {0}
        <4>1. p = "online" => mStatus \notin {"NETWORK_ERROR", "CONNECTING"}
          BY <2>0, <2>1, <3>1, <3>2, <1>0, GoMoves, PlacesFacts
          DEF HandleConnect, Return, Moves, Seen
        <4> QED BY <4>1, <2>0, <1>0 DEF Released, TypeInv, TypeOK, Status
      <3> QED BY <2>0, <3>1, <3>2, <3>3, <1>0
              DEF ReplaceInv, NotStopped, Seen, Released, objects, network, isConnected
    <2>2. CASE HandleDisconnect \/ HandleReconnect
      <3>1. PICK p \in {"idle", "stopping", "retrying"} : Moves("svc", p) /\ canceled' = canceled
        BY <2>2, DecideSteps, <1>0 DEF HandleDisconnect, HandleReconnect
      <3>2. Svc' = p /\ Ui' = Ui /\ OneDecides' /\ UNCHANGED mStopService
        BY <2>2, <3>1, <1>0, OneMoves DEF Svc, Ui, Moves, HandleDisconnect, HandleReconnect, service
      <3> QED BY <2>0, <3>1, <3>2, <1>0
              DEF ReplaceInv, NotStopped, Seen, Released, objects, network, isConnected
    <2> QED BY <1>1, <2>1, <2>2 DEF handleMessage
  <1>2. CASE ConnectOffline \/ ConnectedSignal
    <2>1. Moves("svc", "idle") /\ canceled' = canceled /\ mStatus' \in {"NETWORK_ERROR", "CONNECTED"}
          /\ UNCHANGED <<mStopService, objects, network>>
      BY <1>2, GoMoves, PlacesFacts DEF ConnectOffline, ConnectedSignal, Return
    <2>2. Svc' = "idle" /\ Ui' = Ui /\ OneDecides'
      BY <2>1, <1>0, OneMoves DEF Svc, Ui, Moves
    <2> QED BY <2>1, <2>2, <1>0
            DEF ReplaceInv, NotStopped, Seen, Released, objects, network, isConnected
  <1>3. CASE ConnectChecks
    <2>1. PICK p \in {"idle", "connecting"} :
             /\ Moves("svc", p) /\ canceled' = canceled
             /\ p = "connecting" => ~mStopService /\ mStatus # "CONNECTED"
      BY <1>3, GoMoves, PlacesFacts DEF ConnectChecks, Return
    <2>2. Svc = "online" /\ Svc' = p /\ Ui' = Ui /\ OneDecides'
          /\ UNCHANGED <<mStatus, mStopService, objects, network>>
      BY <1>3, <2>1, <1>0, OneMoves DEF Svc, Ui, Moves, ConnectChecks, service
    <2> QED BY <2>1, <2>2, <1>0
            DEF ReplaceInv, NotStopped, Seen, Released, objects, network, isConnected
  <1>4. CASE ConnectSignal
    <2>1. Moves("svc", "load") /\ canceled' = canceled /\ mStatus' = "CONNECTING"
          /\ UNCHANGED <<mStopService, objects, network>> /\ Svc = "connecting"
      BY <1>4, GoMoves, PlacesFacts DEF ConnectSignal, Svc
    <2>2. Svc' = "load" /\ Ui' = Ui /\ OneDecides'
      BY <2>1, <1>0, OneMoves DEF Svc, Ui, Moves
    <2> QED BY <2>1, <2>2, <1>0
            DEF ReplaceInv, NotStopped, Seen, Released, objects, network, isConnected
  <1>5. CASE LoadConfig
    <2>1. Moves("svc", "connect") /\ "connect" \notin Deciding
      BY <1>5, PlacesFacts DEF LoadConfig, Moves, TypeInv, TypeOK
    <2>2. Svc = "load" /\ Svc' = "connect" /\ Ui' = Ui /\ OneDecides'
          /\ UNCHANGED <<mStatus, mStopService, canceled, network>>
          /\ mCurrentConfig' = loaded + 1 /\ loaded' = loaded + 1
      BY <1>5, <2>1, <1>0, OneMoves DEF Svc, Ui, Moves, LoadConfig, service
    <2>3. \A c \in 1..loaded' : c # mCurrentConfig' => c \in canceled'
      <3>1. \A c \in 1..loaded : c \in canceled
        BY <2>2, <1>0 DEF Released
      <3> QED BY <2>2, <3>1, <1>0
    <2> QED BY <2>2, <2>3, <1>0 DEF ReplaceInv, NotStopped, Seen, Released, network, isConnected
  <1>6. CASE LoadFails
    <2>1. Moves("svc", "stopping") /\ canceled' = canceled
      BY <1>6, GoMoves, PlacesFacts DEF LoadFails
    <2>2. Svc = "load" /\ Svc' = "stopping" /\ Ui' = Ui /\ OneDecides'
          /\ UNCHANGED <<mStatus, mStopService, network>>
      BY <1>6, <2>1, <1>0, OneMoves DEF Svc, Ui, Moves, LoadFails, service
    <2>3. \A c \in 1..loaded' : c # mCurrentConfig' => c \in canceled'
      <3>1. \A c \in 1..loaded : c \in canceled
        BY <2>2, <1>0 DEF Released
      <3>2. CASE UNCHANGED loaded
        BY <2>1, <3>1, <3>2
      <3>3. CASE loaded' = loaded + 1 /\ mCurrentConfig' = loaded + 1
        BY <2>1, <3>1, <3>3, <1>0
      <3> QED BY <1>6, <3>2, <3>3 DEF LoadFails
    <2> QED BY <2>1, <2>2, <2>3, <1>0
            DEF ReplaceInv, NotStopped, Seen, Released, network, isConnected
  <1>7. CASE ConnectReturns \/ ConnectThrows
    <2>1. PICK p \in {"connected", "idle", "failed"} :
             /\ Moves("svc", p) /\ canceled' = canceled
             /\ p = "idle" => mStatus = "NETWORK_ERROR" \/ ~isConnected
      BY <1>7, GoMoves, PlacesFacts DEF ConnectReturns, ConnectThrows, Return
    <2>2. Svc = "connect" /\ Svc' = p /\ Ui' = Ui /\ OneDecides'
          /\ UNCHANGED <<mStatus, mStopService, mCurrentConfig, loaded, network>>
      BY <1>7, <2>1, <1>0, OneMoves DEF Svc, Ui, Moves, ConnectReturns, ConnectThrows, service, objects
    <2> QED BY <2>1, <2>2, <1>0
            DEF ReplaceInv, NotStopped, Seen, Released, network, isConnected
  <1>8. CASE ConnectFailed
    <2>1. PICK p \in {"idle", "stopping", "retrying"} :
             /\ Moves("svc", p) /\ canceled' = canceled
             /\ p = "idle" => RetryIgnored
      BY <1>8, GoMoves, PlacesFacts DEF ConnectFailed, retry, Return
    <2>2. Svc = "failed" /\ Svc' = p /\ Ui' = Ui /\ OneDecides'
          /\ UNCHANGED <<mStatus, mStopService, objects, network>>
      BY <1>8, <2>1, <1>0, OneMoves DEF Svc, Ui, Moves, ConnectFailed, service
    <2>3. p = "idle" => mStatus # "CONNECTING"
      BY <2>1, <2>2, <1>0 DEF RetryIgnored, NotStopped
    <2> QED BY <2>1, <2>2, <2>3, <1>0
            DEF ReplaceInv, NotStopped, Seen, Released, objects, network, isConnected
  <1>9. ASSUME NEW t \in Threads, DisconnectStep(t) PROVE ReplaceInv'
    <2>1. CASE DisconnectSignal(t)
      <3>1. t = "svc" /\ Moves(t, "stop") /\ canceled' = canceled
        BY <2>1, GoMoves, PlacesFacts, <1>0 DEF DisconnectSignal, OneDecides
      <3>2. Svc' = "stop" /\ Ui' = Ui /\ OneDecides' /\ mStatus' = "DISCONNECTING"
            /\ UNCHANGED <<mStopService, objects, network>>
        BY <2>1, <3>1, <1>0, OneMoves DEF Svc, Ui, Moves, DisconnectSignal
      <3> QED BY <3>1, <3>2, <1>0
              DEF ReplaceInv, NotStopped, Seen, Released, objects, network, isConnected
    <2>2. CASE DisconnectStop(t)
      <3>1. t = "svc" /\ Moves(t, "disconnect") /\ canceled' = canceled \cup ({mCurrentConfig} \ {0})
        BY <2>2, TerminateMoves, PlacesFacts, <1>0 DEF DisconnectStop, OneDecides
      <3>2. Svc = "stop" /\ Svc' = "disconnect" /\ Ui' = Ui /\ OneDecides'
            /\ UNCHANGED <<mStatus, objects, network>>
        BY <2>2, <3>1, <1>0, OneMoves DEF Svc, Ui, Moves, DisconnectStop
      <3> QED BY <3>1, <3>2, <1>0
              DEF ReplaceInv, NotStopped, Seen, Released, objects, network, isConnected
    <2>3. CASE DisconnectEnd(t)
      <3>1. t = "svc" /\ Moves(t, "stopself") /\ canceled' = canceled
        BY <2>3, GoMoves, PlacesFacts, <1>0 DEF DisconnectEnd, OneDecides
      <3>2. Svc = "disconnect" /\ Svc' = "stopself" /\ Ui' = Ui /\ OneDecides' /\ mStatus' = "DISCONNECTED"
            /\ UNCHANGED <<mStopService, objects, network>>
        BY <2>3, <3>1, <1>0, OneMoves DEF Svc, Ui, Moves, DisconnectEnd
      <3> QED BY <3>1, <3>2, <1>0
              DEF ReplaceInv, NotStopped, Seen, Released, objects, network, isConnected
    <2>4. CASE DisconnectStopSelf(t)
      <3>1. Moves(t, "idle") /\ canceled' = canceled
        BY <2>4, GoMoves, PlacesFacts DEF DisconnectStopSelf, Return
      <3>2. /\ \/ t # "svc" /\ Svc' = Svc
               \/ t = "svc" /\ Svc = "stopself" /\ Svc' = "idle"
            /\ \/ t # "ui" /\ Ui' = Ui
               \/ t = "ui" /\ Ui = "stopself" /\ Ui' = "idle"
            /\ OneDecides' /\ UNCHANGED <<mStatus, mStopService, objects, network>>
        BY <2>4, <3>1, <1>0, OneMoves DEF Svc, Ui, Moves, DisconnectStopSelf, service
      <3> QED BY <3>1, <3>2, <1>0
              DEF ReplaceInv, NotStopped, Seen, Released, objects, network, isConnected
    <2> QED BY <1>9, <2>1, <2>2, <2>3, <2>4 DEF DisconnectStep
  <1>10. ASSUME NEW t \in Threads, RetryStep(t) PROVE ReplaceInv'
    <2>1. CASE RetrySignal(t)
      <3>1. Moves(t, "retry") /\ canceled' = canceled \cup ({mCurrentConfig} \ {0})
        BY <2>1, TerminateMoves, PlacesFacts, <1>0 DEF RetrySignal
      <3>2. /\ \/ t # "svc" /\ Svc' = Svc /\ Svc # "load"
               \/ t = "svc" /\ Svc = "retrying" /\ Svc' = "retry"
            /\ \/ t # "ui" /\ Ui' = Ui
               \/ t = "ui" /\ Ui = "retrying" /\ Ui' = "retry"
            /\ OneDecides' /\ mStatus' = "RETRYING" /\ UNCHANGED <<mStopService, objects, network>>
        BY <2>1, <3>1, <1>0, OneMoves DEF Svc, Ui, Moves, RetrySignal, OneDecides
      <3> QED BY <3>1, <3>2, <1>0
              DEF ReplaceInv, NotStopped, Seen, Released, objects, network, isConnected
    <2>2. CASE RetryEnd(t)
      <3>1. Moves(t, "idle") /\ canceled' = canceled
        BY <2>2, GoMoves, PlacesFacts DEF RetryEnd, Return
      <3>2. /\ \/ t # "svc" /\ Svc' = Svc
               \/ t = "svc" /\ Svc = "retry" /\ Svc' = "idle"
            /\ \/ t # "ui" /\ Ui' = Ui
               \/ t = "ui" /\ Ui = "retry" /\ Ui' = "idle"
            /\ OneDecides' /\ UNCHANGED <<mStatus, mStopService, objects, network>>
        BY <2>2, <3>1, <1>0, OneMoves DEF Svc, Ui, Moves, RetryEnd
      <3> QED BY <3>1, <3>2, <1>0
              DEF ReplaceInv, NotStopped, Seen, Released, objects, network, isConnected
    <2> QED BY <1>10, <2>1, <2>2 DEF RetryStep
  <1>11. CASE onDestroy \/ HandlerEnd
    <2>1. PICK p \in {"destroy", "idle"} : Moves("ui", p) /\ canceled \subseteq canceled'
      BY <1>11, GoMoves, TerminateMoves, PlacesFacts, <1>0 DEF onDestroy, HandlerEnd, Return
    <2>2. Svc' = Svc /\ Ui \in {"idle", "network", "destroy"} /\ Ui' = p /\ OneDecides'
          /\ UNCHANGED <<mStatus, mStopService, objects, network>>
      BY <1>11, <2>1, <1>0, OneMoves DEF Svc, Ui, Moves, onDestroy, HandlerEnd, IsIdle, service
    <2> QED BY <2>1, <2>2, <1>0
            DEF ReplaceInv, NotStopped, Seen, Released, objects, network, isConnected
  <1>12. CASE networkStateChange
    <2>1. PICK p \in {"gone", "back", "other"} :
             Moves("ui", p) /\ canceled' = canceled /\ (p = "gone" <=> ~isConnected)
      BY <1>12, GoMoves, PlacesFacts DEF networkStateChange
    <2>2. Svc' = Svc /\ Ui = "idle" /\ Ui' = p /\ OneDecides'
          /\ UNCHANGED <<mStatus, mStopService, objects, net>>
      BY <1>12, <2>1, <1>0, OneMoves DEF Svc, Ui, Moves, networkStateChange, IsIdle, service
    <2> QED BY <2>1, <2>2, <1>0 DEF ReplaceInv, NotStopped, Seen, Released, objects, isConnected
  <1>13. CASE onNetworkDisconnected
    <2>1. PICK p \in {"idle", "losing"} :
             /\ Moves("ui", p) /\ canceled' = canceled
             /\ p = "idle" => mStatus \in {"DISCONNECTED", "DISCONNECTING"}
      BY <1>13, GoMoves, PlacesFacts DEF onNetworkDisconnected, Return
    <2>2. Svc' = Svc /\ Ui = "gone" /\ Ui' = p /\ OneDecides'
          /\ UNCHANGED <<mStatus, mStopService, objects, network>>
      BY <1>13, <2>1, <1>0, OneMoves DEF Svc, Ui, Moves, onNetworkDisconnected, service
    <2> QED BY <2>1, <2>2, <1>0
            DEF ReplaceInv, NotStopped, Seen, Released, objects, network, isConnected
  <1>14. CASE NetworkErrorSignal
    <2>1. Moves("ui", "network") /\ canceled' = canceled \cup ({mCurrentConfig} \ {0})
      BY <1>14, TerminateMoves, PlacesFacts, <1>0 DEF NetworkErrorSignal
    <2>2. Svc' = Svc /\ Ui = "losing" /\ Ui' = "network" /\ OneDecides' /\ mStatus' = "NETWORK_ERROR"
          /\ UNCHANGED <<mStopService, objects, network>>
      BY <1>14, <2>1, <1>0, OneMoves DEF Svc, Ui, Moves, NetworkErrorSignal
    <2> QED BY <2>1, <2>2, <1>0
            DEF ReplaceInv, NotStopped, Seen, Released, objects, network, isConnected
  <1>15. CASE onNetworkConnected
    <2>1. PICK p \in {"idle", "retrying"} : Moves("ui", p) /\ canceled' = canceled
      <3>1. mStatus \in {"CONNECTED", "NETWORK_ERROR"} => hasConfigId
        BY DEF ConfigIdInv
      <3> QED BY <1>15, <3>1, GoMoves, PlacesFacts DEF onNetworkConnected, retry, Return
    <2>2. Svc' = Svc /\ Ui \in {"back", "other"} /\ Ui' = p /\ OneDecides'
          /\ UNCHANGED <<mStatus, mStopService, objects, network>>
      BY <1>15, <2>1, <1>0, OneMoves DEF Svc, Ui, Moves, onNetworkConnected, service
    <2> QED BY <2>1, <2>2, <1>0
            DEF ReplaceInv, NotStopped, Seen, Released, objects, network, isConnected
  <1>16. CASE onRevoke
    <2>1. revokes' = revokes + 1 /\ revokes = 0 /\ revokes' = 0
      BY <1>16 DEF onRevoke, Quiet
    <2> QED BY <2>1
  <1>17. ASSUME NEW n \in Networks \cup {NoNetwork}, NetworkChange(n) PROVE ReplaceInv'
    <2>1. Svc \notin Preparing /\ Ui \notin NetworkPlaces /\ ~(broadcasts > 0)
      BY <1>17, <1>0 DEF NetworkChange, Svc, Ui
    <2>2. Svc' = Svc /\ Ui' = Ui /\ OneDecides' /\ broadcasts' > 0
          /\ UNCHANGED <<mStatus, mStopService, objects, canceled>>
      BY <1>17, <1>0 DEF NetworkChange, Svc, Ui, control, service, OneDecides, TypeInv, TypeOK
    <2> QED BY <2>1, <2>2, <1>0
            DEF ReplaceInv, NotStopped, Seen, Released, objects, isConnected, Preparing, NetworkPlaces
  <1>18. CASE \/ onStartCommand \/ RetryRunnableRun \/ TapButton \/ TapNotification \/ SystemStart
              \/ (\E c \in 1..loaded : onDisconnected(c)) \/ UNCHANGED vars
    <2>1. UNCHANGED <<control, mStatus, mStopService, mCurrentConfig, loaded, network>>
      BY <1>18 DEF onStartCommand, RetryRunnableRun, TapButton, TapNotification, SystemStart, Send,
                   onDisconnected, vars, service, objects
    <2>2. Svc' = Svc /\ Ui' = Ui /\ OneDecides' /\ UNCHANGED canceled
      BY <2>1, <1>0 DEF control, Svc, Ui, OneDecides
    <2> QED BY <2>1, <2>2, <1>0 DEF ReplaceInv, NotStopped, Seen, Released, network, isConnected
  <1> QED BY <1>1, <1>2, <1>3, <1>4, <1>5, <1>6, <1>7, <1>8, <1>9, <1>10, <1>11, <1>12, <1>13,
             <1>14, <1>15, <1>16, <1>17, <1>18
          DEF Next, ConnectStep, NetworkStep

\* Init satisfies OrphanInv.
LEMMA InitOrphanInv == Init => OrphanInv
  <1> SUFFICES ASSUME Init PROVE OrphanInv
    OBVIOUS
  <1>1. \A t \in Threads : at[t].place = "idle"
    BY DEF Init, Idle
  <1>2. ConfigIdInv
    BY <1>1 DEF Init, ConfigIdInv, ConnectPlaces
  <1>3. OneDecides
    BY <1>1, PlacesFacts DEF OneDecides
  <1>4. Svc = "idle" /\ Ui = "idle"
    BY <1>1, PlacesFacts DEF Svc, Ui
  <1>5. NotStopped /\ Seen /\ Released
    BY <1>4 DEF Init, NotStopped, Seen, Released
  <1> QED BY <1>2, <1>3, <1>5 DEF OrphanInv, ReplaceInv

\* A Config that connect() has replaced was canceled, in every behaviour in
\* which the network does not change behind a handler's back, no two handlers
\* decide at the same time and the permission is not revoked.
THEOREM NoOrphans == Spec => []NoOrphanConfig
  <1>1. TypeInv /\ OrphanInv /\ [Next]_vars => OrphanInv'
    BY NextConfigIdInv, NextReplaceInv, QuietKept DEF OrphanInv
  <1>2. OrphanInv => NoOrphanConfig
    BY DEF OrphanInv, ReplaceInv, Released, Quiet, NoOrphanConfig
  <1> QED BY <1>1, <1>2, InitTypeInv, NextTypeInv, InitOrphanInv, PTL DEF Spec
===============================================================================
