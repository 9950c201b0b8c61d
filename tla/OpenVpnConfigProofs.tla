------------------------- MODULE OpenVpnConfigProofs --------------------------
(***************************************************************************)
(* Proofs about OpenVpnConfig: type correctness, and, when cancel() begins *)
(* after connect() is over and by one thread at a time, that nothing is    *)
(* reported after cancel() and that OpenVpnConfig is a Config.             *)
(***************************************************************************)
EXTENDS OpenVpnConfig, TLAPS

-------------------------------------------------------------------------------
(* Type correctness.                                                       *)

\* The parts of the type invariant, by who changes the state
ConnectOK ==
    /\ pc \in ConnectPlaces /\ mState \in State
    /\ session \in {"none", "dial", "auth", "open", "closed"}
    /\ mRemoteConnection \in BOOLEAN /\ port \in BOOLEAN
    /\ expire \in {"none", "running", "ended"} /\ mExpireDateCheckThread \in BOOLEAN
    /\ mOpenVPNThread \in BOOLEAN /\ crashed \in BOOLEAN
EngineOK ==
    /\ management \in {"none", "waiting", "connected", "ended"}
    /\ mShuttingDown \in BOOLEAN
    /\ process \in {"none", "running", "signalled", "dead"} /\ interrupted \in BOOLEAN
    /\ hold \in {"waiting", "posted", "released"}
    /\ reconnecting \in 0..MaxReconnecting
ReportOK ==
    /\ tun \in {"none", "ours", "process"}
    /\ onConnects \in 0..MaxConnects /\ reconnects \in Nat /\ waited \in BOOLEAN
CancelOK ==
    /\ at \in [Threads -> [place : CancelPlaces, late : BOOLEAN]]
    /\ cancels \in 0..MaxCancels
    /\ canceledOnce \in BOOLEAN /\ released \in BOOLEAN

\* They are the type invariant.
LEMMA TypeParts == TypeOK <=> ConnectOK /\ EngineOK /\ ReportOK /\ CancelOK
  BY DEF TypeOK, ConnectOK, EngineOK, ReportOK, CancelOK

\* What is not changed keeps its type.
LEMMA TypeFrame ==
    ASSUME TypeOK
    PROVE  /\ UNCHANGED engine => EngineOK'
           /\ UNCHANGED <<tun, reports>> => ReportOK'
           /\ UNCHANGED canceling => CancelOK'
  BY TypeParts DEF EngineOK, ReportOK, CancelOK, engine, reports, canceling

\* A new object
LEMMA TypeInit == Init => TypeOK
  <1> SUFFICES ASSUME Init PROVE TypeOK
    OBVIOUS
  <1> USE DEF Init
  <1>1. at \in [Threads -> [place : CancelPlaces, late : BOOLEAN]]
    BY DEF CancelPlaces
  <1>2. /\ cancels \in 0..MaxCancels /\ reconnecting \in 0..MaxReconnecting
        /\ onConnects \in 0..MaxConnects /\ reconnects \in Nat
    BY OpenVpnConfigAssumption
  <1> QED BY <1>1, <1>2 DEF TypeOK, ConnectPlaces, State

\* Every step of connect() keeps the types.
LEMMA TypeConnect == ASSUME TypeOK, connect PROVE TypeOK'
  <1>p. TypeOK <=> ConnectOK /\ EngineOK /\ ReportOK /\ CancelOK
    BY TypeParts
  <1>c. UNCHANGED <<tun, reports, canceling>>
    BY DEF connect, Start, connectSSHProxy, StartSession, Dial, Authenticate, Protect,
       fetchExpireDate, CheckProfile, ForwardPort, OpenManagement, StartProcess, WriteConfig
  <1>r. ReportOK' /\ CancelOK'
    BY <1>c, TypeFrame
  <1>e. EngineOK'
    BY <1>p DEF EngineOK, engine, connect, Start, connectSSHProxy, StartSession, Dial, Authenticate,
       Protect, fetchExpireDate, CheckProfile, ForwardPort, OpenManagement, StartProcess, WriteConfig
  <1>m. pc' \in ConnectPlaces /\ mState' \in State
    BY <1>p DEF ConnectOK, FailConnect, ConnectPlaces, State, connect, Start, connectSSHProxy,
       StartSession, Dial, Authenticate, Protect, fetchExpireDate, CheckProfile, ForwardPort,
       OpenManagement, StartProcess, WriteConfig
  <1>b. crashed' \in BOOLEAN
    <2>1. crashed \in BOOLEAN
      BY <1>p DEF ConnectOK
    <2> QED BY <2>1, Zenon DEF connect, Start, connectSSHProxy,
       StartSession, Dial, Authenticate, Protect, fetchExpireDate, CheckProfile, ForwardPort,
       OpenManagement, StartProcess, WriteConfig
  <1>s. /\ session' \in {"none", "dial", "auth", "open", "closed"}
        /\ mRemoteConnection' \in BOOLEAN /\ port' \in BOOLEAN
    BY <1>p DEF ConnectOK, remote, connect, Start, connectSSHProxy,
       StartSession, Dial, Authenticate, Protect, fetchExpireDate, CheckProfile, ForwardPort,
       OpenManagement, StartProcess, WriteConfig
  <1>x. /\ expire' \in {"none", "running", "ended"} /\ mExpireDateCheckThread' \in BOOLEAN
        /\ mOpenVPNThread' \in BOOLEAN
    BY <1>p DEF ConnectOK, expiring, connect, Start, connectSSHProxy,
       StartSession, Dial, Authenticate, Protect, fetchExpireDate, CheckProfile, ForwardPort,
       OpenManagement, StartProcess, WriteConfig
  <1>z. ConnectOK'
    BY <1>m, <1>b, <1>s, <1>x DEF ConnectOK
  <1> QED BY <1>r, <1>e, <1>z DEF TypeOK, ConnectOK, EngineOK, ReportOK, CancelOK

\* So do the expire date's thread, the session and the process ...
LEMMA TypeOthers ==
    ASSUME TypeOK, ExpireRun \/ SessionLost \/ ProcessConnects \/ ProcessStops
    PROVE  TypeOK'
  <1>p. ConnectOK /\ EngineOK /\ ReportOK /\ CancelOK
    BY TypeParts
  <1>r. CancelOK'
    BY TypeFrame DEF ExpireRun, SessionLost, ProcessConnects, ProcessStops
  <1>e. EngineOK'
    BY <1>p DEF EngineOK, engine, ExpireRun, SessionLost, ProcessConnects, ProcessStops
  <1>t. ReportOK'
    BY <1>p DEF ReportOK, reports, ExpireRun, SessionLost, ProcessConnects, ProcessStops
  <1>b. crashed' \in BOOLEAN
    BY <1>p, Zenon DEF ConnectOK, ExpireRun, SessionLost, ProcessConnects, ProcessStops
  <1>z. ConnectOK'
    BY <1>p, <1>b DEF ConnectOK, remote, expiring, ExpireRun, SessionLost, ProcessConnects,
       ProcessStops
  <1> QED BY <1>r, <1>e, <1>t, <1>z DEF TypeOK, ConnectOK, EngineOK, ReportOK, CancelOK

\* ... the lines the process sends ...
LEMMA TypeManagement == ASSUME TypeOK, managementStep PROVE TypeOK'
  <1>p. ConnectOK /\ EngineOK /\ ReportOK /\ CancelOK
    BY TypeParts
  <1>r. CancelOK'
    BY TypeFrame DEF managementStep, handleHold, ResumeHold, sendTunFD, onOpenVpnConnected,
       onOpenVpnDisconnected, onOpenVpnReconnecting
  <1>n. reconnecting' \in 0..MaxReconnecting
    BY <1>p, OpenVpnConfigAssumption DEF EngineOK, engine, managementStep, handleHold, ResumeHold,
       sendTunFD, onOpenVpnConnected, onOpenVpnDisconnected, onOpenVpnReconnecting
  <1>e. EngineOK'
    BY <1>p, <1>n DEF EngineOK, engine, managementStep, handleHold, ResumeHold, sendTunFD,
       onOpenVpnConnected, onOpenVpnDisconnected, onOpenVpnReconnecting, retry, stopVPN
  <1>t. ReportOK'
    <2>1. CASE handleHold \/ ResumeHold \/ sendTunFD
      BY <1>p, <2>1 DEF ReportOK, reports, handleHold, ResumeHold, sendTunFD
    <2>4. CASE onOpenVpnConnected
      BY <1>p, <2>4, OpenVpnConfigAssumption DEF ReportOK, onOpenVpnConnected
    <2>2. CASE onOpenVpnDisconnected
      BY <1>p, <2>2 DEF ReportOK, onOpenVpnDisconnected
    <2>3. CASE onOpenVpnReconnecting
      <3>1. waited' \in BOOLEAN
        BY <1>p, <2>3 DEF ReportOK, onOpenVpnReconnecting
      <3>2. reconnects' \in Nat /\ UNCHANGED <<tun, onConnects>>
        BY <1>p, <2>3 DEF ReportOK, onOpenVpnReconnecting, retry
      <3> QED BY <1>p, <3>1, <3>2 DEF ReportOK
    <2> QED BY <2>1, <2>2, <2>3, <2>4 DEF managementStep
  <1>z. ConnectOK'
    <2>1. UNCHANGED <<pc, remote, expiring, mOpenVPNThread, crashed>>
      BY DEF managementStep, handleHold, ResumeHold, sendTunFD, onOpenVpnConnected,
         onOpenVpnDisconnected, onOpenVpnReconnecting
    <2>2. mState' \in State
      BY <1>p DEF ConnectOK, State, managementStep, handleHold, ResumeHold, sendTunFD,
         onOpenVpnConnected, onOpenVpnDisconnected, onOpenVpnReconnecting, retry
    <2> QED BY <1>p, <2>1, <2>2 DEF ConnectOK, remote, expiring
  <1> QED BY <1>r, <1>e, <1>t, <1>z DEF TypeOK, ConnectOK, EngineOK, ReportOK, CancelOK

\* What a step within cancel() does: it moves its thread.
LEMMA StepType ==
    ASSUME TypeOK, NEW t \in Threads, NEW from, NEW to \in CancelPlaces, Step(t, from, to)
    PROVE  /\ at' \in [Threads -> [place : CancelPlaces, late : BOOLEAN]]
           /\ at[t].place = from /\ at'[t].place = to /\ at'[t].late = at[t].late
           /\ \A u \in Threads \ {t} : at'[u] = at[u]
           /\ UNCHANGED <<pc, cancels, canceledOnce, released>>
  BY DEF TypeOK, Step

\* What the call of cancel() does
LEMMA BeginType ==
    ASSUME TypeOK, NEW t \in Threads, CancelBegin(t)
    PROVE  /\ at' \in [Threads -> [place : CancelPlaces, late : BOOLEAN]]
           /\ at[t].place = "idle" /\ at'[t].late = Ended
           /\ at'[t].place = IF mState = "DISCONNECTED" THEN "return" ELSE "disconnect"
           /\ \A u \in Threads \ {t} : at'[u] = at[u]
  <1>1. Ended \in BOOLEAN
    BY DEF Ended
  <1> QED BY <1>1 DEF TypeOK, CancelBegin, CancelPlaces

\* What its return does
LEMMA ReturnType ==
    ASSUME TypeOK, NEW t \in Threads, Return(t)
    PROVE  /\ at' \in [Threads -> [place : CancelPlaces, late : BOOLEAN]]
           /\ at[t].place = "return" /\ at'[t].place = "idle" /\ at'[t].late = at[t].late
           /\ \A u \in Threads \ {t} : at'[u] = at[u]
  BY DEF TypeOK, Return, CancelPlaces

\* What every step within cancel() leaves alone
LEMMA CancelFrame ==
    ASSUME NEW t \in Threads, cancelStep(t), ~Return(t)
    PROVE  /\ \E from \in CancelPlaces \ {"idle"}, to \in CancelPlaces \ {"idle"} : Step(t, from, to)
           /\ UNCHANGED <<pc, mState, expire, reports, cancels, canceledOnce, released, hold>>
  <1>1. \E from \in CancelPlaces \ {"idle"}, to \in CancelPlaces \ {"idle"} : Step(t, from, to)
    BY DEF CancelPlaces, cancelStep, Disconnect, ClearRemote, CheckThread, SetReplace, Signal,
       forceStopOpenVpnProcess, ClearThread, InterruptExpire
  <1>2. UNCHANGED <<pc, cancels, canceledOnce, released>>
    BY <1>1 DEF Step
  <1>3. UNCHANGED <<mState, expire, reports, hold>>
    BY DEF expiring, engine, cancelStep, Disconnect, ClearRemote, CheckThread, SetReplace, Signal,
       forceStopOpenVpnProcess, ClearThread, InterruptExpire
  <1> QED BY <1>1, <1>2, <1>3

\* ... and cancel().
LEMMA TypeCancel ==
    ASSUME TypeOK, NEW t \in Threads, CancelBegin(t) \/ cancelStep(t)
    PROVE  TypeOK'
  <1>p. ConnectOK /\ EngineOK /\ ReportOK /\ CancelOK
    BY TypeParts
  <1>1. CASE CancelBegin(t)
    <2>1. cancels' \in 0..MaxCancels
      BY <1>1, <1>p, OpenVpnConfigAssumption DEF CancelBegin, Calls, CancelOK
    <2>2. CancelOK'
      BY <1>1, <1>p, <2>1, BeginType DEF CancelBegin, CancelOK
    <2>3. EngineOK' /\ ReportOK'
      BY <1>1, TypeFrame DEF CancelBegin
    <2>4. ConnectOK'
      BY <1>1, <1>p DEF ConnectOK, CancelBegin, State, remote, expiring
    <2> QED BY <2>2, <2>3, <2>4 DEF TypeOK, ConnectOK, EngineOK, ReportOK, CancelOK
  <1>2. CASE Return(t)
    <2>1. canceledOnce' \in BOOLEAN
      BY <1>2, <1>p, Zenon DEF Return, CancelOK
    <2>2. released' \in BOOLEAN
      BY <1>2, <1>p, Zenon DEF Return, CancelOK
    <2>3. CancelOK'
      BY <1>2, <1>p, <2>1, <2>2, ReturnType DEF Return, CancelOK
    <2>4. EngineOK' /\ ReportOK'
      BY <1>2, TypeFrame DEF Return
    <2>5. ConnectOK'
      BY <1>2, <1>p DEF ConnectOK, Return, ConnectPlaces, remote, expiring
    <2> QED BY <2>3, <2>4, <2>5 DEF TypeOK, ConnectOK, EngineOK, ReportOK, CancelOK
  <1>3. CASE cancelStep(t) /\ ~Return(t)
    <2>1. PICK from, to \in CancelPlaces : Step(t, from, to)
      BY <1>3, CancelFrame
    <2>2. CancelOK'
      BY <1>p, <2>1, StepType DEF CancelOK
    <2>3. UNCHANGED <<pc, mState, expire, onConnects, reconnects, waited, hold>>
      BY <1>3, CancelFrame DEF reports
    <2>4. ReportOK'
      BY <1>3, <1>p, <2>3 DEF ReportOK, cancelStep, Disconnect, ClearRemote, CheckThread, SetReplace,
         Signal, forceStopOpenVpnProcess, ClearThread, InterruptExpire
    <2>5. interrupted' \in BOOLEAN
      BY <1>3, <1>p, Zenon DEF EngineOK, engine, cancelStep, Disconnect, ClearRemote, CheckThread,
         SetReplace, Signal, forceStopOpenVpnProcess, ClearThread, InterruptExpire
    <2>6. EngineOK'
      BY <1>3, <1>p, <2>3, <2>5 DEF EngineOK, engine, cancelStep, Disconnect, ClearRemote,
         CheckThread, SetReplace, Signal, stopVPN, forceStopOpenVpnProcess, ClearThread,
         InterruptExpire
    <2>7. crashed' \in BOOLEAN
      BY <1>3, <1>p, Zenon DEF ConnectOK, cancelStep, Disconnect, ClearRemote, CheckThread,
         SetReplace, Signal, forceStopOpenVpnProcess, ClearThread, InterruptExpire
    <2>8. /\ session' \in {"none", "dial", "auth", "open", "closed"}
          /\ mRemoteConnection' \in BOOLEAN /\ port' \in BOOLEAN
          /\ mExpireDateCheckThread' \in BOOLEAN /\ mOpenVPNThread' \in BOOLEAN
      BY <1>3, <1>p DEF ConnectOK, remote, expiring, cancelStep, Disconnect, ClearRemote,
         CheckThread, SetReplace, Signal, forceStopOpenVpnProcess, ClearThread, InterruptExpire
    <2>9. ConnectOK'
      BY <1>p, <2>3, <2>7, <2>8 DEF ConnectOK
    <2> QED BY <2>2, <2>4, <2>6, <2>9 DEF TypeOK, ConnectOK, EngineOK, ReportOK, CancelOK
  <1> QED BY <1>1, <1>2, <1>3

\* Every step keeps the types.
LEMMA TypeNext == TypeOK /\ [Next]_vars => TypeOK'
  <1>1. CASE UNCHANGED vars
    BY <1>1 DEF TypeOK, vars, remote, expiring, engine, reports, canceling
  <1> QED BY <1>1, TypeConnect, TypeOthers, TypeManagement, TypeCancel DEF Next

\* Every state of an OpenVpnConfig is well-typed: mState is one of the states the
\* service knows, whoever wrote it last.
THEOREM TypeCorrect == Spec => []TypeOK
  BY TypeInit, TypeNext, PTL DEF Spec

-------------------------------------------------------------------------------
(* What cancel() leaves behind.                                            *)

\* cancel() begins only when connect() is over, and one thread calls it.
InTurn == ~DuringConnect /\ \A t, u \in Cancelers : t = u

\* connect() has no step of its own left.
Finished == Ended \/ pc = "cancel"
Busy(t) == at[t].place # "idle"

\* The process has spoken to the management thread; it will not do so again.
Heard == isCanceled \/ management \in {"connected", "ended"}
Off == management = "ended" \/ (management = "connected" /\ process # "running")

\* What cancel() achieves, in the order of its steps: the session is closed, the
\* field is null, and whatever the process still says makes nobody report or ask.
Gone == session \in {"none", "closed"} /\ ~port
Quiet == ~(Listening /\ hold = "released") /\ (isCanceled \/ Off)
Cleared == Gone /\ ~mRemoteConnection /\ Quiet

\* The session follows connect(), and whoever has one has the field.
PlaceInv ==
    /\ session = "dial" => pc = "dial"
    /\ session = "auth" => pc = "auth"
    /\ pc \in {"dial", "auth", "protect", "expire", "profile", "forward"} => mRemoteConnection
    /\ session \in {"dial", "auth", "open"} => mRemoteConnection
    /\ port => mRemoteConnection

\* The process is heard only after connect() has returned, and released only then.
EngineInv ==
    /\ management # "none" => pc \in {"process", "write", "returned"}
    /\ management \in {"connected", "ended"} => pc = "returned"
    /\ hold # "waiting" => management \in {"connected", "ended"}

\* Who is in cancel(), and that mState is DISCONNECTED because of a cancel().
CallInv ==
    /\ \A t \in Cancelers : Busy(t) => Ended /\ at[t].late
    /\ Busy("connect") => pc = "cancel"
    /\ ~Ended => (pc = "cancel" /\ Busy("connect")) \/ mState # "DISCONNECTED"

\* How far cancel() is tells what it has achieved so far.
Closed == {"null", "stop", "replace", "signal", "force", "clear", "interrupt", "return"}
Nulled == {"stop", "replace", "signal", "force", "clear", "interrupt", "return"}
Signalled == {"force", "clear", "interrupt", "return"}
Progress(t) ==
    /\ Busy(t) => Heard
    /\ at[t].place \in Closed => Gone
    /\ at[t].place \in Nulled => ~mRemoteConnection
    /\ at[t].place \in Signalled => Quiet
ProgressInv == \A t \in Threads : Progress(t)

\* When nobody is in cancel() any more, all of it is achieved.
DoneInv ==
    /\ mState = "DISCONNECTED" => (\E t \in Threads : Busy(t)) \/ Cleared
    /\ canceledOnce => Ended /\ Cleared
    /\ released => canceledOnce

IInv == TypeOK /\ PlaceInv /\ EngineInv /\ CallInv /\ ProgressInv /\ DoneInv

-------------------------------------------------------------------------------
(* What holds from the end of connect() on.                                *)

\* The process, the session and the threads connect() has started, and any step
\* other than those of connect()
Environment == ExpireRun \/ SessionLost \/ ProcessConnects \/ ProcessStops \/ managementStep
Later == Environment \/ (\E t \in Threads : CancelBegin(t) \/ cancelStep(t)) \/ UNCHANGED vars

\* connect() steps only while it is under way.
LEMMA ConnectPlace == connect => ~Finished
  BY DEF connect, Start, connectSSHProxy, StartSession, Dial, Authenticate, Protect, fetchExpireDate,
     CheckProfile, ForwardPort, OpenManagement, StartProcess, WriteConfig, Finished, Ended

\* What the environment may change: not where connect() is, nor cancel().
LEMMA EnvironmentFrame ==
    ASSUME Environment
    PROVE  /\ UNCHANGED <<pc, at, cancels, canceledOnce, released, mRemoteConnection>>
           /\ session' = session \/ (session = "open" /\ session' = "closed")
           /\ port' = port \/ port' = FALSE
           /\ mState' = mState \/ (Listening /\ mState' \in {"CONNECTED", "DISCONNECTING", "RECONNECTING"})
  <1> USE DEF Environment, managementStep
  <1>1. UNCHANGED <<pc, at, cancels, canceledOnce, released, mRemoteConnection>>
    BY DEF ExpireRun, SessionLost, ProcessConnects, ProcessStops, handleHold, ResumeHold, sendTunFD,
       onOpenVpnConnected, onOpenVpnDisconnected, onOpenVpnReconnecting, remote, canceling
  <1>2. /\ session' = session \/ (session = "open" /\ session' = "closed")
        /\ port' = port \/ port' = FALSE
    BY DEF ExpireRun, SessionLost, ProcessConnects, ProcessStops, handleHold, ResumeHold, sendTunFD,
       onOpenVpnConnected, onOpenVpnDisconnected, onOpenVpnReconnecting, remote
  <1>3. mState' = mState \/ (Listening /\ mState' \in {"CONNECTED", "DISCONNECTING", "RECONNECTING"})
    BY DEF ExpireRun, SessionLost, ProcessConnects, ProcessStops, handleHold, ResumeHold, sendTunFD,
       onOpenVpnConnected, onOpenVpnDisconnected, onOpenVpnReconnecting, retry
  <1> QED BY <1>1, <1>2, <1>3

\* How a step after connect() may change what the engine is doing
LEMMA EngineLater ==
    ASSUME Later
    PROVE  /\ \/ UNCHANGED <<management, process>>
              \/ management = "waiting" /\ management' = "connected" /\ process' = process
                   /\ pc = "returned"
              \/ management' = "ended" /\ management = "connected"
              \/ process' = "dead" /\ management' = management /\ management # "connected"
           /\ hold' # "waiting" => hold # "waiting" \/ Listening
  <1>1. CASE Environment
    BY <1>1 DEF Environment, managementStep, ExpireRun, SessionLost, ProcessConnects, ProcessStops,
       handleHold, ResumeHold, sendTunFD, onOpenVpnConnected, onOpenVpnDisconnected,
       onOpenVpnReconnecting, retry, stopVPN, Listening, engine
  <1>2. ASSUME NEW t \in Threads, CancelBegin(t) \/ cancelStep(t)
        PROVE  /\ \/ UNCHANGED <<management, process>>
                  \/ management' = "ended" /\ management = "connected"
               /\ hold' = hold
    BY <1>2 DEF CancelBegin, cancelStep, Disconnect, ClearRemote, CheckThread, SetReplace, Signal,
       stopVPN, Listening, forceStopOpenVpnProcess, ClearThread, InterruptExpire, Return, engine
  <1>3. CASE UNCHANGED vars
    BY <1>3 DEF vars, engine
  <1> QED BY <1>1, <1>2, <1>3 DEF Later, Environment

\* How it may change the rest
LEMMA LaterFrame ==
    ASSUME CallInv, Later
    PROVE  /\ pc' = pc \/ (pc = "cancel" /\ pc' = "thrown")
           /\ mRemoteConnection' = mRemoteConnection \/ mRemoteConnection' = FALSE
           /\ session' = session \/ session' = "closed"
           /\ port' = port \/ port' = FALSE
           /\ mState' = mState \/ mState' \in {"DISCONNECTING", "DISCONNECTED"} \/ Listening
  <1>1. CASE Environment
    BY <1>1, EnvironmentFrame
  <1>2. ASSUME NEW t \in Threads, CancelBegin(t)
        PROVE  mState' = "DISCONNECTED" /\ UNCHANGED <<pc, mRemoteConnection, session, port>>
    BY <1>2 DEF CancelBegin, remote
  <1>3. ASSUME NEW t \in Threads, Return(t)
        PROVE  /\ pc' = pc \/ (pc = "cancel" /\ pc' = "thrown")
               /\ UNCHANGED <<mState, mRemoteConnection, session, port>>
    BY <1>3 DEF CallInv, Busy, Return, remote
  <1>4. ASSUME NEW t \in Threads, cancelStep(t), ~Return(t)
        PROVE  /\ UNCHANGED <<pc, mState>>
               /\ mRemoteConnection' = mRemoteConnection \/ mRemoteConnection' = FALSE
               /\ session' = session \/ session' = "closed"
               /\ port' = port \/ port' = FALSE
    <2>1. UNCHANGED <<pc, mState>>
      BY <1>4, CancelFrame
    <2> QED BY <1>4, <2>1 DEF cancelStep, Disconnect, ClearRemote, CheckThread, SetReplace, Signal,
               forceStopOpenVpnProcess, ClearThread, InterruptExpire, remote
  <1>5. CASE UNCHANGED vars
    BY <1>5 DEF vars, remote
  <1> QED BY <1>1, <1>2, <1>3, <1>4, <1>5 DEF Later, Environment

\* connect() stays over, the session closed and the field null.
LEMMA StayOver ==
    ASSUME TypeOK, CallInv, Later
    PROVE  /\ Ended => Ended'
           /\ Finished => Finished'
           /\ Gone => Gone'
           /\ ~mRemoteConnection => ~mRemoteConnection'
  <1>1. Ended => Ended'
    BY LaterFrame DEF Ended
  <1>2. Finished => Finished'
    BY LaterFrame DEF Finished, Ended
  <1>3. Gone => Gone'
    BY LaterFrame DEF Gone
  <1>4. ~mRemoteConnection => ~mRemoteConnection'
    BY LaterFrame
  <1> QED BY <1>1, <1>2, <1>3, <1>4

\* Heard stays: mState leaves the canceled ones only by a line of the process.
LEMMA StayHeard ==
    ASSUME TypeOK, CallInv, Later, Heard
    PROVE  Heard'
  <1>1. CASE management \in {"connected", "ended"}
    BY <1>1, EngineLater DEF Heard, TypeOK
  <1>2. CASE isCanceled
    <2>1. CASE mState' = mState \/ mState' \in {"DISCONNECTING", "DISCONNECTED"}
      BY <1>2, <2>1 DEF Heard, isCanceled
    <2>2. CASE Listening
      BY <1>1, <2>2 DEF Listening
    <2> QED BY <2>1, <2>2, LaterFrame
  <1> QED BY <1>1, <1>2 DEF Heard

\* Once cancel() has achieved everything, nothing undoes it: a process that
\* connects to the management socket now waits for a hold release for ever.
LEMMA StayCleared ==
    ASSUME TypeOK, EngineInv, CallInv, Later, Cleared
    PROVE  Cleared'
  <1>1. Gone' /\ ~mRemoteConnection'
    BY StayOver DEF Cleared
  <1>2. ~isConnected /\ ~(Listening /\ hold = "released") /\ (isCanceled \/ Off)
    BY DEF Cleared, Quiet, isConnected
  <1>3. hold' = "released" => hold = "released"
    <2>1. CASE Environment
      BY <1>2, <2>1 DEF Environment, managementStep, ExpireRun, SessionLost, ProcessConnects,
         ProcessStops, handleHold, ResumeHold, sendTunFD, onOpenVpnConnected,
         onOpenVpnDisconnected, onOpenVpnReconnecting, engine
    <2>2. ASSUME NEW t \in Threads, CancelBegin(t) \/ cancelStep(t) PROVE hold' = hold
      BY <2>2 DEF CancelBegin, cancelStep, Disconnect, ClearRemote, CheckThread, SetReplace, Signal,
         forceStopOpenVpnProcess, ClearThread, InterruptExpire, Return, engine
    <2>3. CASE UNCHANGED vars
      BY <2>3 DEF vars, engine
    <2> QED BY <2>1, <2>2, <2>3 DEF Later, Environment
  <1>4. ~(Listening' /\ hold' = "released")
    <2> SUFFICES ASSUME Listening', hold' = "released" PROVE FALSE
      OBVIOUS
    <2>1. hold = "released" /\ management \in {"connected", "ended"}
      BY <1>3 DEF EngineInv
    <2>2. management = "connected" /\ process = "running"
      BY <2>1, EngineLater DEF Listening
    <2> QED BY <1>2, <2>1, <2>2 DEF Listening
  <1>5. Listening => isCanceled
    BY <1>2 DEF Listening, Off
  <1>6. isCanceled' \/ Off'
    <2>1. CASE Off
      BY <2>1, EngineLater DEF Off
    <2>2. CASE isCanceled /\ ~Listening
      BY <2>2, LaterFrame DEF isCanceled
    <2>3. CASE isCanceled /\ Listening
      <3>1. CASE Environment
        BY <1>2, <2>3, <3>1 DEF Environment, managementStep, ExpireRun, SessionLost, ProcessConnects,
           ProcessStops, handleHold, ResumeHold, sendTunFD, onOpenVpnConnected,
           onOpenVpnDisconnected, onOpenVpnReconnecting, isCanceled, Off
      <3>2. ASSUME NEW t \in Threads, CancelBegin(t) \/ cancelStep(t) PROVE mState' \in {mState, "DISCONNECTED"}
        BY <3>2 DEF CancelBegin, cancelStep, Disconnect, ClearRemote, CheckThread, SetReplace, Signal,
           forceStopOpenVpnProcess, ClearThread, InterruptExpire, Return
      <3>3. CASE UNCHANGED vars
        BY <2>3, <3>3 DEF vars, isCanceled
      <3> QED BY <2>3, <3>1, <3>2, <3>3 DEF Later, Environment, isCanceled
    <2> QED BY <1>2, <2>1, <2>2, <2>3
  <1> QED BY <1>1, <1>4, <1>6 DEF Cleared, Quiet

-------------------------------------------------------------------------------
(* The invariant is inductive.                                             *)

\* A new object
LEMMA InvInit == Init => IInv
  <1> SUFFICES ASSUME Init PROVE IInv
    OBVIOUS
  <1>1. TypeOK
    BY TypeInit
  <1>2. "connect" \in Threads /\ \A t \in Threads : at[t].place = "idle"
    BY DEF Init, Threads
  <1>3. PlaceInv /\ EngineInv
    BY DEF Init, PlaceInv, EngineInv
  <1>4. CallInv
    BY <1>2 DEF Init, CallInv, Busy, Threads
  <1>5. ProgressInv
    BY <1>2 DEF ProgressInv, Progress, Busy, Closed, Nulled, Signalled
  <1>6. DoneInv
    BY DEF Init, DoneInv
  <1> QED BY <1>1, <1>3, <1>4, <1>5, <1>6 DEF IInv

\* connect() works alone: nobody is in cancel().
LEMMA InvConnect == ASSUME InTurn, IInv, connect PROVE IInv'
  <1>0. /\ "connect" \in Threads /\ ~Finished /\ ~Ended /\ pc # "cancel"
        /\ TypeOK /\ PlaceInv /\ EngineInv /\ CallInv
    BY ConnectPlace DEF Threads, IInv, Finished
  <1>1. UNCHANGED canceling /\ TypeOK'
    BY <1>0, TypeConnect DEF connect, Start, connectSSHProxy, StartSession, Dial, Authenticate, Protect,
       fetchExpireDate, CheckProfile, ForwardPort, OpenManagement, StartProcess, WriteConfig
  <1>2. \A t \in Threads : ~Busy(t) /\ ~Busy(t)'
    BY <1>0, <1>1 DEF CallInv, Threads, Busy, canceling
  <1>3. mState # "DISCONNECTED" /\ mState' # "DISCONNECTED"
    <2>1. mState # "DISCONNECTED"
      BY <1>0 DEF CallInv
    <2> QED BY <2>1 DEF FailConnect, connect, Start, connectSSHProxy, StartSession, Dial, Authenticate,
               Protect, fetchExpireDate, CheckProfile, ForwardPort, OpenManagement, StartProcess,
               WriteConfig
  <1>4. PlaceInv'
    BY <1>0 DEF PlaceInv, Ended, remote, FailConnect, connect, Start, connectSSHProxy, StartSession,
       Dial, Authenticate, Protect, fetchExpireDate, CheckProfile, ForwardPort, OpenManagement,
       StartProcess, WriteConfig
  <1>5. EngineInv'
    BY <1>0 DEF EngineInv, Ended, engine, FailConnect, connect, Start, connectSSHProxy, StartSession,
       Dial, Authenticate, Protect, fetchExpireDate, CheckProfile, ForwardPort, OpenManagement,
       StartProcess, WriteConfig
  <1>6. CallInv'
    BY <1>0, <1>2, <1>3 DEF CallInv, Threads
  <1>7. ProgressInv'
    BY <1>2 DEF ProgressInv, Progress, Busy, Closed, Nulled, Signalled
  <1>8. ~canceledOnce /\ ~released
    BY <1>0 DEF IInv, DoneInv
  <1>9. DoneInv'
    BY <1>1, <1>3, <1>8 DEF DoneInv, canceling
  <1> QED BY <1>1, <1>4, <1>5, <1>6, <1>7, <1>9 DEF IInv

\* After connect() the session and the engine go one way only.
LEMMA InvLater ==
    ASSUME IInv, Later
    PROVE  EngineInv' /\ (Gone \/ mRemoteConnection' = mRemoteConnection => PlaceInv')
  <1>0. TypeOK /\ PlaceInv /\ EngineInv /\ CallInv
    BY DEF IInv
  <1>1. EngineInv'
    <2>1. pc' = pc \/ (pc = "cancel" /\ pc' = "thrown")
      BY <1>0, LaterFrame
    <2>2. management' # "none" => pc' \in {"process", "write", "returned"}
      BY <1>0, <2>1, EngineLater DEF EngineInv
    <2>3. management' \in {"connected", "ended"} => pc' = "returned"
      BY <1>0, <2>1, EngineLater DEF EngineInv
    <2>4. hold' # "waiting" => management' \in {"connected", "ended"}
      <3>1. hold' # "waiting" => management \in {"connected", "ended"}
        BY <1>0, EngineLater DEF EngineInv, Listening
      <3>2. management \in {"connected", "ended"} => management' \in {"connected", "ended"}
        BY EngineLater
      <3> QED BY <3>1, <3>2
    <2> QED BY <2>2, <2>3, <2>4 DEF EngineInv
  <1>2. ASSUME Gone \/ mRemoteConnection' = mRemoteConnection PROVE PlaceInv'
    <2>1. /\ pc' = pc \/ (pc = "cancel" /\ pc' = "thrown")
          /\ session' = session \/ session' = "closed"
          /\ port' = port \/ port' = FALSE
      BY <1>0, LaterFrame
    <2>2. CASE mRemoteConnection' = mRemoteConnection
      BY <1>0, <2>1, <2>2 DEF PlaceInv
    <2>3. CASE Gone /\ pc \notin {"dial", "auth", "protect", "expire", "profile", "forward"}
      BY <1>0, <2>1, <2>3 DEF PlaceInv, Gone
    <2>4. CASE mRemoteConnection' # mRemoteConnection
      <3>1. Finished
        <4>1. PICK t \in Threads : ClearRemote(t)
          BY <2>4, EnvironmentFrame DEF Later, Environment, CancelBegin, cancelStep, Disconnect,
             CheckThread, SetReplace, Signal, forceStopOpenVpnProcess, ClearThread, InterruptExpire,
             Return, vars, remote
        <4>2. Busy(t)
          BY <4>1 DEF ClearRemote, Step, Busy
        <4> QED BY <1>0, <4>2 DEF CallInv, Threads, Finished
      <3> QED BY <1>2, <2>3, <2>4, <3>1 DEF Finished, Ended
    <2> QED BY <2>2, <2>4
  <1> QED BY <1>1, <1>2

\* A thread that is in cancel() and does not step keeps what it has achieved.
LEMMA StayProgress ==
    ASSUME IInv, Later, NEW t \in Threads, at'[t] = at[t]
    PROVE  Progress(t)'
  <1>0. TypeOK /\ EngineInv /\ CallInv /\ Progress(t)
    BY DEF IInv, ProgressInv
  <1>1. CASE ~Busy(t)
    BY <1>1 DEF Progress, Busy, Closed, Nulled, Signalled
  <1>2. CASE Busy(t)
    <2>1. Heard'
      BY <1>0, <1>2, StayHeard DEF Progress
    <2>2. at[t].place \in Closed => Gone'
      BY <1>0, StayOver DEF Progress
    <2>3. at[t].place \in Nulled => ~mRemoteConnection'
      BY <1>0, StayOver DEF Progress
    <2>4. at[t].place \in Signalled => Quiet'
      <3>1. at[t].place \in Signalled => Cleared
        BY <1>0 DEF Progress, Cleared, Closed, Nulled, Signalled
      <3> QED BY <1>0, <3>1, StayCleared DEF Cleared
    <2> QED BY <2>1, <2>2, <2>3, <2>4 DEF Progress
  <1> QED BY <1>1, <1>2

\* mState is DISCONNECTED from a cancel() on, and connect() is over by then.
LEMMA DisconnectedOver == ASSUME CallInv, mState = "DISCONNECTED" PROVE Finished
  BY DEF CallInv, Finished

\* The process, the session and the threads connect() has started
LEMMA InvEnvironment == ASSUME IInv, Environment \/ UNCHANGED vars PROVE IInv'
  <1>0. TypeOK /\ PlaceInv /\ EngineInv /\ CallInv /\ ProgressInv /\ DoneInv /\ Later
    BY DEF IInv, Later, Environment
  <1>1. UNCHANGED <<pc, at, cancels, canceledOnce, released, mRemoteConnection>>
    BY EnvironmentFrame DEF vars, remote, canceling
  <1>2. mState' = "DISCONNECTED" => mState = "DISCONNECTED"
    BY EnvironmentFrame DEF vars
  <1>3. TypeOK'
    BY <1>0, TypeNext, TypeOthers, TypeManagement DEF Environment
  <1>4. PlaceInv' /\ EngineInv'
    BY <1>0, <1>1, InvLater DEF IInv
  <1>5. CallInv'
    BY <1>0, <1>1, <1>2 DEF CallInv, Busy, Ended
  <1>6. ProgressInv'
    BY <1>0, <1>1, StayProgress DEF ProgressInv, IInv
  <1>7. DoneInv'
    <2>1. Cleared => Cleared'
      BY <1>0, StayCleared
    <2> QED BY <1>0, <1>1, <1>2, <2>1 DEF DoneInv, Busy, Ended
  <1> QED BY <1>3, <1>4, <1>5, <1>6, <1>7 DEF IInv

\* cancel() is called: it does nothing only if all is done already.
LEMMA InvBegin == ASSUME InTurn, IInv, NEW t \in Threads, CancelBegin(t) PROVE IInv'
  <1>0. TypeOK /\ PlaceInv /\ EngineInv /\ CallInv /\ ProgressInv /\ DoneInv /\ Later
    BY DEF IInv, Later
  <1>1. /\ at[t].place = "idle" /\ at'[t].late = Ended
        /\ at'[t].place = IF mState = "DISCONNECTED" THEN "return" ELSE "disconnect"
        /\ \A u \in Threads \ {t} : at'[u] = at[u]
    BY <1>0, BeginType
  <1>2. /\ UNCHANGED <<pc, canceledOnce, released, mRemoteConnection, session, port, management,
                       process, hold>>
        /\ mState' = "DISCONNECTED"
    BY DEF CancelBegin, remote, engine
  <1>3. (t = "connect" /\ pc = "cancel") \/ (t \in Cancelers /\ t # "connect" /\ Ended)
    BY DEF CancelBegin, Calls, InTurn, Threads
  <1>4. mState = "DISCONNECTED" => Cleared
    <2> SUFFICES ASSUME mState = "DISCONNECTED", NEW u \in Threads, Busy(u) PROVE FALSE
      BY <1>0 DEF DoneInv
    <2>1. u # t
      BY <1>1 DEF Busy
    <2>2. CASE t = "connect"
      BY <1>0, <1>1, <1>3, <2>2 DEF CallInv, Busy, Ended
    <2>3. CASE t \in Cancelers /\ t # "connect" /\ Ended
      <3>1. u = "connect"
        BY <2>1, <2>3 DEF InTurn, Threads
      <3> QED BY <1>0, <2>3, <3>1 DEF CallInv, Ended
    <2> QED BY <1>3, <2>2, <2>3
  <1>5. TypeOK'
    BY <1>0, TypeCancel
  <1>6. PlaceInv' /\ EngineInv'
    BY <1>0, <1>2, InvLater
  <1>7. Busy(t)'
    BY <1>1 DEF Busy
  <1>8. CallInv'
    <2>1. ASSUME NEW u \in Cancelers, Busy(u)' PROVE Ended' /\ at'[u].late
      <3>1. Ended' <=> Ended
        BY <1>2 DEF Ended
      <3>2. CASE u = t
        <4>1. Ended
          BY <1>3, <3>2, OpenVpnConfigAssumption
        <4>2. at'[t].late = TRUE
          BY <1>1, <4>1, Zenon
        <4> QED BY <3>1, <3>2, <4>1, <4>2
      <3>3. CASE u # t
        BY <1>0, <1>1, <2>1, <3>1, <3>3 DEF CallInv, Busy, Threads
      <3> QED BY <3>2, <3>3
    <2>2. Busy("connect")' => pc' = "cancel"
      BY <1>0, <1>1, <1>2, <1>3 DEF CallInv, Busy, Threads
    <2>3. ~Ended' => (pc' = "cancel" /\ Busy("connect")')
      BY <1>2, <1>3, <1>7 DEF Ended
    <2> QED BY <2>1, <2>2, <2>3 DEF CallInv
  <1>9. ProgressInv'
    <2> SUFFICES ASSUME NEW u \in Threads PROVE Progress(u)'
      BY DEF ProgressInv
    <2>1. CASE u # t
      BY <1>0, <1>1, <2>1, StayProgress
    <2>2. CASE u = t
      <3>1. Heard'
        BY <1>2 DEF Heard, isCanceled
      <3>2. CASE mState = "DISCONNECTED"
        <4>1. Cleared'
          BY <1>0, <1>4, <3>2, StayCleared
        <4> QED BY <3>1, <4>1 DEF Progress, Cleared
      <3>3. CASE mState # "DISCONNECTED"
        BY <1>1, <2>2, <3>1, <3>3 DEF Progress, Closed, Nulled, Signalled
      <3> QED BY <3>2, <3>3
    <2> QED BY <2>1, <2>2
  <1>10. DoneInv'
    <2>1. Cleared => Cleared'
      BY <1>0, StayCleared
    <2> QED BY <1>0, <1>2, <1>7, <2>1 DEF DoneInv, Ended
  <1> QED BY <1>5, <1>6, <1>8, <1>9, <1>10 DEF IInv

\* A step within cancel() achieves its part.
LEMMA InsideProgress ==
    ASSUME IInv, NEW t \in Threads, cancelStep(t), ~Return(t)
    PROVE  Progress(t)' /\ Busy(t) /\ Busy(t)' /\ (Gone \/ mRemoteConnection' = mRemoteConnection)
  <1>0. /\ TypeOK /\ PlaceInv /\ EngineInv /\ CallInv /\ Progress(t) /\ Later
    BY DEF IInv, ProgressInv, Later
  <1>1. PICK from \in CancelPlaces \ {"idle"}, to \in CancelPlaces \ {"idle"} : Step(t, from, to)
    BY CancelFrame
  <1>2. at[t].place = from /\ at'[t].place = to
    BY <1>0, <1>1, StepType
  <1>3. Busy(t) /\ Busy(t)' /\ Finished
    BY <1>0, <1>2 DEF Busy, CallInv, Threads, Finished
  <1>4. Heard /\ Heard'
    BY <1>0, <1>3, StayHeard DEF Progress
  <1>5. CASE Disconnect(t)
    <2>1. at'[t].place = "null"
      BY <1>0, <1>5, StepType DEF Disconnect, CancelPlaces
    <2>2. Gone'
      <3>1. session \notin {"dial", "auth"}
        BY <1>0, <1>3 DEF PlaceInv, Finished, Ended
      <3> QED BY <1>0, <1>5, <3>1 DEF Disconnect, Gone, PlaceInv, TypeOK
    <2>3. mRemoteConnection' = mRemoteConnection
      BY <1>5 DEF Disconnect
    <2> QED BY <1>3, <1>4, <2>1, <2>2, <2>3 DEF Progress, Nulled, Signalled
  <1>6. CASE ClearRemote(t)
    <2>1. at[t].place = "null" /\ at'[t].place = "stop"
      BY <1>0, <1>6, StepType DEF ClearRemote, CancelPlaces
    <2>2. Gone /\ Gone'
      BY <1>0, <2>1, StayOver DEF Progress, Closed
    <2>3. ~mRemoteConnection'
      BY <1>6 DEF ClearRemote
    <2> QED BY <1>3, <1>4, <2>1, <2>2, <2>3 DEF Progress, Signalled
  <1>7. CASE CheckThread(t) \/ SetReplace(t) \/ Signal(t)
    <2>1. /\ at[t].place \in {"stop", "replace", "signal"}
          /\ at'[t].place \in {"replace", "signal", "force"}
          /\ at'[t].place = "force" => management = "none" \/ Signal(t)
      <3>1. CASE CheckThread(t)
        <4>1. PICK p \in {"force", "replace", "signal"} :
                Step(t, "stop", p) /\ (p = "force" => management = "none")
          BY <3>1 DEF CheckThread
        <4> QED BY <1>0, <4>1, StepType DEF CancelPlaces
      <3>2. CASE SetReplace(t)
        BY <1>0, <3>2, StepType DEF SetReplace, CancelPlaces
      <3>3. CASE Signal(t)
        BY <1>0, <3>3, StepType DEF Signal, CancelPlaces
      <3> QED BY <1>7, <3>1, <3>2, <3>3
    <2>2. Gone /\ Gone' /\ ~mRemoteConnection'
      BY <1>0, <2>1, StayOver DEF Progress, Closed, Nulled
    <2>3. at'[t].place = "force" => Quiet'
      <3>1. CASE management = "none" /\ ~Signal(t)
        <4>1. management' = "none" /\ mState' = mState
          BY <1>7, <3>1 DEF CheckThread, SetReplace, engine
        <4> QED BY <1>4, <3>1, <4>1 DEF Quiet, Listening, Heard, isCanceled
      <3>2. CASE Signal(t) /\ Listening
        BY <3>2 DEF Signal, stopVPN, Quiet, Listening, Off
      <3>3. CASE Signal(t) /\ ~Listening
        <4>1. UNCHANGED <<management, process, hold, mState>>
          BY <3>3 DEF Signal, stopVPN
        <4> QED BY <1>4, <3>3, <4>1 DEF Quiet, Listening, Off, Heard, isCanceled
      <3> QED BY <2>1, <3>1, <3>2, <3>3
    <2> QED BY <1>3, <1>4, <2>1, <2>2, <2>3 DEF Progress, Signalled
  <1>8. CASE forceStopOpenVpnProcess(t) \/ ClearThread(t) \/ InterruptExpire(t)
    <2>1. at[t].place \in Signalled
      BY <1>8 DEF forceStopOpenVpnProcess, ClearThread, InterruptExpire, Step, Signalled
    <2>2. Cleared
      BY <1>0, <2>1 DEF Progress, Cleared, Closed, Nulled, Signalled
    <2>3. Cleared'
      BY <1>0, <2>2, StayCleared
    <2> QED BY <1>3, <1>4, <2>2, <2>3 DEF Progress, Cleared
  <1> QED BY <1>5, <1>6, <1>7, <1>8 DEF cancelStep

\* The steps within cancel()
LEMMA InvInside ==
    ASSUME IInv, NEW t \in Threads, cancelStep(t), ~Return(t)
    PROVE  IInv'
  <1>0. TypeOK /\ PlaceInv /\ EngineInv /\ CallInv /\ ProgressInv /\ DoneInv /\ Later
    BY DEF IInv, Later
  <1>1. PICK from \in CancelPlaces \ {"idle"}, to \in CancelPlaces \ {"idle"} : Step(t, from, to)
    BY CancelFrame
  <1>2. /\ at'[t].late = at[t].late /\ \A u \in Threads \ {t} : at'[u] = at[u]
        /\ UNCHANGED <<pc, mState, canceledOnce, released>>
    BY <1>0, <1>1, StepType, CancelFrame
  <1>3. Progress(t)' /\ Busy(t) /\ Busy(t)' /\ (Gone \/ mRemoteConnection' = mRemoteConnection)
    BY InsideProgress
  <1>4. TypeOK'
    BY <1>0, TypeCancel
  <1>5. PlaceInv' /\ EngineInv'
    BY <1>0, <1>3, InvLater
  <1>6. \A u \in Threads : Busy(u)' <=> Busy(u)
    BY <1>2, <1>3 DEF Busy
  <1>7. CallInv'
    BY <1>0, <1>2, <1>6 DEF CallInv, Ended, Threads
  <1>8. ProgressInv'
    BY <1>0, <1>2, <1>3, StayProgress DEF ProgressInv
  <1>9. DoneInv'
    <2>1. Cleared => Cleared'
      BY <1>0, StayCleared
    <2> QED BY <1>0, <1>2, <1>3, <2>1 DEF DoneInv, Ended
  <1> QED BY <1>4, <1>5, <1>7, <1>8, <1>9 DEF IInv

\* cancel() returns, and all is achieved.
LEMMA InvReturn == ASSUME IInv, NEW t \in Threads, Return(t) PROVE IInv'
  <1>0. TypeOK /\ PlaceInv /\ EngineInv /\ CallInv /\ ProgressInv /\ DoneInv /\ Later
    BY DEF IInv, Later, cancelStep
  <1>1. /\ at[t].place = "return" /\ at'[t].place = "idle"
        /\ \A u \in Threads \ {t} : at'[u] = at[u]
    BY <1>0, ReturnType
  <1>2. Cleared /\ Cleared'
    <2>1. Progress(t)
      BY <1>0 DEF ProgressInv
    <2>2. Cleared
      BY <1>1, <2>1 DEF Progress, Cleared, Closed, Nulled, Signalled
    <2> QED BY <1>0, <2>2, StayCleared
  <1>3. Busy(t) /\ ~Busy(t)' /\ \A u \in Threads \ {t} : Busy(u)' <=> Busy(u)
    BY <1>1 DEF Busy
  <1>4. Ended'
    <2>1. CASE t = "connect" /\ pc' = "thrown"
      BY <2>1 DEF Ended
    <2>2. CASE t # "connect" /\ pc' = pc
      BY <1>0, <1>3, <2>2 DEF CallInv, Threads, Ended
    <2> QED BY <2>1, <2>2 DEF Return
  <1>5. TypeOK'
    BY <1>0, TypeCancel DEF cancelStep
  <1>6. PlaceInv' /\ EngineInv'
    BY <1>0, <1>2, InvLater DEF Cleared
  <1>7. CallInv'
    <2>1. \A u \in Cancelers : Busy(u)' => at'[u].late
      BY <1>0, <1>1, <1>3 DEF CallInv, Threads
    <2>2. ~Busy("connect")'
      <3>1. CASE t = "connect"
        BY <1>3, <3>1
      <3>2. CASE t # "connect"
        <4>1. pc # "cancel" /\ "connect" \in Threads
          BY <1>0, <1>3, <3>2 DEF CallInv, Threads, Ended
        <4> QED BY <1>0, <1>3, <3>2, <4>1 DEF CallInv
      <3> QED BY <3>1, <3>2
    <2> QED BY <1>4, <2>1, <2>2 DEF CallInv
  <1>8. ProgressInv'
    <2>1. Progress(t)'
      BY <1>1 DEF Progress, Busy, Closed, Nulled, Signalled
    <2> QED BY <1>0, <1>1, <2>1, StayProgress DEF ProgressInv
  <1>9. DoneInv'
    <2>1. released' => canceledOnce'
      BY <1>0, Zenon DEF Return, DoneInv
    <2> QED BY <1>2, <1>4, <2>1 DEF DoneInv
  <1> QED BY <1>5, <1>6, <1>7, <1>8, <1>9 DEF IInv

\* Every step keeps the invariant.
LEMMA InvNext == InTurn /\ IInv /\ [Next]_vars => IInv'
  BY InvConnect, InvEnvironment, InvBegin, InvInside, InvReturn DEF Next, Environment

\* After cancel() onConnect() is not called again, whether it was before or not:
\* a line that says CONNECTED is not heard, or the process has not been released
\* to say it.
THEOREM NoConnectAfter == InTurn => (Spec => NoConnectAfterCancel)
  <1> SUFFICES ASSUME InTurn PROVE Spec => NoConnectAfterCancel
    OBVIOUS
  <1>1. IInv /\ [Next]_vars => IInv'
    BY InvNext
  <1>2. IInv /\ [Next]_vars => [canceledOnce => onConnects' = onConnects]_vars
    <2> SUFFICES ASSUME IInv, [Next]_vars, canceledOnce PROVE onConnects' = onConnects
      OBVIOUS
    <2>1. ~onOpenVpnConnected
      BY DEF IInv, DoneInv, Cleared, Quiet, onOpenVpnConnected
    <2>2. CASE connect
      BY <2>2 DEF connect, Start, connectSSHProxy, StartSession, Dial, Authenticate, Protect,
         fetchExpireDate, CheckProfile, ForwardPort, OpenManagement, StartProcess, WriteConfig, reports
    <2>3. CASE Environment
      BY <2>1, <2>3 DEF Environment, managementStep, ExpireRun, SessionLost, ProcessConnects,
         ProcessStops, handleHold, ResumeHold, sendTunFD, onOpenVpnDisconnected,
         onOpenVpnReconnecting, reports
    <2>4. ASSUME NEW t \in Threads, CancelBegin(t) \/ cancelStep(t) PROVE onConnects' = onConnects
      BY <2>4 DEF CancelBegin, cancelStep, Disconnect, ClearRemote, CheckThread, SetReplace, Signal,
         forceStopOpenVpnProcess, ClearThread, InterruptExpire, Return, reports
    <2>5. CASE UNCHANGED vars
      BY <2>5 DEF vars, reports
    <2> QED BY <2>2, <2>3, <2>4, <2>5 DEF Next, Environment
  <1> QED BY <1>1, <1>2, InvInit, PTL DEF Spec, NoConnectAfterCancel
===============================================================================
