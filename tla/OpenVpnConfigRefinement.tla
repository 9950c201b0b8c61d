----------------------- MODULE OpenVpnConfigRefinement ------------------------
(***************************************************************************)
(* OpenVpnConfig is a Config, when cancel() begins after connect() is over *)
(* and by one thread at a time: the specification OpenVpnConfig implements *)
(* Config under the mapping of OpenVpnConfig!Abstract.  The invariant of   *)
(* OpenVpnConfigProofs says why the guards of the matching steps hold.     *)
(***************************************************************************)
EXTENDS OpenVpnConfigProofs

\* The names the mapping gives to what Config speaks of.
Phase == IF Ended THEN "ended" ELSE "connecting"
InCancel ==
    [t \in Cancelers |-> CASE at[t].place = "idle" -> "out"
                          [] at[t].place # "idle" /\ at[t].late -> "late"
                          [] OTHER -> "early"]

\* Nothing that Config sees has changed, but for what is held and the asks.
Same == Phase' = Phase /\ InCancel' = InCancel /\ UNCHANGED <<canceledOnce, released, crashed>>

\* The service is asked only before cancel() has returned.
Asks == reconnects' = reconnects \/ (~canceledOnce /\ reconnects' = reconnects + 1)

\* What is held is given back, or kept, when neither part is taken.
LEMMA HeldShrinks ==
    ASSUME session' \in {"dial", "auth", "open"} => session \in {"dial", "auth", "open"}, port' => port
    PROVE  Held' \subseteq Held
  BY DEF Held

\* It is taken, or kept, when neither part is given back.
LEMMA HeldGrows ==
    ASSUME session \in {"dial", "auth", "open"} => session' \in {"dial", "auth", "open"}, port => port'
    PROVE  Held \subseteq Held' /\ Held' \subseteq {"session", "port"}
  BY DEF Held

-------------------------------------------------------------------------------
(* The steps of Config, in the variables of OpenVpnConfig.                 *)

\* A step of connect() that takes something is Open.
LEMMA IsOpen ==
    ASSUME ~crashed, ~released, Held \subseteq Held', Held' \subseteq {"session", "port"}, Same,
           UNCHANGED reconnects
    PROVE  Abstract!Next
  <1>1. Abstract!Open
    BY DEF Abstract!Open, Same, Phase, InCancel
  <1> QED BY <1>1 DEF Abstract!Next

\* A step that gives back, or changes nothing Config sees, is Close.
LEMMA IsClose == ASSUME ~crashed, Held' \subseteq Held, Same, Asks PROVE Abstract!Next
  <1>1. Abstract!Close
    BY DEF Abstract!Close, Abstract!MayAsk, Same, Asks, Phase, InCancel
  <1> QED BY <1>1 DEF Abstract!Next

\* connect() returns or throws: EndConnect.
LEMMA IsEndConnect ==
    ASSUME ~crashed, Held' \subseteq Held, ~Ended, Ended', InCancel' = InCancel,
           UNCHANGED <<canceledOnce, released, reconnects, crashed>>
    PROVE  Abstract!Next
  <1>1. Phase = "connecting" /\ Phase' = "ended"
    BY DEF Phase
  <1>2. Abstract!EndConnect
    BY <1>1 DEF Abstract!EndConnect, Abstract!MayAsk, Phase, InCancel
  <1> QED BY <1>2 DEF Abstract!Next

\* An uncaught exception is Fail.
LEMMA IsFail == ~crashed /\ crashed' => Abstract!Next
  BY DEF Abstract!Next, Abstract!Fail

\* A thread of the service enters cancel(): CancelBegin.
LEMMA IsCancelBegin ==
    ASSUME ~crashed, NEW t \in Cancelers, InCancel[t] = "out",
           InCancel' = [InCancel EXCEPT ![t] = IF Ended THEN "late" ELSE "early"],
           Held' \subseteq Held, Phase' = Phase,
           UNCHANGED <<canceledOnce, released, reconnects, crashed>>
    PROVE  Abstract!Next
  <1>1. InCancel' = [InCancel EXCEPT ![t] = IF Phase = "ended" THEN "late" ELSE "early"]
    BY DEF Phase
  <1>2. Abstract!CancelBegin(t)
    BY <1>1 DEF Abstract!CancelBegin, Phase, InCancel
  <1> QED BY <1>2 DEF Abstract!Next

\* It leaves cancel(): CancelEnd.
LEMMA IsCancelEnd ==
    ASSUME ~crashed, NEW t \in Cancelers, InCancel[t] # "out",
           InCancel' = [InCancel EXCEPT ![t] = "out"],
           canceledOnce' = TRUE, released' = (released \/ InCancel[t] = "late"),
           Held' \subseteq Held, released' => Held' = {}, Phase' = Phase,
           UNCHANGED <<reconnects, crashed>>
    PROVE  Abstract!Next
  <1>1. Abstract!CancelEnd(t)
    BY DEF Abstract!CancelEnd, Phase, InCancel
  <1> QED BY <1>1 DEF Abstract!Next

-------------------------------------------------------------------------------
(* What the steps of OpenVpnConfig are for Config.                         *)

\* An exception that is not thrown leaves the app alone.
LEMMA NotCrashed == ASSUME IInv, [Next]_vars, ~crashed, ~crashed' PROVE crashed' = crashed
  <1>1. crashed \in BOOLEAN /\ crashed' \in BOOLEAN
    BY TypeNext DEF IInv, TypeOK
  <1> QED BY <1>1

\* A step of connect() takes the session or the port, gives the session back
\* when it fails, or is the end.
LEMMA SimConnect ==
    ASSUME IInv, [Next]_vars, ~crashed, ~crashed', connect
    PROVE  Abstract!Next
  <1>1. UNCHANGED <<canceling, reports>>
    BY DEF connect, Start, connectSSHProxy, StartSession, Dial, Authenticate, Protect,
       fetchExpireDate, CheckProfile, ForwardPort, OpenManagement, StartProcess, WriteConfig
  <1>2. /\ InCancel' = InCancel /\ crashed' = crashed
        /\ UNCHANGED <<canceledOnce, released, reconnects>>
    BY <1>1, NotCrashed DEF canceling, reports, InCancel
  <1>3. ~Ended /\ ~released
    BY ConnectPlace DEF Finished, IInv, DoneInv
  <1>4. CASE Ended'
    <2>1. UNCHANGED <<session, port>>
      BY <1>4 DEF Ended, FailConnect, connect, Start, connectSSHProxy, StartSession, Dial, Authenticate,
         Protect, fetchExpireDate, CheckProfile, ForwardPort, OpenManagement, StartProcess,
         WriteConfig, remote
    <2>2. Held' \subseteq Held
      BY <2>1, HeldShrinks
    <2> QED BY <1>2, <1>3, <1>4, <2>2, IsEndConnect
  <1>5. CASE ~Ended' /\ session' # session /\ session' = "closed"
    <2>1. port' = port
      BY <1>5 DEF Ended, connect, Start, connectSSHProxy, StartSession, Dial, Authenticate,
         Protect, fetchExpireDate, CheckProfile, ForwardPort, OpenManagement, StartProcess,
         WriteConfig, remote
    <2>2. Held' \subseteq Held
      BY <1>5, <2>1, HeldShrinks
    <2>3. Same /\ Asks
      BY <1>2, <1>3, <1>5 DEF Same, Asks, Phase
    <2> QED BY <2>2, <2>3, IsClose
  <1>6. CASE ~Ended' /\ (session' = session \/ session' # "closed")
    <2>1. session' = session \/ session' \in {"dial", "auth", "open"}
      BY <1>6 DEF connect, Start, connectSSHProxy, StartSession, Dial, Authenticate, Protect,
         fetchExpireDate, CheckProfile, ForwardPort, OpenManagement, StartProcess, WriteConfig, remote
    <2>2. port' = port \/ port' = TRUE
      BY DEF connect, Start, connectSSHProxy, StartSession, Dial, Authenticate, Protect,
         fetchExpireDate, CheckProfile, ForwardPort, OpenManagement, StartProcess, WriteConfig, remote
    <2>3. Held \subseteq Held' /\ Held' \subseteq {"session", "port"}
      BY <2>1, <2>2, HeldGrows
    <2>4. Same
      BY <1>2, <1>3, <1>6 DEF Same, Phase
    <2> QED BY <1>2, <1>3, <2>3, <2>4, IsOpen
  <1> QED BY <1>4, <1>5, <1>6

\* The process and the threads take nothing, and ask only before cancel() has
\* returned: after it, a line of the process finds mState canceled.
LEMMA SimEnvironment ==
    ASSUME IInv, [Next]_vars, ~crashed, ~crashed', Environment
    PROVE  Abstract!Next
  <1>1. /\ UNCHANGED <<pc, at, canceledOnce, released>> /\ crashed' = crashed
        /\ session' = session \/ session' = "closed"
        /\ port' = port \/ port' = FALSE
    BY EnvironmentFrame, NotCrashed
  <1>2. Held' \subseteq Held
    BY <1>1, HeldShrinks
  <1>3. Same
    BY <1>1 DEF Same, Phase, Ended, InCancel
  <1>4. reconnects' = reconnects \/ reconnects' = reconnects + 1
    BY DEF Environment, managementStep, ExpireRun, SessionLost, ProcessConnects, ProcessStops,
       handleHold, ResumeHold, sendTunFD, onOpenVpnConnected, onOpenVpnDisconnected,
       onOpenVpnReconnecting, retry, reports
  <1>5. canceledOnce => reconnects' = reconnects
    <2> SUFFICES ASSUME canceledOnce PROVE reconnects' = reconnects
      OBVIOUS
    <2>1. ~(Listening /\ hold = "released") /\ (isCanceled \/ Off)
      BY DEF IInv, DoneInv, Cleared, Quiet
    <2>2. Listening => isCanceled
      BY <2>1 DEF Listening, Off
    <2> QED BY <2>1, <2>2 DEF Environment, managementStep, ExpireRun, SessionLost, ProcessConnects,
               ProcessStops, handleHold, ResumeHold, sendTunFD, onOpenVpnConnected,
               onOpenVpnDisconnected, onOpenVpnReconnecting, reports
  <1>6. Asks
    BY <1>4, <1>5 DEF Asks
  <1> QED BY <1>2, <1>3, <1>6, IsClose

\* The thread that enters cancel() is late exactly if connect() has ended; the
\* call connect() makes itself is not seen.
LEMMA SimBegin ==
    ASSUME IInv, [Next]_vars, ~crashed, ~crashed', NEW t \in Threads, CancelBegin(t)
    PROVE  Abstract!Next
  <1>1. /\ at[t].place = "idle" /\ at'[t].late = Ended /\ at'[t].place # "idle"
        /\ \A u \in Threads \ {t} : at'[u] = at[u]
    BY BeginType DEF IInv
  <1>2. Held' \subseteq Held
    BY HeldShrinks DEF CancelBegin, remote
  <1>3. Phase' = Phase /\ UNCHANGED <<canceledOnce, released, reconnects>> /\ crashed' = crashed
    BY NotCrashed DEF CancelBegin, Phase, Ended, reports
  <1>4. \A u \in Cancelers \ {t} : InCancel'[u] = InCancel[u]
    BY <1>1 DEF InCancel, Threads
  <1>5. /\ InCancel = [u \in Cancelers |-> InCancel[u]]
        /\ InCancel' = [u \in Cancelers |-> InCancel'[u]]
    BY DEF InCancel
  <1>6. CASE t \in Cancelers
    <2>1. InCancel[t] = "out"
      BY <1>1, <1>6 DEF InCancel
    <2>2. InCancel'[t] = IF Ended THEN "late" ELSE "early"
      <3>1. CASE Ended
        BY <1>1, <1>6, <3>1 DEF InCancel
      <3>2. CASE ~Ended
        BY <1>1, <1>6, <3>2 DEF InCancel
      <3> QED BY <3>1, <3>2
    <2>3. InCancel' = [InCancel EXCEPT ![t] = IF Ended THEN "late" ELSE "early"]
      BY <1>4, <1>5, <2>2
    <2> QED BY <1>2, <1>3, <1>6, <2>1, <2>3, IsCancelBegin
  <1>7. CASE t \notin Cancelers
    <2>1. InCancel' = InCancel
      BY <1>4, <1>5, <1>7
    <2> QED BY <1>2, <1>3, <2>1, IsClose DEF Same, Asks
  <1> QED BY <1>6, <1>7

\* A step within cancel() gives the session and the port back, or nothing.
LEMMA SimInside ==
    ASSUME IInv, [Next]_vars, ~crashed, ~crashed', NEW t \in Threads, cancelStep(t), ~Return(t)
    PROVE  Abstract!Next
  <1>0. TypeOK /\ CallInv /\ Later
    BY DEF IInv, Later
  <1>1. PICK from \in CancelPlaces \ {"idle"}, to \in CancelPlaces \ {"idle"} : Step(t, from, to)
    BY CancelFrame
  <1>2. /\ at[t].place # "idle" /\ at'[t].place # "idle" /\ at'[t].late = at[t].late
        /\ \A u \in Threads \ {t} : at'[u] = at[u]
    BY <1>0, <1>1, StepType
  <1>3. UNCHANGED <<pc, canceledOnce, released, reconnects>> /\ crashed' = crashed
    BY CancelFrame, NotCrashed DEF reports
  <1>4. Held' \subseteq Held
    <2>1. (session' = session \/ session' = "closed") /\ (port' = port \/ port' = FALSE)
      BY <1>0, LaterFrame
    <2> QED BY <2>1, HeldShrinks
  <1>5. InCancel' = InCancel
    <2>1. \A u \in Cancelers : InCancel'[u] = InCancel[u]
      <3> TAKE u \in Cancelers
      <3>1. CASE u = t
        BY <1>2, <3>1 DEF InCancel
      <3>2. CASE u # t
        BY <1>2, <3>2 DEF InCancel, Threads
      <3> QED BY <3>1, <3>2
    <2>2. /\ InCancel = [u \in Cancelers |-> InCancel[u]]
          /\ InCancel' = [u \in Cancelers |-> InCancel'[u]]
      BY DEF InCancel
    <2> QED BY <2>1, <2>2
  <1>6. Same /\ Asks
    BY <1>3, <1>5 DEF Same, Asks, Phase, Ended
  <1> QED BY <1>4, <1>6, IsClose

\* cancel() returns to the service with nothing held, or to connect(), which throws.
LEMMA SimReturn ==
    ASSUME IInv, [Next]_vars, ~crashed, ~crashed', NEW t \in Threads, Return(t)
    PROVE  Abstract!Next
  <1>0. TypeOK /\ CallInv /\ Progress(t)
    BY DEF IInv, ProgressInv
  <1>1. /\ at[t].place = "return" /\ at'[t].place = "idle"
        /\ \A u \in Threads \ {t} : at'[u] = at[u]
    BY <1>0, ReturnType
  <1>2. UNCHANGED <<session, port, reconnects>> /\ crashed' = crashed
    BY NotCrashed DEF Return, remote, reports
  <1>3. Held = {} /\ Held' = {}
    BY <1>0, <1>1, <1>2 DEF Progress, Closed, Gone, Held
  <1>4. \A u \in Cancelers \ {t} : InCancel'[u] = InCancel[u]
    BY <1>1 DEF InCancel, Threads
  <1>5. /\ InCancel = [u \in Cancelers |-> InCancel[u]]
        /\ InCancel' = [u \in Cancelers |-> InCancel'[u]]
    BY DEF InCancel
  <1>6. CASE t \in Cancelers
    <2>1. t # "connect" /\ at[t].late = TRUE
      BY <1>0, <1>1, <1>6, OpenVpnConfigAssumption DEF CallInv, Busy, TypeOK, Threads
    <2>2. InCancel[t] = "late" /\ InCancel'[t] = "out"
      BY <1>1, <1>6, <2>1 DEF InCancel
    <2>3. InCancel' = [InCancel EXCEPT ![t] = "out"]
      BY <1>4, <1>5, <2>2
    <2>4. Phase' = Phase
      BY <2>1 DEF Return, Phase, Ended
    <2>5. canceledOnce' = TRUE /\ released' = TRUE
      BY <2>1, Zenon DEF Return
    <2>6. released' = (released \/ InCancel[t] = "late")
      BY <2>2, <2>5
    <2> QED BY <1>2, <1>3, <1>6, <2>2, <2>3, <2>4, <2>5, <2>6, IsCancelEnd
  <1>7. CASE t = "connect" /\ t \notin Cancelers
    <2>1. InCancel' = InCancel
      BY <1>4, <1>5, <1>7
    <2>2. ~Ended /\ Ended' /\ UNCHANGED <<canceledOnce, released>>
      BY <1>0, <1>1, <1>7 DEF CallInv, Busy, Return, Ended
    <2> QED BY <1>2, <1>3, <2>1, <2>2, IsEndConnect
  <1> QED BY <1>6, <1>7 DEF Threads

\* A stuttering step changes nothing that Config speaks of.
LEMMA SimStutter == UNCHANGED vars => UNCHANGED Abstract!vars
  BY DEF vars, remote, reports, canceling, Abstract!vars, Held, Ended

\* A new OpenVpnConfig is a new Config.
LEMMA SimInit == Init => Abstract!Init
  <1> SUFFICES ASSUME Init PROVE Abstract!Init
    OBVIOUS
  <1>1. ~Ended
    BY DEF Init, Ended
  <1>2. Held = {}
    BY DEF Init, Held
  <1>3. InCancel = [t \in Cancelers |-> "out"]
    BY DEF Init, InCancel, Threads
  <1> QED BY <1>1, <1>2, <1>3 DEF Init, Abstract!Init, InCancel

\* Every step is one of Config, or changes nothing that it sees.
LEMMA Simulation == IInv /\ [Next]_vars => [Abstract!Next]_Abstract!vars
  BY SimStutter, IsFail, SimConnect, SimEnvironment, SimBegin, SimInside, SimReturn
  DEF Next, Environment

\* connect() and cancel() of OpenVpnConfig keep the promises the service relies
\* on when cancel() is called once connect() is over and by one thread at a time:
\* when it returns the session and the port are given back for good, and no line
\* of a process that outlives it makes the object ask for a reconnect.
THEOREM OpenVpnConfigIsConfig == InTurn => (Spec => ImplementsConfig)
  <1> SUFFICES ASSUME InTurn PROVE Spec => ImplementsConfig
    OBVIOUS
  <1>1. IInv /\ [Next]_vars => IInv'
    BY InvNext
  <1> QED BY <1>1, InvInit, SimInit, Simulation, PTL DEF Spec, ImplementsConfig, Abstract!Spec
===============================================================================
