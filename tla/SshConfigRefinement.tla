------------------------- MODULE SshConfigRefinement --------------------------
(***************************************************************************)
(* SSHConfig is a Config, for every chain of proxies and every set of      *)
(* threads that cancel: the specification SshConfig implements Config      *)
(* under the mapping of SshConfig!Abstract.  Every step of connect() and   *)
(* cancel(), and of the threads connect() starts, is matched by a step of  *)
(* Config; the invariants of SshConfigProofs say why the guards of that    *)
(* step hold.                                                              *)
(***************************************************************************)
EXTENDS SshConfigProofs

\* The names the mapping gives to what Config speaks of.
Phase == IF Ended THEN "ended" ELSE "connecting"
Resources == Nodes \cup {"tun", "process", "dnsgw"}
InCancel ==
    [t \in Cancelers |-> CASE at[t].place = "idle" -> "out"
                          [] at[t].place # "idle" /\ at[t].late -> "late"
                          [] OTHER -> "early"]

\* Where one thread is, as Config sees it.
LEMMA InCancelOf ==
  ASSUME TypeInv, NEW t \in Cancelers
  PROVE  /\ at[t].place = "idle" => InCancel[t] = "out"
         /\ at[t].place # "idle" /\ at[t].late => InCancel[t] = "late"
         /\ at[t].place # "idle" /\ ~at[t].late => InCancel[t] = "early"
  BY DEF InCancel

\* The object gives back, or keeps, when no part of it is taken.
LEMMA HeldShrinks ==
  ASSUME \A n \in Nodes : session'[n] \in {"dial", "auth", "open"} => session[n] \in {"dial", "auth", "open"},
         tun' => tun,
         process' \in {"running", "killed"} => process \in {"running", "killed"},
         dnsgw' \in {"starting", "bound"} => dnsgw \in {"starting", "bound"}
  PROVE  Held' \subseteq Held
  BY DEF Held

\* It takes, or keeps, when no part of it is given back.
LEMMA HeldGrows ==
  ASSUME \A n \in Nodes : session[n] \in {"dial", "auth", "open"} => session'[n] \in {"dial", "auth", "open"},
         tun => tun',
         process \in {"running", "killed"} => process' \in {"running", "killed"},
         dnsgw \in {"starting", "bound"} => dnsgw' \in {"starting", "bound"}
  PROVE  Held \subseteq Held' /\ Held' \subseteq Resources
  BY DEF Held, Resources

-------------------------------------------------------------------------------
(* The steps of Config, in the variables of SshConfig.                     *)

\* A step of connect() that takes something is Open.
LEMMA IsOpen ==
  ASSUME ~crashed, ~released, Held \subseteq Held', Held' \subseteq Resources,
         Phase' = Phase, InCancel' = InCancel,
         UNCHANGED <<canceledOnce, released, reconnects, crashed>>
  PROVE  Abstract!Next
  <1>1. Abstract!Open
    BY DEF Abstract!Open, Phase, Resources, InCancel
  <1> QED BY <1>1 DEF Abstract!Next

\* Giving back within connect() or cancel() is Close.
LEMMA IsClose ==
  ASSUME ~crashed, Held' \subseteq Held, Phase' = Phase, InCancel' = InCancel,
         reconnects' = reconnects \/ (~canceledOnce /\ reconnects' = reconnects + 1),
         UNCHANGED <<canceledOnce, released, crashed>>
  PROVE  Abstract!Next
  <1>1. Abstract!Close
    BY DEF Abstract!Close, Abstract!MayAsk, Phase, InCancel
  <1> QED BY <1>1 DEF Abstract!Next

\* connect() returns or throws: EndConnect.
LEMMA IsEndConnect ==
  ASSUME ~crashed, Held' \subseteq Held, ~Ended, Ended', InCancel' = InCancel,
         reconnects' = reconnects \/ (~canceledOnce /\ reconnects' = reconnects + 1),
         UNCHANGED <<canceledOnce, released, crashed>>
  PROVE  Abstract!Next
  <1>1. Phase = "connecting" /\ Phase' = "ended"
    BY DEF Phase
  <1>2. Abstract!EndConnect
    BY <1>1 DEF Abstract!EndConnect, Abstract!MayAsk, Phase, InCancel
  <1> QED BY <1>2 DEF Abstract!Next

\* An uncaught exception is Fail.
LEMMA IsFail == ~crashed /\ crashed' => Abstract!Next
  BY DEF Abstract!Next, Abstract!Fail

\* A thread enters cancel(): CancelBegin.
LEMMA IsCancelBegin ==
  ASSUME TypeInv, ~crashed, NEW t \in Cancelers, InCancel[t] = "out",
         InCancel' = [InCancel EXCEPT ![t] = IF Ended THEN "late" ELSE "early"],
         Held' \subseteq Held, Phase' = Phase,
         UNCHANGED <<canceledOnce, released, reconnects, crashed>>
  PROVE  Abstract!Next
  <1>1. InCancel' = [InCancel EXCEPT ![t] = IF Phase = "ended" THEN "late" ELSE "early"]
    BY DEF Phase
  <1>2. Abstract!CancelBegin(t)
    BY <1>1 DEF Abstract!CancelBegin, Phase, InCancel
  <1> QED BY <1>2 DEF Abstract!Next

\* It leaves cancel(): CancelEnd.
LEMMA IsCancelEnd ==
  ASSUME TypeInv, ~crashed, NEW t \in Cancelers, InCancel[t] # "out",
         InCancel' = [InCancel EXCEPT ![t] = "out"],
         canceledOnce' = TRUE, released' = (released \/ InCancel[t] = "late"),
         Held' \subseteq Held, released' => Held' = {}, Phase' = Phase,
         UNCHANGED <<reconnects, crashed>>
  PROVE  Abstract!Next
  <1>2. Abstract!CancelEnd(t)
    BY DEF Abstract!CancelEnd, Phase, InCancel
  <1> QED BY <1>2 DEF Abstract!Next

-------------------------------------------------------------------------------
(* What the steps of SshConfig are for Config.                             *)

\* The inductive invariant of the refinement.
IInv == TypeInv /\ FlagInv /\ SessionInv /\ ReleaseInv

\* disconnect() gives a session back, and asks for a reconnect at most once.
LEMMA DisconnectHeld ==
  ASSUME TypeInv, NEW n \in Nodes, NEW c, disconnect(n, c)
  PROVE  /\ \A m \in Nodes : session'[m] \in {session[m], "closed"}
         /\ reconnects' \in {reconnects, reconnects + 1}
  BY DisconnectCloses DEF disconnect, TypeInv, TypeOK

\* A step of connect() that throws gives back at most a session.
LEMMA SimThrow ==
  ASSUME IInv, [Next]_vars, ~crashed, connect, pc' = "thrown"
  PROVE  Abstract!Next
  <1>1. UNCHANGED <<tunnel, dnsgw, canceling, crashed>>
    BY DEF connect, StartSession, Dial, Authenticate, ForwardHop, StartSocks, ForwardUdpgw,
       startDnsGw, fetchExpireDate, openTun, runTun2socks, Report, Goto, Throw, forwarders
  <1>2. \A m \in Nodes : session'[m] \in {session[m], "closed"}
    BY NodeType, DisconnectHeld
    DEF IInv, TypeInv, TypeOK, connect, StartSession, Dial, Authenticate, ForwardHop, StartSocks,
        ForwardUdpgw, startDnsGw, fetchExpireDate, openTun, runTun2socks, Report, Goto, Throw
  <1>3. reconnects' \in {reconnects, reconnects + 1}
    BY NodeType, DisconnectHeld
    DEF IInv, TypeInv, TypeOK, connect, StartSession, Dial, Authenticate, ForwardHop, StartSocks,
        ForwardUdpgw, startDnsGw, fetchExpireDate, openTun, runTun2socks, Report, Goto, Throw
  <1>4. reconnects' = reconnects \/ (~canceledOnce /\ reconnects' = reconnects + 1)
    BY <1>3, QuietStep DEF IInv
  <1>5. Held' \subseteq Held
    BY <1>1, <1>2, HeldShrinks DEF tunnel
  <1>6. ~Ended /\ Ended'
    BY DEF Ended, connect, StartSession, Dial, Authenticate, ForwardHop, StartSocks, ForwardUdpgw,
       startDnsGw, fetchExpireDate, openTun, runTun2socks, Report, Goto, Throw
  <1>7. InCancel' = InCancel /\ UNCHANGED <<canceledOnce, released, crashed>>
    BY <1>1 DEF InCancel, canceling
  <1> QED BY <1>4, <1>5, <1>6, <1>7, IsEndConnect

\* Every other step of connect() takes what it opens, closes a tun device that
\* Android has refused, ends the app, or is the return.
LEMMA SimConnect ==
  ASSUME IInv, [Next]_vars, ~crashed, connect
  PROVE  Abstract!Next
  <1>n. node \in Nodes /\ TypeOK
    BY NodeType DEF IInv, TypeInv
  <1>c. InCancel' = InCancel /\ UNCHANGED <<canceledOnce, released>>
    BY DEF InCancel, canceling, connect, StartSession, Dial, Authenticate, ForwardHop, StartSocks,
       ForwardUdpgw, startDnsGw, fetchExpireDate, openTun, runTun2socks, Report
  <1>r. ~Ended /\ ~released
    BY DEF IInv, ReleaseInv, Ended, connect, StartSession, Dial, Authenticate, ForwardHop,
       StartSocks, ForwardUdpgw, startDnsGw, fetchExpireDate, openTun, runTun2socks, Report
  <1>1. CASE pc' = "thrown"
    BY <1>1, SimThrow
  <1>2. CASE crashed'
    BY <1>2, IsFail
  <1>3. CASE Report
    <2>1. Held' \subseteq Held
      BY <1>3, HeldShrinks DEF Report, tunnel, forwarders
    <2>2. Ended' /\ UNCHANGED <<reconnects, crashed>>
      BY <1>3 DEF Report, Goto, Ended
    <2> QED BY <1>c, <1>r, <2>1, <2>2, IsEndConnect
  <1>4. CASE openTun /\ ~tun'
    <2>1. Held' \subseteq Held
      BY <1>4, HeldShrinks DEF openTun, forwarders
    <2>2. Phase' = Phase /\ UNCHANGED <<reconnects, crashed>>
      BY <1>4 DEF openTun, Goto, Ended, Phase
    <2> QED BY <1>c, <2>1, <2>2, IsClose
  <1>5. CASE ~(pc' = "thrown" \/ crashed' \/ Report \/ (openTun /\ ~tun'))
    <2>1. Phase' = Phase
      BY <1>5, <1>r DEF Phase, Ended, connect, StartSession, Dial, Authenticate, ForwardHop, StartSocks,
         ForwardUdpgw, startDnsGw, fetchExpireDate, openTun, runTun2socks, Report, Goto, Throw
    <2>2. UNCHANGED reconnects
      BY <1>5 DEF connect, StartSession, Dial, Authenticate, ForwardHop, StartSocks,
         ForwardUdpgw, startDnsGw, fetchExpireDate, openTun, runTun2socks, Report, Goto, Throw
    <2>3. \A m \in Nodes : session[m] \in {"dial", "auth", "open"} => session'[m] \in {"dial", "auth", "open"}
      BY <1>5, <1>n DEF TypeOK, connect, StartSession, Dial, Authenticate, ForwardHop, StartSocks,
         ForwardUdpgw, startDnsGw, fetchExpireDate, openTun, runTun2socks, Report, Goto, Throw
    <2>4. tun => tun'
      BY <1>5 DEF connect, StartSession, Dial, Authenticate, ForwardHop, StartSocks,
         ForwardUdpgw, startDnsGw, fetchExpireDate, openTun, runTun2socks, Report, tunnel
    <2>5. process' = process \/ process' = "running"
      BY <1>5 DEF connect, StartSession, Dial, Authenticate, ForwardHop, StartSocks,
         ForwardUdpgw, startDnsGw, fetchExpireDate, openTun, runTun2socks, Report, tunnel
    <2>6. dnsgw' = dnsgw \/ dnsgw' = "starting"
      BY <1>5 DEF connect, StartSession, Dial, Authenticate, ForwardHop, StartSocks,
         ForwardUdpgw, startDnsGw, fetchExpireDate, openTun, runTun2socks, Report, forwarders
    <2>7. Held \subseteq Held' /\ Held' \subseteq Resources
      BY <2>3, <2>4, <2>5, <2>6, HeldGrows
    <2>8. crashed' = crashed
      <3>1. crashed' \in BOOLEAN
        BY TypeConnect DEF IInv, TypeInv, TypeOK
      <3> QED BY <1>5, <1>n, <3>1, Zenon DEF TypeOK
    <2> QED BY <1>c, <1>r, <2>1, <2>2, <2>7, <2>8, IsOpen
  <1> QED BY <1>1, <1>2, <1>3, <1>4, <1>5

\* The threads connect() has started, and a lost session, only give back.
LEMMA SimOthers ==
  ASSUME IInv, [Next]_vars, ~crashed,
         \/ DnsgwRun \/ DynamicRun \/ ExpireRun \/ ProcessEnds
         \/ \E n \in Nodes : SessionLost(n)
  PROVE  Abstract!Next
  <1>1. UNCHANGED <<pc, at, canceledOnce, released, crashed, tun>>
    BY DEF DnsgwRun, DynamicRun, ExpireRun, ProcessEnds, SessionLost, connecting, canceling, tunnel
  <1>2. /\ \A m \in Nodes : session'[m] \in {session[m], "closed"}
        /\ reconnects' \in {reconnects, reconnects + 1}
    BY DisconnectHeld DEF IInv, DnsgwRun, DynamicRun, ExpireRun, ProcessEnds, SessionLost
  <1>3. /\ process' = process \/ process' = "dead"
        /\ dnsgw' = dnsgw \/ dnsgw = "starting"
    BY DEF DnsgwRun, DynamicRun, ExpireRun, ProcessEnds, SessionLost, tunnel, forwarders
  <1>4. Held' \subseteq Held
    BY <1>1, <1>2, <1>3, HeldShrinks
  <1>5. reconnects' = reconnects \/ (~canceledOnce /\ reconnects' = reconnects + 1)
    BY <1>2, QuietStep DEF IInv
  <1>6. Phase' = Phase /\ InCancel' = InCancel
    BY <1>1 DEF Phase, Ended, InCancel
  <1> QED BY <1>1, <1>4, <1>5, <1>6, IsClose

\* A step within cancel() moves its thread from one place inside to another.
LEMMA InCancelStep ==
  ASSUME TypeInv, NEW t \in Cancelers, NEW from, NEW to \in CancelPlaces, Step(t, from, to),
         from # "idle", to # "idle"
  PROVE  InCancel' = InCancel /\ Phase' = Phase
  <1>1. /\ at'[t].place = to /\ at'[t].late = at[t].late
        /\ \A u \in Cancelers \ {t} : at'[u] = at[u]
        /\ at[t].place # "idle" /\ pc' = pc
    BY StepType DEF Step
  <1>2. \A u \in Cancelers : InCancel'[u] = InCancel[u]
    <2> TAKE u \in Cancelers
    <2>1. CASE u = t
      BY <1>1, <2>1 DEF InCancel
    <2>2. CASE u # t
      BY <1>1, <2>2 DEF InCancel
    <2> QED BY <2>1, <2>2
  <1>3. InCancel = [u \in Cancelers |-> InCancel[u]] /\ InCancel' = [u \in Cancelers |-> InCancel'[u]]
    BY DEF InCancel
  <1> QED BY <1>1, <1>2, <1>3 DEF Phase, Ended

\* Such a step only gives back, or ends the app.
LEMMA SimInside ==
  ASSUME IInv, [Next]_vars, ~crashed, ~crashed', NEW t \in Cancelers,
         \/ Join(t) \/ CheckFd(t) \/ CloseFd(t) \/ DisconnectRemote(t)
         \/ CancelHop(t, "jumper", "proxy") \/ CancelHop(t, "proxy", "dnsgw")
  PROVE  Abstract!Next
  <1>t. TypeInv /\ "main" \in Nodes /\ Hops \subseteq Nodes
    BY DEF IInv, Nodes
  <1>1. PICK from, to \in CancelPlaces : Step(t, from, to) /\ from # "idle" /\ to # "idle"
    BY DEF Join, CheckFd, CloseFd, DisconnectRemote, CancelHop, CancelPlaces
  <1>2. InCancel' = InCancel /\ Phase' = Phase
    BY <1>1, <1>t, InCancelStep
  <1>3. UNCHANGED <<canceledOnce, released, dnsgw, process>> /\ (tun' => tun)
    BY DEF Join, CheckFd, CloseFd, DisconnectRemote, CancelHop, forwarders, tunnel
  <1>4. /\ \A m \in Nodes : session'[m] \in {session[m], "closed"}
        /\ reconnects' \in {reconnects, reconnects + 1}
    BY <1>t, DisconnectHeld DEF Join, CheckFd, CloseFd, DisconnectRemote, CancelHop
  <1>5. reconnects' = reconnects \/ (~canceledOnce /\ reconnects' = reconnects + 1)
    BY <1>4, QuietStep DEF IInv
  <1>6. Held' \subseteq Held
    BY <1>3, <1>4, HeldShrinks
  <1>7. crashed' = crashed
    <2>1. crashed \in BOOLEAN /\ crashed' \in BOOLEAN
      BY <1>t, TypeNext DEF TypeInv, TypeOK
    <2> QED BY <2>1
  <1> QED BY <1>2, <1>3, <1>5, <1>6, <1>7, IsClose

\* The thread that enters cancel() is late exactly if connect() has ended.
LEMMA SimBegin ==
  ASSUME IInv, ~crashed, NEW t \in Cancelers, CancelBegin(t)
  PROVE  Abstract!Next
  <1>t. TypeInv
    BY DEF IInv
  <1>1. /\ at[t].place = "idle"
        /\ at'[t].place = "join" /\ (at'[t].late <=> Ended)
        /\ \A u \in Cancelers \ {t} : at'[u] = at[u]
    BY <1>t DEF CancelBegin, TypeInv, TypeOK
  <1>2. InCancel[t] = "out"
    BY <1>1, <1>t, InCancelOf
  <1>3. InCancel'[t] = IF Ended THEN "late" ELSE "early"
    <2>1. CASE Ended
      BY <1>1, <2>1 DEF InCancel
    <2>2. CASE ~Ended
      BY <1>1, <2>2 DEF InCancel
    <2> QED BY <2>1, <2>2
  <1>4. \A u \in Cancelers \ {t} : InCancel'[u] = InCancel[u]
    BY <1>1 DEF InCancel
  <1>5. InCancel' = [InCancel EXCEPT ![t] = IF Ended THEN "late" ELSE "early"]
    <2>1. /\ InCancel = [u \in Cancelers |-> InCancel[u]]
          /\ InCancel' = [u \in Cancelers |-> InCancel'[u]]
      BY DEF InCancel
    <2> QED BY <1>3, <1>4, <2>1
  <1>6. Held' \subseteq Held
    BY HeldShrinks DEF CancelBegin, forwarders
  <1>7. Phase' = Phase /\ UNCHANGED <<canceledOnce, released, reconnects, crashed>>
    BY DEF CancelBegin, Phase, Ended, connecting
  <1> QED BY <1>t, <1>2, <1>5, <1>6, <1>7, IsCancelBegin

\* The last step of cancel().
LEMMA SimEnd ==
  ASSUME IInv, [Next]_vars, ~crashed, ~crashed', NEW t \in Cancelers, NEW from \in {"dnsgw", "interrupt"},
         Step(t, from, "idle"), Return(t),
         UNCHANGED <<session, tunnel, reconnects>>, dnsgw' \in {dnsgw, "ended"}
  PROVE  Abstract!Next
  <1>t. TypeInv
    BY DEF IInv
  <1>1. /\ at[t].place = from
        /\ at'[t].place = "idle"
        /\ \A u \in Cancelers \ {t} : at'[u] = at[u]
        /\ pc' = pc
    BY <1>t, StepType DEF Step, CancelPlaces
  <1>2. InCancel[t] # "out" /\ (InCancel[t] = "late" <=> at[t].late)
    <2>1. at[t].late \in BOOLEAN
      BY <1>t DEF TypeInv, TypeOK
    <2> QED BY <1>1, <1>t, <2>1, InCancelOf
  <1>3. InCancel'[t] = "out" /\ \A u \in Cancelers \ {t} : InCancel'[u] = InCancel[u]
    BY <1>1 DEF InCancel
  <1>4. InCancel' = [InCancel EXCEPT ![t] = "out"]
    <2>1. /\ InCancel = [u \in Cancelers |-> InCancel[u]]
          /\ InCancel' = [u \in Cancelers |-> InCancel'[u]]
      BY DEF InCancel
    <2> QED BY <1>3, <2>1
  <1>5. canceledOnce' = TRUE /\ released' = (released \/ InCancel[t] = "late")
    <2>1. released \in BOOLEAN /\ at[t].late \in BOOLEAN
      BY <1>t DEF TypeInv, TypeOK
    <2> QED BY <1>2, <2>1, Zenon DEF Return
  <1>6. Held' \subseteq Held
    BY HeldShrinks DEF tunnel
  <1>7. released' => Held' = {}
    <2>1. ReleaseInv'
      BY ReleaseNext DEF IInv
    <2> QED BY <2>1 DEF ReleaseInv, LastCancelReleases, Held
  <1>8. Phase' = Phase
    BY <1>1 DEF Phase, Ended
  <1>9. crashed' = crashed
    <2>1. crashed \in BOOLEAN /\ crashed' \in BOOLEAN
      BY <1>t, TypeNext DEF TypeInv, TypeOK
    <2> QED BY <2>1
  <1> QED BY <1>t, <1>2, <1>4, <1>5, <1>6, <1>7, <1>8, <1>9, IsCancelEnd

\* So every step of cancel() is a step of Config.
LEMMA SimCancel ==
  ASSUME IInv, [Next]_vars, ~crashed, NEW t \in Cancelers, CancelBegin(t) \/ cancelStep(t)
  PROVE  Abstract!Next
  <1>1. CASE crashed'
    BY <1>1, IsFail
  <1>2. CASE ~crashed' /\ CancelBegin(t)
    BY <1>2, SimBegin
  <1>3. CASE ~crashed' /\ CheckDnsgw(t)
    <2>1. CASE mDnsgwThread
      <3>1. InCancel' = InCancel /\ Phase' = Phase
        BY <1>3, <2>1, InCancelStep DEF CheckDnsgw, IInv, CancelPlaces
      <3>2. Held' \subseteq Held
        BY <1>3, HeldShrinks DEF CheckDnsgw, tunnel, forwarders
      <3>3. UNCHANGED <<canceledOnce, released, reconnects, crashed>>
        BY <1>3, <2>1 DEF CheckDnsgw
      <3> QED BY <3>1, <3>2, <3>3, IsClose
    <2>2. CASE ~mDnsgwThread
      BY <1>3, <2>2, SimEnd DEF CheckDnsgw, forwarders
    <2> QED BY <2>1, <2>2
  <1>4. CASE ~crashed' /\ InterruptDnsgw(t)
    BY <1>4, SimEnd DEF InterruptDnsgw
  <1>5. CASE ~crashed' /\ ~CancelBegin(t) /\ ~CheckDnsgw(t) /\ ~InterruptDnsgw(t)
    BY <1>5, SimInside DEF cancelStep
  <1> QED BY <1>1, <1>2, <1>3, <1>4, <1>5

\* A stuttering step changes nothing that Config speaks of.
LEMMA SimStutter == UNCHANGED vars => UNCHANGED Abstract!vars
  BY DEF vars, connecting, forwarders, tunnel, canceling, Abstract!vars, Held, Ended

\* An SSHConfig that has just been made is a Config that has just been made.
LEMMA SimInit == Init => Abstract!Init
  <1> SUFFICES ASSUME Init PROVE Abstract!Init
    OBVIOUS
  <1>1. ~Ended
    BY DEF Init, Ended
  <1>2. Held = {}
    BY DEF Init, Held
  <1>3. InCancel = [t \in Cancelers |-> "out"]
    BY DEF Init, InCancel
  <1> QED BY <1>1, <1>2, <1>3 DEF Init, Abstract!Init, InCancel

\* Every step of an SSHConfig is one of Config, or changes nothing that it sees.
LEMMA Simulation == IInv /\ [Next]_vars => [Abstract!Next]_Abstract!vars
  BY SimStutter, SimConnect, SimOthers, SimCancel DEF Next

\* connect() and cancel() of SSHConfig keep the promises the service relies on,
\* for every chain of proxies and however the threads that cancel, connect() and
\* the threads it has started overlap: after a cancel() that began when connect()
\* was over nothing is held or taken again, and after any cancel() nobody asks
\* the service for a reconnect.
THEOREM SshConfigIsConfig == Spec => ImplementsConfig
  <1>1. Init => IInv
    BY TypeInit, FlagInit, ReleaseInit DEF IInv
  <1>2. IInv /\ [Next]_vars => IInv'
    BY TypeNext, FlagNext, SessionNext, ReleaseNext DEF IInv
  <1> QED BY <1>1, <1>2, SimInit, Simulation, PTL DEF Spec, ImplementsConfig, Abstract!Spec
===============================================================================
