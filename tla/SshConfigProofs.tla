--------------------------- MODULE SshConfigProofs ----------------------------
(***************************************************************************)
(* Proofs about SshConfig, for every chain of proxies, every set of        *)
(* threads that cancel, and with cancel() and lost sessions at any point   *)
(* of connect().                                                           *)
(***************************************************************************)
EXTENDS SshConfig, TLAPS

\* The nodes of the chain are the two proxies and the main server.
LEMMA ChainFacts ==
    /\ Hops \subseteq {"proxy", "jumper"}
    /\ Nodes \subseteq {"proxy", "jumper", "main"}
    /\ Len(Chain) \in Nat
    /\ \A h \in 1..(Len(Chain) + 1) :
        (IF h <= Len(Chain) THEN Chain[h] ELSE "main") \in Nodes
  <1>1. CASE Chain = <<>>
    BY <1>1 DEF Hops, Nodes
  <1>2. CASE Chain = <<"jumper">>
    BY <1>2 DEF Hops, Nodes
  <1>3. CASE Chain = <<"proxy">>
    BY <1>3 DEF Hops, Nodes
  <1>4. CASE Chain = <<"proxy", "jumper">>
    BY <1>4 DEF Hops, Nodes
  <1> QED BY <1>1, <1>2, <1>3, <1>4, ChainAssumption

\* connect() works on a node of the chain.
LEMMA NodeType == TypeOK => node \in Nodes
  BY ChainFacts DEF TypeOK, node

\* What Session.disconnect() does to the state it may change.
LEMMA DisconnectType ==
  ASSUME TypeOK, NEW n \in Nodes, NEW c, disconnect(n, c)
  PROVE  /\ session' \in [Nodes -> {"none", "dial", "auth", "open", "closed"}]
         /\ owner' \in [Ports -> Nodes \cup {NoThread}]
         /\ reconnects' \in Nat
  BY DEF TypeOK, disconnect

-------------------------------------------------------------------------------
(* Type correctness.                                                       *)

\* Only the nodes before the main server forward the hop port.
TypeInv == TypeOK /\ (pc = "hop" => hop <= Len(Chain))

\* Before connect() the type invariant holds.
LEMMA TypeInit == Init => TypeInv
  <1> SUFFICES ASSUME Init PROVE TypeInv
    OBVIOUS
  <1> USE DEF Init
  <1>1. session \in [Nodes -> {"none", "dial", "auth", "open", "closed"}]
    OBVIOUS
  <1>2. owner \in [Ports -> Nodes \cup {NoThread}]
    OBVIOUS
  <1>3. at \in [Cancelers -> [place : CancelPlaces, late : BOOLEAN]]
    BY DEF CancelPlaces
  <1>4. hop \in 1..(Len(Chain) + 1) /\ cancels \in 0..MaxCancels /\ reconnects \in Nat
    BY ChainFacts, SshConfigAssumption
  <1> QED BY <1>1, <1>2, <1>3, <1>4 DEF TypeInv, TypeOK, ConnectPlaces

\* Every step of connect() preserves it.
LEMMA TypeConnect == TypeInv /\ connect => TypeInv'
  <1> SUFFICES ASSUME TypeInv, connect PROVE TypeInv'
    OBVIOUS
  <1>n. node \in Nodes
    BY NodeType DEF TypeInv
  <1> USE DEF TypeInv, TypeOK, connecting, forwarders, tunnel, canceling, Goto, Throw, Bind,
              ConnectPlaces
  <1>1. CASE StartSession
    BY <1>1, <1>n DEF StartSession
  <1>2. CASE Dial
    BY <1>2, <1>n DEF Dial
  <1>3. CASE Authenticate
    <2>1. CASE Throw /\ disconnect(node, mCanceled)
      BY <1>3, <2>1, <1>n, DisconnectType DEF Authenticate
    <2>2. CASE ~(Throw /\ disconnect(node, mCanceled))
      <3>1. pc' = "hop" => hop <= Len(Chain)
        BY <1>3, <2>2 DEF Authenticate, node
      <3> QED BY <1>3, <2>2, <3>1, <1>n DEF Authenticate
    <2> QED BY <2>1, <2>2
  <1>4. CASE ForwardHop
    BY <1>4, <1>n, ChainFacts DEF ForwardHop
  <1>5. CASE StartSocks
    BY <1>5, <1>n DEF StartSocks
  <1>6. CASE ForwardUdpgw
    BY <1>6, <1>n DEF ForwardUdpgw
  <1>7. CASE startDnsGw
    <2>1. mDnsgwThread' \in BOOLEAN
      BY <1>7, Zenon DEF startDnsGw
    <2> QED BY <1>7, <2>1, <1>n DEF startDnsGw
  <1>8. CASE fetchExpireDate
    <2>1. expire' \in BOOLEAN
      BY <1>8, Zenon DEF fetchExpireDate
    <2> QED BY <1>8, <2>1, <1>n DEF fetchExpireDate
  <1>9. CASE openTun
    BY <1>9 DEF openTun
  <1>10. CASE runTun2socks
    <2>1. crashed' \in BOOLEAN
      BY <1>10, Zenon DEF runTun2socks
    <2> QED BY <1>10, <2>1 DEF runTun2socks
  <1>11. CASE Report
    BY <1>11 DEF Report
  <1> QED
    BY <1>1, <1>2, <1>3, <1>4, <1>5, <1>6, <1>7, <1>8, <1>9, <1>10, <1>11 DEF connect

\* So do the threads connect() has started and a session that is lost ...
LEMMA TypeOthers ==
  ASSUME TypeInv,
         \/ DnsgwRun \/ DynamicRun \/ ExpireRun \/ ProcessEnds
         \/ \E n \in Nodes : SessionLost(n)
  PROVE  TypeInv'
  <1> USE DEF TypeInv, TypeOK, connecting, forwarders, tunnel, canceling
  <1>1. CASE DnsgwRun
    BY <1>1 DEF DnsgwRun
  <1>2. CASE DynamicRun
    BY <1>2 DEF DynamicRun
  <1>3. CASE ExpireRun
    <2>1. expire' \in BOOLEAN
      BY <1>3, Zenon DEF ExpireRun
    <2>2. owner' \in [Ports -> Nodes \cup {NoThread}]
      BY <1>3 DEF ExpireRun
    <2> QED BY <1>3, <2>1, <2>2 DEF ExpireRun
  <1>4. CASE ProcessEnds
    BY <1>4 DEF ProcessEnds
  <1>5. ASSUME NEW n \in Nodes, SessionLost(n) PROVE TypeInv'
    BY <1>5, DisconnectType DEF SessionLost
  <1> QED BY <1>1, <1>2, <1>3, <1>4, <1>5

\* A step of cancel() moves its thread and leaves connect() alone.
LEMMA StepType ==
  ASSUME TypeInv, NEW t \in Cancelers, NEW from, NEW to \in CancelPlaces, Step(t, from, to)
  PROVE  /\ at' \in [Cancelers -> [place : CancelPlaces, late : BOOLEAN]]
         /\ at'[t].place = to /\ at'[t].late = at[t].late
         /\ \A u \in Cancelers \ {t} : at'[u] = at[u]
         /\ UNCHANGED <<pc, hop, cancels>>
  BY DEF TypeInv, TypeOK, Step, connecting

\* ... and every step of cancel().
LEMMA TypeCancel ==
  ASSUME TypeInv, NEW t \in Cancelers, CancelBegin(t) \/ cancelStep(t)
  PROVE  TypeInv'
  <1> USE DEF CancelPlaces
  <1> USE SshConfigAssumption, ChainFacts
  <1>1. CASE CancelBegin(t)
    <2>1. Ended \in BOOLEAN
      BY DEF Ended
    <2>2. at' \in [Cancelers -> [place : CancelPlaces, late : BOOLEAN]]
      BY <1>1, <2>1 DEF CancelBegin, TypeInv, TypeOK
    <2> QED BY <1>1, <2>2 DEF CancelBegin, TypeInv, TypeOK, connecting, forwarders, Nodes
  <1>2. CASE Join(t)
    BY <1>2, StepType DEF Join, TypeInv, TypeOK, forwarders, tunnel
  <1>3. CASE CheckFd(t)
    BY <1>3, StepType DEF CheckFd, TypeInv, TypeOK, forwarders, tunnel
  <1>4. CASE CloseFd(t)
    <2>1. crashed' \in BOOLEAN /\ tun' \in BOOLEAN
      BY <1>4, Zenon DEF CloseFd
    <2> QED BY <1>4, <2>1, StepType DEF CloseFd, TypeInv, TypeOK, forwarders
  <1>5. CASE DisconnectRemote(t)
    <2>1. "main" \in Nodes
      BY DEF Nodes
    <2> QED BY <1>5, <2>1, StepType, DisconnectType DEF DisconnectRemote, TypeInv, TypeOK, tunnel
  <1>6. ASSUME NEW from, NEW to \in CancelPlaces, CancelHop(t, from, to) PROVE TypeInv'
    <2>1. CASE from \in Hops
      <3>1. from \in Nodes
        BY <2>1 DEF Nodes
      <3> QED BY <1>6, <2>1, <3>1, StepType, DisconnectType
              DEF CancelHop, TypeInv, TypeOK, forwarders, tunnel
    <2>2. CASE from \notin Hops
      <3>1. mCanceled' \subseteq Nodes
        BY <1>6, <2>2 DEF CancelHop, TypeInv, TypeOK
      <3>2. UNCHANGED <<session, owner, reconnects>>
        BY <1>6, <2>2 DEF CancelHop
      <3> QED BY <1>6, <3>1, <3>2, StepType DEF CancelHop, TypeInv, TypeOK, forwarders, tunnel
    <2> QED BY <2>1, <2>2
  <1>7. CASE CheckDnsgw(t)
    <2>1. canceledOnce' \in BOOLEAN /\ released' \in BOOLEAN
      BY <1>7, Zenon DEF CheckDnsgw, Return, TypeInv, TypeOK
    <2>2. PICK to \in CancelPlaces : Step(t, "dnsgw", to)
      BY <1>7 DEF CheckDnsgw
    <2> QED BY <1>7, <2>1, <2>2, StepType DEF CheckDnsgw, TypeInv, TypeOK, forwarders, tunnel
  <1>8. CASE InterruptDnsgw(t)
    <2>1. canceledOnce' \in BOOLEAN /\ released' \in BOOLEAN
      BY <1>8, Zenon DEF InterruptDnsgw, Return, TypeInv, TypeOK
    <2>2. CASE mDnsgwThread /\ dnsgw = "bound"
      <3>1. dnsgw' = "ended" /\ mDnsgwThread' = FALSE /\ crashed' \in BOOLEAN
        BY <1>8, <2>2, Zenon DEF InterruptDnsgw
      <3> QED BY <1>8, <2>1, <3>1, StepType DEF InterruptDnsgw, TypeInv, TypeOK, tunnel
    <2>3. CASE ~(mDnsgwThread /\ dnsgw = "bound")
      <3>1. crashed' = TRUE /\ UNCHANGED <<dnsgw, mDnsgwThread>>
        BY <1>8, <2>3, Zenon DEF InterruptDnsgw
      <3> QED BY <1>8, <2>1, <3>1, StepType DEF InterruptDnsgw, TypeInv, TypeOK, tunnel
    <2> QED BY <2>2, <2>3
  <1> QED BY <1>1, <1>2, <1>3, <1>4, <1>5, <1>6, <1>7, <1>8 DEF cancelStep

\* So every step does.
LEMMA TypeNext == TypeInv /\ [Next]_vars => TypeInv'
  <1>1. TypeInv /\ UNCHANGED vars => TypeInv'
    BY DEF TypeInv, TypeOK, vars, connecting, forwarders, tunnel, canceling
  <1> QED BY <1>1, TypeConnect, TypeOthers, TypeCancel DEF Next

\* Every variable keeps its type, in particular connect() never leaves the chain
\* of proxies it was given.
THEOREM TypeCorrect == Spec => []TypeOK
  <1>1. TypeInv => TypeOK
    BY DEF TypeInv
  <1> QED BY <1>1, TypeInit, TypeNext, PTL DEF Spec
-------------------------------------------------------------------------------
(* NoReconnectAfterCancel: a thread in cancel() has set mCanceled of the    *)
(* nodes it has passed, and nothing resets it.                              *)

FlagInv ==
    /\ \A t \in Cancelers :
        /\ at[t].place # "idle" => "main" \in mCanceled
        /\ at[t].place \in {"proxy", "dnsgw", "interrupt"} => {"jumper"} \cap Hops \subseteq mCanceled
        /\ at[t].place \in {"dnsgw", "interrupt"} => {"proxy"} \cap Hops \subseteq mCanceled
    /\ canceledOnce => mCanceled = Nodes

\* No canceler has come far before the first step.
LEMMA FlagInit == Init => FlagInv
  BY DEF Init, FlagInv

\* A step that leaves the cancelers alone cannot disturb it.
LEMMA FlagFrame ==
  ASSUME FlagInv, UNCHANGED <<at, mCanceled, canceledOnce>>
  PROVE  FlagInv'
  BY DEF FlagInv

\* A step of cancel() keeps, for every canceler, the flags it has set so far.
LEMMA FlagCancel ==
  ASSUME TypeInv, FlagInv, NEW t \in Cancelers, CancelBegin(t) \/ cancelStep(t)
  PROVE  FlagInv'
  <1> USE ChainFacts DEF CancelPlaces
  <1>1. CASE CancelBegin(t)
    BY <1>1 DEF CancelBegin, FlagInv, TypeInv, TypeOK, Nodes
  <1>2. CASE Join(t)
    BY <1>2, StepType DEF Join, FlagInv, Step
  <1>3. CASE CheckFd(t)
    BY <1>3, StepType DEF CheckFd, FlagInv, Step
  <1>4. CASE CloseFd(t)
    BY <1>4, StepType DEF CloseFd, FlagInv, Step
  <1>5. CASE DisconnectRemote(t)
    BY <1>5, StepType DEF DisconnectRemote, FlagInv, Step
  <1>6. CASE CancelHop(t, "jumper", "proxy")
    BY <1>6, StepType DEF CancelHop, FlagInv, Step, TypeInv, TypeOK, Nodes
  <1>7. CASE CancelHop(t, "proxy", "dnsgw")
    BY <1>7, StepType DEF CancelHop, FlagInv, Step, TypeInv, TypeOK, Nodes
  <1>8. ASSUME at[t].place \in {"dnsgw", "interrupt"} PROVE mCanceled = Nodes
    BY <1>8 DEF FlagInv, TypeInv, TypeOK, Nodes
  <1>9. CASE CheckDnsgw(t)
    <2>1. mCanceled = Nodes
      BY <1>8, <1>9 DEF CheckDnsgw, Step
    <2>2. PICK to \in {"interrupt", "idle"} : Step(t, "dnsgw", to)
      BY <1>9 DEF CheckDnsgw
    <2> QED BY <1>9, <2>1, <2>2, StepType DEF CheckDnsgw, FlagInv, Nodes
  <1>10. CASE InterruptDnsgw(t)
    <2>1. mCanceled = Nodes
      BY <1>8, <1>10 DEF InterruptDnsgw, Step
    <2> QED BY <1>10, <2>1, StepType DEF InterruptDnsgw, FlagInv, Nodes
  <1> QED BY <1>1, <1>2, <1>3, <1>4, <1>5, <1>6, <1>7, <1>9, <1>10 DEF cancelStep

\* Every step does: mCanceled is never reset.
LEMMA FlagNext == TypeInv /\ FlagInv /\ [Next]_vars => FlagInv'
  <1> SUFFICES ASSUME TypeInv, FlagInv, [Next]_vars PROVE FlagInv'
    OBVIOUS
  <1>1. ASSUME connect PROVE UNCHANGED <<at, mCanceled, canceledOnce>>
    BY <1>1 DEF connect, canceling, StartSession, Dial, Authenticate, ForwardHop, StartSocks,
       ForwardUdpgw, startDnsGw, fetchExpireDate, openTun, runTun2socks, Report
  <1>2. ASSUME \/ DnsgwRun \/ DynamicRun \/ ExpireRun \/ ProcessEnds
               \/ \E n \in Nodes : SessionLost(n)
        PROVE  UNCHANGED <<at, mCanceled, canceledOnce>>
    BY <1>2 DEF canceling, DnsgwRun, DynamicRun, ExpireRun, ProcessEnds, SessionLost
  <1>3. ASSUME UNCHANGED vars PROVE UNCHANGED <<at, mCanceled, canceledOnce>>
    BY <1>3 DEF vars, canceling
  <1> QED BY <1>1, <1>2, <1>3, FlagFrame, FlagCancel DEF Next

\* disconnect() of a canceled node asks for nothing.
LEMMA DisconnectQuiet ==
  ASSUME TypeOK, NEW n \in Nodes, NEW c, Nodes \subseteq c, disconnect(n, c)
  PROVE  reconnects' = reconnects
  BY DEF disconnect, TypeOK

\* With all flags set, the listener of no session asks for a reconnect.
LEMMA QuietStep == TypeInv /\ FlagInv /\ [Next]_vars => (canceledOnce => reconnects' = reconnects)
  <1> SUFFICES ASSUME TypeInv, FlagInv, [Next]_vars, canceledOnce PROVE reconnects' = reconnects
    OBVIOUS
  <1>a. mCanceled = Nodes /\ TypeOK /\ node \in Nodes /\ "main" \in Nodes
    BY NodeType DEF FlagInv, TypeInv, Nodes
  <1>1. CASE connect
    BY <1>1, <1>a, DisconnectQuiet
    DEF connect, StartSession, Dial, Authenticate, ForwardHop, StartSocks,
       ForwardUdpgw, startDnsGw, fetchExpireDate, openTun, runTun2socks, Report
  <1>2. CASE DnsgwRun \/ DynamicRun \/ ExpireRun \/ ProcessEnds
    BY <1>2 DEF DnsgwRun, DynamicRun, ExpireRun, ProcessEnds
  <1>3. ASSUME NEW n \in Nodes, SessionLost(n) PROVE reconnects' = reconnects
    BY <1>3, <1>a, DisconnectQuiet DEF SessionLost
  <1>4. ASSUME NEW t \in Cancelers, CancelBegin(t) \/ cancelStep(t) PROVE reconnects' = reconnects
    <2>1. CASE DisconnectRemote(t)
      BY <2>1, <1>a, DisconnectQuiet DEF DisconnectRemote
    <2>2. ASSUME NEW from, NEW to, CancelHop(t, from, to) PROVE reconnects' = reconnects
      <3>1. CASE from \in Hops
        <4>1. from \in Nodes /\ Nodes \subseteq mCanceled' /\ disconnect(from, mCanceled')
          BY <2>2, <3>1, <1>a DEF CancelHop, Nodes
        <4> QED BY <4>1, <1>a, DisconnectQuiet
      <3>2. CASE from \notin Hops
        BY <2>2, <3>2 DEF CancelHop
      <3> QED BY <3>1, <3>2
    <2>3. CASE CancelBegin(t) \/ Join(t) \/ CheckFd(t) \/ CloseFd(t) \/ CheckDnsgw(t) \/ InterruptDnsgw(t)
      BY <2>3 DEF CancelBegin, Join, CheckFd, CloseFd, CheckDnsgw, InterruptDnsgw
    <2> QED BY <1>4, <2>1, <2>2, <2>3 DEF cancelStep
  <1>5. CASE UNCHANGED vars
    BY <1>5 DEF vars
  <1> QED BY <1>1, <1>2, <1>3, <1>4, <1>5 DEF Next

\* After cancel() has returned, no session of the chain makes the service
\* reconnect, however cancel(), connect() and lost sessions overlap.
THEOREM NoReconnect == Spec => NoReconnectAfterCancel
  <1>1. TypeInv /\ FlagInv /\ [Next]_vars
            => [canceledOnce => reconnects' = reconnects]_vars
    BY QuietStep
  <1> QED BY <1>1, TypeInit, TypeNext, FlagInit, FlagNext, PTL DEF Spec, NoReconnectAfterCancel

-------------------------------------------------------------------------------
(* LastCancelReleases: what a cancel() that began after the end of         *)
(* connect() has passed stays released.                                    *)

\* A session is being set up only by the step of connect() that does it.
SessionInv ==
    \A n \in Nodes :
        /\ session[n] = "dial" => pc = "dial" /\ n = node
        /\ session[n] = "auth" => pc = "auth" /\ n = node

Closed(n) == session[n] \in {"none", "closed"}
AfterJoin == {"fd", "close", "remote", "jumper", "proxy", "dnsgw", "interrupt"}
AfterFd == {"remote", "jumper", "proxy", "dnsgw", "interrupt"}

\* What thread t has released.
LateInv(t) ==
    at[t].late =>
        /\ Ended
        /\ at[t].place \in AfterJoin => process \in {"none", "dead"}
        /\ at[t].place \in AfterFd => ~tun
        /\ at[t].place \in {"jumper", "proxy", "dnsgw", "interrupt"} => Closed("main")
        /\ at[t].place \in {"proxy", "dnsgw", "interrupt"} => \A n \in {"jumper"} \cap Hops : Closed(n)
        /\ at[t].place \in {"dnsgw", "interrupt"} => \A n \in {"proxy"} \cap Hops : Closed(n)

ReleaseInv ==
    /\ \A t \in Cancelers : LateInv(t)
    /\ mDnsgwThread \/ dnsgw \in {"none", "ended"}
    /\ released => Ended
    /\ LastCancelReleases

\* Nothing is held before connect().
LEMMA ReleaseInit == Init => SessionInv /\ ReleaseInv
  BY DEF Init, SessionInv, ReleaseInv, LateInv, LastCancelReleases

\* disconnect() only ever closes sessions.
LEMMA DisconnectCloses ==
  ASSUME TypeOK, NEW n \in Nodes, NEW c, disconnect(n, c)
  PROVE  /\ \A m \in Nodes : session'[m] \in {session[m], "closed"}
         /\ session'[n] \notin {"auth", "open"}
  BY DEF disconnect, TypeOK

\* A step of connect() sets up only the session of the node it works on.
LEMMA SessionConnect == TypeInv /\ SessionInv /\ connect => SessionInv'
  <1> SUFFICES ASSUME TypeInv, SessionInv, connect PROVE SessionInv'
    OBVIOUS
  <1>n. node \in Nodes
    BY NodeType DEF TypeInv
  <1>h. hop' = hop => node' = node
    BY DEF node
  <1> USE DEF SessionInv, Goto, Throw
  <1>1. CASE StartSession
    BY <1>1, <1>n, <1>h DEF StartSession, TypeInv, TypeOK
  <1>2. CASE Dial
    BY <1>2, <1>n, <1>h DEF Dial, TypeInv, TypeOK
  <1>3. CASE Authenticate
    <2>1. CASE Throw /\ disconnect(node, mCanceled)
      <3>1. \A m \in Nodes : session'[m] \in {session[m], "closed"} /\ session'[node] # "auth"
        BY <2>1, <1>n, DisconnectCloses DEF TypeInv
      <3> QED BY <1>3, <2>1, <3>1 DEF Authenticate
    <2>2. CASE ~(Throw /\ disconnect(node, mCanceled))
      BY <1>3, <2>2, <1>n, <1>h DEF Authenticate, TypeInv, TypeOK
    <2> QED BY <2>1, <2>2
  <1>4. CASE ~(StartSession \/ Dial \/ Authenticate)
    <2>1. session' = session /\ pc \notin {"dial", "auth"}
      BY <1>4 DEF connect, StartSession, Dial, Authenticate, ForwardHop, StartSocks,
         ForwardUdpgw, startDnsGw, fetchExpireDate, openTun, runTun2socks, Report
    <2> QED BY <2>1
  <1> QED BY <1>1, <1>2, <1>3, <1>4

\* Outside connect(), sessions are only closed.
LEMMA SessionFrame ==
  ASSUME SessionInv, UNCHANGED <<pc, hop>>,
         \A m \in Nodes : session'[m] \in {session[m], "closed"}
  PROVE  SessionInv'
  BY DEF SessionInv, node

\* The steps that are not of connect() only ever close a session.
LEMMA ClosingSteps ==
  ASSUME TypeInv, Next, ~connect
  PROVE  /\ UNCHANGED <<pc, hop>>
         /\ \A m \in Nodes : session'[m] \in {session[m], "closed"}
  <1> USE DEF TypeInv
  <1>1. CASE DnsgwRun \/ DynamicRun \/ ExpireRun \/ ProcessEnds
    BY <1>1 DEF DnsgwRun, DynamicRun, ExpireRun, ProcessEnds, connecting
  <1>2. CASE \E n \in Nodes : SessionLost(n)
    BY <1>2, DisconnectCloses DEF SessionLost, connecting
  <1>3. ASSUME NEW t \in Cancelers, CancelBegin(t) \/ cancelStep(t)
        PROVE  /\ UNCHANGED <<pc, hop>>
               /\ \A m \in Nodes : session'[m] \in {session[m], "closed"}
    <2>1. CASE DisconnectRemote(t)
      <3>1. "main" \in Nodes
        BY DEF Nodes
      <3> QED BY <2>1, <3>1, DisconnectCloses DEF DisconnectRemote, Step, connecting
    <2>2. ASSUME NEW from, NEW to, CancelHop(t, from, to)
          PROVE  /\ UNCHANGED <<pc, hop>>
                 /\ \A m \in Nodes : session'[m] \in {session[m], "closed"}
      <3>1. CASE from \in Hops
        BY <2>2, <3>1, DisconnectCloses DEF CancelHop, Step, connecting, Nodes
      <3>2. CASE from \notin Hops
        BY <2>2, <3>2 DEF CancelHop, Step, connecting
      <3> QED BY <3>1, <3>2
    <2>3. CASE CancelBegin(t) \/ Join(t) \/ CheckFd(t) \/ CloseFd(t) \/ CheckDnsgw(t) \/ InterruptDnsgw(t)
      BY <2>3 DEF CancelBegin, Join, CheckFd, CloseFd, CheckDnsgw, InterruptDnsgw, Step, connecting
    <2> QED BY <1>3, <2>1, <2>2, <2>3 DEF cancelStep
  <1> QED BY <1>1, <1>2, <1>3 DEF Next

\* So no session but that one is ever half set up.
LEMMA SessionNext == TypeInv /\ SessionInv /\ [Next]_vars => SessionInv'
  <1>1. ASSUME SessionInv, UNCHANGED vars PROVE SessionInv'
    BY <1>1 DEF SessionInv, vars, connecting, node
  <1> QED BY <1>1, SessionConnect, SessionFrame, ClosingSteps

\* connect() runs only before the first late cancel().
LEMMA ReleaseConnect == TypeInv /\ ReleaseInv /\ connect => ReleaseInv'
  <1> SUFFICES ASSUME TypeInv, ReleaseInv, connect PROVE ReleaseInv'
    OBVIOUS
  <1>1. ~Ended /\ UNCHANGED <<at, released>>
    BY DEF Ended, connect, canceling, StartSession, Dial, Authenticate, ForwardHop, StartSocks,
       ForwardUdpgw, startDnsGw, fetchExpireDate, openTun, runTun2socks, Report
  <1>2. ~released /\ \A t \in Cancelers : ~at[t].late
    BY <1>1 DEF ReleaseInv, LateInv
  <1>3. (mDnsgwThread \/ dnsgw \in {"none", "ended"})'
    BY DEF ReleaseInv, connect, forwarders, StartSession, Dial, Authenticate, ForwardHop,
       StartSocks, ForwardUdpgw, startDnsGw, fetchExpireDate, openTun, runTun2socks, Report
  <1> QED BY <1>1, <1>2, <1>3 DEF ReleaseInv, LateInv, LastCancelReleases

\* The other threads take nothing new.
LEMMA ReleaseFrame ==
  ASSUME TypeInv, ReleaseInv, UNCHANGED <<pc, at, released>>,
         \A m \in Nodes : session'[m] \in {session[m], "closed"},
         tun' = tun, process' \in {process, "dead"}, crashed' = crashed,
         mDnsgwThread' = mDnsgwThread,
         dnsgw' = dnsgw \/ (dnsgw = "starting" /\ mDnsgwThread)
  PROVE  ReleaseInv'
  <1>1. \A t \in Cancelers : LateInv(t)'
    <2> TAKE t \in Cancelers
    <2>1. LateInv(t)
      BY DEF ReleaseInv
    <2> QED BY <2>1, ChainFacts DEF LateInv, Closed, Ended, Nodes
  <1>2. (mDnsgwThread \/ dnsgw \in {"none", "ended"})'
    BY DEF ReleaseInv
  <1>3. (released => Ended)' /\ LastCancelReleases'
    BY DEF ReleaseInv, LastCancelReleases, Ended
  <1> QED BY <1>1, <1>2, <1>3 DEF ReleaseInv

\* Once connect() has ended, the threads it has started take no resource again.
LEMMA ReleaseOthers ==
  ASSUME TypeInv, ReleaseInv, Next, ~connect,
         \/ DnsgwRun \/ DynamicRun \/ ExpireRun \/ ProcessEnds
         \/ \E n \in Nodes : SessionLost(n)
  PROVE  ReleaseInv'
  <1>1. \A m \in Nodes : session'[m] \in {session[m], "closed"}
    BY ClosingSteps
  <1> USE DEF connecting, canceling, forwarders, tunnel
  <1>2. CASE DnsgwRun
    <2>1. mDnsgwThread
      BY <1>2 DEF DnsgwRun, ReleaseInv
    <2> QED BY <1>1, <1>2, <2>1, ReleaseFrame DEF DnsgwRun
  <1>3. CASE DynamicRun
    BY <1>1, <1>3, ReleaseFrame DEF DynamicRun
  <1>4. CASE ExpireRun
    BY <1>1, <1>4, ReleaseFrame DEF ExpireRun
  <1>5. CASE ProcessEnds
    BY <1>1, <1>5, ReleaseFrame DEF ProcessEnds
  <1>6. CASE \E n \in Nodes : SessionLost(n)
    BY <1>1, <1>6, ReleaseFrame DEF SessionLost
  <1> QED BY <1>2, <1>3, <1>4, <1>5, <1>6

\* A session that connect() has left behind is closed by disconnect().
LEMMA ClosedByDisconnect ==
  ASSUME TypeInv, SessionInv, Ended, NEW n \in Nodes, NEW c, disconnect(n, c)
  PROVE  session'[n] \in {"none", "closed"}
  <1>1. session[n] \notin {"dial", "auth"}
    BY DEF SessionInv, Ended
  <1> QED BY <1>1 DEF disconnect, TypeInv, TypeOK

\* The other cancelers keep what they have when t takes a step.
LEMMA LateFrame ==
  ASSUME NEW u \in Cancelers, LateInv(u), at'[u] = at[u], pc' = pc,
         \A m \in Nodes : session'[m] \in {session[m], "closed"},
         tun' \in {tun, FALSE}, process' = process \/ process = "running"
  PROVE  LateInv(u)'
  BY ChainFacts DEF LateInv, Closed, Ended, Nodes, AfterJoin, AfterFd

\* Each step of a late cancel() adds to what stays released.
LEMMA ReleaseCancel ==
  ASSUME TypeInv, SessionInv, ReleaseInv, ~crashed, Next,
         NEW t \in Cancelers, CancelBegin(t) \/ cancelStep(t), ~connect
  PROVE  ReleaseInv'
  <1>c. /\ UNCHANGED <<pc, hop>>
        /\ \A m \in Nodes : session'[m] \in {session[m], "closed"}
    BY ClosingSteps
  <1>r. \A u \in Cancelers : LateInv(u)
    BY DEF ReleaseInv
  <1>e. Ended' = Ended
    BY <1>c DEF Ended
  <1>s. \A u \in Cancelers \ {t} : at'[u] = at[u]
    <2>1. \E v : at' = [at EXCEPT ![t] = v]
      BY DEF CancelBegin, cancelStep, Join, CheckFd, CloseFd, DisconnectRemote,
         CancelHop, CheckDnsgw, InterruptDnsgw, Step
    <2> QED BY <2>1 DEF TypeInv, TypeOK
  <1>p. tun' \in {tun, FALSE} /\ (process' = process \/ process = "running")
    BY DEF CancelBegin, cancelStep, Join, CheckFd, CloseFd, DisconnectRemote,
       CancelHop, CheckDnsgw, InterruptDnsgw, tunnel
  <1>u. \A u \in Cancelers \ {t} : LateInv(u)'
    BY <1>c, <1>r, <1>s, <1>p, LateFrame
  <1>d. (mDnsgwThread \/ dnsgw \in {"none", "ended"})'
    BY DEF ReleaseInv, CancelBegin, cancelStep, Join, CheckFd, CloseFd, DisconnectRemote,
       CancelHop, CheckDnsgw, InterruptDnsgw, forwarders
  <1>m. "main" \in Nodes /\ Hops \subseteq Nodes
    BY DEF Nodes
  <1>1. LateInv(t)'
    <2> USE <1>e, <1>s DEF LateInv, AfterJoin, AfterFd
    <2>0. LateInv(t)
      BY <1>r
    <2>1. CASE CancelBegin(t)
      BY <2>1 DEF CancelBegin, TypeInv, TypeOK
    <2>2. CASE Join(t)
      BY <2>0, <2>2, StepType DEF Join, tunnel, CancelPlaces, Step
    <2>3. CASE CheckFd(t)
      <3>1. PICK to \in {"close", "remote"} : Step(t, "fd", to)
        BY <2>3 DEF CheckFd
      <3> QED BY <2>0, <2>3, <3>1, StepType DEF CheckFd, tunnel, CancelPlaces, Step
    <2>4. CASE CloseFd(t)
      BY <2>0, <2>4, StepType DEF CloseFd, CancelPlaces, Step
    <2>5. CASE DisconnectRemote(t)
      <3>1. at[t].late => Closed("main")'
        BY <2>0, <2>5, <1>m, ClosedByDisconnect DEF DisconnectRemote, Closed
      <3> QED BY <2>0, <2>5, <3>1, StepType DEF DisconnectRemote, tunnel, CancelPlaces, Step
    <2>6. CASE CancelHop(t, "jumper", "proxy")
      <3>1. at[t].late => \A n \in {"jumper"} \cap Hops : Closed(n)'
        BY <2>0, <2>6, <1>m, ClosedByDisconnect DEF CancelHop, Closed
      <3>2. at[t].late => Closed("main")'
        BY <2>0, <2>6, <1>c, <1>m DEF CancelHop, Step, Closed
      <3> QED BY <2>0, <2>6, <3>1, <3>2, StepType DEF CancelHop, tunnel, CancelPlaces, Step
    <2>7. CASE CancelHop(t, "proxy", "dnsgw")
      <3>1. at[t].late => \A n \in {"proxy"} \cap Hops : Closed(n)'
        BY <2>0, <2>7, <1>m, ClosedByDisconnect DEF CancelHop, Closed
      <3>2. at[t].late => Closed("main")' /\ \A n \in {"jumper"} \cap Hops : Closed(n)'
        BY <2>0, <2>7, <1>c, <1>m DEF CancelHop, Step, Closed
      <3> QED BY <2>0, <2>7, <3>1, <3>2, StepType DEF CancelHop, tunnel, CancelPlaces, Step
    <2>8. CASE CheckDnsgw(t)
      <3>1. PICK to \in {"interrupt", "idle"} : Step(t, "dnsgw", to)
        BY <2>8 DEF CheckDnsgw
      <3> QED BY <2>0, <2>8, <3>1, StepType DEF CheckDnsgw, Closed, tunnel, CancelPlaces, Step
    <2>9. CASE InterruptDnsgw(t)
      BY <2>0, <2>9, StepType DEF InterruptDnsgw, CancelPlaces
    <2> QED BY <2>1, <2>2, <2>3, <2>4, <2>5, <2>6, <2>7, <2>8, <2>9 DEF cancelStep
  <1>2. (released => Ended)' /\ LastCancelReleases'
    <2>1. CASE released
      <3>1. released' /\ Ended
        BY <2>1 DEF ReleaseInv, CancelBegin, cancelStep, Join, CheckFd, CloseFd,
           DisconnectRemote, CancelHop, CheckDnsgw, InterruptDnsgw, Return
      <3>2. LastCancelReleases
        BY DEF ReleaseInv
      <3>3. dnsgw' \in {dnsgw, "ended"}
        BY DEF CancelBegin, cancelStep, Join, CheckFd, CloseFd, DisconnectRemote,
           CancelHop, CheckDnsgw, InterruptDnsgw, forwarders
      <3>4. \A n \in Nodes : session'[n] \in {"none", "closed"}
        BY <2>1, <3>2, <1>c DEF LastCancelReleases
      <3>5. ~tun'
        BY <2>1, <3>2, <1>p, Zenon DEF LastCancelReleases
      <3>6. process' \in {"none", "dead"} /\ dnsgw' \in {"none", "ended"}
        BY <2>1, <3>2, <3>3, <1>p DEF LastCancelReleases
      <3> QED BY <3>1, <3>4, <3>5, <3>6, <1>e DEF LastCancelReleases
    <2>2. CASE ~released /\ ~released'
      BY <2>2 DEF LastCancelReleases
    <2>3. CASE ~released /\ released'
      <3>1. (CheckDnsgw(t) /\ ~mDnsgwThread) \/ InterruptDnsgw(t)
        BY <2>3 DEF CancelBegin, cancelStep, Join, CheckFd, CloseFd, DisconnectRemote,
           CancelHop, CheckDnsgw, InterruptDnsgw, Return
      <3>2. at[t].late /\ at[t].place \in {"dnsgw", "interrupt"} /\ UNCHANGED <<session, tun, process>>
        BY <2>3, <3>1 DEF CheckDnsgw, InterruptDnsgw, Return, Step, tunnel
      <3>3. /\ Ended /\ ~tun /\ process \in {"none", "dead"}
            /\ \A n \in Nodes : Closed(n)
        BY <3>2, <1>r, ChainFacts DEF LateInv, AfterJoin, AfterFd, Nodes
      <3>4. crashed' \/ dnsgw' \in {"none", "ended"}
        BY <3>1 DEF ReleaseInv, CheckDnsgw, InterruptDnsgw, forwarders
      <3> QED BY <3>2, <3>3, <3>4, <1>e DEF LastCancelReleases, Closed
    <2> QED BY <2>1, <2>2, <2>3
  <1> QED BY <1>1, <1>2, <1>d, <1>u DEF ReleaseInv

\* So what a late cancel() has released stays released.
LEMMA ReleaseNext == TypeInv /\ SessionInv /\ ReleaseInv /\ [Next]_vars => ReleaseInv'
  <1>1. ASSUME ReleaseInv, UNCHANGED vars PROVE ReleaseInv'
    BY <1>1 DEF ReleaseInv, LateInv, Closed, Ended, LastCancelReleases, vars, connecting,
       forwarders, tunnel, canceling
  <1> QED BY <1>1, ReleaseConnect, ReleaseOthers, ReleaseCancel DEF Next

\* A cancel() called after connect() has ended releases the whole chain, the tun
\* device, the process and the DNS socket, wherever connect() stopped and however
\* many other threads are inside cancel() at the same time.
THEOREM CancelReleases == Spec => []LastCancelReleases
  <1>1. ReleaseInv => LastCancelReleases
    BY DEF ReleaseInv
  <1> QED BY <1>1, TypeInit, TypeNext, ReleaseInit, SessionNext, ReleaseNext, PTL DEF Spec
-------------------------------------------------------------------------------
(* PortsReleased: if nothing interferes with connect(), a port is bound by *)
(* a session that is open, and is freed when that session is closed.       *)

\* The h-th server connect() works on
NodeAt(h) == IF h <= Len(Chain) THEN Chain[h] ELSE "main"

\* The servers of the chain are different ones.
LEMMA NodesDiffer ==
  \A g, h \in 1..(Len(Chain) + 1) : NodeAt(g) \in Nodes /\ (NodeAt(g) = NodeAt(h) => g = h)
  <1>1. CASE Chain = <<>>
    BY <1>1 DEF NodeAt, Hops, Nodes
  <1>2. CASE Chain = <<"jumper">>
    BY <1>2 DEF NodeAt, Hops, Nodes
  <1>3. CASE Chain = <<"proxy">>
    BY <1>3 DEF NodeAt, Hops, Nodes
  <1>4. CASE Chain = <<"proxy", "jumper">>
    BY <1>4 DEF NodeAt, Hops, Nodes
  <1> QED BY <1>1, <1>2, <1>3, <1>4, ChainAssumption

Forwarding == {"hop", "socks", "udpgw", "dnsgw", "expire", "tun", "tun2socks", "report"}

\* While connect() runs nobody is in cancel(), the servers ahead are untouched and
\* the session it works on is as far as it is.
CalmInv ==
    /\ \A t \in Cancelers : at[t].place # "idle" => Ended
    /\ \A h \in 1..(Len(Chain) + 1) :
        (~Ended /\ h > hop) \/ (h = hop /\ pc = "dns") => session[NodeAt(h)] = "none"
    /\ pc = "dial" => session[node] = "dial"
    /\ pc = "auth" => session[node] = "auth"
    /\ pc \in Forwarding => session[node] = "open"

\* A port that is bound belongs to an open session.
OwnerInv == \A p \in Ports : owner[p] # NoThread => session[owner[p]] = "open"

\* Nothing is bound before connect().
LEMMA PortInit == Init => CalmInv /\ OwnerInv
  <1>1. Init => CalmInv
    BY NodesDiffer DEF Init, CalmInv, Forwarding, Ended
  <1>2. Init => OwnerInv
    BY DEF Init, OwnerInv
  <1> QED BY <1>1, <1>2

\* What a step of connect() does to the session it works on and to the ports.
LEMMA PortConnect ==
  ASSUME TypeInv, CalmInv, OwnerInv, connect
  PROVE  CalmInv' /\ OwnerInv'
  <1>n. node = NodeAt(hop) /\ node \in Nodes /\ hop \in 1..(Len(Chain) + 1) /\ TypeOK
    BY NodeType DEF NodeAt, node, TypeInv, TypeOK
  <1>d. \A g, h \in 1..(Len(Chain) + 1) : NodeAt(g) \in Nodes /\ (NodeAt(g) = NodeAt(h) => g = h)
    BY NodesDiffer
  <1>h. hop' = hop => node' = node
    BY DEF node
  <1>a. /\ ~Ended /\ at' = at
        /\ \A t \in Cancelers : at[t].place = "idle"
    BY DEF CalmInv, Ended, connect, canceling, StartSession, Dial, Authenticate, ForwardHop,
       StartSocks, ForwardUdpgw, startDnsGw, fetchExpireDate, openTun, runTun2socks, Report
  <1>N. NoThread \notin Nodes
    BY ChainFacts, SshConfigAssumption
  <1> USE DEF Goto, Throw, Forwarding
  <1>1. CASE StartSession
    <2>1. CalmInv'
      BY <1>1, <1>n, <1>d, <1>h, <1>a DEF StartSession, CalmInv, TypeOK
    <2>2. session[node] = "none"
      BY <1>1, <1>n DEF StartSession, CalmInv
    <2>3. OwnerInv'
      BY <1>1, <2>2, <1>n DEF StartSession, OwnerInv, TypeOK
    <2> QED BY <2>1, <2>3
  <1>2. CASE Dial
    <2>1. CalmInv'
      BY <1>2, <1>n, <1>d, <1>h, <1>a DEF Dial, CalmInv, TypeOK
    <2>2. session[node] = "dial"
      BY <1>2 DEF Dial, CalmInv
    <2>3. OwnerInv'
      BY <1>2, <2>2, <1>n DEF Dial, OwnerInv, TypeOK
    <2> QED BY <2>1, <2>3
  <1>3. CASE Authenticate
    <2>2. session[node] = "auth"
      BY <1>3 DEF Authenticate, CalmInv
    <2>1. CalmInv'
      BY <1>3, <2>2, <1>n, <1>d, <1>h, <1>a DEF Authenticate, CalmInv, disconnect, TypeOK
    <2>3. OwnerInv'
      BY <1>3, <2>2, <1>n, <1>N DEF Authenticate, OwnerInv, disconnect, TypeOK
    <2> QED BY <2>1, <2>3
  <1>4. CASE ForwardHop
    <2>1. session[node] = "open" /\ hop <= Len(Chain) /\ session' = session
      BY <1>4 DEF ForwardHop, CalmInv, TypeInv
    <2>2. CalmInv'
      BY <1>4, <2>1, <1>n, <1>d, <1>h, <1>a, ChainFacts DEF ForwardHop, CalmInv
    <2>3. OwnerInv'
      BY <1>4, <2>1, <1>n DEF ForwardHop, Bind, OwnerInv, TypeOK
    <2> QED BY <2>2, <2>3
  <1>5. CASE ~(StartSession \/ Dial \/ Authenticate \/ ForwardHop)
    <2>1. session[node] = "open" /\ session' = session /\ hop' = hop
      BY <1>5 DEF connect, CalmInv, StartSocks, ForwardUdpgw, startDnsGw, fetchExpireDate,
         openTun, runTun2socks, Report
    <2>2. pc' \in Forwarding \cup {"returned", "thrown"} /\ pc' # "hop"
      BY <1>5 DEF connect, StartSocks, ForwardUdpgw, startDnsGw, fetchExpireDate,
         openTun, runTun2socks, Report
    <2>3. CalmInv'
      BY <2>1, <2>2, <1>h, <1>a DEF CalmInv
    <2>4. owner' = owner \/ \E p \in Ports : owner' = [owner EXCEPT ![p] = node]
      BY <1>5 DEF connect, StartSocks, ForwardUdpgw, startDnsGw, fetchExpireDate,
         openTun, runTun2socks, Report, Bind, Ports
    <2>5. OwnerInv'
      BY <2>1, <2>4, <1>n DEF OwnerInv, TypeOK
    <2> QED BY <2>3, <2>5
  <1> QED BY <1>1, <1>2, <1>3, <1>4, <1>5

\* disconnect() frees the ports of the session it closes.
LEMMA DisconnectPorts ==
  ASSUME TypeInv, OwnerInv, NEW n \in Nodes, NEW c, disconnect(n, c)
  PROVE  OwnerInv'
  <1>N. NoThread \notin Nodes
    BY ChainFacts, SshConfigAssumption
  <1> QED BY <1>N DEF OwnerInv, disconnect, TypeInv, TypeOK

\* The other threads free ports, and come only after connect() when nothing may
\* interfere with it.
LEMMA PortOthers ==
  ASSUME ~DuringConnect, TypeInv, CalmInv, OwnerInv, Next, ~connect
  PROVE  CalmInv' /\ OwnerInv'
  <1>1. /\ UNCHANGED <<pc, hop>>
        /\ \A m \in Nodes : session'[m] \in {session[m], "closed"}
    BY ClosingSteps
  <1>m. "main" \in Nodes /\ Hops \subseteq Nodes
    BY DEF Nodes
  <1>2. CASE DnsgwRun \/ DynamicRun \/ ProcessEnds
    <2>1. UNCHANGED <<pc, hop, session, owner, at>>
      BY <1>2 DEF DnsgwRun, DynamicRun, ProcessEnds, connecting, canceling
    <2> QED BY <2>1 DEF CalmInv, OwnerInv, Ended, node
  <1>3. CASE ExpireRun
    <2>1. UNCHANGED <<pc, hop, session, at>> /\ owner' = [owner EXCEPT !["expire"] = NoThread]
      BY <1>3 DEF ExpireRun, connecting, canceling
    <2>2. CalmInv'
      BY <2>1 DEF CalmInv, Ended, node
    <2>3. OwnerInv'
      BY <2>1 DEF OwnerInv, TypeInv, TypeOK
    <2> QED BY <2>2, <2>3
  <1>4. CASE \/ \E n \in Nodes : SessionLost(n)
             \/ \E t \in Cancelers : CancelBegin(t) \/ cancelStep(t)
    <2>1. Ended
      BY <1>4 DEF CalmInv, SessionLost, CancelBegin, cancelStep, Join, CheckFd, CloseFd,
         DisconnectRemote, CancelHop, CheckDnsgw, InterruptDnsgw, Step
    <2>2. CalmInv'
      BY <1>1, <2>1 DEF CalmInv, Ended, Forwarding
    <2>3. CASE \E n \in Nodes : \E c : disconnect(n, c)
      BY <2>2, <2>3, DisconnectPorts
    <2>4. CASE ~\E n \in Nodes : \E c : disconnect(n, c)
      <3>1. UNCHANGED <<session, owner>>
        BY <1>4, <1>m, <2>4 DEF SessionLost, CancelBegin, cancelStep, Join, CheckFd, CloseFd,
           DisconnectRemote, CancelHop, CheckDnsgw, InterruptDnsgw
      <3> QED BY <2>2, <3>1 DEF OwnerInv
    <2> QED BY <2>3, <2>4
  <1> QED BY <1>2, <1>3, <1>4 DEF Next

\* So every bound port belongs to an open session.
LEMMA PortNext ==
  ASSUME ~DuringConnect
  PROVE  TypeInv /\ CalmInv /\ OwnerInv /\ [Next]_vars => CalmInv' /\ OwnerInv'
  <1>1. CalmInv /\ OwnerInv /\ UNCHANGED vars => CalmInv' /\ OwnerInv'
    BY DEF CalmInv, OwnerInv, Ended, node, vars, connecting, canceling
  <1> QED BY <1>1, PortConnect, PortOthers

\* When neither a cancel() nor the loss of a session falls within connect(), a
\* cancel() that comes after it and has returned has freed every forwarded port,
\* wherever connect() stopped: the next attempt can bind them all.
THEOREM CancelFreesPorts ==
  ASSUME ~DuringConnect
  PROVE  Spec => []PortsReleased
  <1>1. TypeInv /\ ReleaseInv /\ OwnerInv => PortsReleased
    BY DEF TypeInv, TypeOK, ReleaseInv, LastCancelReleases, OwnerInv, PortsReleased
  <1> QED BY <1>1, TypeInit, TypeNext, ReleaseInit, SessionNext, ReleaseNext, PortInit, PortNext,
             PTL DEF Spec
===============================================================================
