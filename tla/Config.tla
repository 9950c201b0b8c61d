-------------------------------- MODULE Config --------------------------------
(***************************************************************************)
(* What MyVpnService relies on when it calls connect() and cancel() of a   *)
(* Config: the abstract specification of one Config object.  connect()     *)
(* takes resources (sessions, the tun device, processes, sockets), gives   *)
(* some back when it fails, and ends.  cancel() may be called by several   *)
(* threads, while connect() runs or later.  The promise is about the call  *)
(* that begins when connect() is over: once it has returned, the object    *)
(* holds nothing and never will again, although the threads connect() has  *)
(* started may take resources until then.  And a Config whose cancel() has *)
(* returned asks the service for no reconnect, and never for two at once.  *)
(*                                                                         *)
(* How the resources are taken and given back is left to the subclass.     *)
(***************************************************************************)
EXTENDS Naturals

CONSTANTS
    Cancelers,    \* the threads that may call cancel()
    Resources     \* what the object can hold

VARIABLES
    phase,      \* connect() is under way ("connecting") or over ("ended")
    held,       \* the resources the object holds
    inCancel,   \* of each thread: out of cancel(), or since before or after the end of connect()
    done,       \* a call of cancel() has returned
    released,   \* one that began after connect() had ended has
    asks,       \* calls of MyVpnService.reconnect
    failed      \* an uncaught exception has ended the app

vars == <<phase, held, inCancel, done, released, asks, failed>>

TypeOK ==
    /\ phase \in {"connecting", "ended"}
    /\ held \subseteq Resources
    /\ inCancel \in [Cancelers -> {"out", "early", "late"}]
    /\ done \in BOOLEAN /\ released \in BOOLEAN /\ failed \in BOOLEAN
    /\ asks \in Nat

Init ==
    /\ phase = "connecting" /\ held = {}
    /\ inCancel = [t \in Cancelers |-> "out"]
    /\ done = FALSE /\ released = FALSE /\ failed = FALSE
    /\ asks = 0

\* The service is asked for a reconnect only before cancel() has returned.
MayAsk == asks' = asks \/ (~done /\ asks' = asks + 1)

\* connect(), or a thread it has started, takes a resource, or several.
Open ==
    /\ ~released
    /\ held \subseteq held' /\ held' \subseteq Resources
    /\ UNCHANGED <<phase, inCancel, done, released, asks, failed>>

\* A resource ends by itself, or a step of cancel() gives it back.
Close ==
    /\ held' \subseteq held /\ MayAsk
    /\ UNCHANGED <<phase, inCancel, done, released, failed>>

\* connect() returns or throws.
EndConnect ==
    /\ phase = "connecting" /\ phase' = "ended"
    /\ held' \subseteq held /\ MayAsk
    /\ UNCHANGED <<inCancel, done, released, failed>>

CancelBegin(t) ==
    /\ inCancel[t] = "out"
    /\ inCancel' = [inCancel EXCEPT ![t] = IF phase = "ended" THEN "late" ELSE "early"]
    /\ held' \subseteq held
    /\ UNCHANGED <<phase, done, released, asks, failed>>

CancelEnd(t) ==
    /\ inCancel[t] # "out"
    /\ inCancel' = [inCancel EXCEPT ![t] = "out"]
    /\ done' = TRUE
    /\ released' = (released \/ inCancel[t] = "late")
    /\ held' \subseteq held
    /\ released' => held' = {}
    /\ UNCHANGED <<phase, asks, failed>>

\* An uncaught exception ends the app: nothing is promised of the object.
Fail == failed' = TRUE

Next ==
    /\ ~failed
    /\ \/ Open \/ Close \/ EndConnect \/ Fail
       \/ \E t \in Cancelers : CancelBegin(t) \/ CancelEnd(t)

Spec == Init /\ [][Next]_vars
===============================================================================
