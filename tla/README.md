# SmartTunnel: a TLA+ model of the tunnel's control logic

SmartTunnel is an Android VPN application. It routes the device's traffic
through an SSH connection (with tun2socks) or through OpenVPN. The project's own
code is the Java under `src/app/src/main/java/ir/smartdevelopers` (about 14 000
lines); the rest of the repository is vendored (JSch, Trilead SSH, jsocks,
ics-openvpn under `de/blinkt`, and OpenVPN, OpenSSL, asio and badvpn under
`cpp`). There is no documentation beside the code; the unit tests are in
`src/app/src/test`.

In what follows `ST` stands for `src/app/src/main/java/ir/smartdevelopers/smarttunnel`.

## 1. Inventory

| Component | State | Operations | Interacts with | Hard behaviour | What makes it correct |
|---|---|---|---|---|---|
| VPN service (`ST/MyVpnService.java`) | `mStatus`, `mStopService`, `retryCount`, `retryWaitTime`, `mCurrentConfig`, `mConfigId`, the message queue of `vpnServiceThread`, the posted `RetryRunnable` | commands CONNECT, DISCONNECT, RECONNECT; `onConnect`, `onNetworkConnected`, `onNetworkDisconnected`, `onRevoke`, `onDestroy` | start intents from the UI, the notification, itself and the configurations; `NetworkStateReceiver`; `Config.connect/cancel` | three threads write the same fields without locks; `connect()` and `cancel()` block for seconds in the middle of handlers | a stop is final, a retry is never lost, no connection is forgotten, no status is for ever |
| Network receiver (`ST/receivers/NetworkStateReceiver.java`) | `lastConnectedNetwork` | `networkStateChange` | the service | a broadcast is handled after the network has changed again | the service stops waiting when the network is back |
| Connect button (`ST/ui/fragments/HomeFragment.java`) | the button's look | `connect`, `disconnect` | start intents; reads `mStatus` | status changes between the look and the tap | the button never has to be tapped for ever |
| SSH configuration (`ST/ui/models/SSHConfig.java`, `ST/channels/JschRemoteConnection.java`) | `mCanceled`, the chain of SSH sessions, local ports, `mFileDescriptor`, `mTun2SocksProcess`, `mDnsgwThread`, the expire date thread | `connect`, `cancel`, `onDisconnected` | JSch, Android's tun device, a native process; the service | `cancel()` from three threads against a running `connect()`; failures in the middle of ten steps | after `cancel()` everything is released, and nothing that was canceled asks for a reconnect |
| OpenVPN configuration (`ST/ui/models/OpenVpnConfig.java`) | `mState`, management thread, OpenVPN process, SSH session | `connect`, `retry`, `cancel`, state callbacks | `de/blinkt` management interface; the service | state callbacks race `cancel()` and `retry()` | the same contract as the SSH configuration |
| TCP uplink (`ST/packet/TCPPacketQueue.java`, part of `ST/channels/TCPController.java`, `ST/channels/ChannelV4TCP.java`) | the sorted packet queue with placeholders, `mClientNexSeqNumber` | `put`, `poll`, `PacketProcessor.run`, the writing loop | tun reader, remote stream | two locks for one queue; segments out of order, repeated, re-cut | the remote server gets the client's stream; what is acknowledged is kept |
| TCP controller, the rest | `TCP.State`, window, `mClientPackets`, timers | handshake, SACK, resend, FIN/RST, keep-alive | channel, packet manager | timers against late packets | states are entered in order, resent packets are the missing ones |
| Channels (`ST/managers`, `ST/channels/Channel*.java`, `KeepAliveThread`) | tables of channels and threads | create, deliver, remove, close | all of the above | a channel closed twice, a successor removed | every packet reaches the channel of its connection |
| UDP channel (`ST/channels/UDPChannel.java`) | client table with reused ids, semaphore, `mClosed`, socket, forwarded port | send, receive, keep-alive | udpgw server | an id is reused while answers are under way; any of three threads closes | an answer reaches the client that asked, no wake-up is lost, a closed channel ends |
| DNS channel and forwarders | one request each | forward | remote connection | time-outs | one answer per request |
| Codecs (`ST/packet`, `ST/utils/ByteUtil.java`) | none | parse, build, checksum | channels | signed bytes | build and parse are inverse |
| Stored configurations, preferences, UI, update check, logging | files, preferences | load, save, show | the service | none (main thread) | |

The user-space TCP/UDP stack (`TCPController`, the channels, the packet manager)
is not constructed by the app at this commit: packets go through the native
tun2socks, and only the unit tests exercise the stack. Its queue and its UDP
channel are modelled all the same because they are the most intricate concurrent
algorithms of the project's own code. `Ssh2RemoteConnection` is not used either.

## 2. Modules

| Module | Models | State and actions |
|---|---|---|
| `VpnService` | `MyVpnService`, `NetworkStateReceiver`, the buttons | A step of a thread (`svc`, `ui`, `binder`) runs from one call that leaves the process or waits to the next: `Config.connect()` and `cancel()`, a look at the network, `loadConfig()`, and `sendStatusChangedSignal()`, which updates the notification and sends a broadcast before it assigns `mStatus`. `at[t]` is the call a thread is in. Every other variable carries the name of its field. `connect()` is `HandleConnect` (the look at the network), `ConnectOffline` or `ConnectChecks`, `ConnectSignal`, `LoadConfig` or `LoadFails`, `ConnectReturns` and `ConnectedSignal`, or `ConnectThrows` and `ConnectFailed`; `disconnect()` goes on with `DisconnectSignal`, `DisconnectStop`, `DisconnectEnd`, `DisconnectStopSelf`, `retry()` with `RetrySignal`, `RetryEnd`. Four history variables remember the overlaps that the properties except: `overtaken` (a `disconnect()` that had not yet set `mStopService` met a thread that had passed its checks and not yet connected or retried), `raced` (any two such decisions met), `flapped` and `stale` (the network changed before its last change was dealt with, or after `connect()` had looked at it). |
| `MCVpnService` | | the symmetry of networks for TLC |
| `VpnServiceOpenVpn` | the service with an `OpenVpnConfig` | extends `VpnService`: `connect()` returns without a report; CONNECTED, RECONNECTING and the exit of the process are reported later, and `onReconnecting` is posted to the main thread |
| `VpnServiceProofs` | | theorems |
| `Config` | what `MyVpnService` relies on in `Config.connect()` and `cancel()` | the abstract specification: what the object holds, who is inside `cancel()` and since when, the reconnects it asks for |
| `SshConfig` | `SSHConfig.connect()` and `cancel()`, `JschRemoteConnection`, the parts of JSch's `Session` and `PortWatcher` they use | one action for each call of `connect()` that takes time or opens a resource, one for each place of `cancel()`, one for each thread or process `connect()` starts. `owner` says which session has bound which local port. An uncaught exception is the final state `crashed`. Refines `Config`. |
| `MCSshConfig` | | a chain of proxies for TLC |
| `SshConfigProofs` | | theorems |
| `SshConfigRefinement` | | the proof that `SshConfig` implements `Config` |
| `OpenVpnConfig` | `OpenVpnConfig.connect()`, `retry()`, `cancel()` and the callbacks; of ics-openvpn what they rely on of `OpenVpnManagementThread` and `OpenVPNThread` | the same layout; a step of the management thread is one line of the process and its handler. Refines `Config`. |
| `OpenVpnConfigProofs` | | theorems |
| `OpenVpnConfigRefinement` | | the proof that `OpenVpnConfig` implements `Config` |
| `TCPPacketQueue` | `TCPPacketQueue` and `TCPPacketWrapper` | `put`; `poll` in three steps, as its lock holds and its `wait()` divide it |
| `TcpUplink` | `TCPController.PacketProcessor` for segments with data, `putToQueue`, `ChannelV4TCP.run` | extends `TCPPacketQueue`; a segment is an offset and a length in the client's stream, and whether it has FIN and no PSH; a byte is its position, sequence numbers are ints of `2*Half` values; `ahead` remembers that a segment came before one it follows, `dropped` how much of a FIN segment was counted and not queued |
| `MCTcpUplink` | | streams for TLC |
| `TcpUplinkProofs` | | theorems |
| `UdpChannel` | `UDPChannel`, `UDPClient`, `KeepAliveThread`, the look-up and removal of `SshChannelManager` | the tun reader, the writer, the `ReaderThread` and the keep-alive thread; `close()` in two halves, run by whoever calls it; `mSession` says whether the remote connection has a `Session`, without which the second half throws; a packet is the client it comes from, `conns` is what the server knows of each id; `reused` and `misdelivered` are history |
| `MCUdpChannel` | | clients for TLC |
| `UdpChannelProofs` | | theorems |

What the abstraction leaves out of the modelled code: texts, sounds,
notifications, preferences, the content of packets and of the authentication.
In `VpnService` what a thread does between two of the calls listed above is one
step: reads of fields in a row (`mStopService` at lines 296 and 301, the status at
304), and the two assignments of the retry counters. Two threads between those two
assignments, or between `removeCallbacks` and `postDelayed`, are therefore not
explored. In `SshConfig` the interruption of the expire date thread has no effect,
because its socket read cannot be interrupted; `startDnsGw` finds the DNS port
unused by its own session, which is new; and `Session.disconnect` is one step,
where a second caller returns at line 1950 while the first still has ports and the
socket to close: it will, so what is released differs only for a moment. In
`OpenVpnConfig` a handler of the management thread is one step: `cancel()` sleeps
for a second after it has closed the management socket, so a handler that is under
way ends before `cancel()` returns. `stopVPN` is that of the object's own management
thread, where the code's `stopOpenVPN` is static and stops all that are active; the
service has one Config at a time. In `TcpUplink` segments without data, SYN and RST
are not sent. In `UdpChannel` a read ends where an answer does: an answer cut by the
end of a buffer, whose rest the next read takes for a header, is left out, and so is
the channel that succeeds a closed one.

**The contract.** `Config` says: a `cancel()` that began after `connect()` was
over leaves nothing held when it returns, for good; and once any `cancel()` has
returned no reconnect is asked for. `SshConfig` is checked to implement it with
`cancel()` at any moment by two threads, and proved to for any chain of proxies
and any number of threads. `OpenVpnConfig` implements it, proved as well, only when
`cancel()` comes after `connect()` and from one thread at a time (its `cancel()`
returns at once when `mState` is `DISCONNECTED`), and with less held: the
process is only asked to end (`ProcessIsStopped` says it does), and the tun
device is the process' by then, or a descriptor the management thread could not
hand over. `VpnServiceOpenVpn` uses of it that nothing is reported once
`cancel()` has returned (`NoConnectAfterCancel`, `ImplementsConfig`).

## 3. Runs

| Run | Properties | Bounds | Shows |
|---|---|---|---|
| `vpn_safety` | `TypeOK`, `StoppedNeverDials`, `RetryNeverLost`, `BackoffShape`, `LateConnectIsCanceled`, `NoOrphanConfig`, `StopIsFinal` | 2 networks, symmetric; 2 user commands; of 2 changes, 1 failure, 1 loss, 1 revocation at most 3 | all interleavings of the three threads around one complete attempt, its failure or loss, and its stop |
| `vpn_liveness` | `RetryEnds`, `DisconnectEnds`, `ConnectEnds`, `UserDisconnectHappens`, `NetworkErrorEnds`, `LossIsNoticed` | 1 network, 2 commands, the same with at most 2 faults of the environment | no status is final, except that a `disconnect()` may overlap the decision to retry or connect, and the network change behind a connecting handler's back; a disconnect happens, the wait for the network ends, a lost session is noticed |
| `vpn_overtaken` | `DisconnectedIsTrue` (violated) | 1 command, 1 revocation | a stop between `connect()`'s checks and its dial stops nothing |
| `vpn_canceled` | `CanceledIsReplaced` (violated) | 1 network, 1 command, 2 changes | a late `onConnect` hides that the network loss canceled the Config |
| `vpn_openvpn` | `ReconnectIsHeard` (violated) | 1 command, 2 reports, 1 exit of the process | `onReconnecting` makes `retry()` deaf |
| `ssh_overlap` | `TypeOK`, `LastCancelReleases`, `NoReconnectAfterCancel`, `ImplementsConfig` | jumper and main server, 2 canceling threads, own SOCKS server | 0.9 million states; cancel against connect and against cancel |
| `ssh_calm` | `PortsReleased`, `CancelEnds` | the same with the remote SOCKS server, cancel after connect | every forwarded port is free again, cancel returns |
| `openvpn_calm` | `TypeOK`, `ImplementsConfig`, `NoConnectAfterCancel`, `ProcessIsStopped` | 1 canceling thread, 2 calls, 3 CONNECTED and 2 RECONNECTING lines | the contract against every order of the process' lines, and the end of the process |
| `openvpn_lost` | `LostSessionIsRepaired` (violated) | the same | a session lost before the first CONNECTED is not repaired |
| `uplink` | `TypeOK`, `PollReturnsPacket`, `StreamIsPrefix`, `AckedIsKept` | overlapping segments, two of them with FIN, 6 receptions, numbers from -2 on | 1.1 million states; acknowledged bytes are kept whatever the order, except those of a FIN segment without PSH; in order, the two-lock `poll()` is safe and the stream is a prefix |
| `uplink_wakeup` | `PutIsPolled` (violated) | 1 segment, 3 receptions | a lost wake-up |
| `udp` | `TypeOK`, `AnswerGoesToItsClient`, `OneIdPerClient`, `QueuedIsTaken`, `ClosedEnds` | 3 clients, 2 ids, 3 packets, 1 answer | 0.46 million states; the client table over a reuse of ids, the writer's semaphore, and `close()` by three threads |

Why the bounds are enough: in `VpnService` two user commands give every pair
(connect and disconnect, disconnect and reconnect, a second connect after a
stop), two changes give loss and return, or a change between two networks, and
one failure and one loss give every place where an attempt can end; the
theorems below cover any number of each for all seven properties.
`MaxFaults` bounds failures, losses, changes and revocations together: with three
the safety run has a loss and return of the network with any one other fault, or
a change, a failure and a lost session; the liveness run has two, which are a loss
and return, or any pair. In `SshConfig` two cancelers
are what the code has at most at a time (the service cancels from its handler
and its main thread; the binder makes three, and the theorems hold for any set);
two calls show a cancel that came too early and the one after it. In `TcpUplink`
the overlapping segments give a gap with a buffered successor and a repetition
cut in another way. `Half = 8` leaves room for the stream on both sides of zero.
In `UdpChannel` two ids, the second one negative as a signed byte, and three
clients give a reuse, a known client and a rejected answer; three packets are
the first one, one that finds the writer waiting and one that does not. One
answer is enough for a misdelivery, because the table may change while it is
under way.

Runs that may stop (all of them: the user need not tap, the client need not
send) do not check for deadlock; what must go on is stated as liveness.

**Fairness.** `VpnService` assumes weak fairness of each thread: a handler with
a message runs, a posted runnable runs after its delay, a delivered intent and
broadcast are handled, and `Config.connect()` and `cancel()` return. The first
is what Android's loopers do; `Session.connect(15000)` has a time-out, and
`cancel()` joins a process it has destroyed (`CancelEnds` in `SshConfig` checks
this where it holds, and the hazard at `SSHConfig.java:605` says where not).
Nothing is assumed of the user, the network, the sessions and Android's calls.
`SshConfig` assumes that its threads run and that a destroyed process ends;
`OpenVpnConfig`, that its threads run, that a process that was signalled or
interrupted ends, and that one that cannot reach its server says so;
`TcpUplink`, that the two threads run; `UdpChannel`, that the threads run, that
a closed socket ends a read, and that a write to the socket returns: the writer
holds `mRemoteOutLock` while it writes, so a server that stops reading would block
it and then the keep-alive thread, and nothing would time the channel out. As long
as its socket is open, a keep-alive
may be written every time, so nobody is assumed to time out a live channel.

**What TLC refutes outside these bounds**, recorded under "hazards". Each
exception below was removed from its property to see the property fail:
`StoppedNeverDials`, `RetryNeverLost`, `LateConnectIsCanceled`, `StopIsFinal`,
`RetryEnds` and, with a revocation, `ConnectEnds` when a `disconnect()` overlaps
another thread's decision to connect or retry (they except `overtaken`);
`NoOrphanConfig` and `ConnectEnds` when the network changes before its last change
was dealt with or while `connect()` relies on what it saw of it (`flapped`,
`stale`); `NoOrphanConfig` when two threads decide at the same time (`raced`; three
commands are needed: the main thread's `retry()` assigns RETRYING over the
CONNECTING of an attempt whose failure is then ignored); `NoOrphanConfig`
and `LossIsNoticed` with a revocation during `connect()` (both except `revokes > 0`);
`NetworkErrorEnds` for a stopped service, and when the broadcast of the network's
return was handled before `connect()` assigned NETWORK_ERROR (it asks for a broadcast
to come); `PortsReleased`
and `CancelEnds` when `cancel()` overlaps `connect()`; `ImplementsConfig` of
`OpenVpnConfig` in that case and for two cancelers; `PollReturnsPacket` and
`StreamIsPrefix` once a segment came `ahead`; `AckedIsKept` for the bytes that were
`dropped`; `AnswerGoesToItsClient` once an id is `reused`; `ClosedEnds` without a
`Session` (`mSession`). These properties are therefore stated for the narrower
environment, and say which.

## 4. Findings

1. `vpn_overtaken`: `connect()` looks at `mStopService` before it announces
   CONNECTING and loads its Config (`MyVpnService.java:301-332`), and `disconnect()`
   takes no lock. A revocation in between cancels the old Config or none, logs
   "YOU ARE DISCONNECTED", and the new Config is dialed and shown as CONNECTED.
2. `vpn_canceled`: `onConnect` shows CONNECTED over the NETWORK_ERROR of a loss
   that canceled the Config (`MyVpnService.java:373`); when the same network is
   back nothing is repaired.
3. `vpn_openvpn`: `onReconnecting` shows RETRYING without a retry
   (`MyVpnService.java:380`), and `retry()` then ignores the RECONNECT of a
   process that has exited.
4. `openvpn_lost`: `OpenVpnConfig.retry` does nothing while `mState` is
   CONNECTING (`OpenVpnConfig.java:436`), so the loss of the SSH session before
   the first CONNECTED leads nowhere.
5. `uplink_wakeup`: `TCPPacketQueue.poll` waits without testing again
   (`TCPPacketQueue.java:36-41`); the unit test passes because its sleeps avoid
   the window.

Two more are in the models without a run of their own. An in-order segment with FIN,
ACK and data and without PSH is put in no queue (`TCPController.java:397, 405`) and
acknowledged (`446-455`): the action `AcceptFin`; without `dropped` in `AckedIsKept`
TLC shows it in four states. A global SSH proxy together with a jumper binds
`127.0.0.1:1090` twice (`SSHProxy.java:6`, `SSHConfig.java:474`), so `connect()`
cannot succeed: in `SshConfig`, `Bind` fails for the second hop of such a chain.

## 5. Proofs

All theorems hold for every value of the constants that satisfies the named
assumptions of the modules and the hypothesis a theorem states; `tlapm` checks
them to the last leaf. Each invariant below was checked with TLC first.

- `VpnServiceProofs`: `TypeCorrect`, whose invariant `TypeInv` adds to `TypeOK`
  that the Config object being connected was loaded.
  `NeverDialsWhenStopped` rests on `StopInv`: unless `overtaken`, nobody is between
  the checks and the deed of `connect()` or `retry()` when `mStopService` is set or
  about to be. That is what the exception buys, and why it cannot be smaller: a
  thread that is there will announce CONNECTING or RETRYING whatever the flag says.
  `Backoff` follows from the effect each step has on the counters (`StepEffect`),
  `StopsAreFinal` from `StopInv` and from who writes the status. `RetriesAreKept`
  needs `StopInv` too (a stop flag would make the connect command of a retry return
  early and leave RETRYING) and lemmas on the two queues: what is appended, removed
  and handed over between them. `LateConnects` needs `LateInv`: the handler thread
  connects, and announces, the *current* Config, so the one a stop cancels is the
  one that may still report. `NoOrphans` is the longest. `OrphanInv` says that a
  Config comes from a connect command (`ConfigIdInv`) and, as long as none of the
  exceptions has happened (`Quiet`), that one thread at a time decides
  (`OneDecides`), that who is about to connect is not being stopped (`NotStopped`),
  that a service which dials without a network has still to be told of the loss
  (`Seen`), and that a new Config is loaded only where every way has canceled the
  old one (`Released`).
- `SshConfigProofs`: `TypeCorrect`; `NoReconnect`, from the invariant that a
  canceler that has passed a node has set its flag, so that once one cancel has
  returned all flags are set; `CancelReleases`, from an invariant relating the
  place of `connect()` to the resources it can hold and each late canceler's
  place to what it has released already. `CancelFreesPorts` assumes
  `~DuringConnect`, as its run does: a bound port belongs to an open session
  (`OwnerInv`), which holds because no session is closed between two steps of
  `connect()` (`CalmInv`). With a `cancel()` during `connect()` TLC refutes it.
- `SshConfigRefinement`: `SshConfigIsConfig`, without any such hypothesis. The
  invariants of `CancelReleases` and `NoReconnect` are all it needs; every action
  maps to an action of `Config` or to a stutter.
- `OpenVpnConfigProofs`: `TypeCorrect`; `NoConnectAfter` under `InTurn` (`cancel()`
  comes when `connect()` is over, and one thread calls it): the number of CONNECTED
  reports does not grow once a `cancel()` has returned. Without `InTurn` TLC
  refutes the contract: `cancel()` returns at once when `mState` is already
  `DISCONNECTED`, so a second caller would return before the first has closed
  anything. The invariant says what the session, the field and the process can
  be at each place of `connect()` (`PlaceInv`, `EngineInv`), who can be in
  `cancel()` (`CallInv`), what each place of `cancel()` has achieved
  (`ProgressInv`) and that all of it is achieved when nobody is inside
  (`DoneInv`). `StayCleared` is the heart of it: no callback of the process and
  no `retry()` undoes what `cancel()` has achieved.
- `OpenVpnConfigRefinement`: `OpenVpnConfigIsConfig`, under `InTurn`, from the same
  invariant.
- `TcpUplinkProofs`: `TypeCorrect`, with numbers that wrap; the others under
  `NoWrap` (the stream's numbers stay below the largest int; what happens beyond it
  is neither proved nor run). For `AckedStaysKept`, `AckedIsKept` alone is not
  inductive: `EntryInv` says that an entry carries no byte before its own number, so
  that replacing it with a placeholder, which only happens at or after the
  acknowledged number, loses nothing acknowledged; `PendingInv` carries the promise
  across the two steps of `putToQueue`; `FinInv` says that bytes are only `dropped`
  at the end of the stream, so that nothing is accepted after them. `PollsPackets` and `StreamInOrder` come from `StreamInv`:
  as long as no segment came `ahead`, the entries of the queue follow one another
  from where the written part ends to where the accepted part does, the only
  placeholder is at that end, and what `poll()` has seen first it still finds
  first when it takes the lock again.
- `UdpChannelProofs`: `TypeCorrect`, `ClientsAreDistinct` and
  `AnswersReachTheirClients` from one invariant. `AnswerGoesToItsClient` is far
  from inductive: `IdsInv` says that until an id is reused the packet being
  written, the server's connections and the answers under way all name a client
  by the id the table has it under; `CounterInv` and `OneIdPerClient` make the
  next id the place of the entry that is appended (lemma `PacketHasItsId`). A
  negative byte never passes for an id because `MAX_CLIENT_ID = 2 * ByteHalf - 1`.
  `NoWakeupIsLost` and `EndedIsReleased` (the latter for a connection with a
  `Session`) are the safety that the liveness
  properties `QueuedIsTaken` and `ClosedEnds` rest on: a waiting writer with a
  packet has its permit or is about to get it, and a channel whose threads have
  ended holds nothing (`HoldsInv` says what the writer may hold at each place).

Every invariant and every safety action property of the passing runs is stated
by a theorem. Only model-checked: the liveness properties (`CancelEnds`,
`ProcessIsStopped`, `QueuedIsTaken`, `ClosedEnds` and the six of `vpn_liveness`),
because TLAPS proves neither fairness arguments nor ENABLED. `VpnServiceOpenVpn`
has no theorem yet. What recursive definitions compute over all data is out of
the prover's reach as well; no module uses a RECURSIVE operator.

## 6. Plan

In this order:

1. Proofs about `VpnServiceOpenVpn`: which of the service's invariants survive a
   Config that reports later. `RetryNeverLost` does not (finding 3); `TypeOK` and
   `BackoffShape` should.
2. Two channels under the same id: a successor of a closed `UdpChannel` with the
   late `close()` of its predecessor, which stops the port both use.
3. `TcpController`: states, handshake retries, window, keep-alive and close
   timers; `generateSacks`, `findLossPacket` and `removeAcknowledgedPackets` as
   operators against a reference definition. Worth it once the app uses this
   stack.

Read in the code, outside of what the models tell apart, and worth a look:
`MyVpnService.java:351-358` loops for ever on a cause without a message;
`SSHConfig.java:132` drops the private key exactly when it is to be used;
`SSHConfig.java:554` adds the first DNS server twice; `HomeFragment.java:144`
does not listen for DISCONNECTING and RETRYING, which it handles;
`SSHConfig.java:453` gives up silently; `OpenVpnConfig.java:409` connects a
proxy's SSHConfig without the service it dereferences; `TCPController.java:474`
locks another object than the queue does; `TCPController.java:542` stops one
index too late.

## 7. Not modelled

The user interface apart from the buttons, stored configurations and
preferences, the update check and logging (main-thread code without a protocol
between threads); the TCP controller apart from its uplink, the DNS channels and
the table of TCP channels, which the app does not construct at this commit;
Android's foreground service deadline; the packets' content.

Nor the vendored libraries and the native code, of which only the calls the
modelled code makes are represented. They are the bulk of the repository: some
1.45 million lines of C and C++ under `src/app/src/main/cpp` (OpenSSL, mbedtls,
OpenVPN 2 and 3, asio, lzo, lz4, badvpn) beside about 14 000 lines of Java of the
project's own. None of the C or C++ is SmartTunnel's; a share of the repository's
lines therefore says little about how much of the program is modelled.
