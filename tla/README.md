# Kourosh-AE: verification project

Kourosh-AE is an Android VPN client: a Kotlin application around a Rust network core, with Psiphon, Tor,
xray ("SHARD") and AnyTLS as further transports. The TLA+ modules beside this file model the parts that
decide *whether there is a tunnel*: who may start one, who may stop one, how the core finds a peer and keeps
a session on it, what a tunnel does while it lives, and what happens when any of it dies.

Names used below: "the service" is `app/src/main/java/com/kourosh/ae/kourosh_aeVpnService.kt`; `*.rs` files are
under `core/aether/src/`; a number after a name is a line of that file.

Contents: 1 the system, 2 modules and code, 3 runs, 4 bounds, 5 fairness, 6 proofs, 7 findings,
8 other disagreements, 9 not modelled, 10 plan.

## 1. The system

| Part | State it keeps | Operations | Interacts with | What is hard |
|---|---|---|---|---|
| VPN service (Kotlin) | about twenty `@Volatile` fields: session generation, stop, reconnect and kill-switch flags; the TUN; scheduled tasks | Connect, Disconnect, Reconnect, revoke, drop, auto-reconnect, watchdog, kill switch, destroy | main thread, single-thread `worker`, single-thread `ladderScheduler`, callbacks of the core and of the libraries | every method reads and writes the same fields without a lock; a native session's end runs long after the next session has begun |
| Psiphon ladder (service) | ladder index, attempts, region phase, timer, tunnel handle; the library's one controller | dial, escalate, region attempt, rung timer, onConnected, onExiting, stop threads | library threads, `worker`, `ladderScheduler` | callbacks carry no identity; three sources escalate the same rung |
| JNI bridge (`aether_jni.cpp`) | one mutex, protector and sink references | attach, detach, on_event, protect_socket | core threads and Kotlin | an old session's detach removes the new one's sink |
| C ABI of the core (`ffi.rs`) | process-wide atomics RUNNING, READY, STOP_REQUESTED, a `Notify` | start (blocks for the whole run), stop, is_running, mark_ready | called from several threads; runs the core in its own Tokio runtime | lock-free flags; a stop races with a start; teardown order |
| Account (`account.rs`, `config.rs`, part of `main.rs`) | the identity file, the certificate's age, the device at the account API | load, adopt, enrol, register, renew, save | account API over two routes, the run loops | an effect at the API with no answer; a kill between effect and save |
| Run loops (`main.rs`) | last good peer, quick peer, failure counts, cooldowns, fallback flag, lastconn and gateway files | dial passes, scan, try a tunnel, pause | scanners, transports, account | memories that disagree; blame; recovery |
| WireGuard tunnel and TUN bridge (`wireguard.rs`, `tun.rs`) | validation ladder, MTU hint, two bounded channels, staleness | probe, climb down, forward, health check, end | boringtun, the TUN | four tasks and a bridge joined by bounded queues |
| MASQUE tunnel (`quic.rs`, `masque_h2.rs`) | request state, readiness, validation count, channels | the two select loops | quiche, h2, local side, run loop | datagrams overtake; flow control blocks the loop; a dropped session |
| SOCKS server and netstack (`socks.rs`, `netstack.rs`) | connection tables, pending bytes, bounded queues | CONNECT, resolve, relay; poll, open, send, close | smoltcp, clients, tunnel | half-closes, back-pressure, late answers |
| DNS split (`smart_dns.rs`) | one engine per process, resolver lists, cache | init, route a query, ask, match a response | TUN bridge | byte offsets; an engine that outlives its runtime |
| Chained transports, exit rotation, SHARD, Tor (service and managers) | committed leg, rotation budget, node scores, process handles | raise, rotate, probe | service | see section 9 |
| Settings, UI, tile, updates, remote policy | preferences | user input | service (intents) | little: they send Connect, Disconnect, Reconnect |
| quiche, badvpn, anytls | vendored third-party code | | | outside the project |

How a session lives. An intent reaches `onStartCommand` on the main thread. `startTunnel` resets the
flags, takes a new `sessionGeneration` and submits a job to `worker`. On a core transport the job
prepares the core, opens the TUN, attaches the JNI bridge and blocks in `NativeCore.start`, which is
`aether_start_json`, until the core ends; its `finally` block then decides between leaving, sealing the
device and retrying. Inside, the core loads or provisions an identity, and one of `run_masque`,
`run_wireguard`, `run_gool` and `run_mim` looks for a peer, brings a tunnel up on it, serves the TUN or the
SOCKS server through it, and starts over when it dies. On SHARD and Tor the job ends when tun2socks is up. On
Psiphon it ends when the library has been told to dial, and callbacks and timers carry the session. A watchdog
on `ladderScheduler` looks at a connected session and calls `onTunnelLost`.

What makes each part correct:

- Service: off stays off; a drop comes back; no interface without a reader; the old session's end does not take
  the service, or the bridge to the core, from the new one; somebody looks after a started service.
- Psiphon: every rung gets its turn before the ladder gives up; every attempt is decided.
- C ABI: one run at a time; nothing of an old run acts in a new one; a stop is neither lost nor inherited.
- Account: no session on a device whose enrolment was refused, on an identity that is not saved or on a dead
  certificate; no registration for a network error.
- Run loops: what is dialled has been seen to work; only the hop that failed pays; the loop gets through when the
  network allows it; it never gives up once it has had a tunnel.
- Tunnels: announced and used only once proven; noticed when dead; never waiting for themselves.
- SOCKS: the stream arrives whole; nobody waits for ever; nothing is left behind.

## 2. Modules and code

| Module | Models | Kind |
|---|---|---|
| `AetherFfi`, `AetherFfiProofs` | ffi.rs: `aether_start_json_inner`, the guards, the `select!`, `wait_for_stop`, `mark_ready`, `aether_stop` | state machine; TLAPS |
| `VpnService`, `VpnProofs` | the service's life-cycle for all transports except the chained ones, with the JNI bridge's attachment | state machine; TLAPS |
| `PsiphonLadder` | extends `VpnService`: inside a Psiphon session | state machine; TLAPS (in `VpnProofs`) |
| `MCVpn` | instances of the two | |
| `Identity`, `IdentityProofs` | `load_or_provision_warp`, `load_or_provision_masque`, the account API's answers, the identity file | component the sessions extend; TLAPS |
| `CoreSession` | what a `run_*` loop promises its caller | abstract specification |
| `MasqueSession`, `MasqueProofs`, `MCMasque` | `run_masque` | extends `Identity`, implements `CoreSession`; TLAPS |
| `WarpSession`, `WarpProofs`, `MCWarp` | `run_wireguard`, `run_gool` | extends `Identity`, implements `CoreSession`; TLAPS |
| `MimSession`, `MimProofs`, `MCMim` | `run_mim`, the gateway cache and its background scans | implements `CoreSession`; TLAPS |
| `Lists` | the iterator chains both MASQUE loops build their candidates with: filter, deduplicate, take | operators of the two |
| `WireGuardTunnel`, `MCTunnel` | `verify_dataplane`, the tasks of `WgTunnel::run`, the loop of tun.rs | state machine; TLAPS (in `DataPathProofs`) |
| `MasqueTunnel`, `MasqueTunnelProofs`, `MCMasqueTunnel` | `quic::run`, `masque_h2::run`, `run_masque_tunnel` | state machine; TLAPS |
| `Netstack` | the stack's loop, its tables, smoltcp's sockets as the loop uses them, the far ends | component of the next |
| `SocksConnect`, `MCSocks` | `handle_connect` from request to end of relay | composed with `Netstack`; TLAPS (in `DataPathProofs`) |
| `SmartDns` | the DNS split and its engine | state machine; TLAPS (in `DataPathProofs`) |
| `DataPathProofs` | the proofs about the WireGuard tunnel, the SOCKS relay and the DNS split | TLAPS |

Definitions keep the names of the code where they translate a function. A definition marked "Mutant" stands before
the one it is a plausible slip of; section 3 says what it is for.

**AetherFfi.** One step is one atomic operation of one thread. `Starters` call `aether_start_json`, again and
again; `Stoppers` call `aether_stop`. `pc[t]` is the thread's place: `parse` (bad JSON returns -1 before any flag is
touched), `cas` (`compare_exchange` on RUNNING), `resetStop`, `resetReady`, `build`, then `register`, `check`, `await`
(`wait_for_stop`: enable the `Notified`, test, wait), `dropRuntime` (the runtime joins its tasks), `dropRunning`,
`dropReady` (`RunningGuard::drop`). `marking` holds the runs with a task inside `mark_ready`; `announced` and `stored`
are history. A tunnel may end by itself at any moment (`CoreEnds`).

**VpnService.** The fields are one record `svc`; `sched` is what the scheduler's thread is in the middle of. A
method is an operator on the record with the method's name, and a handler is the composition of the operators in
the order of the code's calls. Methods run without interleaving except where they block or act on an earlier test;
there the step is split: the job (`TakeJob`, `Prepared`, `Establish`, `EnterCore`, `CoreReturns`, `HandleResult`,
`FinallyRelease`, `FinallyLadder`), the retry (`RetryTest`, `RetryStart`), the quick reconnect (`QuickBegin`, then
`QuickStart`, `QuickTimeout` or `QuickAbandon`) and the watchdog (`WatchdogTest`, `WatchdogLost`).
`sessionGeneration` is only compared with a captured value, so a job has `cur`, "no startTunnel since I was
submitted". `attached` says that the JNI bridge has this instance's protector and sink (`yes`), has none (`no`), or had
this instance's until the job of an earlier instance took them away (`cut`); a core that is not attached is not heard.
`onDestroy` does not wait for the worker, and `shutdownNow` does not interrupt a job inside the core: `old` is such a job
of a destroyed instance, which goes on beside the next instance. What it still does to the process is modelled
(`OldEnters`, `OldConnected`, `OldReturns`, `OldFinally`): it may hold the core, so that the new session finds it busy, its
"connected" goes to whoever is attached, and its finally block detaches whoever that is. `tun` is `none`, `open` or `blocking` (the kill switch's), and the system may refuse the blocking one
in either way it does (`null`, an exception). Transports are grouped by how they live and die: NATIVE (MASQUE,
WireGuard, WoW on a TUN), SOCKS (the same in proxy mode), FRONT (SHARD and Tor), REFUSED (SHARD or Tor asked for in
proxy mode), PSIPHON and PSIPHON_PROXY. A timer that is set may fire at any time, and the watchdog may declare a
session dead whenever `MayBeDead` lets it.

**PsiphonLadder.** `LadderNext` is `VpnService!Next` and the steps of a Psiphon session. The library is external: from
`app/libs/psiphontunnel-2.0.39.aar` as the service uses it, a process has one controller; `newPsiphonTunnel` and
`startTunneling` stop the one that is there; a stop delivers `onExiting` before it returns; a callback does not say
which controller it comes from. `tried` and `alone` are history.

**Identity.** An identity is `[dev, cert, age]`: the device, how its certificate relates to the key the account has
enrolled, and what `masque_cert_expiring` and `cert_still_usable` tell apart. A step is one API call or one file
operation; an API call may take effect without an answer and the process may be killed after it. `enroll_key`
and `fetch_device` combine the direct and the fronted answer as account.rs does, each in its own way. `told` records which
calls of this start, `enrolment` or `profile`, were answered over either route that the device is gone, whatever the
call's result made of that. `Identity` ends at `pc = "run"`; the sessions go on
from there.

**MasqueSession.** Two dial passes over HTTP/3 and HTTP/2 with a renewal between them when gateways refuse the
certificate, then the loop: quick peer (for a user who has not switched quick reconnect off), last good, forced, or a scan; remember; tunnel;
pause. `fallback` is the
process-wide H2_FALLBACK. `net` is the environment: which transports reach which gateway, which refuse everyone.
`verified` and `renewed` are history. The lastconn file is written in place, so a kill can leave it `Torn`.

**WarpSession.** `run_wireguard` and `run_gool` share their steps where the code repeats them. A target is an address
and an obfuscation profile. `cooldowns` are the keys of `endpoint_cooldowns`, `cooling` the ones still running.

**MimSession.** One MASQUE hop inside another: choose or select the outer edge, raise it, walk `inners`, and blame the
hop that failed. `TopUpDone` is `spawn_masque_cache_refresh`.

**CoreSession.** Six phases and one promise: a session gives up only before it has tried its first tunnel. The three
session modules map their `pc` to a phase (`Phase`) and instantiate it (`Core == INSTANCE CoreSession WITH ...`);
`ImplementsCore` is the abstract specification with its fairness.

**WireGuardTunnel.** Handshake, small probes, the ladder of sizes, then the live tunnel: recv, send, timer and health
tasks, and the bridge, with `inq` and `outq` between them. `hint` is INNER_MTU_HINT. A probe's reply may come late,
twice or not at all.

**MasqueTunnel.** An iteration of a select loop is one step; `send_capsule`, which blocks, is a step of its own. What
comes from the edge is a set, since datagrams overtake. ECH rejection and its single retry start the handshake over.

**Netstack, SocksConnect.** `Tick` is an iteration of the stack's loop: commands, input, poll, `service_tcp` stage by
stage. The upload is a sequence of chunks, so gaps and repetitions show; the download is counted. `handle_connect`
is the peek, the route, the gateway attempt with its timeouts, the lookup, the open and the two pumps.

**SmartDns.** The engine is one for the process, filled in by each session's start. The end of a DNS question is kept
byte by byte because `response_matches` reads it by offset; everything else is abstract.

## 3. Runs

| Run | Instance | Distinct states | Checks |
|---|---|---|---|
| `ffi` | 2 starters, 2 stoppers | 104 373 | TypeOK, OneRun, NoTaskOutlivesItsRun, ReadyHasARun, NoStaleStop, StopIsHeard |
| `vpn` | NATIVE with and without the kill switch; SOCKS; FRONT and REFUSED under the kill switch, with the blocking TUN granted, null or thrown; auto-reconnect on | 725 559 | TypeOK, NoBlackHole, LookedAfter, NewestIsHeard, NewestSurvives, DropComesBack |
| `psiphon` | PSIPHON, 2 rungs, a preferred country | 497 045 | EveryRungHasATurn, Decided |
| `masque` | 2 gateways, 2 devices, 4 users, 5 networks | 262 300 | MasqueSafety, RunsOnSoundIdentity, TunnelAsVerified, NoChurn, Recovers, ImplementsCore |
| `warp` | 2 addresses, 2 profiles, 5 users, 4 networks | 207 440 | WarpSafety, CooledDownLeftAlone, Recovers, ImplementsCore |
| `mim` | 3 edges, 3 users, 5 networks | 110 835 | MimSafety, HealthyOuterKept, Recovers, ImplementsCore |
| `tunnel` | the real ladder of sizes, 4 paths, channels of 2 | 123 468 | TypeOK, HintProven, NoCrossedWait, LostEndNoticed |
| `masque_tunnel` | both carriers, check and ECH on and off | 137 084 | CarrierSafety, ReadyIsEarned, LeftMeansEnded, FarEndLost |
| `socks` | 4 kinds of request, buffers and queues of one chunk | 99 873 | UploadIntact, LossMeansBacklog, NobodyWaits, NothingLeft |
| `vpn_off` | NATIVE | | OffStaysOff is violated |
| `socks_sniff` | an address as target, domain rules set | | NothingDiscarded is violated |
| `smart_dns` | 2 + 1 + 1 plain servers, 1 encrypted | | FirstAnswerWins is violated |

Some properties are conjunctions of named parts, each with its own comment in the module: MasqueSafety (types,
FallbackEarned, RetriesWithNewCertificate, ConnectedMeansTunnel), RunsOnSoundIdentity (RefusalActedOn,
RunsOnWhatIsSaved, RunsOnUsableCertificate), WarpSafety (types, DialsWhatPassed), MimSafety (types,
DialsWhatAnswered, CacheSound), CarrierSafety (types, CarriedOnceAccepted), FarEndLost (DeadPathEnds,
StreamEndNoticed), UploadIntact (types, NoGap, EofAfterData), NobodyWaits (Answered, EndReachesClient),
LostEndNoticed (DeadPathNoticed, BridgeTakesTunnelDown), LookedAfter (Supervised, NeverStranded).

What the passing runs show:

- `ffi`: at most one tunnel exists, the tunnel's tasks are gone before RUNNING reads false, READY never outlives
  the guard, a run is never ended by a stop of an earlier run, and a stop that reaches a polled `select!` ends it:
  the order "enable, test, await" loses no wake-up.
- `vpn`: an open TUN always has a reader; a quick reconnect and a newer session keep the service and the bridge to
  their core from the end of the old one in the same instance of the service (the end of a job left behind by an earlier
  instance does take the bridge: section 8); a live proxy, SHARD or Tor session is under the watchdog, and a SHARD or Tor
  service without a session has a task or ends; a core session that carried traffic and died is followed by another, where
  the kill switch is not armed (where it is, the device is sealed and nothing is scheduled: section 8). Each behaviour keeps
  to one transport family: section 8 says what happens across them.
- `psiphon`: a region attempt, rungs in both start positions, timers, self-inflicted exits and late stop threads
  interleave; the ladder ends only after a full round, and every attempt is decided.
- `masque`: starting from any identity file, with devices deleted upstream, certificates that age, answers lost and
  processes killed at any step. No start whose enrolment was refused goes on with the device, though one whose team
  profile was refused may (section 8); the tunnel is dialled on the peer and the transport that were just accepted; a
  renewal is followed by the new certificate only; a network error costs no registration; when some gateway of the
  pool is reachable the session gets through again and again.
- `warp`: an endpoint given up on comes back through no memory before its cooldown is over; what is dialled passed a
  check since; with every endpoint put aside the session still recovers.
- `mim`: a healthy outer edge is not counted down for its inner edges; one that failed too often must answer again
  first; the cache stays sound under a concurrent scan; the session recovers.
- `tunnel`: late and doubled replies never raise the MTU hint above what crossed; the two directions never wait for
  each other; a dead path and a gone TUN each end the tunnel.
- `masque_tunnel`: no packet of the device leaves before the edge accepted; no tunnel is announced that the edge did not
  accept and, with the check on, answer often enough; a dropped session, an ended local side, a dead path and (on
  HTTP/2) an ended stream end it, a blocked `send_capsule` included.
- `socks`: the upload arrives in order and whole before its end; a client is not left without a reply or without
  the end; a gateway that answers after its timeout, a failed lookup and a lost tunnel leave nothing in the tables.

The refinement: in `masque`, `warp` and `mim` TLC checks `ImplementsCore`, that is, every step is a step of
`CoreSession` or leaves the phase alone, and the fairness of the abstract specification follows from the code's.

Mutants. For every property of a passing run, and for the named parts of the conjunctions, there is a definition
in which a plausible slip is made (a guard forgotten, a flag not reset, the last answer deciding, a timer armed
once), and TLC finds the property violated with it.

## 4. Bounds

- `ffi`: two starters are what the flags have to keep apart, two stoppers what may race with each other; the
  theorems hold for any number.
- `MaxQueued` (vpn and psiphon 1, vpn_off 2): jobs waiting behind the worker's current one. One makes "old, newest"; a
  command that would queue another waits. The theorems hold for any number, so "old, overtaken, newest" is left to TLC
  only for DropComesBack, where every job but the newest is equally outdated.
- One core job is left behind by a destroyed instance at a time: the next instance of the service comes while it is still
  there, a third one does not. Jobs of the other transports, whose waits `shutdownNow` interrupts, end with their instance,
  and the interface an old NATIVE job may hold is not modelled.
- `LadderSize` 2: with a start at either rung and the wrap, the first, the last and the wrapped rung are told apart.
  `MaxStops` 1: one late stop thread is enough to stop a controller that is not its own.
- `Devices` 2: the saved device and a replacement; a device that is forgotten everywhere can be handed out again. The
  theorems of `MasqueProofs` and `WarpProofs` hold for any number.
- `Peers`, `Addrs` 2, `Edges` 3: one that works and one that does not; for `run_mim` an outer, an inner and another.
  `IdentityRejectedLimit` 2, `MaxConsecutiveFails` 2 and `MaxOuterFails` 2 let a count be one short of its limit; the
  code's limits are larger constants used the same way. `MaxTopUps` 1: more concurrent scans count as one.
- Networks and users are chosen sets, listed in the MC modules; the network may move between its states at any time.
- `Ladder` is the code's own. `Paths` has a size below the floor, one between two rungs, the largest, and `Dead`.
  `Cap` 2 of a channel: empty, part full and full.
- `socks`: buffers, queues and `DataIn` of one chunk and streams of two make every queue full and every partial send
  happen.
- `heard` and `successes` of the tunnels stop at RequiredSuccesses, 2.

No symmetry is used: the runs check liveness.

## 5. Fairness

No action of a user, a network, an account or a far end is fair unless it is named here.

- `AetherFfi`: weak fairness of straight-line code; strong fairness of `DropRuntime`, since a runtime in shutdown polls
  no task a second time and tasks cannot hold it off for ever. `CoreEnds` has none.
- `VpnService`: the two executors run what they hold (`Scheduler`, `Worker`), and the system destroys a service that
  stopped itself and holds no TUN. The core returns once it has been told to stop, which is what `StopIsHeard` shows
  of the ABI; it is not obliged to connect or to fail. The same is asked of the job of a destroyed instance (`OldWorker`),
  whose thread runs on.
- `PsiphonLadder`: as above, with the rung's timer on the same scheduler and stop threads that run. The library is not
  obliged to call back: the timer has to be enough.
- Sessions: the core's task runs as long as the process does. In `WarpSession` a cooldown's time passes; in
  `MimSession` a background scan ends. `Recovers` assumes in its own statement what the network must do, and nothing
  about the tunnel's life.
- `WireGuardTunnel`: every task is polled and every timer fires.
- `MasqueTunnel`: the arms of the unbiased `select!` each get their turn (tokio polls them in random order); a timer
  fires; `SendCapsule` is strongly fair because an edge that reads opens its window again and again, and a live edge
  reads what it has accepted.
- `SocksConnect`: the tasks and the stack's loop run, what smoltcp sends again gets through in the end, and a far end
  answers a SYN and follows our FIN with its own.
- `SmartDns`: its property is an invariant; nothing is assumed.

## 6. Proofs

Every theorem holds for all values of the constants that satisfy the module's ASSUME, which TLC evaluates on the runs'
instances.

| Module | Theorem | Statement |
|---|---|---|
| `AetherFfiProofs` | `FfiSafety` | `[]Safety`, the inductive invariant |
| | `FfiTypeOK`, `FfiOneRun`, `FfiRunningIsTheGuard`, `FfiNoTaskOutlivesItsRun`, `FfiReadyHasARun`, `FfiNoStaleStop` | the safety properties of `ffi`, and that `aether_is_running` is exact |
| `VpnProofs` | `VpnInvariant` | `[](Inv /\ OldInv)`, the inductive invariant |
| | `VpnTypeCorrect`, `VpnNewestIsHeard` | the first and the last invariant of `vpn`, for every mixture of transports: nothing of its own instance detaches the newest session |
| | `VpnNoBlackHole`, `VpnLookedAfter` | the other two, for profiles of one family (`OneFamily`) |
| | `VpnNewestSurvives` | the action property of `vpn`, with auto-reconnect and, for core sessions, a system that does not throw on the blocking TUN (`Steady`) |
| | `LadderInvariant` | `[]LadderInv` of `LadderSpec`: the same invariant with Psiphon sessions inside, and the ladder's own |
| | `LadderTypeCorrect`, `LadderNewestIsHeard` | the two invariants of every mixture of transports, under `LadderSpec` |
| | `LadderEveryRung` | the action property of `psiphon`, for ladders of any length |
| `MasqueProofs` (with `IdentityProofs`) | `MasqueIdentity`, `MasqueInvariant` | `[]IdInv` and `[](MasqueInv /\ IdInv)`, the inductive invariants |
| | `MasqueRunsOnSoundIdentity`, `MasqueNoChurn`, `MasqueIsSafe`, `MasqueTunnelAsVerified` | the safety properties of `masque` |
| | `MasqueRefinesCore` | every step is a step of `CoreSession` or a stutter |
| `WarpProofs` (with `IdentityProofs`) | `WarpInvariant` | the inductive invariant |
| | `WarpIsSafe`, `WarpCooledDownLeftAlone` | the safety properties of `warp` |
| | `WarpRunsOnWhatIsSaved`, `WarpNoChurn` | for WARP accounts: the identity in use is the saved one, and a network error costs no registration |
| | `WarpRefinesCore` | as for `MasqueSession` |
| `MimProofs` | `MimInvariant`, `MimIsSafe`, `MimHealthyOuterKept`, `MimRefinesCore` | the same for `mim` |
| `DataPathProofs` | `TunnelSafety`, `TunnelTypeOK`, `TunnelHintProven` | the inductive invariant `LadderInv` and the invariants of `tunnel` |
| | `ConnectInvariant` | `[]ConnectInv`, the inductive invariant of a CONNECT over the stack |
| | `ConnectUploadIntact`, `ConnectLossMeansBacklog` | the invariant and the action property of `socks` |
| | `DnsNoAnswerTaken` | what `smart_dns` shows, for every name, type and number of servers |
| `MasqueTunnelProofs` | `TunnelInvariant`, `TunnelCarrierSafety`, `TunnelReadyIsEarned` | the inductive invariant `TunnelInv` and the invariants of `masque_tunnel` |

*AetherFfi.* The only assumption is that starters and stoppers are different threads. `Safety` is TypeOK, OneRun,
RunningIsTheGuard, MarkingHasRuntime, NoTaskOutlivesItsRun and ReadyHasARun. OneRun needs RunningIsTheGuard: a claim
succeeds only when RUNNING is false, and only the equivalence turns that into "nobody holds the guard".
NoTaskOutlivesItsRun needs MarkingHasRuntime: a run leaves the guard at `dropRunning`, and only the join in
`dropRuntime` knows that `marking` is empty by then. NoStaleStop is a separate induction on top.

*VpnService.* The service's methods call each other on one record, so the proof is about methods before it is about
steps. A method's lemma says how the record it returns differs from the one it was given: it goes on with the
session (`Quiet`), stops it (`Stops`) or starts another (`Starts`); a handler's lemma chains those of the methods it
calls. `Inv` has three parts; `OldInv` adds that only a core
session leaves a job behind.

- `VpnInv` holds whatever the user switches between. TypeOK is not inductive because a retry starts whatever
  configuration is stored: that an armed task, and a retry or quick reconnect half way through, has one has to be
  carried along. NewestIsHeard speaks of a job inside the core; `Heard` carries it from the job's first place on,
  since `attach` comes long before, and in between the other threads' methods may detach only by stopping; the
  job of an earlier instance may too, which is why the property tells `cut` from `no`.
- `NativeInv`, for a user who stays with core sessions: the TUN belongs to the running job, which gives it up before its
  last step; a core runs only under its job.
- `FrontInv`, for a user who stays with SHARD and Tor: `connected` stands for a session that exists, and the latch of a
  quick reconnect has an owner.

Neither of the last two survives a switch between the families, and NoBlackHole is false there: `stopTunnel`
branches on the newest session's protocol, not on the running job's (section 8). `OneFamily` says that a
profile's transports are core sessions or are SHARD and Tor; the profiles of `vpn` are of this kind. Kill switch,
auto-reconnect, the blocking TUN's outcome and the length of the worker's queue are arbitrary. The `Vpn` theorems are
about `VpnService!Spec`, which starts and stops Psiphon sessions; the steps inside one are added by `PsiphonLadder`, and
the `Ladder` theorems are about both together. TLC was run on `Inv` itself first, before `old` was added to the model, with the core
transports together and with SHARD and Tor, under both preferences and all outcomes of the blocking TUN (about 2.6
million states).

NewestSurvives is an action property on top: `OneNewest` says that among the running job and those that wait at most one
is of the newest generation, which is why a finally block that still owns the service has nobody behind it. `Steady` is
what it needs besides. Without auto-reconnect `LeaveDown` ends the service, and a watchdog's verdict that a Disconnect
and a Connect have overtaken then ends the newer session; a blocking TUN whose `establish()` throws does the same.

*PsiphonLadder.* `LadderInv` is `Inv` with three parts more. `Turns` is the ladder's: while the session is `alone`, no job
runs once the ladder is armed, the rung whose budget runs is one that was dialled (or the preferred country is still being
tried), and every rung that has had no turn is ahead of the current one by less than the attempts that are left. EveryRungHasATurn
follows: the ladder gives up at `ladderAttempts + 1 >= LadderSize`, when none without a turn can be ahead. `Named` (no job before the first
session) is what an armed ladder dials with; `UnusedInv` says that a profile without Psiphon never gets a controller, and
carries `Inv` through the library's callbacks. The lemmas about methods are those of the service; a second set says of each
method what it does to the ladder (`Moves`). Two details of the statement come from the proof: a new session of any
transport ends the history of the old one (`OpenPsiphon` clears `alone`), and in proxy mode the
first controller that exits ends the session, so the property is about a session on a TUN.

*Identity.* None of the three parts of RunsOnSoundIdentity is inductive. A usable certificate at "run" needs the
certificate of everything that may still be saved (`Certified`); that a refused enrolment is acted on needs that no enrolment on
the way to "run" has heard one (`Untold`); NoChurn needs why the start is registering at all (`WhyRegister`).
`IdentityProofs` has one lemma per step of `load_or_provision`; `MasqueProofs` and `WarpProofs` show that their loops keep
`IdInv` too, the renewal included. Two devices at least are assumed, so that there is a replacement.

*MasqueSession.* TunnelAsVerified is not inductive: between the probe that accepted a gateway and the tunnel, the gateway
passes through the list of ready ones, the quick-reconnect memory and the choice, and the fallback flag may move in
between. `MasqueInv` says of each of them, place by place, what was verified last and over which transport. FallbackEarned
needs the same about the flag, RetriesWithNewCertificate that the copy in memory is the renewed one through the
whole second pass.

*WarpSession.* What is dialled comes from the start's check, from the last round's memory or from a scan. `WarpInv` says
where each source may still be used and what is known of it there: the checked endpoint is taken by the first round, before
anything was put aside; what is remembered is not cooling; what `run_gool` takes up unchecked has passed since it was
last given up. That a count never passes its limit needs that a round begins below it.

*MimSession.* The next round's edge comes from one of two memories, which hold the edge that last answered except between
its selection and its being remembered, or after it was given up. That the cache has no edge twice rests on lemmas about
`Lists` (what is picked comes from a position of its own, a list of first occurrences has none twice). They speak of
sequences of any length, and are proved without induction over data: a counterexample would have a least position
(`NatMin`, from the well-foundedness of the naturals), and there is none.

*The refinement.* `CoreSafe` is `CoreSession` without its fairness. The proofs first show which phase every place of a
session maps to, then that each step maps to a step of the abstract session or leaves it alone; the invariant is needed
where the promise is: a session that gives up has not tried a tunnel.

*WireGuardTunnel.* HintProven is not inductive: that the rung published is no larger than what crossed needs to know
what may still be under way. `LadderInv` adds `UnderWay` (before the ladder only small probes are in flight; on rung
i nothing but small probes and probes of rung i or larger, because the ladder only descends) and `Counting`. It uses that the
ladder's sizes are positive and descend (`TunnelAssumption`, which is what PROBE_LADDER is).

*Netstack, SocksConnect.* UploadIntact speaks of what the far end has; to be inductive it has to speak of every chunk on its
way. `Stream` does: far end, send buffer and `pending` together (`Flow`) are the first chunks the client sent, and what is at
the end of `data_in` for the connection is exactly the rest (`Queued`), with the close, if any, last. `Drained` says that
the socket was closed from this side only after its last byte left `pending`, which is what keeps FIN behind the data.
`Sound` relates a connection's fields (an established one belongs to the application or was dropped by it; data is under way
only to a socket that takes it; what is under way fits the receive buffer), `OpenedOnce` that an id is opened and answered
once, and `Place` what each place of `handle_connect` knows. There is a lemma for each stage of `service_tcp` and for the
poll; `Onward` and `Served` say what no stage may do, and chain. LossMeansBacklog is an action property on top: the poll takes
all that is under way into the receive buffer, and only then may `Deliver` and `Finish` empty and remove the socket. A poll sees
any number of segments and a drain any number of items; `Seen` and `Handling` are recursive functions, and what they compute is
proved position by position, from the least position at which it would fail. Buffer and queue sizes, the number of chunks
and the requests are arbitrary. Inside the tunnel the stream is followed from behind the peeked bytes, whose loss is the
finding of `socks_sniff`.

*SmartDns.* A question's type is read as `(t % 256) * 256`, which is `t` for no type but 0; so `RoundWon` never happens, the cache
stays empty and every reply is SERVFAIL. The theorem assumes only that types are positive.

*MasqueTunnel.* That a status or a datagram means acceptance has to be known while it is under way (`EdgesWord`); that a
second handshake cannot take an acceptance back rests on an ECH retry being made only before the first hello
(`NothingBeforeHello`); that enough replies were heard needs the count compared with what arrived (`Counted`). The number
of replies and the channel's length are arbitrary.

The assumptions are types of the constants, that the limits are positive, and that the values which stand for "none" (NoPeer,
NoTarget, NoId, None, Torn, Damaged) are not values of the kind they are missing from.

Only model-checked:

- liveness and the fairness half of the refinements (StopIsHeard, DropComesBack, Decided, Recovers, ImplementsCore,
  NoCrossedWait, LostEndNoticed, LeftMeansEnded, FarEndLost, NobodyWaits, NothingLeft), which are out of the prover's reach. Every invariant and every
  action property of a passing run is a theorem.

What a recursive definition computes is proved only where a least counterexample can be named as a number (the lemmas on `Lists`,
`Seen` and `Handling`); the library's induction theorems, which take a predicate as parameter, are not used.

## 7. Findings

Each is a run whose property states what a comment of the code says.

| Run | What the code does | What it says |
|---|---|---|
| `vpn_off` | nothing between `prepare` and `NativeCore.start` looks at `stopRequested` (service 4271): a Disconnect in between finds no run to stop, and the tunnel comes up and stays up | service 335: "one the user switched off must stay off" |
| `socks_sniff` | with a domain rule and an address as target, `handle_connect` reads the client's first bytes and, when the route is the tunnel, never sends them (socks.rs 650); it also writes a second reply | socks.rs 115: "Nothing is consumed and discarded" |
| `smart_dns` | `response_matches` (smart_dns.rs 315) reads the type one byte late, so no answer of a plain server ever matches and every query for a split name ends in SERVFAIL | smart_dns.rs 319: "first answer wins" |

## 8. Other disagreements met while modelling

Seen in traces of the models or while translating, and not kept as runs of their own.

C ABI

- A stop between the claim of RUNNING and the reset of STOP_REQUESTED (ffi.rs 482) returns 1 and is erased; 703 says
  that a stop ends the run.
- The guard's drop stores RUNNING, then READY (ffi.rs 437): a run let in between the two, if it gets ready before the second
  store, has its own READY cleared and reads as not ready while it lives.

Service

- Disconnect leaves the kill switch's blocking TUN up: the core branch of `stopTunnel` closes none (4519 against 2130).
- `onDestroy` does not wait for the worker (2171). In proxy mode `stopSelf` (4466) comes while the old job is still inside
  `NativeCore.startProxy`; a Connect then makes a new instance, which attaches (4154), and the old job's finally block
  calls `detach` (4324), which clears the one global reference: the new core runs unheard and its sockets unprotected.
  NewestIsHeard therefore speaks of one instance.
- The finally block tests the kill switch before auto-reconnect (4367): a dropped session is sealed and not retried,
  against 334-335. DropComesBack therefore excludes an armed kill switch. The finally block of the session a watchdog drop ended closes the blocking TUN (4345 against 3292).
- `failAndStop` (2015) ends the service before it schedules the retry in it (2073).
- In proxy mode `onExiting`'s second test (1294) takes a connecting Psiphon session for an established one: the first failing
  rung ends it, against 1884.
- `failAndStop` with `killSwitchSealed` still set (it is not cleared by a verified reconnect, 382) during a quick
  reconnect consumes the latch and returns: the service stays up with no session, no seal and no retry. NeverStranded
  therefore excludes sealed services.
- `rebuildKillSwitchVpn`: an `establish()` that returns null is logged as "Kill switch VPN active".
- The last intent, which START_REDELIVER_INTENT redelivers, may be RECONNECT or NOTIFICATION_HEALTH; both start nothing in a
  fresh process.
- A first connect whose setup fails is sealed (4367), though 4558 speaks of a tunnel that was up. With auto-reconnect
  off, `stopSelf` comes before the seal (3265).
- An older session's finally block clears the newer session's `connected` (4347), which the test at 4359 comes too late
  for; Supervised therefore excludes NATIVE.
- A proxy-mode job that begins after a stop reads `proxyMode` as false (4171) and opens a TUN.
- A late "connected" of a core that was stopped clears the reconnect latch.
- `WatchdogLost` after a Disconnect seals again, or ends a newer session: the flags are not tested again (2943). A
  retry tests `userInitiatedStop` and then starts (3395).
- The failure of an older SHARD or Tor job has no generation test: `stopTunnel` then picks the branch of the newest
  session's protocol (4430), and NoBlackHole fails across transport families.
- A Disconnect during the backoff of a NATIVE or Psiphon session never stops the service.
- A Psiphon job that a Disconnect overtook opens its TUN and dials; a redial that sleeps through a stop and a start dials
  in the new session before its TUN is up (1913); the jobs of two Psiphon sessions that were queued together escalate
  each other's ladder; an `onConnected` between a stop and its stop thread takes the proxy arm (1201); the FAILED of a dial
  that threw is overwritten by "Psiphon starting" (4131).
- The chain's outer leg starts one thread per rung; one of a rejected rung that reaches the core late holds it under
  the next (3626).

Run loops

- After a success over HTTP/2 the fallback stays latched; main.rs about 1909 says that every rescan starts on HTTP/3.
- The forced WireGuard pin is tested again in every round in which nothing is retried (about 2471).
- `join_outcome` never yields Ok, so `run_mim` never remembers its inner edge and `outer_fails` is never reset by a success
  (3864). A failing forwarder, or an outer hop that dies during the inner walk, is blamed on the inner edge. MIM_INNER_TRIES's
  comment (3144) speaks of an outer hop declared unable, which nothing does.
- The second pass renews a certificate after one refusal; a certificate refused inside the loop is never renewed.
- `fetch_device` drops the direct route's refusal when the camouflaged route then fails (account.rs 736-742): a start for a
  team account, MASQUE or WARP, goes on with a device it was told is gone. A refusal of the team profile of the device just
  registered is looked at by nobody. RefusalActedOn therefore speaks of the enrolment. Registrations leak when `/reg` fails half way.
- An Ironclad scan's probes announce "connected" (ConnectedMeansTunnel excludes it). WireGuard, GOOL and MIM announce no
  "connecting" on a reconnect.
- GOOL scans with the user's profile and dials its outer hop with GOOL_OUTER_PROFILE. Failure counts include sessions that
  lasted for hours.
- Two writers of the gateway cache share one temporary file; an entry of one may be lost.

Tunnels

- wireguard.rs about 597 says that an endpoint where even the smallest rung fails is rejected; the floor is used instead.
- INNER_MTU_HINT is one per process, and a tunnel without the check uses what the last one left. A slow TUN makes
  the health task declare a tunnel stale. One missed PONG keeps a tunnel.
- An ECH retry forgets a close or an end of the device's channel that was seen before it (LeftMeansEnded excludes
  it). HTTP/3 ignores the end of the request's stream, HTTP/2 notices it. On HTTP/2 the biased `select!` serves a device that
  never stops before the body. HTTP/2 has no deadline of its own while it waits for the response or the window.
- `mark_ready` comes before `ready_tx.send`: a startup timeout between the two aborts a tunnel that was announced.
- A second reply to the exit-IP probe is handed to the device, though tun.rs about 377 says that its own replies are
  swallowed.

SOCKS, netstack, DNS

- A far end's FIN is answered with a close, and the upload still pending is lost; a closed socket is removed with unread
  data when the application's queue is full (LossMeansBacklog says exactly when). UDP entries of a dropped application
  stay. `pending` has no bound. Ports wrap at 65000 and may be given out twice. An open has no timeout of its own. One
  refused authority retires the gateway for everyone.
- The split's reply to the device carries the engine's id and not the query's; `set_encrypted_resolvers` has no caller;
  lists pushed before `init_smart_dns`, or by a second session, are ignored; after a restart of the core the engine's
  sockets belong to a runtime that is gone; the WireGuard and MASQUE-in-MASQUE paths never make an engine. The rounds' servers
  are awaited in order. The bridge awaits the whole query inside its packet loop.

## 9. Not modelled

Inside the modelled parts: option parsing, log buffer and event strings of ffi.rs; notifications, status texts, wake
locks, traffic statistics and ping display of the service, a malformed configuration or a blank protocol (3802-3812, which
fail as REFUSED does), an exception out of `startTunnel` in a retry (which schedules it again), and the time between
tun2socks ending by itself (about 3018) and the watchdog's verdict, so that NoBlackHole says nothing of it; the HTTP
requests and encodings of the account; the concurrent probe pool of the scanners, which the sessions have as a choice
among the candidates that answer; the second identity of GOOL and MIM, loaded as the first one is; UDP ASSOCIATE, the HTTP proxy front and the upstream proxy; the exit probe and
counters of the TUN bridge; DoT and DoH, which nothing reaches. Time is abstract throughout. Process death is modelled for
the core's files (`Stopped` at any step) and not for the service, where the outcome turns on which intent Android
redelivers.

Not modelled at all, and why:

- Chained transports, exit-country rotation, SHARD node rotation and Tor's mode ladder: each is a sequential search over
  external programs or services inside a session that `VpnService` has as a bring-up step which succeeds or fails.
- Routing rules, the parsers of dns.rs and sniff.rs, obfuscation, configuration, subscriptions: functions of bytes and
  strings without state that lasts. `SocksConnect` has the route as a choice.
- User interface, tile, preferences and updates: they send the commands the service model has as actions.
- quiche, badvpn and anytls are vendored third-party code. quiche alone is five sixths of the repository's Rust; what
  the project models is the program around it, and quiche appears as the environment of `MasqueTunnel`.

`PROJECT.json` lists every part.

## 10. Plan

Done: `AetherFfi`, `VpnService`, `PsiphonLadder`, `Identity`, the three sessions and `CoreSession`, both tunnels, SOCKS over the
netstack, the DNS split, and the proofs of section 6.

Theorems next, in this order:

1. `SocksConnect` with several requests at once: the stack's ids are then handed out, and `OpenedOnce` needs that they are fresh.
2. `VpnService`: what remains of NoBlackHole when the families mix, once `stopTunnel` looks at the running job's transport
   (section 8); as the code is, it is false.
3. The sessions: that the lists of candidates keep their order of preference, on the lemmas about `Lists`.
