----------------------------- MODULE VpnService -----------------------------
(***************************************************************************)
(* The connection life-cycle of KouroshAeVpnService: Connect, Disconnect,  *)
(* Reconnect, the drop of a tunnel, auto-reconnect, the kill switch, the   *)
(* end of the service.                                                     *)
(*                                                                         *)
(* The service's fields, and what they stand for outside it (the TUN, the  *)
(* native core, tun2socks), are one record.  A method of the service is an *)
(* operator from the record before it to the record after it, so a handler *)
(* that calls three methods is their composition, in the code's order.     *)
(*                                                                         *)
(* Four threads step on the record.  The main thread runs the user's       *)
(* commands and onDestroy; the worker (a single-thread executor) runs one  *)
(* session's job after another and blocks inside NativeCore.start for as   *)
(* long as a native session lasts; ladderScheduler (single-thread too) runs*)
(* retries, quick reconnects and the watchdog; the core's thread delivers  *)
(* "connected".  A method runs without interleaving, except where it       *)
(* blocks or where the code acts on a test it made earlier: those are      *)
(* separate steps (svc.job.pc, sched).                                     *)
(*                                                                         *)
(* Transports, by how they live and die:                                   *)
(*   "NATIVE"   MASQUE, WireGuard, WoW on an Android TUN                   *)
(*   "SOCKS"    the same core in proxy mode, without a TUN                 *)
(*   "FRONT"    SHARD and Tor: helper processes behind tun2socks           *)
(*   "REFUSED"  SHARD or Tor asked for in proxy mode                       *)
(*   "PSIPHON", "PSIPHON_PROXY"  Psiphon on a TUN, and in proxy mode; what  *)
(*              happens inside such a session is in PsiphonLadder          *)
(* The chained transports are not part of this module.                     *)
(***************************************************************************)
EXTENDS Naturals, Sequences

CONSTANTS
    Profiles,       \* what the user may pick from and prefer, see Profile
    AutoPref,       \* the auto-reconnect preference
    MaxQueued,      \* bound: jobs waiting behind the worker's current one
    LadderSize,     \* rungs of psiphonLadder
    RegionPref,     \* a preferred country is set
    MaxStops,       \* bound: psiphon-stop threads that have not run yet
    None            \* no value

Psiphon == {"PSIPHON", "PSIPHON_PROXY"}

Kinds == {"NATIVE", "SOCKS", "FRONT", "REFUSED"} \cup Psiphon

(* Sessions of the Rust core. *)
Native == {"NATIVE", "SOCKS"}

(* The transports the user switches between, the kill_switch preference, and *)
(* what the system makes of establish() for the blocking TUN: an interface,  *)
(* null, or an exception.                                                   *)
Profile == [transports: SUBSET Kinds, kill: BOOLEAN, blocking: {"granted", "null", "throws"}]

ASSUME ProfilesAssumption == Profiles \subseteq Profile
ASSUME PrefsAssumption == AutoPref \in BOOLEAN /\ RegionPref \in BOOLEAN
ASSUME BoundsAssumption ==
    MaxQueued \in Nat \ {0} /\ LadderSize \in Nat \ {0} /\ MaxStops \in Nat \ {0}

VARIABLES
    svc,    \* the service and what it holds
    sched,  \* what ladderScheduler's thread is in the middle of, and the
            \* config its task captured
    old,    \* where the core job of an earlier, destroyed instance is, or None
    prefs   \* the user's profile

vars == <<svc, sched, old, prefs>>
service == <<svc, sched>>

(* A job's places: before NativeCore.prepare; TUN and watchdog; before,    *)
(* inside and after NativeCore.start; the two halves of the finally block; *)
(* bringing a SHARD or Tor session up; dialling Psiphon again.             *)
JobPC == {"prepare", "establish", "enter", "core", "result", "finally", "ladder", "bringup",
          "redial", "sleep", "dial", "start", "arm"}

(* cur: no startTunnel since this job was submitted, i.e. its captured     *)
(* generation still equals sessionGeneration.  armed: killSwitchArmed() as *)
(* the finally block read it.  again: the job of a later rung.             *)
Job == [pc: JobPC, proto: Kinds, cur: BOOLEAN, armed: BOOLEAN, again: BOOLEAN]

(* Where the job of a destroyed instance may be.  Before "enter" nothing    *)
(* awaits it but an exception, since the instance's scheduler rejects the   *)
(* watchdog, and after the core nothing but its finally block.              *)
OldPC == {"enter", "core", "finally"}

ASSUME NoneAssumption == None \notin Kinds \cup Job \cup OldPC

Rungs == 0 .. LadderSize - 1

(* Psiphon's part of the service.  stamped: psiphonGeneration equals       *)
(* sessionGeneration.  handle: psiphonTunnel is not null.  ctrl: the one   *)
(* controller of the library; "foreign" if an earlier instance started it. *)
(* stops: psiphon-stop threads that have not run yet.  remembered: the rung*)
(* in the preferences.  Two fields record history: tried, the rungs this   *)
(* session has dialled with every country allowed until it got up; alone,  *)
(* this is a Psiphon session that has not been up or been stopped, and the *)
(* worker was idle and the ladder disarmed when it started.                *)
FreshPsiphon ==
    [ psiphonVpnMode |-> FALSE, psiphonVpnActivated |-> FALSE, stamped |-> TRUE,
      handle |-> FALSE, ladderActive |-> FALSE, ladderTimer |-> FALSE,
      ladderIndex |-> 0, ladderAttempts |-> 0, regionPhase |-> FALSE,
      attributionPending |-> FALSE, remembered |-> 0, ctrl |-> "none", stops |-> 0,
      tried |-> {}, alone |-> FALSE ]

(* attached: is this instance the one the core reports to and asks to       *)
(* protect its sockets?  "cut" when the job of an earlier instance took     *)
(* that from it.  status: what this instance last reported.  carried: the   *)
(* newest session has been up.                                             *)
Fresh ==
    [ userInitiatedStop |-> FALSE, reconnectRequested |-> FALSE,
      killSwitchSealed |-> FALSE, connected |-> FALSE, stopRequested |-> FALSE,
      nativeExitWasUnexpected |-> FALSE, proxyMode |-> FALSE,
      currentProtocol |-> None, storedConfig |-> None,
      reconnectTask |-> FALSE, quickTask |-> None, watchdogTask |-> FALSE,
      connectivityCallback |-> FALSE, job |-> None, queue |-> << >>,
      tun |-> "none", core |-> FALSE, coreStop |-> FALSE, attached |-> "no",
      tun2socks |-> FALSE, life |-> "none", status |-> "NONE", carried |-> FALSE, psi |-> FreshPsiphon ]

Psi == [ psiphonVpnMode: BOOLEAN, psiphonVpnActivated: BOOLEAN, stamped: BOOLEAN,
         handle: BOOLEAN, ladderActive: BOOLEAN, ladderTimer: BOOLEAN,
         ladderIndex: Rungs, ladderAttempts: Rungs, regionPhase: BOOLEAN,
         attributionPending: BOOLEAN, remembered: Rungs,
         ctrl: {"none", "dialing", "up", "foreign"}, stops: 0 .. MaxStops,
         tried: SUBSET Rungs, alone: BOOLEAN ]

(* Every field, with the values the service gives it. *)
Svc == [ userInitiatedStop: BOOLEAN, reconnectRequested: BOOLEAN,
         killSwitchSealed: BOOLEAN, connected: BOOLEAN, stopRequested: BOOLEAN,
         nativeExitWasUnexpected: BOOLEAN, proxyMode: BOOLEAN,
         currentProtocol: Kinds \cup {None}, storedConfig: Kinds \cup {None},
         reconnectTask: BOOLEAN, quickTask: Kinds \cup {None}, watchdogTask: BOOLEAN,
         connectivityCallback: BOOLEAN, job: Job \cup {None}, queue: Seq(Job),
         tun: {"none", "open", "blocking"}, core: BOOLEAN, coreStop: BOOLEAN,
         attached: {"no", "yes", "cut"}, tun2socks: BOOLEAN, life: {"none", "up", "dying"},
         status: {"NONE", "CONNECTING", "CONNECTED", "FAILED", "DISCONNECTED"},
         carried: BOOLEAN, psi: Psi ]

Idle == [at |-> "free", config |-> None]

Init == svc = Fresh /\ sched = Idle /\ old = None /\ prefs \in Profiles

-----------------------------------------------------------------------------
(* Methods that only read or report *)

killSwitchArmed(s) == ~s.proxyMode /\ prefs.kill

willAutoReconnect(s) == AutoPref /\ ~s.userInitiatedStop /\ s.storedConfig # None

(* sendStatus: a CONNECTED report ends the quick-reconnect latch. *)
sendStatus(s, status) ==
    [s EXCEPT !.status = status,
              !.reconnectRequested = IF status = "CONNECTED" THEN FALSE ELSE @]

(* stopForeground + stopSelf; the system destroys the service later. *)
stopSelf(s) == [s EXCEPT !.life = IF @ = "up" THEN "dying" ELSE @]

(* Mutant: a status the UI does not know. *)
scheduleAutoReconnectOtherStatus(s) ==
    IF s.userInitiatedStop \/ s.storedConfig = None
        THEN s
        ELSE [sendStatus(s, "RECONNECTING") EXCEPT !.reconnectTask = TRUE]

scheduleAutoReconnect(s) ==
    IF s.userInitiatedStop \/ s.storedConfig = None
        THEN s
        ELSE [sendStatus(s, "CONNECTING") EXCEPT !.reconnectTask = TRUE]

cancelAutoReconnect(s) ==
    [s EXCEPT !.reconnectTask = FALSE, !.watchdogTask = FALSE,
              !.connectivityCallback = FALSE]

(* The interface that was there is closed first; an exception ends the      *)
(* service.                                                                 *)
rebuildKillSwitchVpn(s) ==
    CASE prefs.blocking = "granted" -> [s EXCEPT !.tun = "blocking"]
      [] prefs.blocking = "null"    -> [s EXCEPT !.tun = "none"]
      [] prefs.blocking = "throws"  -> stopSelf([s EXCEPT !.tun = "none"])

sealWithKillSwitch(s) ==
    rebuildKillSwitchVpn([s EXCEPT !.killSwitchSealed = TRUE])

-----------------------------------------------------------------------------
(* stopTunnel *)

(* The ladder is disarmed, the handle detached, and a thread of its own    *)
(* will stop the library.                                                  *)
stopPsiphonTunnel(psi) ==
    [psi EXCEPT !.ladderActive = FALSE, !.ladderTimer = FALSE, !.regionPhase = FALSE,
                !.handle = FALSE, !.tried = {}, !.alone = FALSE,
                !.stops = IF psi.handle /\ @ < MaxStops THEN @ + 1 ELSE @]

(* What every stop does: the latch, the watchdog, the ladder, tun2socks,   *)
(* the helper processes, aether_stop.                                      *)
StopCommon(s) ==
    [s EXCEPT !.stopRequested = TRUE, !.watchdogTask = FALSE,
              !.tun2socks = FALSE, !.coreStop = @ \/ s.core,
              !.psi = stopPsiphonTunnel(@)]

(* Mutant: teardownService is ignored. *)
ReleaseSessionKeepsService(s, notify, teardownService) ==
    LET released == [s EXCEPT !.proxyMode = FALSE, !.tun = "none", !.connected = FALSE,
                        !.psi.psiphonVpnMode = FALSE, !.psi.psiphonVpnActivated = FALSE]
    IN  IF notify THEN sendStatus(released, "DISCONNECTED") ELSE released

(* The branches of proxy mode, Psiphon, SHARD and Tor release everything. *)
ReleaseSession(s, notify, teardownService) ==
    LET released == [s EXCEPT !.proxyMode = FALSE, !.tun = "none", !.connected = FALSE,
                        !.psi.psiphonVpnMode = FALSE, !.psi.psiphonVpnActivated = FALSE]
        reported == IF notify THEN sendStatus(released, "DISCONNECTED") ELSE released
    IN  IF teardownService THEN stopSelf(reported) ELSE reported

(* NativeCore.detach: neither events nor protected sockets from here on, for  *)
(* whichever session attached last.                                         *)
Detached(s) == [s EXCEPT !.attached = "no"]

(* A native session on a TUN is released by its worker's finally block, so *)
(* its branch only reports.                                                *)
stopTunnel(s, notify, teardownService) ==
    LET stopped == StopCommon(s) IN
    IF s.psi.psiphonVpnMode \/ s.proxyMode
        THEN ReleaseSession(Detached(stopped), notify, teardownService)
        ELSE IF s.currentProtocol \in {"FRONT", "REFUSED"}
        THEN ReleaseSession(stopped, notify, teardownService)
        ELSE IF notify /\ ~stopped.connected
                 THEN sendStatus(stopped, "DISCONNECTED")
                 ELSE stopped

-----------------------------------------------------------------------------
(* failAndStop (sealOnDrop = false) and onTunnelLost *)

failAndStop(s) ==
    LET keepSeal == s.killSwitchSealed /\ ~s.userInitiatedStop /\ killSwitchArmed(s)
        reported == IF keepSeal /\ willAutoReconnect(s) THEN s ELSE sendStatus(s, "FAILED")
        stopped  == stopTunnel([reported EXCEPT !.connected = FALSE], FALSE, ~keepSeal)
    IN  IF stopped.reconnectRequested
        THEN [stopped EXCEPT !.reconnectRequested = FALSE]
        ELSE IF keepSeal
        THEN LET sealed == rebuildKillSwitchVpn(stopped) IN
             IF willAutoReconnect(s) THEN scheduleAutoReconnect(sealed)
                                     ELSE sendStatus(sealed, "FAILED")
        ELSE IF willAutoReconnect(s)
        THEN scheduleAutoReconnect(stopped)
        ELSE stopSelf(stopped)

(* Auto-reconnect is off: leave the tunnel down, sealed if asked to. *)
LeaveDown(s) ==
    LET stopped == stopTunnel([sendStatus(s, "FAILED") EXCEPT !.connected = FALSE], FALSE, TRUE)
    IN  IF killSwitchArmed(s) THEN sendStatus(sealWithKillSwitch(stopped), "FAILED")
                              ELSE stopSelf(stopped)

(* Auto-reconnect is on: stop, seal, retry. *)
Replace(s) ==
    LET nativeCoreSession == ~s.proxyMode /\ s.currentProtocol \in Native
        latched == [s EXCEPT !.reconnectRequested = @ \/ nativeCoreSession,
                             !.connected = FALSE]
        stopped == stopTunnel(latched, FALSE, FALSE)
        sealed  == IF killSwitchArmed(s) THEN sealWithKillSwitch(stopped) ELSE stopped
    IN  [scheduleAutoReconnect(sealed) EXCEPT !.connectivityCallback = TRUE]

onTunnelLost(s) ==
    IF s.reconnectRequested THEN s
    ELSE IF AutoPref THEN Replace(s)
    ELSE LeaveDown(s)

-----------------------------------------------------------------------------
(* startTunnel: every job submitted before it becomes an older generation. *)

Outdated(job) == [job EXCEPT !.cur = FALSE]

Submit(s, proto) ==
    LET first == IF proto \in Native THEN "prepare" ELSE "establish"
        new   == [pc |-> first, proto |-> proto, cur |-> TRUE, armed |-> FALSE,
                  again |-> FALSE]
    IN  [s EXCEPT !.queue = Append(@, new)]

(* The new sessionGeneration disowns the controller; a Psiphon session     *)
(* takes up the ladder at the remembered rung.                             *)
OpenPsiphon(s, proto) ==
    LET disowned == [s.psi EXCEPT !.stamped = FALSE, !.psiphonVpnMode = FALSE,
                                  !.alone = FALSE] IN
    IF proto \notin Psiphon THEN disowned
    ELSE [disowned EXCEPT !.psiphonVpnMode = proto = "PSIPHON",
                          !.psiphonVpnActivated = FALSE, !.ladderIndex = s.psi.remembered,
                          !.ladderAttempts = 0, !.regionPhase = RegionPref,
                          !.tried = {},
                          !.alone = s.job = None /\ s.queue = << >> /\ ~s.psi.ladderActive]

(* Not modelled: a malformed configuration and a blank protocol fail as      *)
(* "REFUSED" does, before the fields are set; an exception out of            *)
(* startTunnel in a retry schedules the retry again.                         *)
startTunnel(s, proto) ==
    IF s.connected THEN s ELSE
    LET opened == [s EXCEPT
            !.connected = TRUE, !.reconnectTask = FALSE,
            !.nativeExitWasUnexpected = FALSE, !.currentProtocol = proto,
            !.storedConfig = proto, !.stopRequested = FALSE,
            !.proxyMode = proto \in {"SOCKS", "REFUSED", "PSIPHON_PROXY"}, !.carried = FALSE,
            !.psi = OpenPsiphon(s, proto),
            !.job = IF @ = None THEN None ELSE Outdated(@),
            !.queue = [i \in DOMAIN @ |-> Outdated(@[i])]]
    IN  IF proto = "REFUSED"
            THEN failAndStop([opened EXCEPT !.connected = FALSE])
            ELSE Submit(opened, proto)

CanSubmit == Len(svc.queue) < MaxQueued

-----------------------------------------------------------------------------
(* The main thread: onStartCommand, onRevoke, onDestroy *)

(* A new instance of the service: the core and the Psiphon library are the  *)
(* process's, everything else starts afresh.                               *)
NewInstance ==
    [Fresh EXCEPT !.core = svc.core, !.coreStop = svc.coreStop,
                  !.psi = [FreshPsiphon EXCEPT
                      !.remembered = svc.psi.remembered, !.stops = svc.psi.stops,
                      !.ctrl = IF svc.psi.ctrl = "none" THEN "none" ELSE "foreign"]]

(* onDestroy does not wait for the worker, and a core job is not            *)
(* interrupted, so a destroyed instance may leave one behind.  Past its     *)
(* detach it does nothing more to the process.                             *)
LeavesJob == svc.life = "none" /\ svc.job # None /\ svc.job.pc # "ladder"

(* ACTION_CONNECT, to the living service or to a new instance.  Bounds: one *)
(* job is left behind at a time, and the job of a transport other than the  *)
(* core, whose waits shutdownNow interrupts, is over before the next        *)
(* instance exists.                                                        *)
Connect(proto) ==
    /\ CanSubmit
    /\ IF LeavesJob THEN /\ old = None /\ svc.job.proto \in Native
                         /\ old' = IF svc.job.pc \in OldPC THEN svc.job.pc ELSE "finally"
                    ELSE UNCHANGED old
    /\ LET here == IF svc.life = "none" THEN NewInstance ELSE svc IN
       svc' = startTunnel([here EXCEPT !.life = "up", !.userInitiatedStop = FALSE,
                                       !.killSwitchSealed = FALSE], proto)
    /\ UNCHANGED sched

(* ACTION_DISCONNECT and onRevoke. *)
Disconnect ==
    /\ svc.life # "none"
    /\ svc' = stopTunnel(cancelAutoReconnect(
                  [svc EXCEPT !.userInitiatedStop = TRUE, !.reconnectRequested = FALSE,
                              !.killSwitchSealed = FALSE]), TRUE, TRUE)
    /\ UNCHANGED sched

(* ACTION_RECONNECT: requestQuickReconnect.  Bound: one such task waits     *)
(* besides the one that runs.                                              *)
Reconnect ==
    /\ svc.life # "none"
    /\ svc.storedConfig # None
    /\ svc.connected
    /\ svc.quickTask = None
    /\ svc' = [stopTunnel([svc EXCEPT !.reconnectRequested = TRUE], FALSE, FALSE)
                  EXCEPT !.quickTask = svc.storedConfig]
    /\ UNCHANGED sched

(* onDestroy: both executors are shut down; a job inside the core outlives *)
(* the instance, its TUN does not.  While there is a TUN the system may    *)
(* keep a stopped service bound, so Destroy may or may not happen then.    *)
Destroy ==
    /\ svc.life = "dying"
    /\ svc' = [stopTunnel(cancelAutoReconnect(svc), FALSE, TRUE) EXCEPT
                  !.life = "none", !.tun = "none", !.quickTask = None, !.queue = << >>,
                  !.psi.attributionPending = FALSE]
    /\ sched' = Idle

DestroyUnbound == svc.tun = "none" /\ Destroy

(* NetworkCallback.onAvailable: retry now. *)
NetworkAvailable ==
    /\ svc.connectivityCallback
    /\ willAutoReconnect(svc)
    /\ ~svc.connected
    /\ svc' = [svc EXCEPT !.reconnectTask = TRUE]
    /\ UNCHANGED sched

-----------------------------------------------------------------------------
(* ladderScheduler *)

Busy(at, config) == [at |-> at, config |-> config]

(* reconnectTask is due: its test, then its startTunnel. *)
RetryTest ==
    /\ sched.at = "free"
    /\ svc.reconnectTask
    /\ svc' = [svc EXCEPT !.reconnectTask = FALSE]
    /\ sched' = IF svc.userInitiatedStop \/ svc.connected
                    THEN Idle ELSE Busy("retry", svc.storedConfig)

RetryStart ==
    /\ sched.at = "retry"
    /\ CanSubmit
    /\ svc' = startTunnel(svc, sched.config)
    /\ sched' = Idle

(* The quick reconnect's task polls for the old session to be gone. *)
QuickBegin ==
    /\ sched.at = "free"
    /\ svc.quickTask # None
    /\ svc' = [svc EXCEPT !.quickTask = None]
    /\ sched' = Busy("quick", svc.quickTask)

StillShuttingDown == svc.core \/ svc.connected

(* Mutant: giving up on the old core also detaches it. *)
QuickTimeout_Detaches ==
    /\ sched.at = "quick"
    /\ StillShuttingDown
    /\ svc' = Detached(sendStatus([svc EXCEPT !.reconnectRequested = FALSE], "FAILED"))
    /\ sched' = Idle

QuickTimeout ==
    /\ sched.at = "quick"
    /\ StillShuttingDown
    /\ svc' = sendStatus([svc EXCEPT !.reconnectRequested = FALSE], "FAILED")
    /\ sched' = Idle

QuickAbandon ==
    /\ sched.at = "quick"
    /\ ~StillShuttingDown
    /\ svc.userInitiatedStop
    /\ svc' = [svc EXCEPT !.reconnectRequested = FALSE]
    /\ sched' = Idle

QuickStart ==
    /\ sched.at = "quick"
    /\ ~StillShuttingDown
    /\ ~svc.userInitiatedStop
    /\ CanSubmit
    /\ svc' = startTunnel(svc, sched.config)
    /\ sched' = Idle

(* tunnelIsDead: the core stopped, or (not in proxy mode) its traffic did; *)
(* for SHARD and Tor, a helper died or traffic stopped; for Psiphon, the   *)
(* routing or the handle is gone.  tun2socks ending by itself is one of    *)
(* these verdicts: until one is given, the model has it running.           *)
MayBeDead(s) ==
    \/ s.currentProtocol = "FRONT" \/ s.psi.psiphonVpnMode
    \/ s.currentProtocol = "PSIPHON_PROXY" /\ s.proxyMode /\ ~s.psi.handle
    \/ /\ s.currentProtocol \in Native
       /\ s.job # None => s.job.pc # "enter"
       /\ s.proxyMode => ~s.core

(* A watchdog tick: its tests, then onTunnelLost. *)
WatchdogTest ==
    /\ sched.at = "free"
    /\ svc.watchdogTask
    /\ ~svc.stopRequested
    /\ ~svc.userInitiatedStop
    /\ svc.connected
    /\ MayBeDead(svc)
    /\ sched' = Busy("lost", None)
    /\ UNCHANGED svc

WatchdogLost ==
    /\ sched.at = "lost"
    /\ svc' = onTunnelLost(svc)
    /\ sched' = Idle

-----------------------------------------------------------------------------
(* The worker *)

At(pc, protos) == svc.job # None /\ svc.job.pc = pc /\ svc.job.proto \in protos

(* The next job starts.  A core job attaches the service to the core, and    *)
(* reads proxyMode now, not when it was submitted.                         *)
TakeJob ==
    /\ svc.job = None
    /\ svc.queue # << >>
    /\ LET next == Head(svc.queue)
           mode == IF next.proto \notin Native THEN next.proto
                   ELSE IF svc.proxyMode THEN "SOCKS" ELSE "NATIVE"
       IN  svc' = [svc EXCEPT !.job = [next EXCEPT !.proto = mode], !.queue = Tail(@),
                              !.attached = IF next.proto \in Native THEN "yes" ELSE @]
    /\ UNCHANGED sched

(* NativeCore.prepare returns; in proxy mode the watchdog starts here, and   *)
(* the scheduler of a destroyed service rejects it.                        *)
Prepared ==
    /\ At("prepare", Native)
    /\ svc.job.proto = "SOCKS" => svc.life # "none"
    /\ svc' = IF svc.job.proto = "SOCKS"
                  THEN [sendStatus(svc, "CONNECTING") EXCEPT
                            !.watchdogTask = TRUE, !.job.pc = "enter"]
                  ELSE [svc EXCEPT !.job.pc = "establish"]
    /\ UNCHANGED sched

(* The VPN interface replaces whatever interface was there, and the          *)
(* watchdog starts.                                                        *)
Establish ==
    /\ At("establish", {"NATIVE"})
    /\ svc.life # "none"
    /\ svc' = [svc EXCEPT !.tun = "open", !.watchdogTask = TRUE, !.job.pc = "enter"]
    /\ UNCHANGED sched

(* prepare, establish or the start of the watchdog throws. *)
SetupFails ==
    /\ At("prepare", Native) \/ At("establish", {"NATIVE"})
    /\ svc' = [sendStatus(svc, "FAILED") EXCEPT
                  !.nativeExitWasUnexpected = FALSE, !.job.pc = "finally"]
    /\ UNCHANGED sched

(* NativeCore.start blocks, or returns at once because another run holds   *)
(* the core.                                                               *)
EnterCore ==
    /\ At("enter", Native)
    /\ svc' = IF svc.core
                  THEN [svc EXCEPT !.job.pc = "result"]
                  ELSE [svc EXCEPT !.core = TRUE, !.coreStop = FALSE, !.job.pc = "core"]
    /\ UNCHANGED sched

(* Mutant: "connected" is not latched in proxy mode. *)
CoreConnectedUnlatched ==
    /\ At("core", Native) /\ svc.attached = "yes"
    /\ svc' = [sendStatus(svc, "CONNECTED") EXCEPT !.carried = TRUE]
    /\ UNCHANGED sched

(* The core's event thread: mark_ready() -> onEvent("connected"). *)
CoreConnected ==
    /\ At("core", Native) /\ svc.attached = "yes"
    /\ svc' = [sendStatus(svc, "CONNECTED") EXCEPT
                  !.connected = @ \/ svc.proxyMode, !.carried = TRUE]
    /\ UNCHANGED sched

(* aether_start_json returns, by itself or because it was stopped. *)
CoreReturns ==
    /\ At("core", Native)
    /\ svc' = [svc EXCEPT !.core = FALSE, !.coreStop = FALSE, !.job.pc = "result"]
    /\ UNCHANGED sched

CoreStopped == svc.coreStop /\ CoreReturns

(* What the job reports of the return: FAILED unless a retry will follow.  *)
(* After a stop: "Reconnecting" or DISCONNECTED.                           *)
HandleResult ==
    /\ At("result", Native)
    /\ LET reported ==
              IF svc.stopRequested
                  THEN sendStatus(svc, IF svc.reconnectRequested THEN "CONNECTING"
                                                                ELSE "DISCONNECTED")
                  ELSE IF willAutoReconnect(svc) THEN svc ELSE sendStatus(svc, "FAILED")
       IN  svc' = [reported EXCEPT !.nativeExitWasUnexpected = ~svc.stopRequested,
                                   !.job.pc = "finally"]
    /\ UNCHANGED sched

(* Mutant: the TUN stays open. *)
FinallyReleaseKeepsTun ==
    /\ At("finally", Native)
    /\ svc' = [svc EXCEPT !.connected = FALSE, !.attached = "no",
                          !.job.armed = killSwitchArmed(svc), !.job.pc = "ladder"]
    /\ UNCHANGED sched

(* The finally block up to connected.set(false). *)
FinallyRelease ==
    /\ At("finally", Native)
    /\ svc' = [svc EXCEPT !.tun = "none", !.connected = FALSE, !.attached = "no",
                          !.job.armed = killSwitchArmed(svc), !.job.pc = "ladder"]
    /\ UNCHANGED sched

(* Mutant: no generation test. *)
LadderOfAnyGeneration(s) ==
    IF s.reconnectRequested THEN [s EXCEPT !.reconnectRequested = FALSE]
    ELSE IF s.job.armed /\ ~s.stopRequested THEN sealWithKillSwitch(sendStatus(s, "FAILED"))
    ELSE LET settled == [s EXCEPT !.nativeExitWasUnexpected = FALSE] IN
         IF s.nativeExitWasUnexpected /\ willAutoReconnect(s)
             THEN scheduleAutoReconnect(settled)
             ELSE stopSelf(settled)

(* Mutant: the reconnect latch is not tested. *)
LadderWithoutLatch(s) ==
    IF ~s.job.cur THEN s
    ELSE IF s.job.armed /\ ~s.stopRequested THEN sealWithKillSwitch(sendStatus(s, "FAILED"))
    ELSE LET settled == [s EXCEPT !.nativeExitWasUnexpected = FALSE] IN
         IF s.nativeExitWasUnexpected /\ willAutoReconnect(s)
             THEN scheduleAutoReconnect(settled)
             ELSE stopSelf(settled)

(* Mutant: no retry is scheduled. *)
LadderWithoutRetry(s) ==
    IF ~s.job.cur THEN s
    ELSE IF s.reconnectRequested THEN [s EXCEPT !.reconnectRequested = FALSE]
    ELSE IF s.job.armed /\ ~s.stopRequested THEN sealWithKillSwitch(sendStatus(s, "FAILED"))
    ELSE stopSelf([s EXCEPT !.nativeExitWasUnexpected = FALSE])

(* The rest of it: who owns the service now? *)
Ladder(s) ==
    IF ~s.job.cur THEN s
    ELSE IF s.reconnectRequested THEN [s EXCEPT !.reconnectRequested = FALSE]
    ELSE IF s.job.armed /\ ~s.stopRequested THEN sealWithKillSwitch(sendStatus(s, "FAILED"))
    ELSE LET settled == [s EXCEPT !.nativeExitWasUnexpected = FALSE] IN
         IF s.nativeExitWasUnexpected /\ willAutoReconnect(s)
             THEN scheduleAutoReconnect(settled)
             ELSE stopSelf(settled)

FinallyLadder ==
    /\ At("ladder", Native)
    /\ svc' = [Ladder(svc) EXCEPT !.job = None]
    /\ UNCHANGED sched

(* SHARD and Tor: the TUN first, then the helper processes and tun2socks. *)
FrontEstablish ==
    /\ At("establish", {"FRONT"})
    /\ svc' = [sendStatus(svc, "CONNECTING") EXCEPT !.tun = "open", !.job.pc = "bringup"]
    /\ UNCHANGED sched

FrontUp ==
    /\ At("bringup", {"FRONT"})
    /\ svc.tun # "none"
    /\ svc.life # "none"
    /\ svc' = [sendStatus(svc, "CONNECTED") EXCEPT
                  !.tun2socks = TRUE, !.watchdogTask = TRUE, !.carried = TRUE,
                  !.job = None]
    /\ UNCHANGED sched

(* establish, a helper or tun2socks fails, or tun is null by now. *)
FrontFails ==
    /\ At("establish", {"FRONT"}) \/ At("bringup", {"FRONT"})
    /\ svc' = [failAndStop(svc) EXCEPT !.job = None]
    /\ UNCHANGED sched

-----------------------------------------------------------------------------
(* The core job an earlier instance left behind.  Its own fields no longer  *)
(* matter; what it does to the process does: it may hold the core, whose    *)
(* "connected" goes to whoever is attached, and its finally block detaches  *)
(* whoever that is.                                                        *)

(* It enters the core, or finds it busy. *)
OldEnters ==
    /\ old = "enter"
    /\ old' = IF svc.core THEN "finally" ELSE "core"
    /\ svc' = IF svc.core THEN svc ELSE [svc EXCEPT !.core = TRUE, !.coreStop = FALSE]
    /\ UNCHANGED sched

OldConnected ==
    /\ old = "core" /\ svc.attached = "yes"
    /\ svc' = [sendStatus(svc, "CONNECTED") EXCEPT
                  !.connected = @ \/ svc.proxyMode, !.carried = TRUE]
    /\ UNCHANGED <<sched, old>>

OldReturns ==
    /\ old = "core"
    /\ old' = "finally"
    /\ svc' = [svc EXCEPT !.core = FALSE, !.coreStop = FALSE]
    /\ UNCHANGED sched

OldStopped == svc.coreStop /\ OldReturns

OldFinally ==
    /\ old = "finally"
    /\ old' = None
    /\ svc' = [svc EXCEPT !.attached = IF @ = "yes" THEN "cut" ELSE @]
    /\ UNCHANGED sched

-----------------------------------------------------------------------------
User ==
    \/ \E proto \in prefs.transports : Connect(proto)
    \/ (Disconnect \/ Reconnect) /\ UNCHANGED old

Scheduler ==
    \/ RetryTest \/ RetryStart
    \/ QuickBegin \/ QuickTimeout \/ QuickAbandon \/ QuickStart
    \/ WatchdogLost

Worker ==
    \/ TakeJob
    \/ Prepared \/ Establish \/ SetupFails \/ EnterCore \/ CoreStopped
    \/ HandleResult \/ FinallyRelease \/ FinallyLadder
    \/ FrontEstablish \/ FrontUp \/ FrontFails

OldWorker == OldEnters \/ OldStopped \/ OldFinally

World ==
    \/ NetworkAvailable
    \/ WatchdogTest
    \/ CoreConnected
    \/ CoreReturns

Next ==
    /\ \/ User \/ OldWorker \/ OldConnected \/ OldReturns
       \/ (Scheduler \/ Worker \/ Destroy \/ World) /\ UNCHANGED old
    /\ UNCHANGED prefs

(* The executors run what they hold, a stopped core returns, the system    *)
(* destroys what has stopped itself.  Nothing obliges the user, the network*)
(* or a running core.                                                      *)
Fairness ==
    /\ WF_service(Scheduler) /\ WF_service(Worker) /\ WF_old(OldWorker)
    /\ WF_service(DestroyUnbound)

Spec == Init /\ [][Next]_vars
FairSpec == Spec /\ Fairness

-----------------------------------------------------------------------------
(* The fields, the queue, the worker's place and the scheduler's task stay *)
(* within the values the service gives them.                               *)
TypeOK ==
    /\ svc \in Svc
    /\ sched \in [at: {"free", "retry", "quick", "lost"}, config: Kinds \cup {None}]
    /\ old \in OldPC \cup {None}
    /\ prefs \in Profiles

-----------------------------------------------------------------------------
(* What holds *)

(* The device's traffic is never routed into an interface nobody reads: a  *)
(* TUN that is not the kill switch's has a session's job or tun2socks on   *)
(* it, whatever stops, fails or replaces the session with another of its   *)
(* transport family.                                                       *)
NoBlackHole == svc.tun = "open" => svc.job # None \/ svc.tun2socks

(* The end of an old core session does not take the service from the next: *)
(* while the quick-reconnect latch is set, or the newest session waits      *)
(* behind the old one's job, only the user ends the service, if he prefers  *)
(* auto-reconnect.  Otherwise Reconnect would read as Disconnect.          *)
Succeeded ==
    \/ svc.reconnectRequested /\ svc.currentProtocol \in Native
    \/ \E i \in DOMAIN svc.queue : svc.queue[i].cur /\ svc.queue[i].proto \in Native
NewestSurvives ==
    [][Succeeded /\ svc.life = "up" /\ svc'.life # "up" => svc'.userInitiatedStop]_vars

(* "A tunnel that dies on its own must come back": a core session that     *)
(* carried traffic and returned without being stopped is followed by       *)
(* another session, unless the user or the watchdog of the living service  *)
(* stops it meanwhile.  Not under the kill switch: there the finally block  *)
(* seals the device and schedules nothing.                                 *)
DropComesBack ==
    (At("result", Native) /\ svc.job.cur /\ svc.carried /\ svc.life = "up"
         /\ ~svc.stopRequested /\ ~svc.userInitiatedStop /\ ~killSwitchArmed(svc))
    ~> (svc.queue # << >> \/ svc.userInitiatedStop \/ (svc.stopRequested /\ svc.life = "up"))

(* The watchdog looks at a session only while connected is set, so a live  *)
(* session reported CONNECTED and not being stopped must have it set: in    *)
(* proxy mode, where the report itself sets it, and behind SHARD and Tor.   *)
Supervised ==
    svc.status = "CONNECTED" /\ (At("core", Native) \/ svc.tun2socks)
        /\ ~svc.stopRequested /\ svc.currentProtocol # "NATIVE" => svc.connected

(* With SHARD and Tor the service does not linger: started and not sealed,  *)
(* it has a session, or a task that will start one.                        *)
NeverStranded ==
    svc.life = "up" /\ ~svc.killSwitchSealed
        /\ svc.currentProtocol \in {"FRONT", "REFUSED"} =>
        \/ svc.job # None \/ svc.queue # << >> \/ svc.tun2socks
        \/ svc.reconnectTask \/ svc.quickTask # None \/ sched.at # "free"

(* A started service has someone looking after it: the watchdog while its   *)
(* session lives, and a task when there is none.                           *)
LookedAfter == Supervised /\ NeverStranded

(* The core of the newest session, once it runs and until it is stopped,   *)
(* reaches the service: its "connected" is heard and its sockets are kept   *)
(* out of the VPN.  detach is called by the end of older sessions and by    *)
(* stopTunnel on other threads, for whoever is attached, and none of these  *)
(* cuts it off.  One thing can: the finally block of a core job that an     *)
(* earlier instance of the service left behind.                            *)
NewestIsHeard ==
    At("core", Native) /\ svc.job.cur /\ ~svc.stopRequested => svc.attached # "no"

-----------------------------------------------------------------------------
(* What a comment of the code promises and the code does not keep *)

(* "one the user switched off must stay off": after Disconnect no core, no *)
(* routing and no TUN remain.                                              *)
OffStaysOff ==
    svc.userInitiatedStop ~>
        (~svc.userInitiatedStop \/ (~svc.core /\ ~svc.tun2socks /\ svc.tun = "none"))
=============================================================================
