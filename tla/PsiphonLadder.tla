---------------------------- MODULE PsiphonLadder ----------------------------
(***************************************************************************)
(* A Psiphon session of KouroshAeVpnService: the ladder of dialling        *)
(* strategies.  A rung is dialled and given a budget; it connects, or its  *)
(* timer fires or the controller exits by itself, and the next rung is     *)
(* dialled, until every rung has had a turn.                               *)
(*                                                                         *)
(* The dialling runs on the service's worker, the timer on ladderScheduler,*)
(* the callbacks on the library's threads.  The library                    *)
(* (libs/psiphontunnel-2.0.39.aar) has one controller per process:         *)
(* newPsiphonTunnel stops the one there is, whoever started it; stop()     *)
(* blocks until it has unwound, so its onExiting has run when stop()       *)
(* returns; and callbacks carry no identity.                               *)
(***************************************************************************)
EXTENDS VpnService

-----------------------------------------------------------------------------
(* Moving up the ladder *)

(* The rest of the escalation is a job for the worker. *)
Redial(s) ==
    [sendStatus(s, "CONNECTING") EXCEPT
        !.queue = Append(@, [pc |-> "redial", proto |-> s.currentProtocol, cur |-> TRUE,
                             armed |-> FALSE, again |-> TRUE])]

(* Mutant: the preferred country's attempt counts as the rung's turn. *)
escalateLadderCountsRegion(s) ==
    LET taken == [s EXCEPT !.psi.ladderActive = FALSE, !.psi.ladderTimer = FALSE,
                           !.psi.regionPhase = FALSE] IN
    IF s.stopRequested \/ ~s.psi.ladderActive THEN s
    ELSE IF s.psi.ladderAttempts + 1 >= LadderSize
    THEN failAndStop([taken EXCEPT !.psi.ladderIndex = 0, !.psi.ladderAttempts = 0])
    ELSE Redial([taken EXCEPT !.psi.ladderIndex = (@ + 1) % LadderSize,
                              !.psi.ladderAttempts = @ + 1])

(* Move to the next rung, or give up.  The preferred country's attempt is  *)
(* not the rung's turn.                                                    *)
escalateLadder(s) ==
    LET taken == [s EXCEPT !.psi.ladderActive = FALSE, !.psi.ladderTimer = FALSE] IN
    IF s.stopRequested \/ ~s.psi.ladderActive THEN s
    ELSE IF s.psi.regionPhase
    THEN Redial([taken EXCEPT !.psi.regionPhase = FALSE])
    ELSE IF s.psi.ladderAttempts + 1 >= LadderSize
    THEN failAndStop([taken EXCEPT !.psi.ladderIndex = 0, !.psi.ladderAttempts = 0])
    ELSE Redial([taken EXCEPT !.psi.ladderIndex = (@ + 1) % LadderSize,
                              !.psi.ladderAttempts = @ + 1])

-----------------------------------------------------------------------------
(* Callbacks of the library *)

(* The session is up; scheduleLadderAttribution keeps at most one task. *)
Reached(s) ==
    [s EXCEPT !.psi.ladderActive = FALSE, !.psi.ladderTimer = FALSE,
              !.psi.ladderAttempts = 0, !.psi.regionPhase = FALSE,
              !.psi.attributionPending = TRUE, !.psi.tried = {}, !.psi.alone = FALSE]

InUse(s) ==
    [sendStatus(s, "CONNECTED") EXCEPT !.connected = TRUE, !.watchdogTask = TRUE,
                                       !.carried = TRUE]

(* routed: tun2socks starts on the TUN. *)
onConnected(s, routed) ==
    LET reached == Reached(s) IN
    IF ~s.psi.stamped THEN s
    ELSE IF ~s.psi.psiphonVpnMode THEN InUse(reached)
    ELSE IF s.psi.psiphonVpnActivated /\ s.tun2socks THEN sendStatus(reached, "CONNECTED")
    ELSE IF s.tun = "none" \/ ~routed THEN failAndStop(reached)
    ELSE InUse([reached EXCEPT !.tun2socks = TRUE, !.psi.psiphonVpnActivated = TRUE])

onExiting(s) ==
    LET gone == [s EXCEPT !.psi.handle = FALSE]
        next == IF ~gone.stopRequested /\ ~gone.psi.psiphonVpnActivated
                       /\ gone.psi.ladderActive
                    THEN escalateLadder(gone) ELSE gone
    IN  IF ~s.psi.stamped THEN s
        ELSE IF /\ ~next.stopRequested /\ ~next.userInitiatedStop
                /\ next.psi.psiphonVpnActivated \/ next.proxyMode
                /\ next.connected
        THEN onTunnelLost(next)
        ELSE next

Live(s) == s.psi.ctrl \in {"dialing", "up"}

PsiphonConnected ==
    /\ Live(svc)
    /\ \E routed \in BOOLEAN : svc' = onConnected([svc EXCEPT !.psi.ctrl = "up"], routed)
    /\ UNCHANGED sched

(* EstablishTunnelTimeout, or the controller dies. *)
PsiphonExits ==
    /\ Live(svc)
    /\ CanSubmit
    /\ svc' = onExiting([svc EXCEPT !.psi.ctrl = "none"])
    /\ UNCHANGED sched

(* PsiphonTunnel.stop(): there is one controller, whoever asks. *)
StopLibrary(s) ==
    LET stopped == [s EXCEPT !.psi.ctrl = "none"]
    IN  IF Live(s) THEN onExiting(stopped) ELSE stopped

(* A psiphon-stop thread gets to run. *)
PsiphonStop ==
    /\ svc.psi.stops > 0
    /\ CanSubmit
    /\ svc' = StopLibrary([svc EXCEPT !.psi.stops = @ - 1])
    /\ UNCHANGED sched

-----------------------------------------------------------------------------
(* ladderScheduler *)

LadderTimer ==
    /\ sched.at = "free"
    /\ svc.psi.ladderTimer
    /\ CanSubmit
    /\ LET fired == [svc EXCEPT !.psi.ladderTimer = FALSE] IN
       svc' = IF fired.psi.ladderActive /\ ~fired.psi.psiphonVpnActivated
                  THEN escalateLadder(fired) ELSE fired
    /\ UNCHANGED sched

(* recordLadderWinner: the protocol in use may credit any rung. *)
Attribute ==
    /\ sched.at = "free"
    /\ svc.psi.attributionPending
    /\ \E winner \in Rungs :
          svc' = [svc EXCEPT !.psi.attributionPending = FALSE,
                             !.psi.remembered = IF svc.stopRequested THEN @ ELSE winner]
    /\ UNCHANGED sched

-----------------------------------------------------------------------------
(* The worker *)

(* The session's own job: the TUN before Psiphon; none in proxy mode, which*)
(* is read now.                                                            *)
PsiphonEstablish ==
    /\ At("establish", Psiphon)
    /\ svc' = [svc EXCEPT !.tun = IF svc.proxyMode THEN @ ELSE "open", !.job.pc = "dial"]
    /\ UNCHANGED sched

PsiphonEstablishFails ==
    /\ At("establish", Psiphon)
    /\ ~svc.proxyMode
    /\ LET failed == [sendStatus(svc, "FAILED") EXCEPT !.connected = FALSE, !.job = None] IN
       svc' = IF failed.reconnectRequested
                  THEN [failed EXCEPT !.reconnectRequested = FALSE]
                  ELSE stopSelf(failed)
    /\ UNCHANGED sched

(* The job of a later rung: stop the controller, wait 1.2 s, dial; a stop  *)
(* seen before either half ends it.                                        *)
RedialStop ==
    /\ At("redial", Psiphon)
    /\ LET quiet == IF svc.psi.handle THEN StopLibrary(svc) ELSE svc IN
       svc' = IF svc.stopRequested THEN [svc EXCEPT !.job = None]
              ELSE [quiet EXCEPT !.psi.handle = FALSE, !.job.pc = "sleep"]
    /\ UNCHANGED sched

RedialWake ==
    /\ At("sleep", Psiphon)
    /\ svc' = IF svc.stopRequested THEN [svc EXCEPT !.job = None]
                                   ELSE [svc EXCEPT !.job.pc = "dial"]
    /\ UNCHANGED sched

(* startPsiphonTunnel up to the stamp: newPsiphonTunnel stops the          *)
(* controller that is there.                                               *)
NewTunnel ==
    /\ At("dial", Psiphon)
    /\ svc' = [StopLibrary(svc) EXCEPT !.psi.handle = TRUE, !.psi.stamped = TRUE,
                                       !.job.pc = "start"]
    /\ UNCHANGED sched

(* buildPsiphonConfig and startTunneling. *)
StartTunneling ==
    /\ At("start", Psiphon)
    /\ LET quiet == StopLibrary(svc) IN
       svc' = [quiet EXCEPT
                  !.psi.ctrl = "dialing", !.job.pc = "arm",
                  !.psi.tried = IF svc.psi.regionPhase \/ ~svc.psi.alone THEN @
                                ELSE @ \cup {svc.psi.ladderIndex}]
    /\ UNCHANGED sched

(* Mutant: only the first rung gets a timer. *)
ArmTimerOnce ==
    /\ At("arm", Psiphon)
    /\ LET armed == [svc EXCEPT !.psi.ladderActive = TRUE, !.psi.ladderTimer = ~svc.job.again,
                                !.job = None] IN
       svc' = IF svc.job.again THEN armed ELSE sendStatus(armed, "CONNECTING")
    /\ UNCHANGED sched

(* armLadderTimer, which a destroyed service's scheduler rejects; the      *)
(* session's own job then reports "Psiphon starting".                      *)
ArmTimer ==
    /\ At("arm", Psiphon)
    /\ LET alive == svc.life # "none"
           armed == [svc EXCEPT !.psi.ladderActive = alive, !.psi.ladderTimer = alive,
                                !.job = None] IN
       svc' = IF svc.job.again THEN armed ELSE sendStatus(armed, "CONNECTING")
    /\ UNCHANGED sched

(* newPsiphonTunnel or startTunneling throws, after it stopped the library.*)
DialFails ==
    /\ At("dial", Psiphon) \/ At("start", Psiphon)
    /\ LET failed == [failAndStop(StopLibrary(svc)) EXCEPT !.job = None] IN
       svc' = IF svc.job.again THEN failed ELSE sendStatus(failed, "CONNECTING")
    /\ UNCHANGED sched

-----------------------------------------------------------------------------
PsiphonWorker ==
    \/ PsiphonEstablish \/ PsiphonEstablishFails
    \/ RedialStop \/ RedialWake
    \/ NewTunnel \/ StartTunneling \/ ArmTimer \/ DialFails

LadderNext ==
    \/ Next
    \/ /\ \/ PsiphonConnected \/ PsiphonExits \/ PsiphonStop
          \/ LadderTimer \/ Attribute
          \/ PsiphonWorker
       /\ UNCHANGED <<old, prefs>>

LadderSpec == Init /\ [][LadderNext]_vars

(* The executors and the stop threads run what they hold. *)
FairLadderSpec ==
    /\ LadderSpec
    /\ WF_service(Scheduler \/ LadderTimer) /\ WF_service(Worker \/ PsiphonWorker)
    /\ WF_service(PsiphonStop) /\ WF_service(DestroyUnbound)

-----------------------------------------------------------------------------
(* What moves the ladder: the library, its stop threads, the timer, and the*)
(* worker where it stops the library.                                      *)
LadderStep ==
    \/ PsiphonExits \/ PsiphonStop \/ LadderTimer
    \/ RedialStop \/ NewTunnel \/ StartTunneling

(* "done means every rung has had a turn": whichever of them moves it, the *)
(* ladder does not end a session that has not been up before every rung was*)
(* dialled with every country allowed.  The session has a TUN (in proxy    *)
(* mode the first controller that exits ends it), and started on an idle   *)
(* worker: the job of an older one would dial in it too.                   *)
EveryRungHasATurn ==
    [][LadderStep /\ svc.psi.alone /\ ~svc.proxyMode /\ svc.connected /\ ~svc.carried
         /\ ~svc.stopRequested /\ svc'.stopRequested
         => svc.psi.tried = Rungs]_vars

(* Every connect attempt is decided: it gets up, or it ends.               *)
Decided ==
    (svc.connected /\ ~svc.carried /\ svc.currentProtocol \in Psiphon)
    ~> (svc.carried \/ ~svc.connected)
=============================================================================
