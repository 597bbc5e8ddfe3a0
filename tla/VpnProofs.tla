----------------------------- MODULE VpnProofs -----------------------------
(***************************************************************************)
(* What VpnService and PsiphonLadder promise for every set of profiles,    *)
(* every length of the ladder, every bound on the worker's queue and every *)
(* preference.                                                             *)
(*                                                                         *)
(* The methods of the service call each other, so the proof is about       *)
(* methods first.  Each has a lemma that says how the record it returns    *)
(* differs from the one it was given: it goes on with the session (Quiet), *)
(* stops it (Stops) or starts another (Starts).  A handler's lemma chains  *)
(* those of the methods it calls, in the code's order.                     *)
(*                                                                         *)
(* Three invariants carry the induction.  VpnInv holds whatever the user   *)
(* switches between.  NativeInv and FrontInv speak of a user who stays     *)
(* with core sessions, or with SHARD and Tor: when the families mix, the   *)
(* branch stopTunnel takes is the newest session's and not the running     *)
(* job's, and neither invariant holds.  OldInv is about the job a          *)
(* destroyed instance leaves behind: it is a core session's.               *)
(*                                                                         *)
(* The last part is the Psiphon ladder, with the service's other sessions  *)
(* around it.  Its invariant is Turns: a method that may move the ladder   *)
(* (Moves) finds the rung it leaves dialled, and leaves the rungs that     *)
(* have had no turn ahead.                                                 *)
(***************************************************************************)
EXTENDS PsiphonLadder, TLAPS

Statuses == {"NONE", "CONNECTING", "CONNECTED", "FAILED", "DISCONNECTED"}

(* The places of a core session's job before the core has returned. *)
Ahead == {"prepare", "establish", "enter", "core"}

Fronts == {"FRONT", "REFUSED"}

(* What no method but startTunnel touches, and how far the others go: they *)
(* end the service, close the TUN or make it the kill switch's, and arm a  *)
(* retry only when there is a configuration to retry.                      *)
Keeps(s, t) ==
    /\ t.job = s.job
    /\ t.queue = s.queue
    /\ t.currentProtocol = s.currentProtocol
    /\ t.storedConfig = s.storedConfig
    /\ t.quickTask = s.quickTask
    /\ t.core = s.core
    /\ t.userInitiatedStop = s.userInitiatedStop
    /\ t.life = s.life \/ t.life = "dying"
    /\ t.life = "dying" => s.life # "none"
    /\ t.tun = "open" => s.tun = "open"
    /\ t.status = "CONNECTED" => s.status = "CONNECTED"
    /\ t.reconnectTask => s.reconnectTask \/ s.storedConfig # None
    /\ s.killSwitchSealed => t.killSwitchSealed

(* A method that reports, seals, arms or cancels: the session goes on. *)
Quiet(s, t) ==
    /\ t \in Svc
    /\ Keeps(s, t)
    /\ t.reconnectRequested = s.reconnectRequested
    /\ t.connected = s.connected
    /\ t.stopRequested = s.stopRequested
    /\ t.proxyMode = s.proxyMode
    /\ t.attached = s.attached
    /\ t.tun2socks = s.tun2socks
    /\ t.psi = s.psi

(* Stopping disarms the ladder, gives the handle to a stop thread and      *)
(* leaves the library's controller to that thread.                         *)
Disarmed(p, q) ==
    /\ q.ctrl = p.ctrl
    /\ ~q.handle /\ ~q.ladderActive /\ ~q.ladderTimer /\ ~q.alone
    /\ q.stops = p.stops \/ p.handle
    /\ q.attributionPending = p.attributionPending

(* A service that has never dialled Psiphon. *)
Unused(p) ==
    /\ p.ctrl = "none" /\ p.stops = 0 /\ ~p.handle
    /\ ~p.ladderActive /\ ~p.ladderTimer /\ ~p.attributionPending /\ ~p.alone

(* A method that stops the session. *)
Stops(s, t) ==
    /\ t \in Svc
    /\ Keeps(s, t)
    /\ t.stopRequested
    /\ ~t.tun2socks
    /\ t.connected => s.connected
    /\ t.proxyMode => s.proxyMode
    /\ Disarmed(s.psi, t.psi)

(* Stopping SHARD or Tor leaves nothing of the session: the TUN is closed  *)
(* or the kill switch's.                                                   *)
Releases(s, t) == s.currentProtocol \in Fronts => t.tun # "open" /\ ~t.connected

-----------------------------------------------------------------------------
(* Methods that go on with the session *)

LEMMA SvcFields ==
    ASSUME NEW s \in Svc
    PROVE  /\ s.userInitiatedStop \in BOOLEAN /\ s.reconnectRequested \in BOOLEAN
           /\ s.killSwitchSealed \in BOOLEAN /\ s.connected \in BOOLEAN
           /\ s.stopRequested \in BOOLEAN /\ s.proxyMode \in BOOLEAN
           /\ s.currentProtocol \in Kinds \cup {None} /\ s.storedConfig \in Kinds \cup {None}
           /\ s.reconnectTask \in BOOLEAN /\ s.quickTask \in Kinds \cup {None}
           /\ s.job \in Job \cup {None} /\ s.queue \in Seq(Job)
           /\ s.tun \in {"none", "open", "blocking"} /\ s.core \in BOOLEAN
           /\ s.coreStop \in BOOLEAN /\ s.watchdogTask \in BOOLEAN
           /\ s.attached \in {"no", "yes", "cut"} /\ s.tun2socks \in BOOLEAN
           /\ s.life \in {"none", "up", "dying"} /\ s.status \in Statuses
           /\ s.psi \in Psi
BY DEF Svc, Statuses

LEMMA SendStatusType ==
    ASSUME NEW s \in Svc, NEW status \in Statuses
    PROVE  sendStatus(s, status) \in Svc
<1>1. CASE status = "CONNECTED"
  <2>1. sendStatus(s, status) = [s EXCEPT !.status = status, !.reconnectRequested = FALSE]
    BY <1>1 DEF sendStatus
  <2> QED BY <2>1, ZenonT(60) DEF Svc, Statuses
<1>2. CASE status # "CONNECTED"
  <2>1. sendStatus(s, status) = [s EXCEPT !.status = status] BY <1>2 DEF sendStatus, Svc
  <2> QED BY <2>1 DEF Svc, Statuses
<1> QED BY <1>1, <1>2

LEMMA QuietStatus ==
    ASSUME NEW s \in Svc, NEW status \in Statuses \ {"CONNECTED"}
    PROVE  /\ Quiet(s, sendStatus(s, status))
           /\ sendStatus(s, status).life = s.life
           /\ sendStatus(s, status).tun = s.tun
           /\ sendStatus(s, status).killSwitchSealed = s.killSwitchSealed
           /\ sendStatus(s, status).reconnectTask = s.reconnectTask
<1>1. sendStatus(s, status) \in Svc BY SendStatusType
<1> QED BY <1>1, SvcFields DEF Quiet, Keeps, Svc, sendStatus

LEMMA QuietStopSelf ==
    ASSUME NEW s \in Svc
    PROVE  /\ Quiet(s, stopSelf(s))
           /\ stopSelf(s).life # "up"
           /\ stopSelf(s).tun = s.tun
           /\ stopSelf(s).killSwitchSealed = s.killSwitchSealed
<1>1. stopSelf(s) \in Svc BY DEF Svc, stopSelf
<1> QED BY <1>1, SvcFields DEF Quiet, Keeps, Svc, stopSelf

LEMMA QuietSchedule ==
    ASSUME NEW s \in Svc
    PROVE  /\ Quiet(s, scheduleAutoReconnect(s))
           /\ ~s.userInitiatedStop /\ s.storedConfig # None
                  => scheduleAutoReconnect(s).reconnectTask
           /\ scheduleAutoReconnect(s).life = s.life
           /\ scheduleAutoReconnect(s).tun = s.tun
           /\ scheduleAutoReconnect(s).killSwitchSealed = s.killSwitchSealed
<1>1. CASE s.userInitiatedStop \/ s.storedConfig = None
  BY <1>1, SvcFields DEF Quiet, Keeps, Svc, scheduleAutoReconnect
<1>2. CASE ~(s.userInitiatedStop \/ s.storedConfig = None)
  <2> DEFINE u == sendStatus(s, "CONNECTING")
  <2>1. Quiet(s, u) /\ u.life = s.life /\ u.tun = s.tun
            /\ u.killSwitchSealed = s.killSwitchSealed
    BY QuietStatus DEF Statuses
  <2>2. scheduleAutoReconnect(s) = [u EXCEPT !.reconnectTask = TRUE]
    BY <1>2 DEF scheduleAutoReconnect
  <2> HIDE DEF u
  <2>3. [u EXCEPT !.reconnectTask = TRUE] \in Svc BY <2>1, Zenon DEF Svc, Quiet
  <2> QED BY <1>2, <2>1, <2>2, <2>3, SvcFields DEF Quiet, Keeps, Svc
<1> QED BY <1>1, <1>2

LEMMA QuietCancel ==
    ASSUME NEW s \in Svc
    PROVE  /\ Quiet(s, cancelAutoReconnect(s))
           /\ cancelAutoReconnect(s).life = s.life
           /\ ~cancelAutoReconnect(s).reconnectTask
<1>1. cancelAutoReconnect(s) \in Svc BY Zenon DEF Svc, cancelAutoReconnect
<1> QED BY <1>1, SvcFields DEF Quiet, Keeps, Svc, cancelAutoReconnect

LEMMA QuietTwice ==
    ASSUME NEW s, NEW t, NEW u, Quiet(s, t), Quiet(t, u)
    PROVE  Quiet(s, u)
BY DEF Quiet, Keeps

LEMMA QuietRebuild ==
    ASSUME NEW s \in Svc, prefs \in Profiles
    PROVE  /\ Quiet(s, rebuildKillSwitchVpn(s))
           /\ rebuildKillSwitchVpn(s).tun # "open"
           /\ rebuildKillSwitchVpn(s).killSwitchSealed = s.killSwitchSealed
           /\ prefs.blocking # "throws" => rebuildKillSwitchVpn(s).life = s.life
<1>1. prefs.blocking \in {"granted", "null", "throws"}
  BY ProfilesAssumption DEF Profile
<1>2. CASE prefs.blocking = "granted"
  <2>1. rebuildKillSwitchVpn(s) = [s EXCEPT !.tun = "blocking"]
    BY <1>2 DEF rebuildKillSwitchVpn
  <2>2. [s EXCEPT !.tun = "blocking"] \in Svc BY DEF Svc
  <2> QED BY <2>1, <2>2, SvcFields DEF Quiet, Keeps, Svc
<1>3. CASE prefs.blocking = "null"
  <2>1. rebuildKillSwitchVpn(s) = [s EXCEPT !.tun = "none"]
    BY <1>3 DEF rebuildKillSwitchVpn
  <2>2. [s EXCEPT !.tun = "none"] \in Svc BY DEF Svc
  <2> QED BY <2>1, <2>2, SvcFields DEF Quiet, Keeps, Svc
<1>4. CASE prefs.blocking = "throws"
  <2> DEFINE u == [s EXCEPT !.tun = "none"]
  <2>1. rebuildKillSwitchVpn(s) = stopSelf(u)
    BY <1>4 DEF rebuildKillSwitchVpn
  <2>2. u \in Svc BY DEF Svc
  <2>3. Quiet(s, u) /\ u.tun = "none" /\ u.killSwitchSealed = s.killSwitchSealed
    BY <2>2, SvcFields DEF Quiet, Keeps, Svc
  <2> HIDE DEF u
  <2>4. Quiet(u, stopSelf(u)) /\ stopSelf(u).tun = u.tun
            /\ stopSelf(u).killSwitchSealed = u.killSwitchSealed
    BY <2>2, QuietStopSelf
  <2> QED BY <1>4, <2>1, <2>3, <2>4, QuietTwice
<1> QED BY <1>1, <1>2, <1>3, <1>4

LEMMA QuietSeal ==
    ASSUME NEW s \in Svc, prefs \in Profiles
    PROVE  /\ Quiet(s, sealWithKillSwitch(s))
           /\ sealWithKillSwitch(s).tun # "open"
           /\ sealWithKillSwitch(s).killSwitchSealed
           /\ prefs.blocking # "throws" => sealWithKillSwitch(s).life = s.life
<1> DEFINE u == [s EXCEPT !.killSwitchSealed = TRUE]
<1>1. u \in Svc BY DEF Svc
<1>2. Quiet(s, u) /\ u.killSwitchSealed /\ u.life = s.life
  BY <1>1, SvcFields DEF Quiet, Keeps, Svc
<1>3. sealWithKillSwitch(s) = rebuildKillSwitchVpn(u) BY DEF sealWithKillSwitch
<1> HIDE DEF u
<1>4. /\ Quiet(u, rebuildKillSwitchVpn(u)) /\ rebuildKillSwitchVpn(u).tun # "open"
      /\ rebuildKillSwitchVpn(u).killSwitchSealed = u.killSwitchSealed
      /\ prefs.blocking # "throws" => rebuildKillSwitchVpn(u).life = u.life
  BY <1>1, QuietRebuild
<1>5. Quiet(s, rebuildKillSwitchVpn(u)) BY <1>2, <1>4, QuietTwice
<1> QED BY <1>2, <1>3, <1>4, <1>5

-----------------------------------------------------------------------------
(* Methods that stop the session *)

LEMMA StopsThenQuiet ==
    ASSUME NEW s, NEW t, NEW u, Stops(s, t), Quiet(t, u)
    PROVE  Stops(s, u)
BY DEF Quiet, Keeps, Stops

LEMMA StopPsiphonType ==
    ASSUME NEW psi \in Psi
    PROVE  stopPsiphonTunnel(psi) \in Psi /\ Disarmed(psi, stopPsiphonTunnel(psi))
<1> DEFINE n == IF psi.handle /\ psi.stops < MaxStops THEN psi.stops + 1 ELSE psi.stops
<1>1. psi.stops \in 0 .. MaxStops BY DEF Psi
<1>2. MaxStops \in Nat BY BoundsAssumption
<1>3. n \in 0 .. MaxStops BY <1>1, <1>2
<1>4. stopPsiphonTunnel(psi) =
          [psi EXCEPT !.ladderActive = FALSE, !.ladderTimer = FALSE, !.regionPhase = FALSE,
                      !.handle = FALSE, !.tried = {}, !.alone = FALSE, !.stops = n]
  BY DEF stopPsiphonTunnel, Psi
<1> HIDE DEF n
<1>5. {} \in SUBSET Rungs OBVIOUS
<1>6. stopPsiphonTunnel(psi) \in Psi BY <1>3, <1>4, <1>5, Zenon DEF Psi
<1>7. Disarmed(psi, stopPsiphonTunnel(psi)) BY <1>4 DEF Disarmed, Psi, n
<1> QED BY <1>6, <1>7

LEMMA StopCommonStops ==
    ASSUME NEW s \in Svc
    PROVE  /\ Stops(s, StopCommon(s))
           /\ StopCommon(s).reconnectRequested = s.reconnectRequested
           /\ StopCommon(s).life = s.life
           /\ StopCommon(s).connected = s.connected
           /\ StopCommon(s).killSwitchSealed = s.killSwitchSealed
<1> DEFINE c == s.coreStop \/ s.core
           p == stopPsiphonTunnel(s.psi)
<1>1. c \in BOOLEAN OBVIOUS
<1>2. p \in Psi /\ Disarmed(s.psi, p) BY SvcFields, StopPsiphonType
<1>3. StopCommon(s) = [s EXCEPT !.stopRequested = TRUE, !.watchdogTask = FALSE,
                                !.tun2socks = FALSE, !.coreStop = c, !.psi = p]
  BY DEF StopCommon, Svc
<1> HIDE DEF c, p
<1>4. StopCommon(s) \in Svc
  <2> DEFINE u == [s EXCEPT !.stopRequested = TRUE, !.watchdogTask = FALSE, !.tun2socks = FALSE]
  <2>1. u \in Svc BY Zenon DEF Svc
  <2> DEFINE v == [u EXCEPT !.coreStop = c]
  <2>2. StopCommon(s) = [v EXCEPT !.psi = p] BY <1>3
  <2> HIDE DEF u
  <2>3. v \in Svc BY <1>1, <2>1 DEF Svc
  <2> HIDE DEF v
  <2> QED BY <1>2, <2>2, <2>3, SMTT(30) DEF Svc
<1> QED BY <1>2, <1>3, <1>4, SvcFields DEF Stops, Keeps, Svc

LEMMA ReleaseSessionStops ==
    ASSUME NEW s \in Svc, NEW notify \in BOOLEAN, NEW teardownService \in BOOLEAN,
           s.stopRequested, ~s.tun2socks, Disarmed(s.psi, s.psi)
    PROVE  LET t == ReleaseSession(s, notify, teardownService) IN
           /\ Stops(s, t)
           /\ t.tun = "none"
           /\ ~t.connected
           /\ t.reconnectRequested = s.reconnectRequested
           /\ t.killSwitchSealed = s.killSwitchSealed
           /\ teardownService => t.life # "up"
           /\ ~teardownService => t.life = s.life
<1> DEFINE p == [s.psi EXCEPT !.psiphonVpnMode = FALSE, !.psiphonVpnActivated = FALSE]
           released == [s EXCEPT !.proxyMode = FALSE, !.tun = "none", !.connected = FALSE,
                           !.psi.psiphonVpnMode = FALSE, !.psi.psiphonVpnActivated = FALSE]
           reported == IF notify THEN sendStatus(released, "DISCONNECTED") ELSE released
           t == IF teardownService THEN stopSelf(reported) ELSE reported
<1>1. p \in Psi /\ Disarmed(s.psi, p)
  <2>1. s.psi \in Psi BY SvcFields
  <2>2. p \in Psi BY <2>1, Zenon DEF Psi
  <2> QED BY <2>1, <2>2 DEF Disarmed, Psi
<1>2. released = [s EXCEPT !.proxyMode = FALSE, !.tun = "none", !.connected = FALSE, !.psi = p]
  BY DEF Svc
<1>3. ReleaseSession(s, notify, teardownService) = t BY DEF ReleaseSession
<1> HIDE DEF p, released
<1>4. released \in Svc BY <1>1, <1>2, ZenonT(60) DEF Svc
<1>5. /\ Stops(s, released) /\ released.tun = "none" /\ ~released.connected
      /\ released.reconnectRequested = s.reconnectRequested
      /\ released.killSwitchSealed = s.killSwitchSealed
      /\ released.life = s.life
  BY <1>1, <1>2, <1>4, SvcFields DEF Stops, Keeps, Svc
<1>6. /\ Quiet(released, reported) /\ reported.life = released.life
      /\ reported.tun = released.tun
      /\ reported.killSwitchSealed = released.killSwitchSealed
  <2>1. CASE notify BY <2>1, <1>4, QuietStatus DEF Statuses
  <2>2. CASE ~notify BY <2>2, <1>4, SvcFields DEF Quiet, Keeps
  <2> QED BY <2>1, <2>2
<1> HIDE DEF reported
<1>7. /\ Quiet(reported, t) /\ t.tun = reported.tun
      /\ t.killSwitchSealed = reported.killSwitchSealed
      /\ teardownService => t.life # "up"
      /\ ~teardownService => t.life = reported.life
  <2>0. reported \in Svc BY <1>6 DEF Quiet
  <2>1. CASE teardownService BY <2>0, <2>1, QuietStopSelf
  <2>2. CASE ~teardownService BY <2>0, <2>2, SvcFields DEF Quiet, Keeps
  <2> QED BY <2>1, <2>2
<1> HIDE DEF t
<1>8. Stops(s, t) BY <1>5, <1>6, <1>7, StopsThenQuiet
<1>9. /\ t.tun = "none" /\ ~t.connected /\ t.reconnectRequested = s.reconnectRequested
      /\ t.killSwitchSealed = s.killSwitchSealed
      /\ teardownService => t.life # "up"
      /\ ~teardownService => t.life = s.life
  BY <1>5, <1>6, <1>7 DEF Quiet
<1> QED BY <1>3, <1>8, <1>9

LEMMA StopTunnelStops ==
    ASSUME NEW s \in Svc, NEW notify \in BOOLEAN, NEW teardownService \in BOOLEAN
    PROVE  LET t == stopTunnel(s, notify, teardownService) IN
           /\ Stops(s, t)
           /\ Releases(s, t)
           /\ t.reconnectRequested = s.reconnectRequested
           /\ t.killSwitchSealed = s.killSwitchSealed
           /\ ~teardownService => t.life = s.life
           /\ teardownService /\ s.currentProtocol \in Fronts => t.life # "up"
<1> DEFINE stopped == StopCommon(s)
           t == stopTunnel(s, notify, teardownService)
<1>1. /\ Stops(s, stopped) /\ stopped \in Svc
      /\ stopped.reconnectRequested = s.reconnectRequested
      /\ stopped.life = s.life
      /\ stopped.killSwitchSealed = s.killSwitchSealed
      /\ stopped.stopRequested /\ ~stopped.tun2socks
      /\ Disarmed(stopped.psi, stopped.psi)
  BY StopCommonStops DEF Stops, Disarmed
<1>2. CASE s.psi.psiphonVpnMode \/ s.proxyMode
  <2> DEFINE d == Detached(stopped)
  <2>1. d \in Svc BY <1>1, ZenonT(60) DEF Detached, Svc
  <2>2. /\ Stops(s, d) /\ d.reconnectRequested = s.reconnectRequested
        /\ d.life = s.life /\ d.killSwitchSealed = s.killSwitchSealed
        /\ d.stopRequested /\ ~d.tun2socks /\ Disarmed(d.psi, d.psi)
    BY <1>1, <2>1 DEF Detached, Svc, Stops, Keeps
  <2>3. t = ReleaseSession(d, notify, teardownService) BY <1>2 DEF stopTunnel
  <2> HIDE DEF d, t, stopped
  <2>4. /\ Stops(d, t) /\ t.tun = "none" /\ ~t.connected
        /\ t.reconnectRequested = d.reconnectRequested
        /\ t.killSwitchSealed = d.killSwitchSealed
        /\ teardownService => t.life # "up"
        /\ ~teardownService => t.life = d.life
    BY <2>1, <2>2, <2>3, ReleaseSessionStops
  <2>5. Stops(s, t) BY <2>2, <2>4 DEF Stops, Keeps, Disarmed
  <2> QED BY <2>2, <2>4, <2>5 DEF t, Releases
<1>3. CASE ~(s.psi.psiphonVpnMode \/ s.proxyMode) /\ s.currentProtocol \in Fronts
  <2>3. t = ReleaseSession(stopped, notify, teardownService)
    BY <1>3 DEF stopTunnel, Fronts
  <2> HIDE DEF t, stopped
  <2>4. /\ Stops(stopped, t) /\ t.tun = "none" /\ ~t.connected
        /\ t.reconnectRequested = stopped.reconnectRequested
        /\ t.killSwitchSealed = stopped.killSwitchSealed
        /\ teardownService => t.life # "up"
        /\ ~teardownService => t.life = stopped.life
    BY <1>1, <2>3, ReleaseSessionStops
  <2>5. Stops(s, t) BY <1>1, <2>4 DEF Stops, Keeps, Disarmed
  <2> QED BY <1>1, <2>4, <2>5 DEF t, Releases
<1>4. CASE ~(s.psi.psiphonVpnMode \/ s.proxyMode) /\ s.currentProtocol \notin Fronts
  <2>3. t = IF notify /\ ~stopped.connected THEN sendStatus(stopped, "DISCONNECTED")
                                            ELSE stopped
    BY <1>4 DEF stopTunnel, Fronts
  <2> HIDE DEF t, stopped
  <2>4. /\ Quiet(stopped, t) /\ t.life = stopped.life
        /\ t.killSwitchSealed = stopped.killSwitchSealed
    <3>1. CASE notify /\ ~stopped.connected BY <1>1, <2>3, <3>1, QuietStatus DEF Statuses
    <3>2. CASE ~(notify /\ ~stopped.connected)
      BY <1>1, <2>3, <3>2, SvcFields DEF Quiet, Keeps
    <3> QED BY <3>1, <3>2
  <2>5. Stops(s, t) BY <1>1, <2>4, StopsThenQuiet
  <2> QED BY <1>1, <1>4, <2>4, <2>5 DEF t, Releases, Quiet
<1> QED BY <1>2, <1>3, <1>4

(* Without a seal to keep, failAndStop ends a service of SHARD or Tor. *)
LEMMA FailAndStopStops ==
    ASSUME NEW s \in Svc, prefs \in Profiles
    PROVE  LET t == failAndStop(s) IN
           /\ Stops(s, t)
           /\ Releases(s, t)
           /\ ~t.reconnectRequested
           /\ s.currentProtocol \in Fronts => t.killSwitchSealed \/ t.life # "up"
<1> DEFINE keepSeal == s.killSwitchSealed /\ ~s.userInitiatedStop /\ killSwitchArmed(s)
           again    == willAutoReconnect(s)
           reported == IF keepSeal /\ again THEN s ELSE sendStatus(s, "FAILED")
           down     == [reported EXCEPT !.connected = FALSE]
           stopped  == stopTunnel(down, FALSE, ~keepSeal)
           sealed   == rebuildKillSwitchVpn(stopped)
           t        == failAndStop(s)
<1>0. keepSeal \in BOOLEAN /\ (keepSeal => s.killSwitchSealed) OBVIOUS
<1>1. t = IF stopped.reconnectRequested
          THEN [stopped EXCEPT !.reconnectRequested = FALSE]
          ELSE IF keepSeal
          THEN IF again THEN scheduleAutoReconnect(sealed) ELSE sendStatus(sealed, "FAILED")
          ELSE IF again THEN scheduleAutoReconnect(stopped)
          ELSE stopSelf(stopped)
  BY DEF failAndStop
<1> HIDE DEF keepSeal, again, t
<1>2. Quiet(s, reported)
  <2>1. CASE keepSeal /\ again BY <2>1, SvcFields DEF Quiet, Keeps
  <2>2. CASE ~(keepSeal /\ again) BY <2>2, QuietStatus DEF Statuses
  <2> QED BY <2>1, <2>2
<1> HIDE DEF reported
<1>3. down \in Svc /\ Keeps(s, down) /\ down.proxyMode = s.proxyMode /\ ~down.connected
         /\ down.psi = s.psi
  <2>1. reported \in Svc BY <1>2 DEF Quiet
  <2>2. down \in Svc BY <2>1, ZenonT(60) DEF Svc
  <2> QED BY <1>2, <2>1, <2>2 DEF Quiet, Keeps, Svc
<1> HIDE DEF down
<1>4. /\ Stops(down, stopped) /\ Releases(down, stopped)
      /\ stopped.killSwitchSealed = down.killSwitchSealed
      /\ ~keepSeal /\ down.currentProtocol \in Fronts => stopped.life # "up"
  BY <1>0, <1>3, StopTunnelStops
<1> HIDE DEF stopped
<1>5. /\ Stops(s, stopped) /\ stopped \in Svc /\ Releases(s, stopped)
      /\ s.currentProtocol \in Fronts => stopped.killSwitchSealed \/ stopped.life # "up"
  BY <1>0, <1>3, <1>4 DEF Stops, Releases, Keeps
<1>6. CASE stopped.reconnectRequested
  <2>1. t = [stopped EXCEPT !.reconnectRequested = FALSE] BY <1>1, <1>6
  <2>2. t \in Svc BY <1>5, <2>1, ZenonT(60) DEF Svc
  <2> QED BY <1>5, <2>1, <2>2 DEF Stops, Releases, Keeps, t, Svc
<1>7. CASE ~stopped.reconnectRequested /\ keepSeal
  <2>1. Quiet(stopped, sealed) /\ sealed.tun # "open" /\ sealed.killSwitchSealed = stopped.killSwitchSealed
    BY <1>5, QuietRebuild
  <2> HIDE DEF sealed
  <2>2. Quiet(sealed, t) /\ t.tun = sealed.tun /\ t.killSwitchSealed = sealed.killSwitchSealed
    <3>0. sealed \in Svc BY <2>1 DEF Quiet
    <3>1. CASE again BY <1>1, <1>7, <3>0, <3>1, QuietSchedule
    <3>2. CASE ~again BY <1>1, <1>7, <3>0, <3>2, QuietStatus DEF Statuses
    <3> QED BY <3>1, <3>2
  <2>3. Stops(s, t) BY <1>5, <2>1, <2>2, StopsThenQuiet, QuietTwice
  <2>4. Releases(s, t) /\ ~t.reconnectRequested
    BY <1>5, <1>7, <2>1, <2>2 DEF Releases, Quiet
  <2>5. t.killSwitchSealed
    BY <1>0, <1>3, <1>4, <1>7, <2>1, <2>2 DEF Keeps
  <2> QED BY <2>3, <2>4, <2>5 DEF t
<1>8. CASE ~stopped.reconnectRequested /\ ~keepSeal
  <2>2. Quiet(stopped, t) /\ t.tun = stopped.tun /\ t.killSwitchSealed = stopped.killSwitchSealed
           /\ (t.life = stopped.life \/ t.life # "up")
    <3>1. CASE again BY <1>1, <1>5, <1>8, <3>1, QuietSchedule
    <3>2. CASE ~again BY <1>1, <1>5, <1>8, <3>2, QuietStopSelf
    <3> QED BY <3>1, <3>2
  <2>3. Stops(s, t) BY <1>5, <2>2, StopsThenQuiet
  <2>4. Releases(s, t) /\ ~t.reconnectRequested
    BY <1>5, <1>8, <2>2 DEF Releases, Quiet
  <2> QED BY <1>5, <2>2, <2>3, <2>4 DEF t
<1> QED BY <1>6, <1>7, <1>8

(* The two ways of onTunnelLost. *)
LEMMA LeaveDownStops ==
    ASSUME NEW s \in Svc, prefs \in Profiles
    PROVE  LET t == LeaveDown(s) IN
           /\ Stops(s, t)
           /\ Releases(s, t)
           /\ t.reconnectRequested => s.reconnectRequested
           /\ s.currentProtocol \in Fronts => t.life # "up"
<1> DEFINE told == sendStatus(s, "FAILED")
           down == [told EXCEPT !.connected = FALSE]
           stopped == stopTunnel(down, FALSE, TRUE)
           sealed == sealWithKillSwitch(stopped)
           t == LeaveDown(s)
<1>1. t = IF killSwitchArmed(s) THEN sendStatus(sealed, "FAILED") ELSE stopSelf(stopped)
  BY DEF LeaveDown
<1> HIDE DEF t
<1>2. Quiet(s, told) /\ told \in Svc BY QuietStatus DEF Statuses, Quiet
<1> HIDE DEF told
<1>3. down \in Svc /\ Keeps(s, down) /\ down.proxyMode = s.proxyMode /\ ~down.connected
         /\ down.psi = s.psi
         /\ down.reconnectRequested = s.reconnectRequested
  <2>1. down \in Svc BY <1>2, ZenonT(60) DEF Svc
  <2> QED BY <1>2, <2>1 DEF Quiet, Keeps, Svc
<1> HIDE DEF down
<1>4. /\ Stops(down, stopped) /\ Releases(down, stopped)
      /\ stopped.reconnectRequested = down.reconnectRequested
      /\ down.currentProtocol \in Fronts => stopped.life # "up"
  BY <1>3, StopTunnelStops
<1> HIDE DEF stopped
<1>5. /\ Stops(s, stopped) /\ stopped \in Svc /\ Releases(s, stopped)
      /\ stopped.reconnectRequested = s.reconnectRequested
      /\ s.currentProtocol \in Fronts => stopped.life # "up"
  BY <1>3, <1>4 DEF Stops, Releases, Keeps
<1>6. Quiet(stopped, t) /\ (t.tun # "open" \/ t.tun = stopped.tun)
  <2>1. CASE killSwitchArmed(s)
    <3>1. Quiet(stopped, sealed) /\ sealed \in Svc /\ sealed.tun # "open"
      BY <1>5, QuietSeal DEF Quiet
    <3> HIDE DEF sealed
    <3>2. Quiet(sealed, t) /\ t.tun = sealed.tun
      BY <1>1, <2>1, <3>1, QuietStatus DEF Statuses
    <3> QED BY <3>1, <3>2, QuietTwice
  <2>2. CASE ~killSwitchArmed(s) BY <1>1, <1>5, <2>2, QuietStopSelf
  <2> QED BY <2>1, <2>2
<1>7. Stops(s, t) BY <1>5, <1>6, StopsThenQuiet
<1>8. /\ Releases(s, t) /\ t.reconnectRequested = s.reconnectRequested
      /\ s.currentProtocol \in Fronts => t.life # "up"
  BY <1>5, <1>6 DEF Releases, Quiet, Keeps
<1> QED BY <1>7, <1>8 DEF t

LEMMA ReplaceStops ==
    ASSUME NEW s \in Svc, prefs \in Profiles
    PROVE  LET t == Replace(s) IN
           /\ Stops(s, t)
           /\ Releases(s, t)
           /\ s.currentProtocol \notin Native => t.reconnectRequested = s.reconnectRequested
           /\ ~s.userInitiatedStop /\ s.storedConfig # None => t.reconnectTask
           /\ ~(prefs.kill /\ prefs.blocking = "throws") => t.life = s.life
<1> DEFINE latch == s.reconnectRequested \/ (~s.proxyMode /\ s.currentProtocol \in Native)
           latched == [s EXCEPT !.reconnectRequested = latch, !.connected = FALSE]
           stopped == stopTunnel(latched, FALSE, FALSE)
           sealed  == IF killSwitchArmed(s) THEN sealWithKillSwitch(stopped) ELSE stopped
           due     == scheduleAutoReconnect(sealed)
           t == Replace(s)
<1>0. s.reconnectRequested \in BOOLEAN BY SvcFields
<1>1. t = [due EXCEPT !.connectivityCallback = TRUE]
  BY DEF Replace, Svc
<1>2. latch \in BOOLEAN /\ (s.currentProtocol \notin Native => latch = s.reconnectRequested)
  BY <1>0
<1> HIDE DEF t, latch
<1>3. /\ latched \in Svc /\ Keeps(s, latched) /\ latched.proxyMode = s.proxyMode
      /\ ~latched.connected /\ latched.reconnectRequested = latch /\ latched.life = s.life
      /\ latched.psi = s.psi
  <2>1. latched \in Svc
    <3> DEFINE u == [s EXCEPT !.reconnectRequested = latch]
    <3>1. u \in Svc BY <1>2 DEF Svc
    <3>2. latched = [u EXCEPT !.connected = FALSE] OBVIOUS
    <3> HIDE DEF u, latched
    <3> QED BY <3>1, <3>2, ZenonT(60) DEF Svc
  <2> QED BY <2>1, SvcFields DEF Keeps, Svc
<1> HIDE DEF latched
<1>4. /\ Stops(latched, stopped) /\ Releases(latched, stopped)
      /\ stopped.reconnectRequested = latched.reconnectRequested
      /\ stopped.life = latched.life
  BY <1>3, StopTunnelStops
<1> HIDE DEF stopped
<1>5. Stops(s, stopped) /\ stopped \in Svc /\ Releases(s, stopped)
  BY <1>3, <1>4 DEF Stops, Releases, Keeps
<1>6. /\ Quiet(stopped, sealed) /\ (sealed.tun # "open" \/ sealed.tun = stopped.tun)
      /\ ~(prefs.kill /\ prefs.blocking = "throws") => sealed.life = stopped.life
  <2>1. CASE killSwitchArmed(s) BY <1>5, <2>1, QuietSeal DEF killSwitchArmed
  <2>2. CASE ~killSwitchArmed(s) BY <1>5, <2>2, SvcFields DEF Quiet, Keeps
  <2> QED BY <2>1, <2>2
<1> HIDE DEF sealed
<1>7. /\ Quiet(sealed, due) /\ due.tun = sealed.tun /\ due.life = sealed.life
      /\ ~sealed.userInitiatedStop /\ sealed.storedConfig # None => due.reconnectTask
  <2>1. sealed \in Svc BY <1>6 DEF Quiet
  <2> QED BY <2>1, QuietSchedule
<1> HIDE DEF due
<1>8. Stops(s, due) BY <1>5, <1>6, <1>7, StopsThenQuiet, QuietTwice
<1>9. t \in Svc
  <2>1. due \in Svc BY <1>7 DEF Quiet
  <2> QED BY <1>1, <2>1 DEF Svc
<1>10. Stops(s, t) BY <1>1, <1>8, <1>9 DEF Stops, Keeps, Svc
<1>11. Releases(s, t) BY <1>1, <1>5, <1>6, <1>7, <1>8 DEF Releases, Quiet, Stops, Svc
<1>12. t.reconnectRequested = latch
  BY <1>1, <1>3, <1>4, <1>6, <1>7 DEF Quiet, Svc
<1>13. ~s.userInitiatedStop /\ s.storedConfig # None => t.reconnectTask
  BY <1>1, <1>5, <1>6, <1>7 DEF Quiet, Stops, Keeps, Svc
<1>14. ~(prefs.kill /\ prefs.blocking = "throws") => t.life = s.life
  BY <1>1, <1>3, <1>4, <1>6, <1>7 DEF Quiet, Svc
<1> QED BY <1>2, <1>10, <1>11, <1>12, <1>13, <1>14 DEF t

-----------------------------------------------------------------------------
(* startTunnel, step by step *)

OutdatedAll(q) == [i \in DOMAIN q |-> Outdated(q[i])]

(* Where a job of a core session or of SHARD and Tor begins. *)
Beginning == {"prepare", "establish"}

(* The waiting jobs have not begun, and are sessions of protos. *)
QueueOf(q, protos) ==
    \A i \in 1 .. Len(q) : q[i].proto \in protos /\ q[i].pc \in Beginning

(* The job of a session that has been replaced. *)
Superseded(job) == IF job = None THEN None ELSE Outdated(job)

LEMMA OutdatedType ==
    ASSUME NEW job \in Job
    PROVE  /\ Outdated(job) \in Job
           /\ Outdated(job).proto = job.proto /\ Outdated(job).pc = job.pc
           /\ ~Outdated(job).cur
BY DEF Outdated, Job

LEMMA OutdatedQueue ==
    ASSUME NEW q \in Seq(Job)
    PROVE  /\ OutdatedAll(q) \in Seq(Job)
           /\ Len(OutdatedAll(q)) = Len(q)
           /\ \A i \in 1 .. Len(q) : OutdatedAll(q)[i].proto = q[i].proto
                                    /\ OutdatedAll(q)[i].pc = q[i].pc
                                    /\ ~OutdatedAll(q)[i].cur
<1>1. \A i \in 1 .. Len(q) : q[i] \in Job OBVIOUS
<1>2. \A i \in 1 .. Len(q) : Outdated(q[i]) \in Job /\ Outdated(q[i]).proto = q[i].proto
                                  /\ Outdated(q[i]).pc = q[i].pc
                                  /\ ~Outdated(q[i]).cur
  BY <1>1, OutdatedType
<1>3. OutdatedAll(q) = [i \in 1 .. Len(q) |-> Outdated(q[i])] BY DEF OutdatedAll
<1> QED BY <1>2, <1>3

LEMMA OpenPsiphonType ==
    ASSUME NEW s \in Svc, NEW proto \in Kinds
    PROVE  OpenPsiphon(s, proto) \in Psi
<1> DEFINE disowned == [s.psi EXCEPT !.stamped = FALSE, !.psiphonVpnMode = FALSE, !.alone = FALSE]
           m == proto = "PSIPHON"
           a == s.job = None /\ s.queue = << >> /\ ~s.psi.ladderActive
           r == s.psi.remembered
<1>1. s.psi \in Psi BY SvcFields
<1>2. disowned \in Psi BY <1>1, Zenon DEF Psi
<1>3. m \in BOOLEAN /\ a \in BOOLEAN OBVIOUS
<1>4. r \in Rungs BY <1>1 DEF Psi
<1>5. 0 \in Rungs BY BoundsAssumption DEF Rungs
<1>6. OpenPsiphon(s, proto) =
        IF proto \notin Psiphon THEN disowned
        ELSE [disowned EXCEPT !.psiphonVpnMode = m,
                          !.psiphonVpnActivated = FALSE, !.ladderIndex = r,
                          !.ladderAttempts = 0, !.regionPhase = RegionPref,
                          !.tried = {}, !.alone = a]
  BY DEF OpenPsiphon
<1>7. RegionPref \in BOOLEAN BY PrefsAssumption
<1>8. {} \in SUBSET Rungs OBVIOUS
<1> HIDE DEF disowned, m, a, r
<1>9. CASE proto \in Psiphon
  <2> DEFINE u == [disowned EXCEPT !.psiphonVpnActivated = FALSE, !.ladderIndex = r,
                                   !.ladderAttempts = 0, !.tried = {}]
             v == [u EXCEPT !.psiphonVpnMode = m]
             w == [v EXCEPT !.regionPhase = RegionPref]
  <2>1. u \in Psi BY <1>2, <1>4, <1>5, <1>8, Zenon DEF Psi
  <2>2. OpenPsiphon(s, proto) = [w EXCEPT !.alone = a] BY <1>2, <1>6, <1>9 DEF Psi
  <2> HIDE DEF u
  <2>3. v \in Psi BY <1>3, <2>1 DEF Psi
  <2> HIDE DEF v
  <2>4. w \in Psi BY <1>7, <2>3 DEF Psi
  <2> HIDE DEF w
  <2> QED BY <1>3, <2>2, <2>4 DEF Psi
<1> QED BY <1>2, <1>6, <1>9

(* startTunnel up to the point where it submits the job or refuses. *)
Opened(s, proto) ==
    [s EXCEPT
            !.connected = TRUE, !.reconnectTask = FALSE,
            !.nativeExitWasUnexpected = FALSE, !.currentProtocol = proto,
            !.storedConfig = proto, !.stopRequested = FALSE,
            !.proxyMode = proto \in {"SOCKS", "REFUSED", "PSIPHON_PROXY"}, !.carried = FALSE,
            !.psi = OpenPsiphon(s, proto), !.job = Superseded(s.job),
            !.queue = OutdatedAll(s.queue)]

LEMMA StartIsOpened ==
    ASSUME NEW s \in Svc, NEW proto, ~s.connected
    PROVE  startTunnel(s, proto) =
               IF proto = "REFUSED" THEN failAndStop([Opened(s, proto) EXCEPT !.connected = FALSE])
                                    ELSE Submit(Opened(s, proto), proto)
BY DEF startTunnel, Opened, Superseded, OutdatedAll, Svc

LEMMA OpenedType ==
    ASSUME NEW s \in Svc, NEW proto \in Kinds
    PROVE  LET t == Opened(s, proto) IN
           /\ t \in Svc
           /\ t.connected /\ ~t.reconnectTask /\ ~t.stopRequested
           /\ t.currentProtocol = proto /\ t.storedConfig = proto
           /\ t.proxyMode = (proto \in {"SOCKS", "REFUSED", "PSIPHON_PROXY"})
           /\ t.job = Superseded(s.job)
           /\ t.queue = OutdatedAll(s.queue)
           /\ t.tun = s.tun /\ t.core = s.core /\ t.attached = s.attached
           /\ t.tun2socks = s.tun2socks /\ t.status = s.status /\ t.life = s.life
           /\ t.quickTask = s.quickTask /\ t.userInitiatedStop = s.userInitiatedStop
           /\ t.killSwitchSealed = s.killSwitchSealed
           /\ t.reconnectRequested = s.reconnectRequested
           /\ t.psi = OpenPsiphon(s, proto)
<1> DEFINE m == proto \in {"SOCKS", "REFUSED", "PSIPHON_PROXY"}
           p == OpenPsiphon(s, proto)
           j == Superseded(s.job)
           q == OutdatedAll(s.queue)
           u == [s EXCEPT !.connected = TRUE, !.reconnectTask = FALSE,
                          !.nativeExitWasUnexpected = FALSE, !.stopRequested = FALSE,
                          !.carried = FALSE]
           v == [u EXCEPT !.currentProtocol = proto, !.storedConfig = proto]
           w == [v EXCEPT !.psi = p, !.queue = q]
           x == [w EXCEPT !.job = j]
           t == Opened(s, proto)
<1>1. t = [x EXCEPT !.proxyMode = m] BY ZenonT(60) DEF Opened, Svc
<1>2. m \in BOOLEAN OBVIOUS
<1>3. p \in Psi BY OpenPsiphonType
<1>4. q \in Seq(Job) BY SvcFields, OutdatedQueue
<1>5. j \in Job \cup {None} BY SvcFields, OutdatedType DEF Superseded
<1>6. proto \in Kinds \cup {None} OBVIOUS
<1> HIDE DEF m, p, j, q, t
<1>7. u \in Svc BY ZenonT(60) DEF Svc
<1>8. v \in Svc
  <2> HIDE DEF u
  <2> QED BY <1>6, <1>7, Zenon DEF Svc
<1>9. w \in Svc
  <2> HIDE DEF u, v
  <2> QED BY <1>3, <1>4, <1>8, Zenon DEF Svc
<1>10. x \in Svc
  <2> HIDE DEF u, v, w
  <2> QED BY <1>5, <1>9 DEF Svc
<1>11. t \in Svc
  <2> HIDE DEF u, v, w, x
  <2> QED BY <1>1, <1>2, <1>10 DEF Svc
<1>12. u.tun = s.tun /\ u.core = s.core /\ u.attached = s.attached
           /\ u.tun2socks = s.tun2socks /\ u.status = s.status /\ u.life = s.life
           /\ u.quickTask = s.quickTask /\ u.userInitiatedStop = s.userInitiatedStop
           /\ u.killSwitchSealed = s.killSwitchSealed
           /\ u.reconnectRequested = s.reconnectRequested
           /\ u.connected /\ ~u.reconnectTask /\ ~u.stopRequested
  BY DEF Svc
<1> HIDE DEF u
<1>13. /\ t.tun = u.tun /\ t.core = u.core /\ t.attached = u.attached
       /\ t.tun2socks = u.tun2socks /\ t.status = u.status /\ t.life = u.life
       /\ t.quickTask = u.quickTask /\ t.userInitiatedStop = u.userInitiatedStop
       /\ t.killSwitchSealed = u.killSwitchSealed
       /\ t.reconnectRequested = u.reconnectRequested
       /\ t.connected = u.connected /\ t.reconnectTask = u.reconnectTask
       /\ t.stopRequested = u.stopRequested
  BY <1>1, <1>7 DEF Svc
<1>14. /\ t.currentProtocol = proto /\ t.storedConfig = proto
       /\ t.proxyMode = m /\ t.job = j /\ t.queue = q /\ t.psi = p
  BY <1>1, <1>7 DEF Svc
<1> QED BY <1>11, <1>12, <1>13, <1>14 DEF t, m, j, q, p

-----------------------------------------------------------------------------
(* The inductive invariants *)

(* The newest core session stays attached from the moment its job is taken *)
(* until it is stopped or its core has returned, unless the job of an      *)
(* earlier instance cuts it off.                                           *)
Heard(s) ==
    /\ s.job # None
    /\ s.job.proto \in Native
    /\ s.job.pc \in Ahead
    /\ s.job.cur
    /\ ~s.stopRequested
    => s.attached # "no"

Good(s) ==
    /\ s \in Svc
    /\ s.reconnectTask => s.storedConfig # None
    /\ Heard(s)

VpnInv ==
    /\ Good(svc)
    /\ sched \in [at: {"free", "retry", "quick", "lost"}, config: Kinds \cup {None}]
    /\ sched.at \in {"retry", "quick"} => sched.config \in Kinds
    /\ prefs \in Profiles

(* Only a core job is left behind by a destroyed instance. *)
OldInv ==
    /\ old \in OldPC \cup {None}
    /\ prefs.transports \subseteq Fronts => old = None

(* Sessions, tasks and configurations come from protos. *)
InFamily(s, protos) ==
    /\ s.job # None => s.job.proto \in protos
    /\ QueueOf(s.queue, protos)
    /\ s.currentProtocol \in protos \cup {None}
    /\ s.storedConfig \in protos \cup {None}
    /\ s.quickTask \in protos \cup {None}

(* Core sessions: the TUN belongs to the running job, which releases it    *)
(* before its last step; and a session in proxy mode whose connected has   *)
(* been cleared has reported CONNECTING since.                             *)
CoreSessions(s) ==
    /\ s.currentProtocol = None => s.job = None /\ s.queue = << >>
    /\ s.tun = "open" => s.job # None /\ s.job.pc # "ladder"
    /\ ~s.tun2socks
    /\ ~s.stopRequested /\ s.currentProtocol = "SOCKS" => s.proxyMode
    /\ /\ ~s.stopRequested /\ s.currentProtocol = "SOCKS" /\ ~s.connected
       /\ s.job # None /\ s.job.pc \in Ahead
       => /\ s.job.proto = "SOCKS"
          /\ s.job.pc \in {"enter", "core"} => s.status # "CONNECTED"

HasSession(s) == s.job # None \/ s.queue # << >> \/ s.tun2socks

(* SHARD and Tor: connected is set for as long as the session is not being *)
(* stopped, and stands for one that exists.                                *)
FrontSessions(s) ==
    /\ s.currentProtocol = None =>
           /\ s.job = None /\ s.queue = << >> /\ s.tun # "open"
           /\ ~s.tun2socks /\ ~s.connected
    /\ s.storedConfig = s.currentProtocol
    /\ ~s.core
    /\ s.tun = "open" => s.job # None \/ s.tun2socks
    /\ s.stopRequested \/ s.connected \/ s.currentProtocol = None
    /\ s.connected => HasSession(s)
    /\ s.userInitiatedStop => s.life # "up"

(* The reconnect latch is set only while someone will clear it. *)
LatchOwned ==
    svc.life # "none" /\ svc.reconnectRequested =>
        \/ svc.quickTask # None \/ sched.at = "quick"
        \/ svc.job # None \/ svc.queue # << >>

NativeInv ==
    prefs.transports \subseteq Native =>
        /\ InFamily(svc, Native)
        /\ sched.config \in Native \cup {None}
        /\ CoreSessions(svc)

FrontInv ==
    prefs.transports \subseteq Fronts =>
        /\ InFamily(svc, Fronts)
        /\ sched.config \in Fronts \cup {None}
        /\ FrontSessions(svc)
        /\ svc.life # "none" => svc.currentProtocol # None
        /\ LatchOwned
        /\ NeverStranded

-----------------------------------------------------------------------------
(* startTunnel *)

(* A start makes the running job an older generation and leaves the core,  *)
(* the tasks and the user's stop alone.                                    *)
Starts(s, t, proto) ==
    /\ t \in Svc
    /\ t.currentProtocol = proto /\ t.storedConfig = proto
    /\ t.job = Superseded(s.job)
    /\ t.core = s.core
    /\ t.quickTask = s.quickTask
    /\ t.userInitiatedStop = s.userInitiatedStop
    /\ t.life = s.life \/ t.life = "dying"
    /\ t.tun = "open" => s.tun = "open"
    /\ t.tun2socks => s.tun2socks

(* Its job waits behind the running one... *)
Submitted(s, t, proto) ==
    /\ \E new \in Job : /\ new.proto = proto /\ new.pc \in Beginning
                        /\ t.queue = Append(OutdatedAll(s.queue), new)
    /\ t.connected /\ ~t.stopRequested
    /\ t.proxyMode = (proto \in {"SOCKS", "REFUSED", "PSIPHON_PROXY"})
    /\ t.tun2socks = s.tun2socks
    /\ t.life = s.life
    /\ t.psi = OpenPsiphon(s, proto)

(* ... or it was SHARD or Tor in proxy mode, and failed at once. *)
Refused(s, t) ==
    /\ t.queue = OutdatedAll(s.queue)
    /\ t.stopRequested /\ ~t.tun2socks /\ ~t.reconnectRequested /\ ~t.connected
    /\ t.tun # "open"
    /\ t.killSwitchSealed \/ t.life # "up"
    /\ Disarmed(OpenPsiphon(s, "REFUSED"), t.psi)

LEMMA NoneIsNoKind == \A proto \in Kinds : proto # None
BY NoneAssumption

LEMMA StartSubmits ==
    ASSUME NEW s \in Svc, NEW proto \in Kinds \ {"REFUSED"}, ~s.connected
    PROVE  Starts(s, startTunnel(s, proto), proto) /\ Submitted(s, startTunnel(s, proto), proto)
<1> DEFINE o == Opened(s, proto)
           new == [pc |-> IF proto \in Native THEN "prepare" ELSE "establish", proto |-> proto,
                   cur |-> TRUE, armed |-> FALSE, again |-> FALSE]
           q == Append(o.queue, new)
           t == startTunnel(s, proto)
<1>1. new \in Job /\ new.proto = proto /\ new.pc \in Beginning BY DEF Job, JobPC, Beginning
<1>2. /\ o \in Svc
      /\ o.connected /\ ~o.stopRequested
      /\ o.currentProtocol = proto /\ o.storedConfig = proto
      /\ o.proxyMode = (proto \in {"SOCKS", "REFUSED", "PSIPHON_PROXY"})
      /\ o.job = Superseded(s.job)
      /\ o.queue = OutdatedAll(s.queue)
      /\ o.tun = s.tun /\ o.core = s.core
      /\ o.tun2socks = s.tun2socks /\ o.life = s.life
      /\ o.quickTask = s.quickTask /\ o.userInitiatedStop = s.userInitiatedStop
      /\ o.psi = OpenPsiphon(s, proto)
  BY OpenedType
<1>3. t = [o EXCEPT !.queue = q]
  <2>1. t = Submit(o, proto) BY StartIsOpened
  <2>2. Submit(o, proto) = [o EXCEPT !.queue = q] BY Zenon DEF Submit
  <2> QED BY <2>1, <2>2
<1> HIDE DEF o, new, t
<1>4. q \in Seq(Job) BY <1>1, <1>2, SvcFields
<1> HIDE DEF q
<1>5. t \in Svc BY <1>2, <1>3, <1>4 DEF Svc
<1>6. /\ t.connected = o.connected /\ t.stopRequested = o.stopRequested
      /\ t.currentProtocol = o.currentProtocol /\ t.storedConfig = o.storedConfig
      /\ t.proxyMode = o.proxyMode /\ t.job = o.job /\ t.queue = q
      /\ t.tun = o.tun /\ t.core = o.core /\ t.tun2socks = o.tun2socks /\ t.life = o.life
      /\ t.quickTask = o.quickTask /\ t.userInitiatedStop = o.userInitiatedStop
      /\ t.psi = o.psi
  BY <1>2, <1>3 DEF Svc
<1>7. Starts(s, t, proto) BY <1>2, <1>5, <1>6 DEF Starts
<1>8. Submitted(s, t, proto) BY <1>1, <1>2, <1>6 DEF Submitted, q
<1> QED BY <1>7, <1>8 DEF t

LEMMA StartRefuses ==
    ASSUME NEW s \in Svc, ~s.connected, prefs \in Profiles
    PROVE  Starts(s, startTunnel(s, "REFUSED"), "REFUSED") /\ Refused(s, startTunnel(s, "REFUSED"))
<1> DEFINE o == Opened(s, "REFUSED")
           d == [o EXCEPT !.connected = FALSE]
           t == startTunnel(s, "REFUSED")
<1>1. /\ o \in Svc
      /\ o.currentProtocol = "REFUSED" /\ o.storedConfig = "REFUSED"
      /\ o.job = Superseded(s.job)
      /\ o.queue = OutdatedAll(s.queue)
      /\ o.tun = s.tun /\ o.core = s.core
      /\ o.tun2socks = s.tun2socks /\ o.life = s.life
      /\ o.quickTask = s.quickTask /\ o.userInitiatedStop = s.userInitiatedStop
      /\ o.psi = OpenPsiphon(s, "REFUSED")
  BY OpenedType DEF Kinds
<1>2. t = failAndStop(d) BY StartIsOpened
<1> HIDE DEF o, t
<1>3. d \in Svc BY <1>1, ZenonT(60) DEF Svc
<1>4. /\ d.currentProtocol = "REFUSED" /\ d.storedConfig = "REFUSED"
      /\ d.job = o.job /\ d.queue = o.queue /\ ~d.connected
      /\ d.tun = o.tun /\ d.core = o.core /\ d.life = o.life
      /\ d.quickTask = o.quickTask /\ d.userInitiatedStop = o.userInitiatedStop
      /\ d.psi = o.psi
  BY <1>1 DEF Svc
<1> HIDE DEF d
<1>5. /\ Stops(d, t) /\ Releases(d, t) /\ ~t.reconnectRequested
      /\ d.currentProtocol \in Fronts => t.killSwitchSealed \/ t.life # "up"
  BY <1>2, <1>3, FailAndStopStops
<1>6. Starts(s, t, "REFUSED") BY <1>1, <1>4, <1>5 DEF Starts, Stops, Keeps
<1>7. Refused(s, t) BY <1>1, <1>4, <1>5 DEF Refused, Stops, Keeps, Releases, Fronts
<1> QED BY <1>6, <1>7 DEF t

LEMMA SupersededJob ==
    ASSUME NEW s \in Svc
    PROVE  /\ Superseded(s.job) \in Job \cup {None}
           /\ Superseded(s.job) = None <=> s.job = None
           /\ s.job # None => /\ Superseded(s.job).proto = s.job.proto
                              /\ Superseded(s.job).pc = s.job.pc
                              /\ ~Superseded(s.job).cur
<1>1. None \notin Job BY NoneAssumption
<1>2. s.job \in Job \cup {None} BY SvcFields
<1> QED BY <1>1, <1>2, OutdatedType DEF Superseded

LEMMA StartOnce ==
    ASSUME NEW s, NEW proto, s.connected
    PROVE  startTunnel(s, proto) = s
BY DEF startTunnel

LEMMA StartGood ==
    ASSUME NEW s, NEW proto \in Kinds, Good(s), prefs \in Profiles
    PROVE  Good(startTunnel(s, proto))
<1> DEFINE t == startTunnel(s, proto)
<1>1. CASE s.connected BY <1>1, StartOnce
<1>2. CASE ~s.connected
  <2>1. s \in Svc BY DEF Good
  <2>2. Starts(s, t, proto)
    BY <1>2, <2>1, StartSubmits, StartRefuses
  <2> HIDE DEF t
  <2>3. Heard(t) BY <2>1, <2>2, SupersededJob DEF Heard, Starts
  <2> QED BY <2>2, <2>3, NoneIsNoKind DEF Good, Starts, t
<1> QED BY <1>1, <1>2

LEMMA AppendedQueue ==
    ASSUME NEW q \in Seq(Job), NEW protos, QueueOf(q, protos), NEW job \in Job,
           job.proto \in protos, job.pc \in Beginning
    PROVE  QueueOf(Append(q, job), protos)
BY DEF QueueOf

LEMMA StartFamily ==
    ASSUME NEW s \in Svc, NEW protos \in SUBSET Kinds, NEW proto \in protos,
           InFamily(s, protos), prefs \in Profiles
    PROVE  InFamily(startTunnel(s, proto), protos)
<1> DEFINE t == startTunnel(s, proto)
           q == OutdatedAll(s.queue)
<1>1. CASE s.connected BY <1>1, StartOnce
<1>2. CASE ~s.connected
  <2>1. Starts(s, t, proto) /\ (Submitted(s, t, proto) \/ Refused(s, t))
    BY <1>2, StartSubmits, StartRefuses
  <2>2. q \in Seq(Job) /\ QueueOf(q, protos)
    <3>1. s.queue \in Seq(Job) BY SvcFields
    <3> QED BY <3>1, OutdatedQueue DEF InFamily, QueueOf
  <2>3. \/ t.queue = q
        \/ \E new \in Job : /\ new.proto = proto /\ new.pc \in Beginning
                            /\ t.queue = Append(q, new)
    BY <2>1 DEF Submitted, Refused
  <2> HIDE DEF t, q
  <2>4. QueueOf(t.queue, protos) BY <2>2, <2>3, AppendedQueue
  <2>5. t.job # None => t.job.proto \in protos
    BY <2>1, SupersededJob DEF Starts, InFamily
  <2> QED BY <2>1, <2>4, <2>5 DEF InFamily, Starts, t
<1> QED BY <1>1, <1>2

LEMMA StartCore ==
    ASSUME NEW s \in Svc, NEW proto \in Native, CoreSessions(s)
    PROVE  CoreSessions(startTunnel(s, proto))
<1> DEFINE t == startTunnel(s, proto)
<1>1. CASE s.connected BY <1>1, StartOnce
<1>2. CASE ~s.connected
  <2>1. Starts(s, t, proto) /\ Submitted(s, t, proto)
    BY <1>2, StartSubmits DEF Native, Kinds
  <2> HIDE DEF t
  <2>2. t.proxyMode = (proto \in {"SOCKS", "REFUSED", "PSIPHON_PROXY"})
    BY <2>1 DEF Submitted
  <2>3. ~t.stopRequested /\ t.currentProtocol = "SOCKS" => t.proxyMode
    BY <2>1, <2>2 DEF Starts
  <2>4. t.connected /\ ~t.tun2socks /\ (t.tun = "open" => s.tun = "open")
    BY <2>1 DEF Submitted, Starts, CoreSessions
  <2>5. s.job # None => t.job # None /\ t.job.pc = s.job.pc
    BY <2>1, SupersededJob DEF Starts
  <2>6. t.currentProtocol # None BY <2>1, NoneIsNoKind DEF Starts, Native, Kinds
  <2> QED BY <2>3, <2>4, <2>5, <2>6 DEF CoreSessions, t
<1> QED BY <1>1, <1>2

LEMMA StartFront ==
    ASSUME NEW s \in Svc, NEW proto \in Fronts, FrontSessions(s), prefs \in Profiles
    PROVE  LET t == startTunnel(s, proto) IN
           /\ FrontSessions(t)
           /\ t.currentProtocol # None
           /\ t.quickTask = s.quickTask
           /\ HasSession(t) \/ t.killSwitchSealed \/ t.life # "up"
           /\ ~s.connected => t.queue # << >> \/ ~t.reconnectRequested
<1> DEFINE t == startTunnel(s, proto)
<1>0. proto \in Kinds /\ proto # None BY NoneIsNoKind DEF Fronts, Kinds
<1>1. CASE s.connected
  <2>1. t = s BY <1>1, StartOnce
  <2>2. s.currentProtocol # None BY <1>1 DEF FrontSessions
  <2>3. HasSession(s) BY <1>1 DEF FrontSessions
  <2> QED BY <1>1, <2>1, <2>2, <2>3
<1>2. CASE ~s.connected
  <2>1. Starts(s, t, proto) /\ (Submitted(s, t, proto) \/ Refused(s, t))
    BY <1>0, <1>2, StartSubmits, StartRefuses
  <2> HIDE DEF t
  <2>2. t.job = None <=> s.job = None BY <2>1, SupersededJob DEF Starts
  <2>3. t.userInitiatedStop => t.life # "up"
    BY <2>1 DEF Starts, FrontSessions
  <2>4. CASE Submitted(s, t, proto)
    <3>1. OutdatedAll(s.queue) \in Seq(Job) BY SvcFields, OutdatedQueue
    <3>2. t.queue # << >> BY <2>4, <3>1 DEF Submitted
    <3> QED BY <1>0, <1>2, <2>1, <2>2, <2>3, <2>4, <3>2
            DEF FrontSessions, HasSession, Starts, Submitted, t
  <2>5. CASE Refused(s, t)
    BY <1>0, <1>2, <2>1, <2>2, <2>3, <2>5 DEF FrontSessions, Starts, Refused, t
  <2> QED BY <2>1, <2>4, <2>5
<1> QED BY <1>1, <1>2

-----------------------------------------------------------------------------
(* What stopping preserves *)

LEMMA StopsGood ==
    ASSUME NEW s, NEW t, Good(s), Stops(s, t)
    PROVE  Good(t)
BY DEF Good, Heard, Stops, Keeps

LEMMA KeepsFamily ==
    ASSUME NEW s, NEW t, NEW protos, InFamily(s, protos), Keeps(s, t)
    PROVE  InFamily(t, protos)
BY DEF InFamily, Keeps

LEMMA StopsCore ==
    ASSUME NEW s, NEW t, CoreSessions(s), Stops(s, t)
    PROVE  CoreSessions(t)
BY DEF CoreSessions, Stops, Keeps

-----------------------------------------------------------------------------
(* The steps *)

Inv == VpnInv /\ NativeInv /\ FrontInv

LEMMA FreshType == Fresh \in Svc
<1>1. 0 \in Rungs BY BoundsAssumption DEF Rungs
<1>2. 0 \in 0 .. MaxStops BY BoundsAssumption
<1>3. {} \in SUBSET Rungs OBVIOUS
<1>4. FreshPsiphon \in Psi BY <1>1, <1>2, <1>3, Zenon DEF FreshPsiphon, Psi
<1>5. << >> \in Seq(Job) OBVIOUS
<1> QED BY <1>4, <1>5, Zenon DEF Fresh, Svc

LEMMA InitInv == Init => Inv
<1> SUFFICES ASSUME Init PROVE Inv OBVIOUS
<1>1. svc \in Svc BY FreshType DEF Init
<1>2. /\ svc.job = None /\ svc.queue = << >> /\ svc.currentProtocol = None
      /\ svc.storedConfig = None /\ svc.quickTask = None /\ ~svc.reconnectTask
      /\ svc.tun = "none" /\ ~svc.tun2socks /\ ~svc.core /\ ~svc.connected
      /\ ~svc.userInitiatedStop /\ svc.life = "none"
  BY DEF Init, Fresh
<1>3. /\ sched \in [at: {"free", "retry", "quick", "lost"}, config: Kinds \cup {None}]
      /\ sched.at = "free" /\ sched.config = None
  BY DEF Init, Idle
<1>4. VpnInv BY <1>1, <1>2, <1>3 DEF VpnInv, Good, Heard, Init
<1>5. QueueOf(svc.queue, Native) /\ QueueOf(svc.queue, Fronts) BY <1>2 DEF QueueOf
<1>6. None \notin Fronts /\ None # "SOCKS" BY NoneIsNoKind DEF Fronts, Kinds
<1>7. NativeInv BY <1>2, <1>3, <1>5, <1>6 DEF NativeInv, InFamily, CoreSessions
<1>8. FrontInv
  BY <1>2, <1>3, <1>5, <1>6 DEF FrontInv, InFamily, FrontSessions, LatchOwned, NeverStranded, Fronts
<1> QED BY <1>4, <1>7, <1>8 DEF Inv

(* The service that a Connect finds or creates. *)
LEMMA ConnectFrom ==
    ASSUME VpnInv, NEW proto, Connect(proto)
    PROVE  \E s \in Svc :
             /\ svc' = startTunnel(s, proto) /\ sched' = sched
             /\ s.life = "up" /\ ~s.userInitiatedStop
             /\ \/ /\ svc.life # "none"
                   /\ s.job = svc.job /\ s.queue = svc.queue
                   /\ s.currentProtocol = svc.currentProtocol
                   /\ s.storedConfig = svc.storedConfig /\ s.quickTask = svc.quickTask
                   /\ s.reconnectTask = svc.reconnectTask
                   /\ s.reconnectRequested = svc.reconnectRequested
                   /\ s.connected = svc.connected /\ s.stopRequested = svc.stopRequested
                   /\ s.proxyMode = svc.proxyMode /\ s.core = svc.core
                   /\ s.attached = svc.attached /\ s.tun = svc.tun
                   /\ s.tun2socks = svc.tun2socks /\ s.status = svc.status
                   /\ s.psi = svc.psi
                \/ /\ s.job = None /\ s.queue = << >>
                   /\ s.currentProtocol = None /\ s.storedConfig = None
                   /\ s.quickTask = None /\ ~s.reconnectTask /\ ~s.reconnectRequested
                   /\ ~s.connected /\ s.tun = "none" /\ ~s.tun2socks /\ s.core = svc.core
                   /\ ~s.psi.ladderActive /\ ~s.psi.alone
                   /\ Unused(svc.psi) => Unused(s.psi)
<1> DEFINE p == [FreshPsiphon EXCEPT
               !.remembered = svc.psi.remembered, !.stops = svc.psi.stops,
               !.ctrl = IF svc.psi.ctrl = "none" THEN "none" ELSE "foreign"]
           b == [Fresh EXCEPT !.core = svc.core, !.coreStop = svc.coreStop, !.psi = p]
           here == IF svc.life = "none" THEN b ELSE svc
           s == [here EXCEPT !.life = "up", !.userInitiatedStop = FALSE,
                             !.killSwitchSealed = FALSE]
<1>1. svc \in Svc BY DEF VpnInv, Good
<1>2. svc' = startTunnel(s, proto) /\ sched' = sched BY DEF Connect, NewInstance
<1>3. p \in Psi
  <2> DEFINE c == IF svc.psi.ctrl = "none" THEN "none" ELSE "foreign"
  <2>1. c \in {"none", "dialing", "up", "foreign"} OBVIOUS
  <2>2. svc.psi.remembered \in Rungs /\ svc.psi.stops \in 0 .. MaxStops
    BY <1>1, SvcFields DEF Psi
  <2>3. FreshPsiphon \in Psi BY FreshType, SvcFields DEF Fresh
  <2> HIDE DEF c
  <2> QED BY <2>1, <2>2, <2>3, Zenon DEF Psi
<1>0. ~p.ladderActive /\ ~p.alone /\ (Unused(svc.psi) => Unused(p))
  BY <1>1 DEF FreshPsiphon, Unused, Svc, Psi
<1> HIDE DEF p
<1>4. b \in Svc
  <2> DEFINE u == [Fresh EXCEPT !.core = svc.core]
             v == [u EXCEPT !.coreStop = svc.coreStop]
  <2>1. svc.core \in BOOLEAN /\ svc.coreStop \in BOOLEAN BY <1>1, SvcFields
  <2>2. b = [v EXCEPT !.psi = p] BY FreshType DEF Svc
  <2>3. u \in Svc BY <2>1, FreshType DEF Svc
  <2> HIDE DEF u
  <2>4. v \in Svc BY <2>1, <2>3 DEF Svc
  <2> HIDE DEF v, b
  <2> QED BY <1>3, <2>2, <2>4 DEF Svc
<1>5. b.job = None /\ b.queue = << >>
                   /\ b.currentProtocol = None /\ b.storedConfig = None
                   /\ b.quickTask = None /\ ~b.reconnectTask /\ ~b.reconnectRequested
                   /\ ~b.connected /\ b.tun = "none" /\ ~b.tun2socks /\ b.core = svc.core
                   /\ b.psi = p
  BY DEF Fresh
<1> HIDE DEF b
<1>6. here \in Svc BY <1>1, <1>4
<1>7. /\ s.life = "up" /\ ~s.userInitiatedStop
      /\ s.job = here.job /\ s.queue = here.queue
      /\ s.currentProtocol = here.currentProtocol
      /\ s.storedConfig = here.storedConfig /\ s.quickTask = here.quickTask
      /\ s.reconnectTask = here.reconnectTask
      /\ s.reconnectRequested = here.reconnectRequested
      /\ s.connected = here.connected /\ s.stopRequested = here.stopRequested
      /\ s.proxyMode = here.proxyMode /\ s.core = here.core
      /\ s.attached = here.attached /\ s.tun = here.tun
      /\ s.tun2socks = here.tun2socks /\ s.status = here.status
      /\ s.psi = here.psi
  <2> HIDE DEF here
  <2> QED BY <1>6 DEF Svc
<1>8. s \in Svc
  <2> HIDE DEF here
  <2> QED BY <1>6, ZenonT(60) DEF Svc
<1> HIDE DEF s
<1>9. CASE svc.life = "none"
  <2>1. here = b BY <1>9
  <2> HIDE DEF here
  <2> QED BY <1>0, <1>2, <1>5, <1>7, <1>8, <1>9, <2>1
<1>10. CASE svc.life # "none"
  <2>1. here = svc BY <1>10
  <2> HIDE DEF here
  <2> QED BY <1>2, <1>7, <1>8, <1>10, <2>1
<1> QED BY <1>9, <1>10

LEMMA StepConnect ==
    ASSUME Inv, prefs' = prefs, NEW proto \in prefs.transports, Connect(proto)
    PROVE  Inv'
<1>0. VpnInv /\ NativeInv /\ FrontInv BY DEF Inv
<1>1. proto \in Kinds BY <1>0, ProfilesAssumption DEF VpnInv, Profile
<1>2. PICK s \in Svc :
             /\ svc' = startTunnel(s, proto) /\ sched' = sched
             /\ s.life = "up" /\ ~s.userInitiatedStop
             /\ \/ /\ svc.life # "none"
                   /\ s.job = svc.job /\ s.queue = svc.queue
                   /\ s.currentProtocol = svc.currentProtocol
                   /\ s.storedConfig = svc.storedConfig /\ s.quickTask = svc.quickTask
                   /\ s.reconnectTask = svc.reconnectTask
                   /\ s.reconnectRequested = svc.reconnectRequested
                   /\ s.connected = svc.connected /\ s.stopRequested = svc.stopRequested
                   /\ s.proxyMode = svc.proxyMode /\ s.core = svc.core
                   /\ s.attached = svc.attached /\ s.tun = svc.tun
                   /\ s.tun2socks = svc.tun2socks /\ s.status = svc.status
                \/ /\ s.job = None /\ s.queue = << >>
                   /\ s.currentProtocol = None /\ s.storedConfig = None
                   /\ s.quickTask = None /\ ~s.reconnectTask /\ ~s.reconnectRequested
                   /\ ~s.connected /\ s.tun = "none" /\ ~s.tun2socks /\ s.core = svc.core
  BY <1>0, ConnectFrom
<1>3. Good(s) BY <1>0, <1>2 DEF Good, Heard, VpnInv
<1>4. Good(svc') BY <1>0, <1>1, <1>2, <1>3, StartGood DEF VpnInv
<1>5. VpnInv' BY <1>0, <1>2, <1>4 DEF VpnInv, Good, Heard
<1>6. None \notin Fronts /\ None # "SOCKS" BY NoneIsNoKind DEF Fronts, Kinds
<1>7. ASSUME NEW protos \in SUBSET Kinds, InFamily(svc, protos), proto \in protos
      PROVE  InFamily(svc', protos)
  <2>1. InFamily(s, protos) BY <1>2, <1>7 DEF InFamily, QueueOf
  <2> QED BY <1>0, <1>2, <1>7, <2>1, StartFamily DEF VpnInv
<1>8. NativeInv'
  <2> SUFFICES ASSUME prefs.transports \subseteq Native PROVE NativeInv'
    BY DEF NativeInv
  <2>1. InFamily(svc, Native) /\ CoreSessions(svc) /\ sched.config \in Native \cup {None}
    BY <1>0 DEF NativeInv
  <2>2. Native \in SUBSET Kinds BY DEF Native, Kinds
  <2>3. InFamily(svc', Native) BY <1>7, <2>1, <2>2
  <2>4. CoreSessions(s) BY <1>2, <1>6, <2>1 DEF CoreSessions
  <2>5. CoreSessions(svc') BY <1>2, <2>4, StartCore
  <2> QED BY <1>2, <2>1, <2>3, <2>5 DEF NativeInv, InFamily, CoreSessions
<1>9. FrontInv'
  <2> SUFFICES ASSUME prefs.transports \subseteq Fronts PROVE FrontInv'
    BY DEF FrontInv
  <2>1. /\ InFamily(svc, Fronts) /\ FrontSessions(svc) /\ sched.config \in Fronts \cup {None}
        /\ LatchOwned /\ (svc.life # "none" => svc.currentProtocol # None)
    BY <1>0 DEF FrontInv
  <2>2. Fronts \in SUBSET Kinds BY DEF Fronts, Kinds
  <2>3. InFamily(svc', Fronts) BY <1>7, <2>1, <2>2
  <2>4. FrontSessions(s) BY <1>2, <1>6, <2>1 DEF FrontSessions, HasSession
  <2>5. /\ FrontSessions(svc') /\ svc'.currentProtocol # None
        /\ svc'.quickTask = s.quickTask
        /\ HasSession(svc') \/ svc'.killSwitchSealed \/ svc'.life # "up"
        /\ ~s.connected => svc'.queue # << >> \/ ~svc'.reconnectRequested
    BY <1>0, <1>2, <2>4, StartFront DEF VpnInv
  <2>6. LatchOwned'
    <3>1. CASE s.connected
      <4>1. svc' = s BY <1>2, <3>1, StartOnce
      <4> QED BY <1>2, <2>1, <3>1, <4>1 DEF LatchOwned
    <3>2. CASE ~s.connected BY <2>5, <3>2 DEF LatchOwned
    <3> QED BY <3>1, <3>2
  <2>7. NeverStranded' BY <2>5 DEF NeverStranded, HasSession
  <2>8. sched'.config \in Fronts \cup {None} BY <1>2, <2>1
  <2> QED BY <2>3, <2>5, <2>6, <2>7, <2>8 DEF FrontInv, InFamily, FrontSessions, HasSession
<1> QED BY <1>5, <1>8, <1>9 DEF Inv

(* A retry and a quick reconnect start the configuration their task holds. *)
LEMMA StepStart ==
    ASSUME Inv, prefs' = prefs, sched.at \in {"retry", "quick"},
           sched.at = "quick" => ~svc.connected,
           svc' = startTunnel(svc, sched.config), sched' = Idle
    PROVE  Inv'
<1>0. VpnInv /\ NativeInv /\ FrontInv /\ svc \in Svc BY DEF Inv, VpnInv, Good
<1>1. sched.config \in Kinds /\ sched.config # None BY <1>0, NoneIsNoKind DEF VpnInv
<1>2. /\ sched' \in [at: {"free", "retry", "quick", "lost"}, config: Kinds \cup {None}]
      /\ sched'.at = "free" /\ sched'.config = None
  BY DEF Idle
<1>3. Good(svc') BY <1>0, <1>1, StartGood DEF VpnInv
<1>4. VpnInv' BY <1>0, <1>2, <1>3 DEF VpnInv, Good, Heard
<1>5. NativeInv'
  <2> SUFFICES ASSUME prefs.transports \subseteq Native PROVE NativeInv'
    BY DEF NativeInv
  <2>1. InFamily(svc, Native) /\ CoreSessions(svc) /\ sched.config \in Native
    BY <1>0, <1>1 DEF NativeInv
  <2>2. Native \in SUBSET Kinds BY DEF Native, Kinds
  <2>3. InFamily(svc', Native) BY <1>0, <2>1, <2>2, StartFamily DEF VpnInv
  <2>4. CoreSessions(svc') BY <1>0, <2>1, StartCore
  <2> QED BY <1>2, <2>3, <2>4 DEF NativeInv, InFamily, CoreSessions
<1>6. FrontInv'
  <2> SUFFICES ASSUME prefs.transports \subseteq Fronts PROVE FrontInv'
    BY DEF FrontInv
  <2>1. InFamily(svc, Fronts) /\ FrontSessions(svc) /\ sched.config \in Fronts /\ LatchOwned
    BY <1>0, <1>1 DEF FrontInv
  <2>2. Fronts \in SUBSET Kinds BY DEF Fronts, Kinds
  <2>3. InFamily(svc', Fronts) BY <1>0, <2>1, <2>2, StartFamily DEF VpnInv
  <2>4. /\ FrontSessions(svc') /\ svc'.currentProtocol # None
        /\ HasSession(svc') \/ svc'.killSwitchSealed \/ svc'.life # "up"
        /\ ~svc.connected => svc'.queue # << >> \/ ~svc'.reconnectRequested
    BY <1>0, <2>1, StartFront DEF VpnInv
  <2>5. LatchOwned'
    <3>1. CASE svc.connected
      <4>1. svc' = svc BY <3>1, StartOnce
      <4> QED BY <2>1, <3>1, <4>1 DEF LatchOwned
    <3>2. CASE ~svc.connected BY <2>4, <3>2 DEF LatchOwned
    <3> QED BY <3>1, <3>2
  <2>6. NeverStranded' BY <2>4 DEF NeverStranded, HasSession
  <2> QED BY <1>2, <2>3, <2>4, <2>5, <2>6 DEF FrontInv, InFamily, FrontSessions, HasSession
<1> QED BY <1>4, <1>5, <1>6 DEF Inv

(* A step that stops the session of svc, or of a service like it.  s is    *)
(* the service as the method found it.                                     *)
Before(s) ==
    /\ s \in Svc
    /\ s.job = svc.job /\ s.queue = svc.queue /\ s.currentProtocol = svc.currentProtocol
    /\ s.storedConfig = svc.storedConfig /\ s.quickTask = svc.quickTask /\ s.core = svc.core
    /\ s.tun = svc.tun /\ s.tun2socks = svc.tun2socks /\ s.connected = svc.connected
    /\ s.stopRequested = svc.stopRequested /\ s.proxyMode = svc.proxyMode
    /\ s.attached = svc.attached /\ s.life = svc.life /\ s.status = svc.status
    /\ s.reconnectTask => svc.reconnectTask

LEMMA BeforeStops ==
    ASSUME Inv, NEW s, Before(s), NEW t, Stops(s, t), Releases(s, t)
    PROVE  /\ Good(t)
           /\ prefs.transports \subseteq Native => InFamily(t, Native) /\ CoreSessions(t)
           /\ /\ prefs.transports \subseteq Fronts /\ svc.currentProtocol # None
              /\ s.userInitiatedStop => t.life # "up"
              => InFamily(t, Fronts) /\ FrontSessions(t)
<1>0. VpnInv /\ NativeInv /\ FrontInv /\ svc \in Svc BY DEF Inv, VpnInv, Good
<1>1. Good(s) BY <1>0 DEF Good, Heard, Before, VpnInv
<1>2. Good(t) BY <1>1, StopsGood
<1>3. ASSUME prefs.transports \subseteq Native PROVE InFamily(t, Native) /\ CoreSessions(t)
  <2>1. InFamily(svc, Native) /\ CoreSessions(svc) BY <1>0, <1>3 DEF NativeInv
  <2>2. InFamily(s, Native) /\ CoreSessions(s) BY <2>1 DEF InFamily, CoreSessions, Before
  <2> QED BY <2>2, KeepsFamily, StopsCore DEF Stops
<1>4. ASSUME prefs.transports \subseteq Fronts, svc.currentProtocol # None,
             s.userInitiatedStop => t.life # "up"
      PROVE  InFamily(t, Fronts) /\ FrontSessions(t)
  <2>1. InFamily(svc, Fronts) /\ FrontSessions(svc) BY <1>0, <1>4 DEF FrontInv
  <2>2. InFamily(s, Fronts) BY <2>1 DEF InFamily, Before
  <2>3. InFamily(t, Fronts) BY <2>2, KeepsFamily DEF Stops
  <2>4. s.currentProtocol \in Fronts BY <1>4, <2>1 DEF InFamily, Before
  <2>5. t.userInitiatedStop => t.life # "up" BY <1>4 DEF Stops, Keeps
  <2>6. /\ s.storedConfig = s.currentProtocol /\ ~s.core /\ s.currentProtocol # None
    BY <1>4, <2>1 DEF FrontSessions, Before
  <2>7. FrontSessions(t)
    BY <2>4, <2>5, <2>6 DEF FrontSessions, Stops, Keeps, Releases
  <2> QED BY <2>3, <2>7
<1> QED BY <1>2, <1>3, <1>4

LEMMA StepDisconnect ==
    ASSUME Inv, prefs' = prefs, Disconnect
    PROVE  Inv'
<1>0. VpnInv /\ NativeInv /\ FrontInv /\ svc \in Svc BY DEF Inv, VpnInv, Good
<1> DEFINE u == [svc EXCEPT !.userInitiatedStop = TRUE, !.reconnectRequested = FALSE,
                            !.killSwitchSealed = FALSE]
           s == cancelAutoReconnect(u)
<1>1. svc' = stopTunnel(s, TRUE, TRUE) /\ sched' = sched /\ svc.life # "none" BY DEF Disconnect
<1>2. u \in Svc BY <1>0, Zenon DEF Svc
<1>3. s \in Svc BY <1>2, QuietCancel DEF Quiet
<1>4. /\ s.job = svc.job /\ s.queue = svc.queue /\ s.currentProtocol = svc.currentProtocol
      /\ s.storedConfig = svc.storedConfig /\ s.quickTask = svc.quickTask /\ s.core = svc.core
      /\ s.tun = svc.tun /\ s.tun2socks = svc.tun2socks /\ s.connected = svc.connected
      /\ s.stopRequested = svc.stopRequested /\ s.proxyMode = svc.proxyMode
      /\ s.attached = svc.attached /\ s.life = svc.life /\ s.status = svc.status
      /\ ~s.reconnectTask /\ ~s.reconnectRequested
  BY <1>0 DEF Svc, cancelAutoReconnect
<1>5. Before(s) BY <1>3, <1>4 DEF Before
<1> HIDE DEF s
<1>6. /\ Stops(s, svc') /\ Releases(s, svc') /\ svc'.reconnectRequested = s.reconnectRequested
      /\ s.currentProtocol \in Fronts => svc'.life # "up"
  BY <1>1, <1>3, StopTunnelStops
<1>7. /\ Good(svc')
      /\ prefs.transports \subseteq Native => InFamily(svc', Native) /\ CoreSessions(svc')
      /\ /\ prefs.transports \subseteq Fronts /\ svc.currentProtocol # None
         /\ s.userInitiatedStop => svc'.life # "up"
         => InFamily(svc', Fronts) /\ FrontSessions(svc')
  BY <1>5, <1>6, BeforeStops
<1>8. VpnInv' BY <1>0, <1>1, <1>7 DEF VpnInv, Good, Heard
<1>9. NativeInv' BY <1>0, <1>1, <1>7 DEF NativeInv, InFamily, CoreSessions
<1>10. FrontInv'
  <2> SUFFICES ASSUME prefs.transports \subseteq Fronts PROVE FrontInv'
    BY DEF FrontInv
  <2>1. svc.currentProtocol # None /\ svc.currentProtocol \in Fronts /\ sched.config \in Fronts \cup {None}
    BY <1>0, <1>1 DEF FrontInv, InFamily
  <2>2. svc'.life # "up" /\ ~svc'.reconnectRequested /\ svc'.currentProtocol # None
    BY <1>4, <1>6, <2>1 DEF Stops, Keeps
  <2>3. InFamily(svc', Fronts) /\ FrontSessions(svc') BY <1>7, <2>1, <2>2
  <2> QED BY <1>1, <2>1, <2>2, <2>3
          DEF FrontInv, LatchOwned, NeverStranded, InFamily, FrontSessions, HasSession
<1> QED BY <1>8, <1>9, <1>10 DEF Inv

LEMMA StepReconnect ==
    ASSUME Inv, prefs' = prefs, Reconnect
    PROVE  Inv'
<1>0. VpnInv /\ NativeInv /\ FrontInv /\ svc \in Svc BY DEF Inv, VpnInv, Good
<1> DEFINE s == [svc EXCEPT !.reconnectRequested = TRUE]
           t == stopTunnel(s, FALSE, FALSE)
<1>1. /\ svc' = [t EXCEPT !.quickTask = svc.storedConfig] /\ sched' = sched
      /\ svc.life # "none" /\ svc.storedConfig # None
  BY DEF Reconnect
<1>2. s \in Svc BY <1>0 DEF Svc
<1>3. Before(s) /\ s.userInitiatedStop = svc.userInitiatedStop BY <1>0, <1>2 DEF Before, Svc
<1> HIDE DEF s
<1>4. Stops(s, t) /\ Releases(s, t) /\ t.life = s.life BY <1>2, StopTunnelStops
<1> HIDE DEF t
<1>5. /\ Good(t)
      /\ prefs.transports \subseteq Native => InFamily(t, Native) /\ CoreSessions(t)
      /\ /\ prefs.transports \subseteq Fronts /\ svc.currentProtocol # None
         /\ s.userInitiatedStop => t.life # "up"
         => InFamily(t, Fronts) /\ FrontSessions(t)
  BY <1>3, <1>4, BeforeStops
<1>6. svc' \in Svc
  <2>1. svc.storedConfig \in Kinds \cup {None} /\ t \in Svc BY <1>0, <1>5, SvcFields DEF Good
  <2> QED BY <1>1, <2>1 DEF Svc
<1>7. /\ svc'.quickTask = svc.storedConfig
      /\ svc'.job = t.job /\ svc'.queue = t.queue /\ svc'.currentProtocol = t.currentProtocol
      /\ svc'.storedConfig = t.storedConfig /\ svc'.core = t.core
      /\ svc'.tun = t.tun /\ svc'.tun2socks = t.tun2socks /\ svc'.connected = t.connected
      /\ svc'.stopRequested = t.stopRequested /\ svc'.proxyMode = t.proxyMode
      /\ svc'.attached = t.attached /\ svc'.life = t.life /\ svc'.status = t.status
      /\ svc'.reconnectTask = t.reconnectTask /\ svc'.userInitiatedStop = t.userInitiatedStop
  BY <1>1, <1>5 DEF Svc, Good
<1>8. VpnInv' BY <1>0, <1>1, <1>5, <1>6, <1>7 DEF VpnInv, Good, Heard
<1>9. NativeInv' BY <1>0, <1>1, <1>5, <1>7 DEF NativeInv, InFamily, CoreSessions
<1>10. FrontInv'
  <2> SUFFICES ASSUME prefs.transports \subseteq Fronts PROVE FrontInv'
    BY DEF FrontInv
  <2>1. /\ svc.currentProtocol # None /\ sched.config \in Fronts \cup {None}
        /\ svc.storedConfig \in Fronts
        /\ svc.userInitiatedStop => svc.life # "up"
    BY <1>0, <1>1 DEF FrontInv, InFamily, FrontSessions
  <2>2. s.userInitiatedStop => t.life # "up" BY <1>3, <1>4, <2>1 DEF Before
  <2>3. InFamily(t, Fronts) /\ FrontSessions(t) BY <1>5, <2>1, <2>2
  <2>4. InFamily(svc', Fronts) BY <1>7, <2>1, <2>3 DEF InFamily
  <2>5. FrontSessions(svc') BY <1>7, <2>3 DEF FrontSessions, HasSession
  <2>6. svc'.currentProtocol # None BY <1>3, <1>4, <1>7, <2>1 DEF Stops, Keeps, Before
  <2> QED BY <1>1, <1>7, <2>1, <2>4, <2>5, <2>6
          DEF FrontInv, LatchOwned, NeverStranded, InFamily, FrontSessions, HasSession
<1> QED BY <1>8, <1>9, <1>10 DEF Inv

LEMMA StepDestroy ==
    ASSUME Inv, prefs' = prefs, Destroy
    PROVE  Inv'
<1>0. VpnInv /\ NativeInv /\ FrontInv /\ svc \in Svc BY DEF Inv, VpnInv, Good
<1> DEFINE s == cancelAutoReconnect(svc)
           t == stopTunnel(s, FALSE, TRUE)
           p == [t.psi EXCEPT !.attributionPending = FALSE]
<1>1. /\ svc' = [t EXCEPT !.life = "none", !.tun = "none", !.quickTask = None, !.queue = << >>,
                          !.psi.attributionPending = FALSE]
      /\ sched' = Idle /\ svc.life = "dying"
  BY DEF Destroy
<1>2. s \in Svc BY <1>0, QuietCancel DEF Quiet
<1>3. Before(s) /\ s.userInitiatedStop = svc.userInitiatedStop
  BY <1>0, <1>2 DEF Before, Svc, cancelAutoReconnect
<1> HIDE DEF s
<1>4. Stops(s, t) /\ Releases(s, t) BY <1>2, StopTunnelStops
<1> HIDE DEF t
<1>5. /\ Good(t)
      /\ prefs.transports \subseteq Native => InFamily(t, Native) /\ CoreSessions(t)
      /\ /\ prefs.transports \subseteq Fronts /\ svc.currentProtocol # None
         /\ s.userInitiatedStop => t.life # "up"
         => InFamily(t, Fronts) /\ FrontSessions(t)
  BY <1>3, <1>4, BeforeStops
<1>6. t \in Svc BY <1>5 DEF Good
<1>7. svc' = [t EXCEPT !.life = "none", !.tun = "none", !.quickTask = None, !.queue = << >>,
                       !.psi = p]
  BY <1>1, <1>6 DEF Svc
<1>8. p \in Psi
  <2>1. t.psi \in Psi BY <1>6, SvcFields
  <2> QED BY <2>1 DEF Psi
<1> HIDE DEF p
<1>9. svc' \in Svc
  <2>1. << >> \in Seq(Job) /\ None \in Kinds \cup {None} OBVIOUS
  <2> QED BY <1>6, <1>7, <1>8, <2>1, Zenon DEF Svc
<1>10. /\ svc'.life = "none" /\ svc'.tun = "none" /\ svc'.quickTask = None /\ svc'.queue = << >>
       /\ svc'.job = t.job /\ svc'.currentProtocol = t.currentProtocol
       /\ svc'.storedConfig = t.storedConfig /\ svc'.core = t.core
       /\ svc'.tun2socks = t.tun2socks /\ svc'.connected = t.connected
       /\ svc'.stopRequested = t.stopRequested /\ svc'.proxyMode = t.proxyMode
       /\ svc'.attached = t.attached /\ svc'.status = t.status
       /\ svc'.reconnectTask = t.reconnectTask /\ svc'.userInitiatedStop = t.userInitiatedStop
  BY <1>6, <1>7 DEF Svc
<1>11. /\ sched' \in [at: {"free", "retry", "quick", "lost"}, config: Kinds \cup {None}]
       /\ sched'.at = "free" /\ sched'.config = None
  BY <1>1 DEF Idle
<1>12. VpnInv' BY <1>0, <1>5, <1>9, <1>10, <1>11 DEF VpnInv, Good, Heard
<1>13. QueueOf(svc'.queue, Native) /\ QueueOf(svc'.queue, Fronts) BY <1>10 DEF QueueOf
<1>14. NativeInv'
  <2> SUFFICES ASSUME prefs.transports \subseteq Native PROVE NativeInv'
    BY DEF NativeInv
  <2>1. InFamily(svc', Native) BY <1>5, <1>10, <1>13 DEF InFamily
  <2>2. CoreSessions(svc') BY <1>5, <1>10 DEF CoreSessions
  <2> QED BY <1>11, <2>1, <2>2 DEF NativeInv, InFamily, CoreSessions, QueueOf
<1>15. FrontInv'
  <2> SUFFICES ASSUME prefs.transports \subseteq Fronts PROVE FrontInv'
    BY DEF FrontInv
  <2>1. svc.currentProtocol # None /\ svc.currentProtocol \in Fronts
           /\ (svc.userInitiatedStop => svc.life # "up")
    BY <1>0, <1>1 DEF FrontInv, InFamily, FrontSessions
  <2>2. t.life # "up" BY <1>1, <1>3, <1>4 DEF Stops, Keeps, Before
  <2>3. InFamily(t, Fronts) /\ FrontSessions(t) BY <1>5, <2>1, <2>2
  <2>4. InFamily(svc', Fronts) BY <1>10, <1>13, <2>3 DEF InFamily
  <2>5. ~svc'.connected BY <1>3, <1>4, <1>10, <2>1 DEF Releases, Before
  <2>6. FrontSessions(svc') BY <1>10, <2>3, <2>5 DEF FrontSessions, HasSession
  <2> QED BY <1>10, <1>11, <2>4, <2>6
          DEF FrontInv, LatchOwned, NeverStranded, InFamily, FrontSessions, HasSession, QueueOf
<1> QED BY <1>12, <1>14, <1>15 DEF Inv

LEMMA StepWatchdogLost ==
    ASSUME Inv, prefs' = prefs, WatchdogLost
    PROVE  Inv'
<1>0. VpnInv /\ NativeInv /\ FrontInv /\ svc \in Svc BY DEF Inv, VpnInv, Good
<1>1. svc' = onTunnelLost(svc) /\ sched.at = "lost" BY DEF WatchdogLost
<1>2. /\ sched' \in [at: {"free", "retry", "quick", "lost"}, config: Kinds \cup {None}]
      /\ sched'.at = "free" /\ sched'.config = None
  BY DEF WatchdogLost, Idle
<1>3. CASE svc.reconnectRequested
  <2>1. svc' = svc BY <1>1, <1>3 DEF onTunnelLost
  <2>2. VpnInv' BY <1>0, <1>2, <2>1 DEF VpnInv, Good, Heard
  <2>3. NativeInv' BY <1>0, <1>2, <2>1 DEF NativeInv, InFamily, CoreSessions, QueueOf
  <2>4. FrontInv'
    BY <1>0, <1>1, <1>2, <1>3, <2>1
       DEF FrontInv, LatchOwned, NeverStranded, InFamily, FrontSessions, HasSession, QueueOf
  <2> QED BY <2>2, <2>3, <2>4 DEF Inv
<1>4. CASE ~svc.reconnectRequested
  <2>1. /\ Stops(svc, svc') /\ Releases(svc, svc')
        /\ svc.currentProtocol \notin Native => ~svc'.reconnectRequested
        /\ \/ svc.currentProtocol \in Fronts => svc'.life # "up"
           \/ ~svc.userInitiatedStop /\ svc.storedConfig # None => svc'.reconnectTask
    <3>1. CASE AutoPref
      <4>1. svc' = Replace(svc) BY <1>1, <1>4, <3>1 DEF onTunnelLost
      <4> QED BY <1>0, <1>4, <4>1, ReplaceStops DEF VpnInv
    <3>2. CASE ~AutoPref
      <4>1. svc' = LeaveDown(svc) BY <1>1, <1>4, <3>2 DEF onTunnelLost
      <4> QED BY <1>0, <1>4, <4>1, LeaveDownStops DEF VpnInv
    <3> QED BY <3>1, <3>2
  <2>2. Before(svc) BY <1>0 DEF Before
  <2>3. /\ Good(svc')
        /\ prefs.transports \subseteq Native => InFamily(svc', Native) /\ CoreSessions(svc')
        /\ /\ prefs.transports \subseteq Fronts /\ svc.currentProtocol # None
           /\ svc.userInitiatedStop => svc'.life # "up"
           => InFamily(svc', Fronts) /\ FrontSessions(svc')
    BY <2>1, <2>2, BeforeStops
  <2>4. VpnInv' BY <1>0, <1>2, <2>3 DEF VpnInv, Good, Heard
  <2>5. NativeInv' BY <1>2, <2>3 DEF NativeInv, InFamily, CoreSessions, QueueOf
  <2>6. FrontInv'
    <3> SUFFICES ASSUME prefs.transports \subseteq Fronts PROVE FrontInv'
      BY DEF FrontInv
    <3>1. InFamily(svc, Fronts) /\ FrontSessions(svc)
             /\ (svc.life # "none" => svc.currentProtocol # None)
      BY <1>0 DEF FrontInv
    <3>2. CASE svc.currentProtocol = None
      <4>1. svc.life = "none" /\ svc'.life = "none"
        BY <2>1, <3>1, <3>2 DEF Stops, Keeps
      <4>2. FrontSessions(svc') BY <2>1, <3>1, <3>2, <4>1 DEF FrontSessions, HasSession, Stops, Keeps
      <4>3. InFamily(svc', Fronts) BY <2>1, <3>1, KeepsFamily DEF Stops
      <4> QED BY <1>2, <4>1, <4>2, <4>3
            DEF FrontInv, LatchOwned, NeverStranded, InFamily, FrontSessions, HasSession, QueueOf
    <3>3. CASE svc.currentProtocol # None
      <4>1. svc.currentProtocol \in Fronts /\ svc.currentProtocol \notin Native
        BY <3>1, <3>3 DEF InFamily, Fronts, Native
      <4>2. svc.userInitiatedStop => svc'.life # "up"
        BY <2>1, <3>1 DEF FrontSessions, Stops, Keeps
      <4>3. InFamily(svc', Fronts) /\ FrontSessions(svc') BY <2>3, <3>3, <4>2
      <4>4. ~svc'.reconnectRequested /\ svc'.currentProtocol # None
        BY <2>1, <3>3, <4>1 DEF Stops, Keeps
      <4>5. svc'.life = "up" => svc'.reconnectTask
        BY <2>1, <3>1, <3>3, <4>1, <4>2 DEF FrontSessions
      <4> QED BY <1>2, <4>3, <4>4, <4>5
            DEF FrontInv, LatchOwned, NeverStranded, InFamily, FrontSessions, HasSession, QueueOf
    <3> QED BY <3>2, <3>3
  <2> QED BY <2>4, <2>5, <2>6 DEF Inv
<1> QED BY <1>3, <1>4

LEMMA StepFrontFails ==
    ASSUME Inv, prefs' = prefs, FrontFails
    PROVE  Inv'
<1>0. VpnInv /\ NativeInv /\ FrontInv /\ svc \in Svc BY DEF Inv, VpnInv, Good
<1> DEFINE t == failAndStop(svc)
<1>1. /\ svc' = [t EXCEPT !.job = None] /\ sched' = sched
      /\ svc.job # None /\ svc.job.proto = "FRONT"
  BY DEF FrontFails, At
<1>2. /\ Stops(svc, t) /\ Releases(svc, t) /\ ~t.reconnectRequested /\ t \in Svc
      /\ svc.currentProtocol \in Fronts => t.killSwitchSealed \/ t.life # "up"
  BY <1>0, FailAndStopStops DEF VpnInv, Stops
<1> HIDE DEF t
<1>3. Before(svc) BY <1>0 DEF Before
<1>4. /\ Good(t)
      /\ /\ prefs.transports \subseteq Fronts /\ svc.currentProtocol # None
         /\ svc.userInitiatedStop => t.life # "up"
         => InFamily(t, Fronts) /\ FrontSessions(t)
  BY <1>2, <1>3, BeforeStops
<1>5. svc' \in Svc BY <1>1, <1>2 DEF Svc
<1>6. /\ svc'.job = None /\ svc'.quickTask = t.quickTask
      /\ svc'.queue = t.queue /\ svc'.currentProtocol = t.currentProtocol
      /\ svc'.storedConfig = t.storedConfig /\ svc'.core = t.core
      /\ svc'.tun = t.tun /\ svc'.tun2socks = t.tun2socks /\ svc'.connected = t.connected
      /\ svc'.stopRequested = t.stopRequested /\ svc'.life = t.life
      /\ svc'.reconnectTask = t.reconnectTask /\ svc'.userInitiatedStop = t.userInitiatedStop
      /\ svc'.reconnectRequested = t.reconnectRequested
      /\ svc'.killSwitchSealed = t.killSwitchSealed
  BY <1>1, <1>2 DEF Svc
<1>7. VpnInv' BY <1>0, <1>1, <1>4, <1>5, <1>6 DEF VpnInv, Good, Heard
<1>8. NativeInv' BY <1>0, <1>1 DEF NativeInv, InFamily, Native
<1>9. FrontInv'
  <2> SUFFICES ASSUME prefs.transports \subseteq Fronts PROVE FrontInv'
    BY DEF FrontInv
  <2>1. /\ InFamily(svc, Fronts) /\ FrontSessions(svc) /\ sched.config \in Fronts \cup {None}
        /\ svc.currentProtocol # None /\ svc.currentProtocol \in Fronts
    BY <1>0, <1>1 DEF FrontInv, InFamily, FrontSessions
  <2>2. svc.userInitiatedStop => t.life # "up"
    BY <1>2, <2>1 DEF FrontSessions, Stops, Keeps
  <2>3. InFamily(t, Fronts) /\ FrontSessions(t) BY <1>4, <2>1, <2>2
  <2>4. t.tun # "open" /\ ~t.connected /\ t.currentProtocol # None
    BY <1>2, <2>1 DEF Releases, Stops, Keeps
  <2>5. InFamily(svc', Fronts) BY <1>6, <2>3 DEF InFamily
  <2>6. FrontSessions(svc') BY <1>6, <2>3, <2>4 DEF FrontSessions, HasSession
  <2> QED BY <1>1, <1>2, <1>6, <2>1, <2>4, <2>5, <2>6
          DEF FrontInv, LatchOwned, NeverStranded, InFamily, FrontSessions, HasSession, QueueOf
<1> QED BY <1>7, <1>8, <1>9 DEF Inv

-----------------------------------------------------------------------------
(* ladderScheduler and the world *)

LEMMA StepNetworkAvailable ==
    ASSUME Inv, prefs' = prefs, NetworkAvailable
    PROVE  Inv'
<1>0. VpnInv /\ NativeInv /\ FrontInv /\ svc \in Svc BY DEF Inv, VpnInv, Good
<1>1. svc' = [svc EXCEPT !.reconnectTask = TRUE] /\ sched' = sched /\ svc.storedConfig # None
  BY DEF NetworkAvailable, willAutoReconnect
<1>2. svc' \in Svc BY <1>0, <1>1 DEF Svc
<1>3. /\ svc'.job = svc.job /\ svc'.queue = svc.queue
      /\ svc'.currentProtocol = svc.currentProtocol
      /\ svc'.storedConfig = svc.storedConfig /\ svc'.quickTask = svc.quickTask
      /\ svc'.core = svc.core /\ svc'.tun = svc.tun
      /\ svc'.tun2socks = svc.tun2socks /\ svc'.connected = svc.connected
      /\ svc'.stopRequested = svc.stopRequested /\ svc'.proxyMode = svc.proxyMode
      /\ svc'.attached = svc.attached /\ svc'.life = svc.life
      /\ svc'.status = svc.status
      /\ svc'.reconnectRequested = svc.reconnectRequested
      /\ svc'.userInitiatedStop = svc.userInitiatedStop
      /\ svc'.killSwitchSealed = svc.killSwitchSealed
      /\ svc'.reconnectTask
  BY <1>0, <1>1 DEF Svc
<1>4. VpnInv' BY <1>0, <1>1, <1>2, <1>3 DEF VpnInv, Good, Heard
<1>5. NativeInv' BY <1>0, <1>1, <1>3 DEF NativeInv, InFamily, CoreSessions, QueueOf
<1>6. FrontInv'
  BY <1>0, <1>1, <1>3
     DEF FrontInv, LatchOwned, NeverStranded, InFamily, FrontSessions, HasSession, QueueOf
<1> QED BY <1>4, <1>5, <1>6 DEF Inv

LEMMA StepWatchdogTest ==
    ASSUME Inv, prefs' = prefs, WatchdogTest
    PROVE  Inv'
<1>0. VpnInv /\ NativeInv /\ FrontInv /\ svc \in Svc BY DEF Inv, VpnInv, Good
<1>1. svc' = svc /\ sched' = Busy("lost", None) /\ sched.at = "free" BY DEF WatchdogTest
<1>2. /\ sched' \in [at: {"free", "retry", "quick", "lost"}, config: Kinds \cup {None}]
      /\ sched'.at = "lost" /\ sched'.config = None
  BY <1>1 DEF Busy
<1>4. VpnInv' BY <1>0, <1>1, <1>2 DEF VpnInv, Good, Heard
<1>5. NativeInv' BY <1>0, <1>1, <1>2 DEF NativeInv, InFamily, CoreSessions, QueueOf
<1>6. FrontInv'
  BY <1>0, <1>1, <1>2
     DEF FrontInv, LatchOwned, NeverStranded, InFamily, FrontSessions, HasSession, QueueOf
<1> QED BY <1>4, <1>5, <1>6 DEF Inv

LEMMA StepRetryTest ==
    ASSUME Inv, prefs' = prefs, RetryTest
    PROVE  Inv'
<1>0. VpnInv /\ NativeInv /\ FrontInv /\ svc \in Svc BY DEF Inv, VpnInv, Good
<1>1. /\ svc' = [svc EXCEPT !.reconnectTask = FALSE] /\ sched.at = "free"
      /\ svc.storedConfig # None
      /\ svc.storedConfig \in Kinds
  BY <1>0, SvcFields DEF RetryTest, VpnInv, Good
<1>2. /\ sched' \in [at: {"free", "retry", "quick", "lost"}, config: Kinds \cup {None}]
      /\ \/ sched'.at = "free" /\ sched'.config = None /\ (svc.userInitiatedStop \/ svc.connected)
         \/ sched'.at = "retry" /\ sched'.config = svc.storedConfig
  BY <1>1 DEF RetryTest, Idle, Busy
<1>3. svc' \in Svc BY <1>0, <1>1 DEF Svc
<1>4. /\ svc'.job = svc.job /\ svc'.queue = svc.queue
      /\ svc'.currentProtocol = svc.currentProtocol
      /\ svc'.storedConfig = svc.storedConfig /\ svc'.quickTask = svc.quickTask
      /\ svc'.core = svc.core /\ svc'.tun = svc.tun
      /\ svc'.tun2socks = svc.tun2socks /\ svc'.connected = svc.connected
      /\ svc'.stopRequested = svc.stopRequested /\ svc'.proxyMode = svc.proxyMode
      /\ svc'.attached = svc.attached /\ svc'.life = svc.life
      /\ svc'.status = svc.status
      /\ svc'.reconnectRequested = svc.reconnectRequested
      /\ svc'.userInitiatedStop = svc.userInitiatedStop
      /\ svc'.killSwitchSealed = svc.killSwitchSealed
      /\ ~svc'.reconnectTask
  BY <1>0, <1>1 DEF Svc
<1>5. VpnInv' BY <1>0, <1>1, <1>2, <1>3, <1>4 DEF VpnInv, Good, Heard
<1>6. NativeInv' BY <1>0, <1>2, <1>4 DEF NativeInv, InFamily, CoreSessions, QueueOf
<1>7. FrontInv'
  BY <1>0, <1>1, <1>2, <1>4
     DEF FrontInv, LatchOwned, NeverStranded, InFamily, FrontSessions, HasSession, QueueOf
<1> QED BY <1>5, <1>6, <1>7 DEF Inv

LEMMA StepQuickBegin ==
    ASSUME Inv, prefs' = prefs, QuickBegin
    PROVE  Inv'
<1>0. VpnInv /\ NativeInv /\ FrontInv /\ svc \in Svc BY DEF Inv, VpnInv, Good
<1>1. /\ svc' = [svc EXCEPT !.quickTask = None] /\ sched.at = "free"
      /\ svc.quickTask # None
      /\ svc.quickTask \in Kinds
  BY <1>0, SvcFields DEF QuickBegin
<1>2. /\ sched' \in [at: {"free", "retry", "quick", "lost"}, config: Kinds \cup {None}]
      /\ sched'.at = "quick" /\ sched'.config = svc.quickTask
  BY <1>1 DEF QuickBegin, Busy
<1>3. svc' \in Svc BY <1>0, <1>1 DEF Svc
<1>4. /\ svc'.job = svc.job /\ svc'.queue = svc.queue
      /\ svc'.currentProtocol = svc.currentProtocol
      /\ svc'.storedConfig = svc.storedConfig /\ svc'.core = svc.core
      /\ svc'.tun = svc.tun /\ svc'.tun2socks = svc.tun2socks
      /\ svc'.connected = svc.connected /\ svc'.stopRequested = svc.stopRequested
      /\ svc'.proxyMode = svc.proxyMode /\ svc'.attached = svc.attached
      /\ svc'.life = svc.life /\ svc'.status = svc.status
      /\ svc'.reconnectTask = svc.reconnectTask
      /\ svc'.reconnectRequested = svc.reconnectRequested
      /\ svc'.userInitiatedStop = svc.userInitiatedStop
      /\ svc'.killSwitchSealed = svc.killSwitchSealed
      /\ svc'.quickTask = None
  BY <1>0, <1>1 DEF Svc
<1>5. VpnInv' BY <1>0, <1>1, <1>2, <1>3, <1>4 DEF VpnInv, Good, Heard
<1>6. NativeInv' BY <1>0, <1>2, <1>4 DEF NativeInv, InFamily, CoreSessions, QueueOf
<1>7. FrontInv'
  BY <1>0, <1>1, <1>2, <1>4
     DEF FrontInv, LatchOwned, NeverStranded, InFamily, FrontSessions, HasSession, QueueOf
<1> QED BY <1>5, <1>6, <1>7 DEF Inv

(* The quick reconnect gives up, because the old session does not end or   *)
(* because the user stopped it.                                            *)
LEMMA StepQuickGivesUp ==
    ASSUME Inv, prefs' = prefs, QuickTimeout \/ QuickAbandon
    PROVE  Inv'
<1>0. VpnInv /\ NativeInv /\ FrontInv /\ svc \in Svc BY DEF Inv, VpnInv, Good
<1> DEFINE s == [svc EXCEPT !.reconnectRequested = FALSE]
<1>1. /\ svc' = sendStatus(s, "FAILED") \/ svc' = s
      /\ svc.core \/ svc.connected \/ svc.userInitiatedStop
      /\ sched.at = "quick"
  BY DEF QuickTimeout, QuickAbandon, StillShuttingDown
<1>2. /\ sched' \in [at: {"free", "retry", "quick", "lost"}, config: Kinds \cup {None}]
      /\ sched'.at = "free" /\ sched'.config = None
  BY DEF QuickTimeout, QuickAbandon, Idle
<1>3. s \in Svc BY <1>0 DEF Svc
<1>4. svc' \in Svc BY <1>1, <1>3, SendStatusType DEF Statuses
<1>5. /\ svc'.job = svc.job /\ svc'.queue = svc.queue
      /\ svc'.currentProtocol = svc.currentProtocol
      /\ svc'.storedConfig = svc.storedConfig /\ svc'.quickTask = svc.quickTask
      /\ svc'.core = svc.core /\ svc'.tun = svc.tun
      /\ svc'.tun2socks = svc.tun2socks /\ svc'.connected = svc.connected
      /\ svc'.stopRequested = svc.stopRequested /\ svc'.proxyMode = svc.proxyMode
      /\ svc'.attached = svc.attached /\ svc'.life = svc.life
      /\ svc'.reconnectTask = svc.reconnectTask
      /\ svc'.userInitiatedStop = svc.userInitiatedStop
      /\ svc'.killSwitchSealed = svc.killSwitchSealed
      /\ ~svc'.reconnectRequested
      /\ svc'.status = "CONNECTED" => svc.status = "CONNECTED"
  <2>1. /\ s.job = svc.job /\ s.queue = svc.queue
        /\ s.currentProtocol = svc.currentProtocol
        /\ s.storedConfig = svc.storedConfig /\ s.quickTask = svc.quickTask
        /\ s.core = svc.core /\ s.tun = svc.tun
        /\ s.tun2socks = svc.tun2socks /\ s.connected = svc.connected
        /\ s.stopRequested = svc.stopRequested /\ s.proxyMode = svc.proxyMode
        /\ s.attached = svc.attached /\ s.life = svc.life
        /\ s.reconnectTask = svc.reconnectTask
        /\ s.userInitiatedStop = svc.userInitiatedStop
        /\ s.killSwitchSealed = svc.killSwitchSealed
        /\ ~s.reconnectRequested
        /\ s.status = "CONNECTED" => svc.status = "CONNECTED"
    BY <1>0 DEF Svc
  <2>2. CASE svc' = sendStatus(s, "FAILED")
    <3> HIDE DEF s
    <3>1. Quiet(s, svc') /\ svc'.life = s.life /\ svc'.tun = s.tun
              /\ svc'.killSwitchSealed = s.killSwitchSealed
              /\ svc'.reconnectTask = s.reconnectTask
      BY <1>3, <2>2, QuietStatus DEF Statuses
    <3> QED BY <2>1, <3>1 DEF Quiet, Keeps
  <2>3. CASE svc' = s
    <3> HIDE DEF s
    <3> QED BY <2>1, <2>3
  <2> QED BY <1>1, <2>2, <2>3
<1>6. VpnInv' BY <1>0, <1>1, <1>2, <1>4, <1>5 DEF VpnInv, Good, Heard
<1>7. NativeInv' BY <1>0, <1>2, <1>5 DEF NativeInv, InFamily, CoreSessions, QueueOf
<1>8. FrontInv'
  BY <1>0, <1>1, <1>2, <1>5
     DEF FrontInv, LatchOwned, NeverStranded, InFamily, FrontSessions, HasSession, QueueOf
<1> QED BY <1>6, <1>7, <1>8 DEF Inv

LEMMA StepTakeJob ==
    ASSUME Inv, prefs' = prefs, TakeJob
    PROVE  Inv'
<1>0. VpnInv /\ NativeInv /\ FrontInv /\ svc \in Svc BY DEF Inv, VpnInv, Good
<1> DEFINE next == Head(svc.queue)
           mode == IF next.proto \notin Native THEN next.proto
                   ELSE IF svc.proxyMode THEN "SOCKS" ELSE "NATIVE"
           j == [next EXCEPT !.proto = mode]
           a == IF next.proto \in Native THEN "yes" ELSE svc.attached
           q == Tail(svc.queue)
<1>1. svc' = [svc EXCEPT !.job = j, !.queue = q, !.attached = a]
  BY <1>0 DEF TakeJob, Svc
<1>2. sched' = sched /\ svc.job = None /\ svc.queue # << >> BY DEF TakeJob
<1>3. svc.queue \in Seq(Job) BY <1>0, SvcFields
<1>4. next \in Job /\ q \in Seq(Job) BY <1>2, <1>3
<1>5. mode \in Kinds /\ (mode \in Native <=> next.proto \in Native)
         /\ (mode \notin Native => mode = next.proto)
         /\ (svc.proxyMode /\ mode \in Native => mode = "SOCKS")
  BY <1>4 DEF Job, Native, Kinds
<1>6. a \in {"no", "yes", "cut"} /\ (mode \in Native => a = "yes") BY <1>0, <1>5, SvcFields
<1> HIDE DEF mode
<1>7. j \in Job /\ j.proto = mode /\ j.pc = next.pc /\ j # None
  <2>1. j \in Job /\ j.proto = mode /\ j.pc = next.pc BY <1>4, <1>5 DEF Job
  <2> QED BY <2>1, NoneAssumption
<1>8. ASSUME NEW protos, QueueOf(svc.queue, protos)
      PROVE  QueueOf(q, protos) /\ next.proto \in protos /\ next.pc \in Beginning
  BY <1>2, <1>3, <1>8 DEF QueueOf
<1> HIDE DEF j, a, q, next
<1>9. svc' \in Svc
  <2> DEFINE u == [svc EXCEPT !.job = j, !.queue = q]
  <2>1. svc' = [u EXCEPT !.attached = a] BY <1>1
  <2>2. j \in Job \cup {None} BY <1>7
  <2>3. u \in Svc BY <1>0, <1>4, <2>2, Zenon DEF Svc
  <2> HIDE DEF u
  <2> QED BY <1>6, <2>1, <2>3 DEF Svc
<1>10. /\ svc'.currentProtocol = svc.currentProtocol
       /\ svc'.storedConfig = svc.storedConfig /\ svc'.quickTask = svc.quickTask
       /\ svc'.core = svc.core /\ svc'.tun = svc.tun
       /\ svc'.tun2socks = svc.tun2socks /\ svc'.connected = svc.connected
       /\ svc'.stopRequested = svc.stopRequested /\ svc'.proxyMode = svc.proxyMode
       /\ svc'.life = svc.life /\ svc'.status = svc.status
       /\ svc'.reconnectTask = svc.reconnectTask
       /\ svc'.reconnectRequested = svc.reconnectRequested
       /\ svc'.userInitiatedStop = svc.userInitiatedStop
       /\ svc'.killSwitchSealed = svc.killSwitchSealed
       /\ svc'.job = j /\ svc'.queue = q /\ svc'.attached = a
  BY <1>0, <1>1 DEF Svc
<1>11. VpnInv' BY <1>0, <1>2, <1>6, <1>7, <1>9, <1>10 DEF VpnInv, Good, Heard
<1>12. NativeInv'
  <2> SUFFICES ASSUME prefs.transports \subseteq Native PROVE NativeInv'
    BY DEF NativeInv
  <2>1. InFamily(svc, Native) /\ CoreSessions(svc) /\ sched.config \in Native \cup {None}
    BY <1>0 DEF NativeInv
  <2>2. QueueOf(q, Native) /\ mode \in Native /\ next.pc \in Beginning BY <1>5, <1>8, <2>1 DEF InFamily
  <2>3. InFamily(svc', Native) BY <1>7, <1>10, <2>1, <2>2 DEF InFamily
  <2>4. mode = "SOCKS" \/ svc.stopRequested \/ svc.currentProtocol # "SOCKS"
    BY <1>5, <2>1, <2>2 DEF CoreSessions
  <2>5. /\ j.pc \notin {"enter", "core"}
        /\ j.pc # "ladder"
    BY <1>7, <2>2 DEF Beginning
  <2>6. CoreSessions(svc') BY <1>2, <1>7, <1>10, <2>1, <2>4, <2>5 DEF CoreSessions
  <2> QED BY <1>2, <2>1, <2>3, <2>6 DEF NativeInv, InFamily, CoreSessions, QueueOf
<1>13. FrontInv'
  <2> SUFFICES ASSUME prefs.transports \subseteq Fronts PROVE FrontInv'
    BY DEF FrontInv
  <2>1. /\ InFamily(svc, Fronts) /\ FrontSessions(svc) /\ sched.config \in Fronts \cup {None}
        /\ svc.life # "none" => svc.currentProtocol # None
    BY <1>0 DEF FrontInv
  <2>2. QueueOf(q, Fronts) /\ mode \in Fronts
    BY <1>5, <1>8, <2>1 DEF InFamily, Fronts, Native
  <2>3. InFamily(svc', Fronts) BY <1>7, <1>10, <2>1, <2>2 DEF InFamily
  <2>4. FrontSessions(svc') BY <1>2, <1>7, <1>10, <2>1 DEF FrontSessions, HasSession
  <2> QED BY <1>2, <1>7, <1>10, <2>1, <2>3, <2>4
          DEF FrontInv, LatchOwned, NeverStranded, InFamily, FrontSessions, HasSession, QueueOf
<1> QED BY <1>11, <1>12, <1>13 DEF Inv

-----------------------------------------------------------------------------
(* The worker, on a core session *)

LEMMA JobMoves ==
    ASSUME NEW job \in Job, NEW pc \in JobPC
    PROVE  LET j == [job EXCEPT !.pc = pc] IN
           j \in Job /\ j # None /\ j.pc = pc /\ j.proto = job.proto /\ j.cur = job.cur
<1> DEFINE j == [job EXCEPT !.pc = pc]
<1>1. j \in Job /\ j.pc = pc /\ j.proto = job.proto /\ j.cur = job.cur BY DEF Job
<1> QED BY <1>1, NoneAssumption

(* A step on a core session's job concerns no other kind of session, and   *)
(* leaves the queue, the tasks and the configurations alone.               *)
CoreStep ==
    /\ svc.job # None /\ svc.job.proto \in Native
    /\ svc'.job # None => svc'.job.proto = svc.job.proto
    /\ svc'.queue = svc.queue /\ svc'.currentProtocol = svc.currentProtocol
    /\ svc'.storedConfig = svc.storedConfig /\ svc'.quickTask = svc.quickTask
    /\ sched' = sched

LEMMA StepCore ==
    ASSUME Inv, prefs' = prefs, CoreStep, Good(svc'), CoreSessions(svc) => CoreSessions(svc')
    PROVE  Inv'
<1>0. VpnInv /\ NativeInv /\ FrontInv /\ svc \in Svc BY DEF Inv, VpnInv, Good
<1>1. VpnInv' BY <1>0 DEF VpnInv, Good, Heard, CoreStep
<1>2. NativeInv'
  <2> SUFFICES ASSUME prefs.transports \subseteq Native PROVE NativeInv'
    BY DEF NativeInv
  <2>1. InFamily(svc, Native) /\ CoreSessions(svc) /\ sched.config \in Native \cup {None}
    BY <1>0 DEF NativeInv
  <2>2. InFamily(svc', Native) BY <2>1 DEF InFamily, CoreStep
  <2> QED BY <2>1, <2>2 DEF NativeInv, InFamily, CoreSessions, CoreStep, QueueOf
<1>3. FrontInv' BY <1>0 DEF FrontInv, InFamily, CoreStep, Fronts, Native
<1> QED BY <1>1, <1>2, <1>3 DEF Inv

LEMMA StepPrepared ==
    ASSUME Inv, prefs' = prefs, Prepared
    PROVE  Inv'
<1>0. VpnInv /\ NativeInv /\ FrontInv /\ svc \in Svc BY DEF Inv, VpnInv, Good
<1>1. /\ svc.job # None /\ svc.job.pc = "prepare" /\ svc.job.proto \in Native
      /\ svc.job \in Job /\ sched' = sched
  BY <1>0, SvcFields DEF Prepared, At
<1>2. CASE svc.job.proto = "SOCKS"
  <2> DEFINE s == sendStatus(svc, "CONNECTING")
             j == [svc.job EXCEPT !.pc = "enter"]
  <2>1. s \in Svc BY <1>0, SendStatusType DEF Statuses
  <2>2. j \in Job /\ j # None /\ j.pc = "enter" /\ j.proto = svc.job.proto /\ j.cur = svc.job.cur
    BY <1>1, JobMoves DEF JobPC
  <2>3. svc' = [s EXCEPT !.watchdogTask = TRUE, !.job = j]
    BY <1>0, <1>2 DEF Prepared, Svc, sendStatus
  <2> HIDE DEF j
  <2>4. /\ svc'.queue = svc.queue /\ svc'.currentProtocol = svc.currentProtocol
        /\ svc'.storedConfig = svc.storedConfig /\ svc'.quickTask = svc.quickTask
        /\ svc'.core = svc.core /\ svc'.tun = svc.tun
        /\ svc'.tun2socks = svc.tun2socks /\ svc'.connected = svc.connected
        /\ svc'.stopRequested = svc.stopRequested /\ svc'.proxyMode = svc.proxyMode
        /\ svc'.attached = svc.attached /\ svc'.life = svc.life
        /\ svc'.reconnectTask = svc.reconnectTask
        /\ svc'.userInitiatedStop = svc.userInitiatedStop
        /\ svc'.killSwitchSealed = svc.killSwitchSealed
        /\ svc'.job = j /\ svc'.status = "CONNECTING"
    BY <1>0, <2>3 DEF Svc, sendStatus
  <2> HIDE DEF s
  <2>5. svc' \in Svc
    <3>1. j \in Job \cup {None} BY <2>2
    <3> QED BY <2>1, <2>3, <3>1, Zenon DEF Svc
  <2>6. Good(svc') BY <1>0, <1>1, <2>2, <2>4, <2>5 DEF VpnInv, Good, Heard, Ahead
  <2>7. CoreSessions(svc) => CoreSessions(svc') BY <1>1, <1>2, <2>2, <2>4 DEF CoreSessions, Ahead
  <2>8. CoreStep BY <1>1, <2>2, <2>4 DEF CoreStep
  <2> QED BY <2>6, <2>7, <2>8, StepCore
<1>3. CASE svc.job.proto # "SOCKS"
  <2> DEFINE j == [svc.job EXCEPT !.pc = "establish"]
  <2>2. j \in Job /\ j # None /\ j.pc = "establish" /\ j.proto = svc.job.proto /\ j.cur = svc.job.cur
    BY <1>1, JobMoves DEF JobPC
  <2>3. svc' = [svc EXCEPT !.job = j]
    BY <1>0, <1>3 DEF Prepared, Svc
  <2> HIDE DEF j
  <2>4. /\ svc'.queue = svc.queue /\ svc'.currentProtocol = svc.currentProtocol
        /\ svc'.storedConfig = svc.storedConfig /\ svc'.quickTask = svc.quickTask
        /\ svc'.core = svc.core /\ svc'.tun = svc.tun
        /\ svc'.tun2socks = svc.tun2socks /\ svc'.connected = svc.connected
        /\ svc'.stopRequested = svc.stopRequested /\ svc'.proxyMode = svc.proxyMode
        /\ svc'.attached = svc.attached /\ svc'.life = svc.life
        /\ svc'.status = svc.status /\ svc'.reconnectTask = svc.reconnectTask
        /\ svc'.reconnectRequested = svc.reconnectRequested
        /\ svc'.userInitiatedStop = svc.userInitiatedStop
        /\ svc'.killSwitchSealed = svc.killSwitchSealed
        /\ svc'.job = j
    BY <1>0, <2>3 DEF Svc
  <2>5. svc' \in Svc BY <1>0, <2>2, <2>3 DEF Svc
  <2>6. Good(svc') BY <1>0, <1>1, <2>2, <2>4, <2>5 DEF VpnInv, Good, Heard, Ahead
  <2>7. CoreSessions(svc) => CoreSessions(svc') BY <1>1, <1>3, <2>2, <2>4 DEF CoreSessions, Ahead
  <2>8. CoreStep BY <1>1, <2>2, <2>4 DEF CoreStep
  <2> QED BY <2>6, <2>7, <2>8, StepCore
<1> QED BY <1>2, <1>3

LEMMA StepEstablish ==
    ASSUME Inv, prefs' = prefs, Establish
    PROVE  Inv'
<1>0. VpnInv /\ NativeInv /\ FrontInv /\ svc \in Svc BY DEF Inv, VpnInv, Good
<1>1. /\ svc.job # None /\ svc.job.pc = "establish" /\ svc.job.proto = "NATIVE"
      /\ svc.job \in Job /\ sched' = sched
  BY <1>0, SvcFields DEF Establish, At
<1> DEFINE j == [svc.job EXCEPT !.pc = "enter"]
<1>2. j \in Job /\ j # None /\ j.pc = "enter" /\ j.proto = svc.job.proto /\ j.cur = svc.job.cur
  BY <1>1, JobMoves DEF JobPC
<1>3. svc' = [svc EXCEPT !.tun = "open", !.watchdogTask = TRUE, !.job = j]
  BY <1>0 DEF Establish, Svc
<1> HIDE DEF j
<1>4. /\ svc'.queue = svc.queue /\ svc'.currentProtocol = svc.currentProtocol
      /\ svc'.storedConfig = svc.storedConfig /\ svc'.quickTask = svc.quickTask
      /\ svc'.core = svc.core /\ svc'.tun2socks = svc.tun2socks
      /\ svc'.connected = svc.connected /\ svc'.stopRequested = svc.stopRequested
      /\ svc'.proxyMode = svc.proxyMode /\ svc'.attached = svc.attached
      /\ svc'.life = svc.life /\ svc'.status = svc.status
      /\ svc'.reconnectTask = svc.reconnectTask
      /\ svc'.reconnectRequested = svc.reconnectRequested
      /\ svc'.userInitiatedStop = svc.userInitiatedStop
      /\ svc'.killSwitchSealed = svc.killSwitchSealed
      /\ svc'.job = j /\ svc'.tun = "open"
  BY <1>0, <1>3 DEF Svc
<1>5. svc' \in Svc
  <2>1. j \in Job \cup {None} BY <1>2
  <2> QED BY <1>0, <1>3, <2>1, Zenon DEF Svc
<1>6. Good(svc') BY <1>0, <1>1, <1>2, <1>4, <1>5 DEF VpnInv, Good, Heard, Ahead, Native
<1>7. CoreSessions(svc) => CoreSessions(svc') BY <1>1, <1>2, <1>4 DEF CoreSessions, Ahead
<1>8. CoreStep BY <1>1, <1>2, <1>4 DEF CoreStep, Native
<1> QED BY <1>6, <1>7, <1>8, StepCore

LEMMA StepSetupFails ==
    ASSUME Inv, prefs' = prefs, SetupFails
    PROVE  Inv'
<1>0. VpnInv /\ NativeInv /\ FrontInv /\ svc \in Svc BY DEF Inv, VpnInv, Good
<1>1. /\ svc.job # None /\ svc.job.pc \in Beginning /\ svc.job.proto \in Native
      /\ svc.job \in Job /\ sched' = sched
  BY <1>0, SvcFields DEF SetupFails, At, Beginning, Native
<1> DEFINE s == sendStatus(svc, "FAILED")
           j == [svc.job EXCEPT !.pc = "finally"]
<1>2. s \in Svc BY <1>0, SendStatusType DEF Statuses
<1>3. j \in Job /\ j # None /\ j.pc = "finally" /\ j.proto = svc.job.proto
  BY <1>1, JobMoves DEF JobPC
<1>4. svc' = [s EXCEPT !.nativeExitWasUnexpected = FALSE, !.job = j]
  BY <1>0 DEF SetupFails, Svc, sendStatus
<1> HIDE DEF j
<1>5. /\ svc'.queue = svc.queue /\ svc'.currentProtocol = svc.currentProtocol
      /\ svc'.storedConfig = svc.storedConfig /\ svc'.quickTask = svc.quickTask
      /\ svc'.core = svc.core /\ svc'.tun = svc.tun
      /\ svc'.tun2socks = svc.tun2socks /\ svc'.connected = svc.connected
      /\ svc'.stopRequested = svc.stopRequested /\ svc'.proxyMode = svc.proxyMode
      /\ svc'.attached = svc.attached /\ svc'.life = svc.life
      /\ svc'.reconnectTask = svc.reconnectTask
      /\ svc'.userInitiatedStop = svc.userInitiatedStop
      /\ svc'.killSwitchSealed = svc.killSwitchSealed
      /\ svc'.job = j
  BY <1>0, <1>4 DEF Svc, sendStatus
<1> HIDE DEF s
<1>6. svc' \in Svc
  <2>1. j \in Job \cup {None} BY <1>3
  <2> QED BY <1>2, <1>4, <2>1, Zenon DEF Svc
<1>7. Good(svc') BY <1>0, <1>3, <1>5, <1>6 DEF VpnInv, Good, Heard, Ahead
<1>8. CoreSessions(svc) => CoreSessions(svc') BY <1>1, <1>3, <1>5 DEF CoreSessions, Ahead, Beginning
<1>9. CoreStep BY <1>1, <1>3, <1>5 DEF CoreStep
<1> QED BY <1>7, <1>8, <1>9, StepCore

LEMMA StepEnterCore ==
    ASSUME Inv, prefs' = prefs, EnterCore
    PROVE  Inv'
<1>0. VpnInv /\ NativeInv /\ FrontInv /\ svc \in Svc BY DEF Inv, VpnInv, Good
<1>1. /\ svc.job # None /\ svc.job.pc = "enter" /\ svc.job.proto \in Native
      /\ svc.job \in Job /\ sched' = sched
  BY <1>0, SvcFields DEF EnterCore, At
<1>2. CASE svc.core
  <2> DEFINE j == [svc.job EXCEPT !.pc = "result"]
  <2>1. j \in Job /\ j # None /\ j.pc = "result" /\ j.proto = svc.job.proto
    BY <1>1, JobMoves DEF JobPC
  <2>2. svc' = [svc EXCEPT !.job = j] BY <1>0, <1>2 DEF EnterCore, Svc
  <2> HIDE DEF j
  <2>3. /\ svc'.queue = svc.queue /\ svc'.currentProtocol = svc.currentProtocol
        /\ svc'.storedConfig = svc.storedConfig /\ svc'.quickTask = svc.quickTask
        /\ svc'.core = svc.core /\ svc'.tun = svc.tun
        /\ svc'.tun2socks = svc.tun2socks /\ svc'.connected = svc.connected
        /\ svc'.stopRequested = svc.stopRequested /\ svc'.proxyMode = svc.proxyMode
        /\ svc'.attached = svc.attached /\ svc'.life = svc.life
        /\ svc'.status = svc.status /\ svc'.reconnectTask = svc.reconnectTask
        /\ svc'.reconnectRequested = svc.reconnectRequested
        /\ svc'.userInitiatedStop = svc.userInitiatedStop
        /\ svc'.killSwitchSealed = svc.killSwitchSealed
        /\ svc'.job = j
    BY <1>0, <2>2 DEF Svc
  <2>4. svc' \in Svc BY <1>0, <2>1, <2>2 DEF Svc
  <2>5. Good(svc') BY <1>0, <2>1, <2>3, <2>4 DEF VpnInv, Good, Heard, Ahead
  <2>6. CoreSessions(svc) => CoreSessions(svc') BY <1>1, <1>2, <2>1, <2>3 DEF CoreSessions, Ahead
  <2>7. CoreStep BY <1>1, <2>1, <2>3 DEF CoreStep
  <2> QED BY <2>5, <2>6, <2>7, StepCore
<1>3. CASE ~svc.core
  <2> DEFINE j == [svc.job EXCEPT !.pc = "core"]
  <2>1. j \in Job /\ j # None /\ j.pc = "core" /\ j.proto = svc.job.proto /\ j.cur = svc.job.cur
    BY <1>1, JobMoves DEF JobPC
  <2>2. svc' = [svc EXCEPT !.core = TRUE, !.coreStop = FALSE, !.job = j]
    BY <1>0, <1>3 DEF EnterCore, Svc
  <2> HIDE DEF j
  <2>3. /\ svc'.queue = svc.queue /\ svc'.currentProtocol = svc.currentProtocol
        /\ svc'.storedConfig = svc.storedConfig /\ svc'.quickTask = svc.quickTask
        /\ svc'.tun = svc.tun /\ svc'.tun2socks = svc.tun2socks
        /\ svc'.connected = svc.connected /\ svc'.stopRequested = svc.stopRequested
        /\ svc'.proxyMode = svc.proxyMode /\ svc'.attached = svc.attached
        /\ svc'.life = svc.life /\ svc'.status = svc.status
        /\ svc'.reconnectTask = svc.reconnectTask
        /\ svc'.reconnectRequested = svc.reconnectRequested
        /\ svc'.userInitiatedStop = svc.userInitiatedStop
        /\ svc'.killSwitchSealed = svc.killSwitchSealed
        /\ svc'.job = j /\ svc'.core
    BY <1>0, <2>2 DEF Svc
  <2>4. svc' \in Svc
    <3>1. j \in Job \cup {None} BY <2>1
    <3> QED BY <1>0, <2>2, <3>1, Zenon DEF Svc
  <2>5. Good(svc') BY <1>0, <1>1, <2>1, <2>3, <2>4 DEF VpnInv, Good, Heard, Ahead
  <2>6. CoreSessions(svc) => CoreSessions(svc') BY <1>1, <2>1, <2>3 DEF CoreSessions, Ahead
  <2>7. CoreStep BY <1>1, <2>1, <2>3 DEF CoreStep
  <2> QED BY <2>5, <2>6, <2>7, StepCore
<1> QED BY <1>2, <1>3

LEMMA StepCoreConnected ==
    ASSUME Inv, prefs' = prefs, CoreConnected
    PROVE  Inv'
<1>0. VpnInv /\ NativeInv /\ FrontInv /\ svc \in Svc BY DEF Inv, VpnInv, Good
<1>1. /\ svc.job # None /\ svc.job.pc = "core" /\ svc.job.proto \in Native /\ sched' = sched
  BY DEF CoreConnected, At
<1> DEFINE s == sendStatus(svc, "CONNECTED")
           c == svc.connected \/ svc.proxyMode
<1>2. s \in Svc BY <1>0, SendStatusType DEF Statuses
<1>3. c \in BOOLEAN OBVIOUS
<1>4. svc' = [s EXCEPT !.connected = c, !.carried = TRUE]
  BY <1>0 DEF CoreConnected, Svc, sendStatus
<1> HIDE DEF c
<1>5. /\ svc'.job = svc.job /\ svc'.queue = svc.queue
      /\ svc'.currentProtocol = svc.currentProtocol
      /\ svc'.storedConfig = svc.storedConfig /\ svc'.quickTask = svc.quickTask
      /\ svc'.core = svc.core /\ svc'.tun = svc.tun
      /\ svc'.tun2socks = svc.tun2socks /\ svc'.stopRequested = svc.stopRequested
      /\ svc'.proxyMode = svc.proxyMode /\ svc'.attached = svc.attached
      /\ svc'.life = svc.life /\ svc'.reconnectTask = svc.reconnectTask
      /\ svc'.userInitiatedStop = svc.userInitiatedStop
      /\ svc'.killSwitchSealed = svc.killSwitchSealed
      /\ svc'.connected = c
  BY <1>0, <1>4 DEF Svc, sendStatus
<1> HIDE DEF s
<1>6. svc' \in Svc
  <2> DEFINE u == [s EXCEPT !.connected = c]
  <2>1. u \in Svc BY <1>2, <1>3 DEF Svc
  <2>2. svc' = [u EXCEPT !.carried = TRUE] BY <1>4
  <2> HIDE DEF u
  <2> QED BY <2>1, <2>2 DEF Svc
<1>7. Good(svc') BY <1>0, <1>5, <1>6 DEF VpnInv, Good, Heard
<1>8. CoreSessions(svc) => CoreSessions(svc') BY <1>1, <1>5 DEF CoreSessions, c
<1>9. CoreStep BY <1>1, <1>5 DEF CoreStep
<1> QED BY <1>7, <1>8, <1>9, StepCore

LEMMA StepCoreReturns ==
    ASSUME Inv, prefs' = prefs, CoreReturns
    PROVE  Inv'
<1>0. VpnInv /\ NativeInv /\ FrontInv /\ svc \in Svc BY DEF Inv, VpnInv, Good
<1>1. /\ svc.job # None /\ svc.job.pc = "core" /\ svc.job.proto \in Native
      /\ svc.job \in Job /\ sched' = sched
  BY <1>0, SvcFields DEF CoreReturns, At
<1> DEFINE j == [svc.job EXCEPT !.pc = "result"]
<1>2. j \in Job /\ j # None /\ j.pc = "result" /\ j.proto = svc.job.proto
  BY <1>1, JobMoves DEF JobPC
<1>3. svc' = [svc EXCEPT !.core = FALSE, !.coreStop = FALSE, !.job = j]
  BY <1>0 DEF CoreReturns, Svc
<1> HIDE DEF j
<1>4. /\ svc'.queue = svc.queue /\ svc'.currentProtocol = svc.currentProtocol
      /\ svc'.storedConfig = svc.storedConfig /\ svc'.quickTask = svc.quickTask
      /\ svc'.tun = svc.tun /\ svc'.tun2socks = svc.tun2socks
      /\ svc'.connected = svc.connected /\ svc'.stopRequested = svc.stopRequested
      /\ svc'.proxyMode = svc.proxyMode /\ svc'.attached = svc.attached
      /\ svc'.life = svc.life /\ svc'.status = svc.status
      /\ svc'.reconnectTask = svc.reconnectTask
      /\ svc'.reconnectRequested = svc.reconnectRequested
      /\ svc'.userInitiatedStop = svc.userInitiatedStop
      /\ svc'.killSwitchSealed = svc.killSwitchSealed
      /\ svc'.job = j /\ ~svc'.core
  BY <1>0, <1>3 DEF Svc
<1>5. svc' \in Svc
  <2>1. j \in Job \cup {None} BY <1>2
  <2> QED BY <1>0, <1>3, <2>1, ZenonT(60) DEF Svc
<1>6. Good(svc') BY <1>0, <1>2, <1>4, <1>5 DEF VpnInv, Good, Heard, Ahead
<1>7. CoreSessions(svc) => CoreSessions(svc') BY <1>1, <1>2, <1>4 DEF CoreSessions, Ahead
<1>8. CoreStep BY <1>1, <1>2, <1>4 DEF CoreStep
<1> QED BY <1>6, <1>7, <1>8, StepCore

LEMMA StepHandleResult ==
    ASSUME Inv, prefs' = prefs, HandleResult
    PROVE  Inv'
<1>0. VpnInv /\ NativeInv /\ FrontInv /\ svc \in Svc BY DEF Inv, VpnInv, Good
<1>1. /\ svc.job # None /\ svc.job.pc = "result" /\ svc.job.proto \in Native
      /\ svc.job \in Job /\ sched' = sched
  BY <1>0, SvcFields DEF HandleResult, At
<1> DEFINE told == IF svc.reconnectRequested THEN "CONNECTING" ELSE "DISCONNECTED"
           s == IF svc.stopRequested THEN sendStatus(svc, told)
                ELSE IF willAutoReconnect(svc) THEN svc ELSE sendStatus(svc, "FAILED")
           n == ~svc.stopRequested
           j == [svc.job EXCEPT !.pc = "finally"]
<1>2. told \in Statuses \ {"CONNECTED"} BY DEF Statuses
<1> HIDE DEF told
<1>3. Quiet(svc, s) /\ s.tun = svc.tun
  <2>1. Quiet(svc, sendStatus(svc, told)) /\ sendStatus(svc, told).tun = svc.tun
    BY <1>0, <1>2, QuietStatus
  <2>2. Quiet(svc, sendStatus(svc, "FAILED")) /\ sendStatus(svc, "FAILED").tun = svc.tun
    BY <1>0, QuietStatus DEF Statuses
  <2>3. Quiet(svc, svc) BY <1>0, SvcFields DEF Quiet, Keeps
  <2> QED BY <2>1, <2>2, <2>3
<1>4. svc' = [s EXCEPT !.nativeExitWasUnexpected = n, !.job.pc = "finally"]
  BY DEF HandleResult, told
<1> HIDE DEF s
<1>5. s \in Svc /\ s.job = svc.job BY <1>3 DEF Quiet, Keeps
<1>6. svc' = [s EXCEPT !.nativeExitWasUnexpected = n, !.job = j] BY <1>4, <1>5 DEF Svc
<1>7. n \in BOOLEAN OBVIOUS
<1>8. j \in Job /\ j # None /\ j.pc = "finally" /\ j.proto = svc.job.proto
  BY <1>1, JobMoves DEF JobPC
<1> HIDE DEF n, j
<1>9. svc' \in Svc
  <2> DEFINE u == [s EXCEPT !.nativeExitWasUnexpected = n]
  <2>1. u \in Svc BY <1>5, <1>7 DEF Svc
  <2>2. svc' = [u EXCEPT !.job = j] BY <1>6
  <2> HIDE DEF u
  <2> QED BY <1>8, <2>1, <2>2 DEF Svc
<1>10. /\ svc'.job = j /\ svc'.queue = s.queue /\ svc'.currentProtocol = s.currentProtocol
       /\ svc'.storedConfig = s.storedConfig /\ svc'.quickTask = s.quickTask
       /\ svc'.core = s.core /\ svc'.tun = s.tun /\ svc'.tun2socks = s.tun2socks
       /\ svc'.stopRequested = s.stopRequested /\ svc'.proxyMode = s.proxyMode
       /\ svc'.reconnectTask = s.reconnectTask
  BY <1>5, <1>6 DEF Svc
<1>11. Good(svc') BY <1>0, <1>3, <1>8, <1>9, <1>10 DEF VpnInv, Good, Heard, Ahead, Quiet, Keeps
<1>12. CoreSessions(svc) => CoreSessions(svc')
  BY <1>1, <1>3, <1>8, <1>10 DEF CoreSessions, Ahead, Quiet, Keeps
<1>13. CoreStep BY <1>1, <1>3, <1>8, <1>10 DEF CoreStep, Quiet, Keeps
<1> QED BY <1>11, <1>12, <1>13, StepCore

LEMMA StepFinallyRelease ==
    ASSUME Inv, prefs' = prefs, FinallyRelease
    PROVE  Inv'
<1>0. VpnInv /\ NativeInv /\ FrontInv /\ svc \in Svc BY DEF Inv, VpnInv, Good
<1>1. /\ svc.job # None /\ svc.job.pc = "finally" /\ svc.job.proto \in Native
      /\ svc.job \in Job /\ sched' = sched
  BY <1>0, SvcFields DEF FinallyRelease, At
<1> DEFINE a == killSwitchArmed(svc)
           i == [svc.job EXCEPT !.armed = a]
           j == [i EXCEPT !.pc = "ladder"]
<1>2. a \in BOOLEAN
  <2>1. prefs.kill \in BOOLEAN BY <1>0, ProfilesAssumption DEF VpnInv, Profile
  <2> QED BY <2>1 DEF killSwitchArmed
<1>3. svc' = [svc EXCEPT !.tun = "none", !.connected = FALSE, !.attached = "no", !.job = j]
  BY <1>0, <1>1 DEF FinallyRelease, Svc, Job
<1> HIDE DEF a
<1>4. i \in Job /\ i.proto = svc.job.proto BY <1>1, <1>2 DEF Job
<1> HIDE DEF i
<1>5. j \in Job /\ j # None /\ j.pc = "ladder" /\ j.proto = svc.job.proto
  BY <1>4, JobMoves, ZenonT(60) DEF JobPC
<1> HIDE DEF j
<1>6. /\ svc'.queue = svc.queue /\ svc'.currentProtocol = svc.currentProtocol
      /\ svc'.storedConfig = svc.storedConfig /\ svc'.quickTask = svc.quickTask
      /\ svc'.core = svc.core /\ svc'.tun2socks = svc.tun2socks
      /\ svc'.stopRequested = svc.stopRequested /\ svc'.proxyMode = svc.proxyMode
      /\ svc'.life = svc.life /\ svc'.status = svc.status
      /\ svc'.reconnectTask = svc.reconnectTask
      /\ svc'.reconnectRequested = svc.reconnectRequested
      /\ svc'.userInitiatedStop = svc.userInitiatedStop
      /\ svc'.killSwitchSealed = svc.killSwitchSealed
      /\ svc'.job = j /\ svc'.tun = "none"
  BY <1>0, <1>3 DEF Svc
<1>7. svc' \in Svc
  <2>1. j \in Job \cup {None} BY <1>5
  <2> QED BY <1>0, <1>3, <2>1, ZenonT(60) DEF Svc
<1>8. Good(svc') BY <1>0, <1>5, <1>6, <1>7 DEF VpnInv, Good, Heard, Ahead
<1>9. CoreSessions(svc) => CoreSessions(svc') BY <1>1, <1>5, <1>6 DEF CoreSessions, Ahead
<1>10. CoreStep BY <1>1, <1>5, <1>6 DEF CoreStep
<1> QED BY <1>8, <1>9, <1>10, StepCore

(* The last half of the finally block reports, seals, arms a retry or ends *)
(* the service.                                                            *)
LEMMA LadderKeeps ==
    ASSUME NEW s \in Svc, prefs \in Profiles
    PROVE  LET t == Ladder(s) IN
           /\ t \in Svc /\ Keeps(s, t)
           /\ t.stopRequested = s.stopRequested /\ t.proxyMode = s.proxyMode
           /\ t.tun2socks = s.tun2socks /\ t.psi = s.psi
<1> DEFINE t == Ladder(s)
           settled == [s EXCEPT !.nativeExitWasUnexpected = FALSE]
           told == sendStatus(s, "FAILED")
<1>1. CASE ~s.job.cur
  <2>1. t = s BY <1>1 DEF Ladder
  <2> QED BY <2>1, SvcFields DEF Keeps
<1>2. CASE s.job.cur /\ s.reconnectRequested
  <2>1. t = [s EXCEPT !.reconnectRequested = FALSE] BY <1>2 DEF Ladder
  <2>2. t \in Svc BY <2>1, ZenonT(60) DEF Svc
  <2> QED BY <2>1, <2>2, SvcFields DEF Keeps, Svc
<1>3. CASE s.job.cur /\ ~s.reconnectRequested /\ s.job.armed /\ ~s.stopRequested
  <2>1. t = sealWithKillSwitch(told) BY <1>3 DEF Ladder
  <2>2. Quiet(s, told) /\ told \in Svc BY QuietStatus DEF Statuses, Quiet
  <2> HIDE DEF told, t
  <2>3. Quiet(told, t) BY <2>1, <2>2, QuietSeal
  <2>4. Quiet(s, t) BY <2>2, <2>3, QuietTwice
  <2> QED BY <2>4 DEF Quiet, t
<1>4. CASE s.job.cur /\ ~s.reconnectRequested /\ ~(s.job.armed /\ ~s.stopRequested)
  <2>1. t = scheduleAutoReconnect(settled) \/ t = stopSelf(settled) BY <1>4 DEF Ladder
  <2>2. settled \in Svc BY DEF Svc
  <2>3. Quiet(s, settled) BY <2>2, SvcFields DEF Quiet, Keeps, Svc
  <2> HIDE DEF settled, t
  <2>4. Quiet(settled, t) BY <2>1, <2>2, QuietSchedule, QuietStopSelf
  <2>5. Quiet(s, t) BY <2>3, <2>4, QuietTwice
  <2> QED BY <2>5 DEF Quiet, t
<1> QED BY <1>1, <1>2, <1>3, <1>4

LEMMA StepFinallyLadder ==
    ASSUME Inv, prefs' = prefs, FinallyLadder
    PROVE  Inv'
<1>0. VpnInv /\ NativeInv /\ FrontInv /\ svc \in Svc BY DEF Inv, VpnInv, Good
<1> DEFINE s == Ladder(svc)
<1>1. /\ svc.job # None /\ svc.job.pc = "ladder" /\ svc.job.proto \in Native /\ sched' = sched
      /\ svc' = [s EXCEPT !.job = None]
  BY DEF FinallyLadder, At
<1>2. /\ s \in Svc /\ Keeps(svc, s) /\ s.stopRequested = svc.stopRequested
      /\ s.proxyMode = svc.proxyMode /\ s.tun2socks = svc.tun2socks
  BY <1>0, LadderKeeps DEF VpnInv
<1> HIDE DEF s
<1>3. svc' \in Svc BY <1>1, <1>2 DEF Svc
<1>4. /\ svc'.job = None /\ svc'.queue = s.queue /\ svc'.currentProtocol = s.currentProtocol
      /\ svc'.storedConfig = s.storedConfig /\ svc'.quickTask = s.quickTask
      /\ svc'.core = s.core /\ svc'.tun = s.tun /\ svc'.tun2socks = s.tun2socks
      /\ svc'.stopRequested = s.stopRequested /\ svc'.proxyMode = s.proxyMode
      /\ svc'.reconnectTask = s.reconnectTask
  BY <1>1, <1>2 DEF Svc
<1>5. Good(svc') BY <1>0, <1>2, <1>3, <1>4 DEF VpnInv, Good, Heard, Keeps
<1>6. CoreSessions(svc) => CoreSessions(svc') BY <1>1, <1>2, <1>4 DEF CoreSessions, Keeps
<1>7. CoreStep BY <1>1, <1>2, <1>4 DEF CoreStep, Keeps
<1> QED BY <1>5, <1>6, <1>7, StepCore

-----------------------------------------------------------------------------
(* The worker, on SHARD or Tor *)

LEMMA StepFrontEstablish ==
    ASSUME Inv, prefs' = prefs, FrontEstablish
    PROVE  Inv'
<1>0. VpnInv /\ NativeInv /\ FrontInv /\ svc \in Svc BY DEF Inv, VpnInv, Good
<1>1. /\ svc.job # None /\ svc.job.pc = "establish" /\ svc.job.proto = "FRONT"
      /\ svc.job \in Job /\ sched' = sched
  BY <1>0, SvcFields DEF FrontEstablish, At
<1> DEFINE s == sendStatus(svc, "CONNECTING")
           j == [svc.job EXCEPT !.pc = "bringup"]
<1>2. s \in Svc BY <1>0, SendStatusType DEF Statuses
<1>3. j \in Job /\ j # None /\ j.pc = "bringup" /\ j.proto = svc.job.proto
  BY <1>1, JobMoves DEF JobPC
<1>4. svc' = [s EXCEPT !.tun = "open", !.job = j]
  BY <1>0 DEF FrontEstablish, Svc, sendStatus
<1> HIDE DEF j
<1>5. /\ svc'.queue = svc.queue /\ svc'.currentProtocol = svc.currentProtocol
      /\ svc'.storedConfig = svc.storedConfig /\ svc'.quickTask = svc.quickTask
      /\ svc'.core = svc.core /\ svc'.tun2socks = svc.tun2socks
      /\ svc'.connected = svc.connected /\ svc'.stopRequested = svc.stopRequested
      /\ svc'.proxyMode = svc.proxyMode /\ svc'.attached = svc.attached
      /\ svc'.life = svc.life /\ svc'.reconnectTask = svc.reconnectTask
      /\ svc'.reconnectRequested = svc.reconnectRequested
      /\ svc'.userInitiatedStop = svc.userInitiatedStop
      /\ svc'.killSwitchSealed = svc.killSwitchSealed
      /\ svc'.job = j
  BY <1>0, <1>4 DEF Svc, sendStatus
<1> HIDE DEF s
<1>6. svc' \in Svc
  <2>1. j \in Job \cup {None} BY <1>3
  <2> QED BY <1>2, <1>4, <2>1, Zenon DEF Svc
<1>7. VpnInv' BY <1>0, <1>1, <1>3, <1>5, <1>6 DEF VpnInv, Good, Heard, Native
<1>8. NativeInv' BY <1>0, <1>1 DEF NativeInv, InFamily, Native
<1>9. FrontInv'
  <2> SUFFICES ASSUME prefs.transports \subseteq Fronts PROVE FrontInv'
    BY DEF FrontInv
  <2>1. /\ InFamily(svc, Fronts) /\ FrontSessions(svc) /\ sched.config \in Fronts \cup {None}
        /\ svc.currentProtocol # None
    BY <1>0, <1>1 DEF FrontInv, FrontSessions
  <2>2. InFamily(svc', Fronts) BY <1>1, <1>3, <1>5, <2>1 DEF InFamily
  <2>3. FrontSessions(svc') BY <1>3, <1>5, <2>1 DEF FrontSessions, HasSession
  <2> QED BY <1>1, <1>3, <1>5, <2>1, <2>2, <2>3
          DEF FrontInv, LatchOwned, NeverStranded, InFamily, FrontSessions, HasSession, QueueOf
<1> QED BY <1>7, <1>8, <1>9 DEF Inv

LEMMA StepFrontUp ==
    ASSUME Inv, prefs' = prefs, FrontUp
    PROVE  Inv'
<1>0. VpnInv /\ NativeInv /\ FrontInv /\ svc \in Svc BY DEF Inv, VpnInv, Good
<1>1. svc.job # None /\ svc.job.proto = "FRONT" /\ sched' = sched
  BY DEF FrontUp, At
<1> DEFINE s == sendStatus(svc, "CONNECTED")
<1>2. s \in Svc BY <1>0, SendStatusType DEF Statuses
<1>3. svc' = [s EXCEPT !.tun2socks = TRUE, !.watchdogTask = TRUE, !.carried = TRUE, !.job = None]
  BY DEF FrontUp
<1>4. /\ svc'.queue = svc.queue /\ svc'.currentProtocol = svc.currentProtocol
      /\ svc'.storedConfig = svc.storedConfig /\ svc'.quickTask = svc.quickTask
      /\ svc'.core = svc.core /\ svc'.tun = svc.tun
      /\ svc'.connected = svc.connected /\ svc'.stopRequested = svc.stopRequested
      /\ svc'.proxyMode = svc.proxyMode /\ svc'.attached = svc.attached
      /\ svc'.life = svc.life /\ svc'.reconnectTask = svc.reconnectTask
      /\ svc'.userInitiatedStop = svc.userInitiatedStop
      /\ svc'.killSwitchSealed = svc.killSwitchSealed
      /\ svc'.job = None /\ svc'.tun2socks /\ ~svc'.reconnectRequested
  BY <1>0, <1>3 DEF Svc, sendStatus
<1> HIDE DEF s
<1>5. svc' \in Svc
  <2>1. None \in Job \cup {None} OBVIOUS
  <2> QED BY <1>2, <1>3, <2>1, Zenon DEF Svc
<1>6. VpnInv' BY <1>0, <1>1, <1>4, <1>5 DEF VpnInv, Good, Heard
<1>7. NativeInv' BY <1>0, <1>1 DEF NativeInv, InFamily, Native
<1>8. FrontInv'
  <2> SUFFICES ASSUME prefs.transports \subseteq Fronts PROVE FrontInv'
    BY DEF FrontInv
  <2>1. /\ InFamily(svc, Fronts) /\ FrontSessions(svc) /\ sched.config \in Fronts \cup {None}
        /\ svc.currentProtocol # None
    BY <1>0, <1>1 DEF FrontInv, FrontSessions
  <2>2. InFamily(svc', Fronts) BY <1>4, <2>1 DEF InFamily
  <2>3. FrontSessions(svc') BY <1>4, <2>1 DEF FrontSessions, HasSession
  <2> QED BY <1>1, <1>4, <2>1, <2>2, <2>3
          DEF FrontInv, LatchOwned, NeverStranded, InFamily, FrontSessions, HasSession, QueueOf
<1> QED BY <1>6, <1>7, <1>8 DEF Inv

-----------------------------------------------------------------------------
(* The core job left behind *)

OldStep == OldWorker \/ OldConnected \/ OldReturns

(* What it changes of the newest instance: who holds the core, whether the *)
(* instance is attached, and what "connected" sets.                        *)
LEMMA OldChanges ==
    ASSUME svc \in Svc, OldStep
    PROVE  /\ svc' \in Svc /\ sched' = sched /\ old # None
           /\ svc'.job = svc.job /\ svc'.queue = svc.queue /\ svc'.psi = svc.psi
           /\ svc'.currentProtocol = svc.currentProtocol
           /\ svc'.storedConfig = svc.storedConfig /\ svc'.quickTask = svc.quickTask
           /\ svc'.tun = svc.tun /\ svc'.tun2socks = svc.tun2socks
           /\ svc'.stopRequested = svc.stopRequested /\ svc'.proxyMode = svc.proxyMode
           /\ svc'.life = svc.life /\ svc'.reconnectTask = svc.reconnectTask
           /\ svc'.attached = "no" => svc.attached = "no"
           /\ \/ svc'.connected = svc.connected /\ svc'.status = svc.status
              \/ svc'.connected = (svc.connected \/ svc.proxyMode)
<1>0. "enter" # None /\ "core" # None /\ "finally" # None BY NoneAssumption DEF OldPC
<1>1. CASE OldEnters
  <2>1. svc' = svc \/ svc' = [svc EXCEPT !.core = TRUE, !.coreStop = FALSE]
    BY <1>1 DEF OldEnters
  <2>2. svc' \in Svc BY <2>1, ZenonT(60) DEF Svc
  <2> QED BY <1>0, <1>1, <2>1, <2>2 DEF OldEnters, Svc
<1>2. CASE OldReturns
  <2>1. svc' = [svc EXCEPT !.core = FALSE, !.coreStop = FALSE] BY <1>2 DEF OldReturns
  <2>2. svc' \in Svc BY <2>1, ZenonT(60) DEF Svc
  <2> QED BY <1>0, <1>2, <2>1, <2>2 DEF OldReturns, Svc
<1>3. CASE OldFinally
  <2> DEFINE a == IF svc.attached = "yes" THEN "cut" ELSE svc.attached
  <2>1. svc' = [svc EXCEPT !.attached = a] BY <1>3 DEF OldFinally, Svc
  <2>2. a \in {"no", "yes", "cut"} /\ (a = "no" => svc.attached = "no") BY SvcFields
  <2> HIDE DEF a
  <2>3. svc' \in Svc BY <2>1, <2>2 DEF Svc
  <2> QED BY <1>0, <1>3, <2>1, <2>2, <2>3 DEF OldFinally, Svc
<1>4. CASE OldConnected
  <2> DEFINE s == sendStatus(svc, "CONNECTED")
             c == svc.connected \/ svc.proxyMode
  <2>1. s \in Svc BY SendStatusType DEF Statuses
  <2>2. c \in BOOLEAN OBVIOUS
  <2>3. svc' = [s EXCEPT !.connected = c, !.carried = TRUE]
    BY <1>4 DEF OldConnected, Svc, sendStatus
  <2> HIDE DEF c
  <2>4. /\ svc'.job = svc.job /\ svc'.queue = svc.queue /\ svc'.psi = svc.psi
        /\ svc'.currentProtocol = svc.currentProtocol
        /\ svc'.storedConfig = svc.storedConfig /\ svc'.quickTask = svc.quickTask
        /\ svc'.tun = svc.tun /\ svc'.tun2socks = svc.tun2socks
        /\ svc'.stopRequested = svc.stopRequested /\ svc'.proxyMode = svc.proxyMode
        /\ svc'.life = svc.life /\ svc'.reconnectTask = svc.reconnectTask
        /\ svc'.attached = svc.attached /\ svc'.connected = c
    BY <2>3 DEF Svc, sendStatus
  <2> HIDE DEF s
  <2>5. svc' \in Svc
    <3> DEFINE u == [s EXCEPT !.connected = c]
    <3>1. u \in Svc BY <2>1, <2>2 DEF Svc
    <3>2. svc' = [u EXCEPT !.carried = TRUE] BY <2>3
    <3> HIDE DEF u
    <3> QED BY <3>1, <3>2 DEF Svc
  <2>6. sched' = sched /\ old # None BY <1>0, <1>4 DEF OldConnected
  <2> QED BY <2>4, <2>5, <2>6 DEF c
<1> QED BY <1>1, <1>2, <1>3, <1>4 DEF OldStep, OldWorker, OldStopped

LEMMA StepOld ==
    ASSUME Inv, OldInv, prefs' = prefs, OldStep
    PROVE  Inv'
<1>0. VpnInv /\ NativeInv /\ FrontInv /\ svc \in Svc BY DEF Inv, VpnInv, Good
<1>1. /\ svc' \in Svc /\ sched' = sched /\ old # None
      /\ svc'.job = svc.job /\ svc'.queue = svc.queue
      /\ svc'.currentProtocol = svc.currentProtocol
      /\ svc'.storedConfig = svc.storedConfig /\ svc'.quickTask = svc.quickTask
      /\ svc'.tun = svc.tun /\ svc'.tun2socks = svc.tun2socks
      /\ svc'.stopRequested = svc.stopRequested /\ svc'.proxyMode = svc.proxyMode
      /\ svc'.reconnectTask = svc.reconnectTask
      /\ svc'.attached = "no" => svc.attached = "no"
      /\ \/ svc'.connected = svc.connected /\ svc'.status = svc.status
         \/ svc'.connected = (svc.connected \/ svc.proxyMode)
  BY <1>0, OldChanges
<1>2. Good(svc') BY <1>0, <1>1 DEF VpnInv, Good, Heard
<1>3. VpnInv' BY <1>0, <1>1, <1>2 DEF VpnInv, Good, Heard
<1>4. NativeInv'
  <2> SUFFICES ASSUME prefs.transports \subseteq Native PROVE NativeInv'
    BY DEF NativeInv
  <2>1. InFamily(svc, Native) /\ CoreSessions(svc) /\ sched.config \in Native \cup {None}
    BY <1>0 DEF NativeInv
  <2>2. InFamily(svc', Native) BY <1>1, <2>1 DEF InFamily
  <2>3. CoreSessions(svc') BY <1>1, <2>1 DEF CoreSessions
  <2> QED BY <1>1, <2>1, <2>2, <2>3 DEF NativeInv, InFamily, CoreSessions, QueueOf
<1>5. FrontInv' BY <1>1 DEF OldInv, FrontInv
<1> QED BY <1>3, <1>4, <1>5 DEF Inv

LEMMA OldInvStep == Inv /\ OldInv /\ [Next]_vars => OldInv'
<1> SUFFICES ASSUME Inv, OldInv, [Next]_vars PROVE OldInv' OBVIOUS
<1>1. CASE UNCHANGED vars BY <1>1 DEF vars, OldInv
<1>2. CASE Next
  <2>0. prefs' = prefs BY <1>2 DEF Next
  <2>1. CASE UNCHANGED old BY <2>0, <2>1 DEF OldInv
  <2>2. ASSUME NEW proto, Connect(proto), ~UNCHANGED old PROVE OldInv'
    <3>1. /\ svc.job # None /\ svc.job.proto \in Native
          /\ old' \in OldPC
      BY <2>2 DEF Connect, LeavesJob, OldPC
    <3>2. ~(prefs.transports \subseteq Fronts)
      BY <3>1 DEF Inv, FrontInv, InFamily, Fronts, Native
    <3> QED BY <2>0, <3>1, <3>2 DEF OldInv
  <2>3. CASE OldStep
    <3>1. old # None /\ old' \in OldPC \cup {None}
      BY <2>3, NoneAssumption
         DEF OldInv, OldStep, OldWorker, OldEnters, OldStopped, OldReturns, OldFinally,
             OldConnected, OldPC
    <3> QED BY <2>0, <3>1 DEF OldInv
  <2> QED BY <1>2, <2>1, <2>2, <2>3 DEF Next, User, OldStep
<1> QED BY <1>1, <1>2

-----------------------------------------------------------------------------
(* Every step keeps the three invariants. *)
LEMMA InvStep == Inv /\ OldInv /\ [Next]_vars => Inv'
<1> SUFFICES ASSUME Inv, OldInv, [Next]_vars PROVE Inv' OBVIOUS
<1>1. CASE UNCHANGED vars
  <2>1. VpnInv' BY <1>1 DEF Inv, VpnInv, Good, Heard, vars
  <2>2. NativeInv' BY <1>1 DEF Inv, vars, NativeInv, InFamily, CoreSessions, QueueOf
  <2>3. FrontInv'
    BY <1>1 DEF Inv, vars, FrontInv, LatchOwned, NeverStranded, InFamily, FrontSessions, HasSession, QueueOf
  <2> QED BY <2>1, <2>2, <2>3 DEF Inv
<1>2. CASE Next
  <2>0. prefs' = prefs BY <1>2 DEF Next
  <2>1. CASE User
    BY <2>0, <2>1, StepConnect, StepDisconnect, StepReconnect DEF User
  <2>2. CASE Scheduler
    <3>1. CASE RetryStart BY <2>0, <3>1, StepStart DEF RetryStart
    <3>2. CASE QuickStart BY <2>0, <3>2, StepStart DEF QuickStart, StillShuttingDown
    <3> QED BY <2>0, <2>2, <3>1, <3>2, StepRetryTest, StepQuickBegin, StepQuickGivesUp,
               StepWatchdogLost
            DEF Scheduler
  <2>3. CASE Worker
    <3>1. CASE CoreStopped BY <2>0, <3>1, StepCoreReturns DEF CoreStopped
    <3> QED BY <2>0, <2>3, <3>1, StepTakeJob, StepPrepared, StepEstablish, StepSetupFails,
               StepEnterCore, StepHandleResult, StepFinallyRelease, StepFinallyLadder,
               StepFrontEstablish, StepFrontUp, StepFrontFails
            DEF Worker
  <2>4. CASE Destroy BY <2>0, <2>4, StepDestroy
  <2>5. CASE World
    BY <2>0, <2>5, StepNetworkAvailable, StepWatchdogTest, StepCoreConnected, StepCoreReturns
       DEF World
  <2>6. CASE OldStep BY <2>0, <2>6, StepOld
  <2> QED BY <1>2, <2>1, <2>2, <2>3, <2>4, <2>5, <2>6 DEF Next, OldStep
<1> QED BY <1>1, <1>2

(* The inductive invariant of the service: what startTunnel, stopTunnel,    *)
(* the worker's job and ladderScheduler's tasks keep between them, with     *)
(* the core job of an earlier instance still about.                        *)
THEOREM VpnInvariant == Spec => [](Inv /\ OldInv)
<1>1. Init => OldInv BY DEF Init, OldInv
<1> QED BY <1>1, InitInv, InvStep, OldInvStep, PTL DEF Spec

(* The fields of the service, the queue and the tasks keep to their values,*)
(* whatever the user switches between: in particular the task of a retry   *)
(* or a quick reconnect always holds a configuration to start, the one     *)
(* scheduleAutoReconnect or requestQuickReconnect captured.                *)
THEOREM VpnTypeCorrect == Spec => []TypeOK
<1>1. Inv /\ OldInv => TypeOK BY DEF Inv, VpnInv, Good, OldInv, TypeOK
<1> QED BY <1>1, VpnInvariant, PTL

(* NativeCore.detach, called for whoever is attached by the end of an older *)
(* session of the same service and by stopTunnel on other threads, never   *)
(* cuts off the core of the newest session, whatever the user switches     *)
(* between.  Only the finally block of a core job that a destroyed instance *)
(* left behind can, and it leaves attached "cut".                          *)
THEOREM VpnNewestIsHeard == Spec => []NewestIsHeard
<1>1. Inv => NewestIsHeard BY DEF Inv, VpnInv, Good, Heard, NewestIsHeard, At, Ahead
<1> QED BY <1>1, VpnInvariant, PTL

(* The user stays with core sessions, or with SHARD and Tor. *)
OneFamily ==
    \A p \in Profiles : p.transports \subseteq Native \/ p.transports \subseteq Fronts

LEMMA FamilyReads == OneFamily /\ Inv => NoBlackHole
<1> SUFFICES ASSUME OneFamily, Inv PROVE NoBlackHole OBVIOUS
<1>1. prefs \in Profiles /\ NativeInv /\ FrontInv BY DEF Inv, VpnInv
<1>2. CASE prefs.transports \subseteq Native
  BY <1>1, <1>2 DEF NativeInv, CoreSessions, NoBlackHole
<1>3. CASE prefs.transports \subseteq Fronts
  BY <1>1, <1>3 DEF FrontInv, FrontSessions, NoBlackHole
<1> QED BY <1>1, <1>2, <1>3 DEF OneFamily

LEMMA FamilyLooks == OneFamily /\ Inv => LookedAfter
<1> SUFFICES ASSUME OneFamily, Inv PROVE LookedAfter OBVIOUS
<1>1. prefs \in Profiles /\ NativeInv /\ FrontInv /\ svc \in Svc BY DEF Inv, VpnInv, Good
<1>2. CASE prefs.transports \subseteq Native
  <2>1. InFamily(svc, Native) /\ CoreSessions(svc) BY <1>1, <1>2 DEF NativeInv
  <2>2. None \notin Fronts BY NoneIsNoKind DEF Fronts, Kinds
  <2>3. svc.currentProtocol \notin Fronts BY <2>1, <2>2 DEF InFamily, Fronts, Native
  <2>4. NeverStranded BY <2>3 DEF NeverStranded, Fronts
  <2>6. Supervised
    BY <1>1, <2>1, SvcFields DEF Supervised, At, InFamily, CoreSessions, Native, Ahead
  <2> QED BY <2>4, <2>6 DEF LookedAfter
<1>3. CASE prefs.transports \subseteq Fronts
  <2>1. FrontSessions(svc) /\ InFamily(svc, Fronts) /\ NeverStranded
    BY <1>1, <1>3 DEF FrontInv
  <2>2. Supervised
    BY <1>1, <2>1, NoneAssumption, SvcFields
       DEF Supervised, At, FrontSessions, InFamily, Fronts, Native
  <2> QED BY <2>1, <2>2 DEF LookedAfter
<1> QED BY <1>1, <1>2, <1>3 DEF OneFamily

(* With transports of one family, no stop, failure or replacement of a     *)
(* session leaves its TUN without a reader: the job that opened it closes  *)
(* it, or stopTunnel does.                                                 *)
THEOREM VpnNoBlackHole == ASSUME OneFamily PROVE Spec => []NoBlackHole
<1>1. Inv => NoBlackHole BY FamilyReads
<1> QED BY <1>1, VpnInvariant, PTL

(* With transports of one family, a live session is under the watchdog and *)
(* the service of SHARD and Tor does not linger: when failAndStop,         *)
(* onTunnelLost or a reconnect ends a session there is a task to start the *)
(* next, or the service ends.                                              *)
THEOREM VpnLookedAfter == ASSUME OneFamily PROVE Spec => []LookedAfter
<1>1. Inv => LookedAfter BY FamilyLooks
<1> QED BY <1>1, VpnInvariant, PTL
-----------------------------------------------------------------------------
(* Who is the newest session.  Every job but one belongs to an older        *)
(* generation: startTunnel outdates the running job and all that wait.      *)
OneNewest(s) ==
    /\ \A i, j \in 1 .. Len(s.queue) : s.queue[i].cur /\ s.queue[j].cur => i = j
    /\ s.job # None /\ s.job.cur => \A i \in 1 .. Len(s.queue) : ~s.queue[i].cur

(* A step that submits nothing: the job goes on in its generation or ends. *)
GoesOn(s, t) ==
    /\ t.queue = s.queue
    /\ t.job # None => s.job # None /\ t.job.cur = s.job.cur

(* A step that leaves Psiphon alone. *)
GoesWithout(s, t) ==
    /\ t.psi = s.psi
    /\ t.currentProtocol = s.currentProtocol
    /\ t.stopRequested = s.stopRequested
    /\ t.job = s.job \/ (s.job # None /\ s.job.proto \notin Psiphon)

LEMMA GoesOnOne ==
    ASSUME NEW s, NEW t, OneNewest(s), GoesOn(s, t)
    PROVE  OneNewest(t)
BY DEF OneNewest, GoesOn

LEMMA StartOne ==
    ASSUME NEW s \in Svc, NEW proto \in Kinds, OneNewest(s), prefs \in Profiles
    PROVE  OneNewest(startTunnel(s, proto))
<1> DEFINE t == startTunnel(s, proto)
           q == OutdatedAll(s.queue)
<1>1. CASE s.connected BY <1>1, StartOnce
<1>2. CASE ~s.connected
  <2>1. t.job # None => ~t.job.cur
    BY <1>2, StartSubmits, StartRefuses, SupersededJob DEF Starts
  <2>2. q \in Seq(Job) /\ \A i \in 1 .. Len(q) : ~q[i].cur
    BY SvcFields, OutdatedQueue
  <2>3. t.queue = q \/ \E new \in Job : t.queue = Append(q, new)
    BY <1>2, StartSubmits, StartRefuses DEF Submitted, Refused
  <2> HIDE DEF t, q
  <2>4. ASSUME t.queue = q PROVE OneNewest(t)
    BY <2>1, <2>2, <2>4 DEF OneNewest
  <2>5. ASSUME \E new \in Job : t.queue = Append(q, new) PROVE OneNewest(t)
    <3>1. PICK new \in Job : t.queue = Append(q, new) BY <2>5
    <3>2. /\ Len(t.queue) = Len(q) + 1 /\ Len(q) \in Nat
          /\ \A i \in 1 .. Len(q) : t.queue[i] = q[i]
      BY <2>2, <3>1
    <3>3. \A i \in 1 .. Len(t.queue) : t.queue[i].cur => i = Len(t.queue)
      BY <2>2, <3>2
    <3> QED BY <2>1, <3>2, <3>3 DEF OneNewest
  <2> QED BY <2>3, <2>4, <2>5 DEF t
<1> QED BY <1>1, <1>2

(* Steps that report, test, or move the running job from place to place.   *)
(* None of them ends the service.                                          *)
Plain ==
    \/ RetryTest \/ QuickBegin \/ QuickTimeout \/ QuickAbandon
    \/ Prepared \/ Establish \/ SetupFails \/ EnterCore \/ CoreReturns \/ HandleResult
    \/ FinallyRelease \/ FrontEstablish \/ FrontUp
    \/ NetworkAvailable \/ WatchdogTest \/ CoreConnected
    \/ OldStep

LEMMA PlainSteps ==
    ASSUME svc \in Svc, Plain
    PROVE  GoesOn(svc, svc') /\ svc'.life = svc.life /\ GoesWithout(svc, svc')
<1>0. svc.job # None => svc.job \in Job BY SvcFields
<1>1. CASE RetryTest \/ QuickBegin \/ NetworkAvailable \/ WatchdogTest
  BY <1>1 DEF RetryTest, QuickBegin, NetworkAvailable, WatchdogTest, GoesOn, GoesWithout, Svc
<1>2. CASE QuickTimeout \/ QuickAbandon
  BY <1>2 DEF QuickTimeout, QuickAbandon, sendStatus, GoesOn, GoesWithout, Svc
<1>3. CASE Prepared
  BY <1>0, <1>3 DEF Prepared, At, Native, Psiphon, sendStatus, GoesOn, GoesWithout, Svc, Job
<1>4. CASE Establish
  BY <1>0, <1>4 DEF Establish, At, Native, Psiphon, sendStatus, GoesOn, GoesWithout, Svc, Job
<1>5. CASE SetupFails
  BY <1>0, <1>5 DEF SetupFails, At, Native, Psiphon, sendStatus, GoesOn, GoesWithout, Svc, Job
<1>6. CASE EnterCore
  BY <1>0, <1>6 DEF EnterCore, At, Native, Psiphon, sendStatus, GoesOn, GoesWithout, Svc, Job
<1>7. CASE CoreReturns
  BY <1>0, <1>7 DEF CoreReturns, At, Native, Psiphon, sendStatus, GoesOn, GoesWithout, Svc, Job
<1>8. CASE CoreConnected
  BY <1>0, <1>8 DEF CoreConnected, At, Native, Psiphon, sendStatus, GoesOn, GoesWithout, Svc, Job
<1>9. CASE HandleResult
  BY <1>0, <1>9 DEF HandleResult, At, Native, Psiphon, sendStatus, GoesOn, GoesWithout, Svc, Job
<1>10. CASE FinallyRelease
  BY <1>0, <1>10 DEF FinallyRelease, At, Native, Psiphon, sendStatus, GoesOn, GoesWithout, Svc, Job
<1>11. CASE FrontEstablish
  BY <1>0, <1>11 DEF FrontEstablish, At, Native, Psiphon, sendStatus, GoesOn, GoesWithout, Svc, Job
<1>12. CASE FrontUp
  BY <1>0, <1>12 DEF FrontUp, At, Native, Psiphon, sendStatus, GoesOn, GoesWithout, Svc, Job
<1>13. CASE OldStep BY <1>13, OldChanges DEF GoesOn, GoesWithout
<1> QED
  BY <1>1, <1>2, <1>3, <1>4, <1>5, <1>6, <1>7, <1>8, <1>9, <1>10, <1>11, <1>12, <1>13
  DEF Plain

(* Steps that stop the session leave the jobs to the worker. *)
Stopping == Disconnect \/ Reconnect \/ WatchdogLost \/ FrontFails \/ FinallyLadder

LEMMA StoppingSteps ==
    ASSUME Inv, Stopping
    PROVE  /\ GoesOn(svc, svc')
           /\ svc'.currentProtocol = svc.currentProtocol
           /\ GoesWithout(svc, svc') \/ Disarmed(svc.psi, svc'.psi)
<1>0. svc \in Svc /\ prefs \in Profiles BY DEF Inv, VpnInv, Good
<1>1. CASE Disconnect
  <2> DEFINE u == [svc EXCEPT !.userInitiatedStop = TRUE, !.reconnectRequested = FALSE,
                              !.killSwitchSealed = FALSE]
             s == cancelAutoReconnect(u)
  <2>1. u \in Svc BY <1>0, ZenonT(60) DEF Svc
  <2>2. s \in Svc BY <2>1, QuietCancel DEF Quiet
  <2>3. /\ s.job = svc.job /\ s.queue = svc.queue /\ s.psi = svc.psi
        /\ s.currentProtocol = svc.currentProtocol
    BY <1>0 DEF Svc, cancelAutoReconnect
  <2>4. svc' = stopTunnel(s, TRUE, TRUE) BY <1>1 DEF Disconnect
  <2> HIDE DEF s
  <2>5. Stops(s, svc') BY <2>2, <2>4, StopTunnelStops
  <2> QED BY <2>3, <2>5 DEF Stops, Keeps, GoesOn
<1>2. CASE Reconnect
  <2> DEFINE s == [svc EXCEPT !.reconnectRequested = TRUE]
             t == stopTunnel(s, FALSE, FALSE)
  <2>1. /\ s \in Svc /\ s.job = svc.job /\ s.queue = svc.queue /\ s.psi = svc.psi
        /\ s.currentProtocol = svc.currentProtocol
    <3>1. s \in Svc BY <1>0, ZenonT(60) DEF Svc
    <3> QED BY <1>0, <3>1 DEF Svc
  <2>2. svc' = [t EXCEPT !.quickTask = svc.storedConfig] BY <1>2 DEF Reconnect
  <2> HIDE DEF s
  <2>3. /\ t \in Svc /\ t.job = s.job /\ t.queue = s.queue /\ Disarmed(s.psi, t.psi)
        /\ t.currentProtocol = s.currentProtocol
    BY <2>1, StopTunnelStops DEF Stops, Keeps
  <2> HIDE DEF t
  <2> QED BY <2>1, <2>2, <2>3 DEF Svc, GoesOn
<1>3. CASE WatchdogLost
  <2>1. svc' = svc \/ svc' = Replace(svc) \/ svc' = LeaveDown(svc)
    BY <1>3 DEF WatchdogLost, onTunnelLost
  <2> QED BY <1>0, <2>1, ReplaceStops, LeaveDownStops DEF Stops, Keeps, GoesOn, GoesWithout
<1>4. CASE FrontFails
  <2> DEFINE t == failAndStop(svc)
  <2>1. svc' = [t EXCEPT !.job = None] BY <1>4 DEF FrontFails
  <2>2. /\ t \in Svc /\ t.queue = svc.queue /\ Disarmed(svc.psi, t.psi)
        /\ t.currentProtocol = svc.currentProtocol
    BY <1>0, FailAndStopStops DEF Stops, Keeps
  <2> HIDE DEF t
  <2> QED BY <2>1, <2>2 DEF Svc, GoesOn
<1>5. CASE FinallyLadder
  <2> DEFINE t == Ladder(svc)
  <2>1. svc' = [t EXCEPT !.job = None] BY <1>5 DEF FinallyLadder
  <2>2. /\ t \in Svc /\ t.queue = svc.queue /\ t.psi = svc.psi
        /\ t.currentProtocol = svc.currentProtocol /\ t.stopRequested = svc.stopRequested
    BY <1>0, LadderKeeps DEF Keeps
  <2>3. svc.job # None /\ svc.job.proto \notin Psiphon
    BY <1>5 DEF FinallyLadder, At, Native, Psiphon
  <2> HIDE DEF t
  <2> QED BY <2>1, <2>2, <2>3 DEF Svc, GoesOn, GoesWithout
<1> QED BY <1>1, <1>2, <1>3, <1>4, <1>5 DEF Stopping

LEMMA TakeOne ==
    ASSUME svc \in Svc, OneNewest(svc), TakeJob
    PROVE  OneNewest(svc') /\ svc'.life = svc.life
<1> DEFINE next == Head(svc.queue)
           mode == IF next.proto \notin Native THEN next.proto
                   ELSE IF svc.proxyMode THEN "SOCKS" ELSE "NATIVE"
           j == [next EXCEPT !.proto = mode]
           q == Tail(svc.queue)
<1>1. svc.queue \in Seq(Job) /\ svc.queue # << >> BY SvcFields DEF TakeJob
<1>2. svc'.job = j /\ svc'.queue = q /\ svc'.life = svc.life BY DEF TakeJob, Svc
<1> HIDE DEF mode
<1>3. j.cur = svc.queue[1].cur
  <2>1. next = svc.queue[1] /\ next \in Job BY <1>1
  <2> HIDE DEF next
  <2> QED BY <2>1 DEF Job
<1>4. /\ Len(svc.queue) \in Nat /\ 1 \in 1 .. Len(svc.queue)
      /\ \A i \in 1 .. Len(q) : q[i] = svc.queue[i + 1] /\ i + 1 \in 1 .. Len(svc.queue)
  BY <1>1
<1> HIDE DEF j, q, next
<1>5. \A i, k \in 1 .. Len(q) : q[i].cur /\ q[k].cur => i = k
  <2> SUFFICES ASSUME NEW i \in 1 .. Len(q), NEW k \in 1 .. Len(q), q[i].cur, q[k].cur
               PROVE  i = k
    OBVIOUS
  <2>1. i + 1 = k + 1 BY <1>4 DEF OneNewest
  <2>2. i \in Nat /\ k \in Nat OBVIOUS
  <2> QED BY <2>1, <2>2
<1>6. j.cur => \A i \in 1 .. Len(q) : ~q[i].cur
  <2> SUFFICES ASSUME j.cur, NEW i \in 1 .. Len(q), q[i].cur PROVE FALSE OBVIOUS
  <2>1. i + 1 = 1 BY <1>3, <1>4 DEF OneNewest
  <2>2. i \in Nat /\ i >= 1 OBVIOUS
  <2> QED BY <2>1, <2>2
<1> QED BY <1>2, <1>5, <1>6 DEF OneNewest

LEMMA OneNewestStep == Inv /\ OneNewest(svc) /\ [Next]_vars => OneNewest(svc')
<1> SUFFICES ASSUME Inv, OneNewest(svc), [Next]_vars PROVE OneNewest(svc') OBVIOUS
<1>0. svc \in Svc /\ prefs \in Profiles /\ VpnInv BY DEF Inv, VpnInv, Good
<1>1. CASE UNCHANGED vars BY <1>1 DEF vars
<1>2. CASE Plain BY <1>0, <1>2, PlainSteps, GoesOnOne
<1>3. CASE Stopping BY <1>3, StoppingSteps, GoesOnOne
<1>4. CASE TakeJob BY <1>0, <1>4, TakeOne
<1>5. CASE Destroy
  <2> DEFINE t == stopTunnel(cancelAutoReconnect(svc), FALSE, TRUE)
  <2>1. svc' = [t EXCEPT !.life = "none", !.tun = "none", !.quickTask = None,
                         !.queue = << >>, !.psi.attributionPending = FALSE]
    BY <1>5 DEF Destroy
  <2>2. t \in Svc
    <3>1. cancelAutoReconnect(svc) \in Svc BY <1>0, QuietCancel DEF Quiet
    <3> QED BY <3>1, StopTunnelStops DEF Stops
  <2> HIDE DEF t
  <2>3. svc'.queue = << >> BY <2>1, <2>2 DEF Svc
  <2> QED BY <2>3 DEF OneNewest
<1>6. CASE RetryStart \/ QuickStart
  <2>1. svc' = startTunnel(svc, sched.config) /\ sched.config \in Kinds
    BY <1>0, <1>6 DEF RetryStart, QuickStart, VpnInv
  <2> QED BY <1>0, <2>1, StartOne
<1>7. ASSUME NEW proto \in prefs.transports, Connect(proto) PROVE OneNewest(svc')
  <2>1. proto \in Kinds BY <1>0, ProfilesAssumption DEF Profile
  <2>2. PICK s \in Svc : /\ svc' = startTunnel(s, proto)
                         /\ \/ s.job = svc.job /\ s.queue = svc.queue
                            \/ s.job = None /\ s.queue = << >>
    BY <1>0, <1>7, ConnectFrom
  <2>3. OneNewest(s) BY <2>2 DEF OneNewest
  <2> QED BY <1>0, <2>1, <2>2, <2>3, StartOne
<1> QED BY <1>1, <1>2, <1>3, <1>4, <1>5, <1>6, <1>7
        DEF Next, User, Scheduler, Worker, World, CoreStopped, OldStep, Plain, Stopping

(* Auto-reconnect is on, the user stays with one family, and for core      *)
(* sessions the system does not throw the kill switch's interface out.      *)
Steady ==
    /\ AutoPref
    /\ \A p \in Profiles : \/ p.transports \subseteq Native /\ ~(p.kill /\ p.blocking = "throws")
                           \/ p.transports \subseteq Fronts

(* A service with SHARD and Tor only has no core session to be succeeded. *)
LEMMA FrontsNotSucceeded ==
    ASSUME Inv, prefs.transports \subseteq Fronts
    PROVE  ~Succeeded
<1>1. InFamily(svc, Fronts) /\ svc \in Svc BY DEF Inv, FrontInv, VpnInv, Good
<1>2. None \notin Native /\ Fronts \cap Native = {}
  BY NoneIsNoKind DEF Native, Kinds, Fronts
<1>3. DOMAIN svc.queue = 1 .. Len(svc.queue)
  <2>1. svc.queue \in Seq(Job) BY <1>1, SvcFields
  <2> QED BY <2>1
<1> QED BY <1>1, <1>2, <1>3 DEF Succeeded, InFamily, QueueOf

LEMMA StartSurvives ==
    ASSUME NEW s \in Svc, NEW proto \in Native
    PROVE  startTunnel(s, proto).life = s.life
<1>1. proto \in Kinds \ {"REFUSED"} BY DEF Native, Kinds
<1> QED BY <1>1, StartOnce, StartSubmits DEF Submitted

LEMMA SurvivesStep ==
    ASSUME Steady, Inv, OneNewest(svc), Next, Succeeded, svc.life = "up", svc'.life # "up"
    PROVE  svc'.userInitiatedStop
<1>0. svc \in Svc /\ prefs \in Profiles /\ VpnInv /\ NativeInv BY DEF Inv, VpnInv, Good
<1>1. prefs.transports \subseteq Native /\ ~(prefs.kill /\ prefs.blocking = "throws")
  BY <1>0, FrontsNotSucceeded DEF Steady
<1>2. InFamily(svc, Native) /\ sched.config \in Native \cup {None} BY <1>0, <1>1 DEF NativeInv
<1>3. ASSUME Plain \/ TakeJob \/ Destroy PROVE FALSE
  BY <1>0, <1>3, PlainSteps, TakeOne DEF Destroy
<1>4. ASSUME NEW proto \in prefs.transports, Connect(proto) PROVE FALSE
  <2>1. PICK s \in Svc : svc' = startTunnel(s, proto) /\ s.life = "up"
    BY <1>0, <1>4, ConnectFrom
  <2> QED BY <1>1, <2>1, StartSurvives
<1>5. ASSUME RetryStart \/ QuickStart PROVE FALSE
  <2>1. svc' = startTunnel(svc, sched.config) /\ sched.config \in Kinds
    BY <1>0, <1>5 DEF RetryStart, QuickStart, VpnInv
  <2>2. sched.config \in Native BY <1>2, <2>1, NoneIsNoKind
  <2> QED BY <1>0, <2>1, <2>2, StartSurvives
<1>6. CASE Disconnect
  <2> DEFINE u == [svc EXCEPT !.userInitiatedStop = TRUE, !.reconnectRequested = FALSE,
                              !.killSwitchSealed = FALSE]
             s == cancelAutoReconnect(u)
  <2>1. u \in Svc BY <1>0, ZenonT(60) DEF Svc
  <2>2. s \in Svc BY <2>1, QuietCancel DEF Quiet
  <2>3. s.userInitiatedStop BY <1>0 DEF Svc, cancelAutoReconnect
  <2>4. svc' = stopTunnel(s, TRUE, TRUE) BY <1>6 DEF Disconnect
  <2> HIDE DEF s
  <2>5. Stops(s, svc') BY <2>2, <2>4, StopTunnelStops
  <2> QED BY <2>3, <2>5 DEF Stops, Keeps
<1>7. ASSUME Reconnect PROVE FALSE
  <2> DEFINE s == [svc EXCEPT !.reconnectRequested = TRUE]
             t == stopTunnel(s, FALSE, FALSE)
  <2>1. s \in Svc BY <1>0, ZenonT(60) DEF Svc
  <2>2. s.life = svc.life BY <1>0 DEF Svc
  <2>3. svc' = [t EXCEPT !.quickTask = svc.storedConfig] BY <1>7 DEF Reconnect
  <2> HIDE DEF s
  <2>4. t \in Svc /\ t.life = s.life BY <2>1, StopTunnelStops DEF Stops
  <2> HIDE DEF t
  <2> QED BY <2>2, <2>3, <2>4 DEF Svc
<1>8. ASSUME WatchdogLost PROVE FALSE
  <2>1. svc' = svc \/ svc' = Replace(svc) BY <1>8 DEF WatchdogLost, onTunnelLost, Steady
  <2> QED BY <1>0, <1>1, <2>1, ReplaceStops
<1>9. ASSUME FrontFails PROVE FALSE
  BY <1>2, <1>9 DEF FrontFails, At, InFamily, Native
<1>10. ASSUME FinallyLadder PROVE FALSE
  <2> DEFINE t == Ladder(svc)
  <2>1. svc.job # None /\ svc' = [t EXCEPT !.job = None] BY <1>10 DEF FinallyLadder, At
  <2>2. DOMAIN svc.queue = 1 .. Len(svc.queue)
    <3>1. svc.queue \in Seq(Job) BY <1>0, SvcFields
    <3> QED BY <3>1
  <2>3. ~svc.job.cur \/ svc.reconnectRequested BY <2>1, <2>2 DEF Succeeded, OneNewest
  <2>4. t = svc \/ t = [svc EXCEPT !.reconnectRequested = FALSE] BY <2>3 DEF Ladder
  <2>5. t.life = svc.life BY <1>0, <2>4 DEF Svc
  <2>6. t \in Svc BY <1>0, LadderKeeps
  <2> HIDE DEF t
  <2> QED BY <2>1, <2>5, <2>6 DEF Svc
<1> QED BY <1>3, <1>4, <1>5, <1>6, <1>7, <1>8, <1>9, <1>10
        DEF Next, User, Scheduler, Worker, World, CoreStopped, OldStep, Plain

(* While the quick-reconnect latch is set, or the newest core session waits *)
(* behind the old one's job, nothing but a stop of the user's ends the      *)
(* service: not the old job's finally block, nor its watchdog, however many *)
(* sessions wait.                                                           *)
THEOREM VpnNewestSurvives == ASSUME Steady PROVE Spec => NewestSurvives
<1> DEFINE Survives ==
        Succeeded /\ svc.life = "up" /\ svc'.life # "up" => svc'.userInitiatedStop
<1>1. Init => OneNewest(svc) BY DEF Init, Fresh, OneNewest
<1>2. Inv /\ OneNewest(svc) /\ [Next]_vars => OneNewest(svc)' BY OneNewestStep DEF OneNewest
<1>3. Inv /\ OneNewest(svc) /\ [Next]_vars => [Survives]_vars
  <2> SUFFICES ASSUME Inv, OneNewest(svc), Next PROVE Survives BY DEF vars
  <2> QED BY SurvivesStep
<1> QED BY <1>1, <1>2, <1>3, VpnInvariant, PTL DEF Spec, NewestSurvives

-----------------------------------------------------------------------------
(* The Psiphon ladder *)

(* How far up the ladder from rung i, going round, rung r is. *)
RungsAbove(r, i) == IF r >= i THEN r - i ELSE r + LadderSize - i

(* A Psiphon session that started on an idle worker with the ladder        *)
(* disarmed.  It has at most one job, and none while the ladder is armed,  *)
(* so nobody moves the ladder while a rung is being dialled: the rung      *)
(* whose budget runs is the one that was dialled.  The rungs that have not *)
(* had a turn are the ones still ahead of the current one.                 *)
Turns(s) ==
    s.psi.alone =>
        /\ ~s.stopRequested
        /\ s.currentProtocol \in Psiphon
        /\ ~s.psi.psiphonVpnActivated
        /\ s.job # None => s.queue = << >> /\ s.job.proto \in Psiphon
        /\ \/ s.queue = << >>
           \/ \E job \in Job : s.queue = << job >> /\ job.proto \in Psiphon /\ job.pc # "arm"
        /\ s.psi.ladderActive => s.job = None /\ s.queue = << >>
        /\ s.psi.ladderActive \/ (s.job # None /\ s.job.pc = "arm")
               => s.psi.regionPhase \/ s.psi.ladderIndex \in s.psi.tried
        /\ \A r \in Rungs \ s.psi.tried :
               RungsAbove(r, s.psi.ladderIndex) < LadderSize - s.psi.ladderAttempts

(* There is nothing to dial before the first session. *)
Named(s) ==
    s.currentProtocol = None => s.job = None /\ s.queue = << >> /\ ~s.psi.ladderActive

(* A service that has only known core sessions, or SHARD and Tor. *)
UnusedInv ==
    prefs.transports \subseteq Native \/ prefs.transports \subseteq Fronts => Unused(svc.psi)

LadderInv == Inv /\ OldInv /\ UnusedInv /\ Named(svc) /\ Turns(svc)

-----------------------------------------------------------------------------
(* The arithmetic of the ladder *)

LEMMA LadderSizeType == LadderSize \in Nat /\ LadderSize >= 1
BY BoundsAssumption

LEMMA NextRung ==
    ASSUME NEW i \in Rungs
    PROVE  /\ (i + 1) % LadderSize \in Rungs
           /\ i + 1 < LadderSize => (i + 1) % LadderSize = i + 1
           /\ i + 1 = LadderSize => (i + 1) % LadderSize = 0
BY LadderSizeType DEF Rungs

LEMMA FirstRung ==
    ASSUME NEW r \in Rungs, NEW i \in Rungs
    PROVE  RungsAbove(r, i) \in 0 .. LadderSize - 1 /\ (RungsAbove(r, i) = 0 => r = i)
BY LadderSizeType DEF Rungs, RungsAbove

LEMMA OneRungUp ==
    ASSUME NEW r \in Rungs, NEW i \in Rungs, r # i
    PROVE  RungsAbove(r, (i + 1) % LadderSize) = RungsAbove(r, i) - 1
<1>1. CASE i + 1 < LadderSize
  <2>1. (i + 1) % LadderSize = i + 1 BY <1>1, NextRung
  <2> QED BY <1>1, <2>1, LadderSizeType DEF Rungs, RungsAbove
<1>2. CASE i + 1 = LadderSize
  <2>1. (i + 1) % LadderSize = 0 BY <1>2, NextRung
  <2> QED BY <1>2, <2>1, LadderSizeType DEF Rungs, RungsAbove
<1> QED BY <1>1, <1>2, LadderSizeType DEF Rungs

-----------------------------------------------------------------------------
(* Reports and the ladder's own fields *)

(* t differs from s in Psiphon's part and in what the service reports. *)
Beside(s, t) ==
    /\ t \in Svc
    /\ t.job = s.job /\ t.queue = s.queue
    /\ t.currentProtocol = s.currentProtocol /\ t.storedConfig = s.storedConfig
    /\ t.reconnectTask = s.reconnectTask /\ t.connected = s.connected
    /\ t.stopRequested = s.stopRequested /\ t.proxyMode = s.proxyMode
    /\ t.attached = s.attached

LEMMA PsiBeside ==
    ASSUME NEW s \in Svc, NEW p \in Psi
    PROVE  LET t == [s EXCEPT !.psi = p] IN Beside(s, t) /\ Keeps(s, t) /\ t.psi = p
<1>1. [s EXCEPT !.psi = p] \in Svc BY DEF Svc
<1> QED BY <1>1, SvcFields DEF Beside, Keeps, Svc

LEMMA StatusBeside ==
    ASSUME NEW s \in Svc, NEW status \in Statuses
    PROVE  Beside(s, sendStatus(s, status)) /\ sendStatus(s, status).psi = s.psi
<1>1. sendStatus(s, status) \in Svc BY SendStatusType
<1> QED BY <1>1 DEF Beside, Svc, sendStatus

LEMMA BesideGood ==
    ASSUME NEW s, NEW t, Good(s), Beside(s, t)
    PROVE  Good(t)
BY DEF Good, Heard, Beside

-----------------------------------------------------------------------------
(* What the steps of VpnService do to the ladder *)

LEMMA UnusedStays ==
    ASSUME NEW p, NEW q, Unused(p), Disarmed(p, q)
    PROVE  Unused(q)
BY DEF Unused, Disarmed

LEMMA StartOpens ==
    ASSUME NEW s \in Svc, NEW proto \in Kinds, ~s.connected, prefs \in Profiles
    PROVE  LET t == startTunnel(s, proto) IN
           /\ Turns(t) /\ Named(t)
           /\ proto \notin Psiphon /\ Unused(s.psi) => Unused(t.psi)
<1> DEFINE t == startTunnel(s, proto)
           o == OpenPsiphon(s, proto)
           a == s.job = None /\ s.queue = << >> /\ ~s.psi.ladderActive
<1>1. s.psi \in Psi BY SvcFields
<1>2. o \in Psi BY OpenPsiphonType
<1>3. /\ proto \notin Psiphon => ~o.alone
      /\ proto \notin Psiphon /\ Unused(s.psi) => Unused(o)
      /\ o.ladderActive = s.psi.ladderActive
  BY <1>1 DEF OpenPsiphon, Psi, Unused
<1>4. proto \in Psiphon =>
         /\ o.alone = a /\ o.tried = {} /\ o.ladderAttempts = 0
         /\ o.ladderIndex \in Rungs /\ ~o.psiphonVpnActivated
  <2>1. s.psi.remembered \in Rungs BY <1>1 DEF Psi
  <2> QED BY <1>1, <2>1 DEF OpenPsiphon, Psi
<1> HIDE DEF o
<1>5. CASE proto = "REFUSED"
  <2>1. Starts(s, t, proto) /\ Refused(s, t) /\ o = OpenPsiphon(s, "REFUSED")
    BY <1>5, StartRefuses DEF o
  <2>2. Disarmed(o, t.psi) /\ t.currentProtocol = proto BY <2>1 DEF Refused, Starts
  <2> HIDE DEF t
  <2>3. Turns(t) BY <2>2 DEF Turns, Disarmed
  <2>4. Named(t) BY <2>2, NoneIsNoKind DEF Named
  <2> QED BY <1>3, <2>2, <2>3, <2>4, UnusedStays DEF t
<1>6. CASE proto # "REFUSED"
  <2>1. Starts(s, t, proto) /\ Submitted(s, t, proto) BY <1>6, StartSubmits
  <2>2. t.psi = o /\ t.currentProtocol = proto /\ ~t.stopRequested BY <2>1 DEF Submitted, Starts, o
  <2>3. PICK new \in Job : /\ new.proto = proto /\ new.pc # "arm"
                           /\ t.queue = Append(OutdatedAll(s.queue), new)
    BY <2>1 DEF Submitted, Beginning
  <2>4. t.job = Superseded(s.job) BY <2>1 DEF Starts
  <2> HIDE DEF t
  <2>5. Named(t) BY <2>2, NoneIsNoKind DEF Named
  <2>6. Turns(t)
    <3> SUFFICES ASSUME o.alone PROVE Turns(t) BY <2>2 DEF Turns
    <3>1. proto \in Psiphon /\ a BY <1>3, <1>4
    <3>2. t.job = None BY <2>4, <3>1 DEF Superseded
    <3>3. OutdatedAll(s.queue) = << >>
      <4>1. OutdatedAll(s.queue) \in Seq(Job) /\ Len(OutdatedAll(s.queue)) = Len(s.queue)
        BY SvcFields, OutdatedQueue
      <4> QED BY <3>1, <4>1
    <3>4. t.queue = << new >> BY <2>3, <3>3
    <3>5. ~o.ladderActive BY <1>3, <3>1
    <3>6. \A r \in Rungs \ o.tried :
               RungsAbove(r, o.ladderIndex) < LadderSize - o.ladderAttempts
      BY <1>4, <3>1, FirstRung, LadderSizeType
    <3> QED BY <1>4, <2>2, <2>3, <3>1, <3>2, <3>4, <3>5, <3>6 DEF Turns
  <2> QED BY <1>3, <2>2, <2>5, <2>6 DEF t
<1> QED BY <1>5, <1>6

LEMMA StartLadder ==
    ASSUME NEW s \in Svc, NEW proto \in Kinds, prefs \in Profiles, Turns(s), Named(s)
    PROVE  LET t == startTunnel(s, proto) IN
           /\ Turns(t) /\ Named(t)
           /\ proto \notin Psiphon /\ Unused(s.psi) => Unused(t.psi)
<1>1. CASE s.connected BY <1>1, StartOnce
<1>2. CASE ~s.connected BY <1>2, StartOpens
<1> QED BY <1>1, <1>2

LEMMA WithoutLadder ==
    ASSUME Turns(svc), Named(svc), GoesOn(svc, svc'), GoesWithout(svc, svc')
    PROVE  Turns(svc)' /\ Named(svc)' /\ (Unused(svc.psi) => Unused(svc'.psi))
<1>1. Named(svc)' BY DEF Named, GoesOn, GoesWithout
<1>2. Turns(svc)' BY DEF Turns, GoesOn, GoesWithout
<1> QED BY <1>1, <1>2 DEF GoesWithout

LEMMA DisarmLadder ==
    ASSUME Named(svc), GoesOn(svc, svc'), Disarmed(svc.psi, svc'.psi),
           svc'.currentProtocol = svc.currentProtocol
    PROVE  Turns(svc)' /\ Named(svc)' /\ (Unused(svc.psi) => Unused(svc'.psi))
<1>1. Named(svc)' BY DEF Named, GoesOn, Disarmed
<1>2. Turns(svc)' BY DEF Turns, Disarmed
<1> QED BY <1>1, <1>2, UnusedStays

LEMMA TakeLadder ==
    ASSUME svc \in Svc, Turns(svc), Named(svc), TakeJob
    PROVE  Turns(svc)' /\ Named(svc)' /\ (Unused(svc.psi) => Unused(svc'.psi))
<1> DEFINE next == Head(svc.queue)
           mode == IF next.proto \notin Native THEN next.proto
                   ELSE IF svc.proxyMode THEN "SOCKS" ELSE "NATIVE"
           j == [next EXCEPT !.proto = mode]
<1>1. /\ svc.job = None /\ svc.queue # << >> /\ svc.queue \in Seq(Job)
      /\ svc'.job = j /\ svc'.queue = Tail(svc.queue) /\ svc'.psi = svc.psi
      /\ svc'.stopRequested = svc.stopRequested
      /\ svc'.currentProtocol = svc.currentProtocol
  BY SvcFields DEF TakeJob, Svc
<1>2. Named(svc)' BY <1>1 DEF Named
<1>3. Turns(svc)'
  <2> SUFFICES ASSUME svc.psi.alone PROVE Turns(svc)' BY <1>1 DEF Turns
  <2>1. PICK job \in Job : svc.queue = << job >> /\ job.proto \in Psiphon /\ job.pc # "arm"
    BY <1>1 DEF Turns
  <2>2. next = job /\ Tail(svc.queue) = << >> BY <2>1
  <2>3. mode = job.proto BY <2>1, <2>2 DEF Psiphon, Native
  <2>4. j.proto = job.proto /\ j.pc = job.pc BY <2>2, <2>3 DEF Job
  <2>5. ~svc.psi.ladderActive BY <1>1 DEF Turns
  <2> HIDE DEF j
  <2> QED BY <1>1, <2>1, <2>2, <2>4, <2>5 DEF Turns
<1> QED BY <1>1, <1>2, <1>3

LEMMA NextLadder ==
    ASSUME LadderInv, Next
    PROVE  LadderInv'
<1>0. /\ svc \in Svc /\ prefs \in Profiles /\ VpnInv /\ Inv /\ OldInv /\ prefs' = prefs
      /\ Turns(svc) /\ Named(svc) /\ UnusedInv
  BY DEF LadderInv, Inv, VpnInv, Good, Next
<1>1. Inv' /\ OldInv' BY <1>0, InvStep, OldInvStep
<1> DEFINE Kept == Turns(svc)' /\ Named(svc)' /\ UnusedInv'
<1> SUFFICES Kept BY <1>1 DEF LadderInv
<1>2. CASE Plain BY <1>0, <1>2, PlainSteps, WithoutLadder DEF UnusedInv
<1>3. CASE Stopping BY <1>0, <1>3, StoppingSteps, WithoutLadder, DisarmLadder DEF UnusedInv
<1>4. CASE TakeJob BY <1>0, <1>4, TakeLadder DEF UnusedInv
<1>5. CASE Destroy
  <2> DEFINE c == cancelAutoReconnect(svc)
             t == stopTunnel(c, FALSE, TRUE)
             q == [t.psi EXCEPT !.attributionPending = FALSE]
  <2>1. svc' = [t EXCEPT !.life = "none", !.tun = "none", !.quickTask = None,
                         !.queue = << >>, !.psi.attributionPending = FALSE]
    BY <1>5 DEF Destroy
  <2>2. Quiet(svc, c) /\ c \in Svc BY <1>0, QuietCancel DEF Quiet
  <2> HIDE DEF c
  <2>3. /\ t \in Svc /\ Disarmed(svc.psi, t.psi) /\ t.job = svc.job
        /\ t.currentProtocol = svc.currentProtocol
    <3>1. Stops(c, t) BY <2>2, StopTunnelStops
    <3> HIDE DEF t
    <3>2. c.psi = svc.psi /\ c.job = svc.job /\ c.currentProtocol = svc.currentProtocol
      BY <2>2 DEF Quiet, Keeps
    <3> QED BY <3>1, <3>2 DEF Stops, Keeps
  <2> HIDE DEF t
  <2>4. /\ svc'.queue = << >> /\ svc'.psi = q /\ svc'.job = svc.job
        /\ svc'.currentProtocol = svc.currentProtocol
    BY <2>1, <2>3 DEF Svc
  <2>5. ~q.ladderActive /\ ~q.alone /\ (Unused(t.psi) => Unused(q))
    BY <2>3 DEF Svc, Psi, Disarmed, Unused
  <2> HIDE DEF q
  <2>6. Turns(svc)' BY <2>4, <2>5 DEF Turns
  <2>7. Named(svc)' BY <1>0, <2>4, <2>5 DEF Named
  <2>8. Unused(svc.psi) => Unused(svc'.psi) BY <2>3, <2>4, <2>5, UnusedStays
  <2> QED BY <1>0, <2>6, <2>7, <2>8 DEF UnusedInv
<1>6. CASE RetryStart \/ QuickStart
  <2>1. svc' = startTunnel(svc, sched.config) /\ sched.config \in Kinds
    BY <1>0, <1>6 DEF RetryStart, QuickStart, VpnInv
  <2>2. /\ Turns(svc)' /\ Named(svc)'
        /\ sched.config \notin Psiphon /\ Unused(svc.psi) => Unused(svc'.psi)
    BY <1>0, <2>1, StartLadder
  <2>3. prefs.transports \subseteq Native \/ prefs.transports \subseteq Fronts
            => sched.config \notin Psiphon
    BY <1>0, <2>1, NoneIsNoKind DEF Inv, NativeInv, FrontInv, Native, Fronts, Psiphon
  <2> QED BY <1>0, <2>2, <2>3 DEF UnusedInv
<1>7. ASSUME NEW proto \in prefs.transports, Connect(proto) PROVE Kept
  <2>1. proto \in Kinds BY <1>0, ProfilesAssumption DEF Profile
  <2>2. PICK s \in Svc : /\ svc' = startTunnel(s, proto)
                         /\ \/ /\ s.job = svc.job /\ s.queue = svc.queue /\ s.psi = svc.psi
                               /\ s.currentProtocol = svc.currentProtocol
                               /\ s.stopRequested = svc.stopRequested
                            \/ /\ s.job = None /\ s.queue = << >>
                               /\ ~s.psi.ladderActive /\ ~s.psi.alone
                               /\ Unused(svc.psi) => Unused(s.psi)
    BY <1>0, <1>7, ConnectFrom
  <2>3. Turns(s) /\ Named(s) /\ (Unused(svc.psi) => Unused(s.psi))
    BY <1>0, <2>2 DEF Turns, Named
  <2>4. /\ Turns(svc)' /\ Named(svc)'
        /\ proto \notin Psiphon /\ Unused(s.psi) => Unused(svc'.psi)
    BY <1>0, <2>1, <2>2, <2>3, StartLadder
  <2>5. prefs.transports \subseteq Native \/ prefs.transports \subseteq Fronts
            => proto \notin Psiphon
    BY DEF Native, Fronts, Psiphon
  <2> QED BY <1>0, <2>3, <2>4, <2>5 DEF UnusedInv
<1> HIDE DEF Kept
<1> QED BY <1>2, <1>3, <1>4, <1>5, <1>6, <1>7
        DEF Next, User, Scheduler, Worker, World, CoreStopped, OldStep, Plain, Stopping

-----------------------------------------------------------------------------
(* escalateLadder and onExiting *)

(* What a method that may move the ladder does to s: it dials on, or it    *)
(* stops the session, and one with a TUN only after the last rung.         *)
Moves(s, t) ==
    /\ Good(t) /\ Named(t) /\ Turns(t)
    /\ t.job = s.job
    /\ t.psi.alone => s.psi.alone
    /\ t.psi.alone /\ s.job # None =>
           t.psi.regionPhase = s.psi.regionPhase /\ t.psi.ladderIndex = s.psi.ladderIndex
    /\ s.psi.alone /\ ~s.proxyMode /\ t.stopRequested => s.psi.tried = Rungs
    /\ s.psi.alone /\ ~s.proxyMode /\ s.job # None => t.psi.alone

LEMMA StopsMoves ==
    ASSUME NEW s, NEW t, Good(s), Named(s), Stops(s, t),
           s.psi.alone /\ ~s.proxyMode => s.psi.tried = Rungs /\ s.job = None
    PROVE  Moves(s, t)
<1>1. Good(t) BY StopsGood
<1>2. Named(t) BY DEF Named, Stops, Keeps, Disarmed
<1>3. Turns(t) BY DEF Turns, Stops, Disarmed
<1> QED BY <1>1, <1>2, <1>3 DEF Moves, Stops, Keeps, Disarmed

LEMMA RedialQueues ==
    ASSUME NEW s \in Svc, s.currentProtocol \in Kinds
    PROVE  LET t == Redial(s) IN
           /\ t \in Svc
           /\ \E job \in Job : /\ job.proto = s.currentProtocol /\ job.pc # "arm"
                               /\ t.queue = Append(s.queue, job)
           /\ t.job = s.job /\ t.psi = s.psi
           /\ t.currentProtocol = s.currentProtocol /\ t.storedConfig = s.storedConfig
           /\ t.reconnectTask = s.reconnectTask /\ t.connected = s.connected
           /\ t.stopRequested = s.stopRequested /\ t.proxyMode = s.proxyMode
           /\ t.attached = s.attached
<1> DEFINE u == sendStatus(s, "CONNECTING")
           job == [pc |-> "redial", proto |-> s.currentProtocol, cur |-> TRUE,
                   armed |-> FALSE, again |-> TRUE]
           q == Append(s.queue, job)
           t == Redial(s)
<1>1. Beside(s, u) /\ u.psi = s.psi BY StatusBeside DEF Statuses
<1>2. job \in Job /\ job.proto = s.currentProtocol /\ job.pc # "arm" BY DEF Job, JobPC
<1>3. u \in Svc /\ u.queue = s.queue BY <1>1 DEF Beside
<1>4. t = [u EXCEPT !.queue = q] BY <1>3 DEF Redial, Svc
<1> HIDE DEF u, job, t
<1>5. q \in Seq(Job) BY <1>2, SvcFields
<1>6. t \in Svc
  <2> HIDE DEF q
  <2> QED BY <1>3, <1>4, <1>5 DEF Svc
<1>7. /\ t.queue = q /\ t.job = u.job /\ t.psi = u.psi
      /\ t.currentProtocol = u.currentProtocol /\ t.storedConfig = u.storedConfig
      /\ t.reconnectTask = u.reconnectTask /\ t.connected = u.connected
      /\ t.stopRequested = u.stopRequested /\ t.proxyMode = u.proxyMode
      /\ t.attached = u.attached
  <2> HIDE DEF q
  <2> QED BY <1>3, <1>4 DEF Svc
<1> QED BY <1>1, <1>2, <1>6, <1>7 DEF Beside, t

LEMMA BesideStops ==
    ASSUME NEW s, NEW u, NEW t, Beside(s, u), Keeps(s, u), Stops(u, t),
           u.psi.ctrl = s.psi.ctrl, u.psi.handle = s.psi.handle, u.psi.stops = s.psi.stops,
           u.psi.attributionPending = s.psi.attributionPending
    PROVE  Stops(s, t)
BY DEF Beside, Keeps, Stops, Disarmed

(* Every rung has had a turn when the last one is given up. *)
LEMMA LastRung ==
    ASSUME NEW s \in Svc, Turns(s), s.psi.alone, s.psi.ladderActive, ~s.psi.regionPhase,
           s.psi.ladderAttempts + 1 >= LadderSize
    PROVE  s.psi.tried = Rungs
<1>1. s.psi \in Psi BY SvcFields
<1>2. /\ s.psi.tried \in SUBSET Rungs /\ s.psi.ladderIndex \in Rungs
      /\ s.psi.ladderAttempts \in Rungs
  BY <1>1 DEF Psi
<1>3. s.psi.ladderIndex \in s.psi.tried BY DEF Turns
<1> SUFFICES ASSUME NEW r \in Rungs \ s.psi.tried PROVE FALSE BY <1>2
<1>4. RungsAbove(r, s.psi.ladderIndex) < LadderSize - s.psi.ladderAttempts BY DEF Turns
<1>5. RungsAbove(r, s.psi.ladderIndex) = 0 BY <1>2, <1>4, FirstRung, LadderSizeType DEF Rungs
<1> QED BY <1>2, <1>3, <1>5, FirstRung

(* The rungs dialled so far stay dialled as the ladder moves up. *)
LEMMA RungUp ==
    ASSUME NEW s \in Svc, Turns(s), s.psi.alone, s.psi.ladderActive, ~s.psi.regionPhase
    PROVE  \A r \in Rungs \ s.psi.tried :
               RungsAbove(r, (s.psi.ladderIndex + 1) % LadderSize)
                   < LadderSize - (s.psi.ladderAttempts + 1)
<1>1. s.psi \in Psi BY SvcFields
<1>2. s.psi.ladderIndex \in Rungs /\ s.psi.ladderAttempts \in Rungs BY <1>1 DEF Psi
<1>3. s.psi.ladderIndex \in s.psi.tried BY DEF Turns
<1> SUFFICES ASSUME NEW r \in Rungs \ s.psi.tried
             PROVE  RungsAbove(r, (s.psi.ladderIndex + 1) % LadderSize)
                        < LadderSize - (s.psi.ladderAttempts + 1)
  OBVIOUS
<1>4. RungsAbove(r, s.psi.ladderIndex) < LadderSize - s.psi.ladderAttempts BY DEF Turns
<1>5. RungsAbove(r, (s.psi.ladderIndex + 1) % LadderSize) = RungsAbove(r, s.psi.ladderIndex) - 1
  BY <1>2, <1>3, OneRungUp
<1>6. RungsAbove(r, s.psi.ladderIndex) \in Nat BY <1>2, FirstRung, LadderSizeType
<1> QED BY <1>2, <1>4, <1>5, <1>6, LadderSizeType DEF Rungs

(* Dialling again, with Psiphon's part p. *)
LEMMA RedialMoves ==
    ASSUME NEW s, Good(s), Named(s), Turns(s), s.psi.ladderActive, NEW p \in Psi,
           p.alone = s.psi.alone, ~p.ladderActive,
           p.psiphonVpnActivated = s.psi.psiphonVpnActivated,
           s.psi.alone => \A r \in Rungs \ p.tried :
                              RungsAbove(r, p.ladderIndex) < LadderSize - p.ladderAttempts
    PROVE  LET t == Redial([s EXCEPT !.psi = p]) IN
           /\ Moves(s, t) /\ t.psi = p
           /\ t.proxyMode = s.proxyMode
<1> DEFINE u == [s EXCEPT !.psi = p]
           t == Redial(u)
<1>1. s \in Svc /\ s.currentProtocol \in Kinds BY SvcFields DEF Good, Named
<1>2. Beside(s, u) /\ u.psi = p BY <1>1, PsiBeside
<1> HIDE DEF u
<1>3. u \in Svc /\ u.currentProtocol \in Kinds BY <1>1, <1>2 DEF Beside
<1>4. /\ t \in Svc
      /\ \E job \in Job : /\ job.proto = u.currentProtocol /\ job.pc # "arm"
                          /\ t.queue = Append(u.queue, job)
      /\ t.job = u.job /\ t.psi = u.psi
      /\ t.currentProtocol = u.currentProtocol /\ t.storedConfig = u.storedConfig
      /\ t.reconnectTask = u.reconnectTask /\ t.connected = u.connected
      /\ t.stopRequested = u.stopRequested /\ t.proxyMode = u.proxyMode
      /\ t.attached = u.attached
  BY <1>3, RedialQueues
<1> HIDE DEF t
<1>5. /\ t.job = s.job /\ t.psi = p /\ t.currentProtocol = s.currentProtocol
      /\ t.storedConfig = s.storedConfig /\ t.reconnectTask = s.reconnectTask
      /\ t.stopRequested = s.stopRequested /\ t.proxyMode = s.proxyMode
      /\ t.attached = s.attached
  BY <1>2, <1>4 DEF Beside
<1>6. Good(t) BY <1>4, <1>5 DEF Good, Heard
<1>7. Named(t) BY <1>1, <1>5, NoneIsNoKind DEF Named
<1>8. Turns(t)
  <2> SUFFICES ASSUME p.alone PROVE Turns(t) BY <1>5 DEF Turns
  <2>1. s.psi.alone /\ s.job = None /\ s.queue = << >> BY DEF Turns
  <2>2. PICK job \in Job : /\ job.proto = s.currentProtocol /\ job.pc # "arm"
                           /\ t.queue = Append(s.queue, job)
    BY <1>2, <1>4 DEF Beside
  <2>3. t.queue = << job >> /\ job.proto \in Psiphon BY <2>1, <2>2 DEF Turns
  <2> QED BY <1>5, <2>1, <2>2, <2>3 DEF Turns
<1>9. s.psi.alone => s.job = None /\ ~s.stopRequested BY DEF Turns
<1> QED BY <1>5, <1>6, <1>7, <1>8, <1>9 DEF Moves, t, u

LEMMA EscalateMoves ==
    ASSUME NEW s, Good(s), Named(s), Turns(s), prefs \in Profiles
    PROVE  LET t == escalateLadder(s) IN
           /\ Moves(s, t)
           /\ \/ t.stopRequested
              \/ /\ t.proxyMode = s.proxyMode
                 /\ t.psi.psiphonVpnActivated = s.psi.psiphonVpnActivated
<1> DEFINE t == escalateLadder(s)
           p == s.psi
<1>0. s \in Svc BY DEF Good
<1>1. p \in Psi BY <1>0, SvcFields
<1>2. p.ladderIndex \in Rungs /\ p.ladderAttempts \in Rungs BY <1>1 DEF Psi
<1>3. CASE s.stopRequested \/ ~p.ladderActive
  <2>1. t = s BY <1>3 DEF escalateLadder
  <2>2. s.psi.alone => ~s.stopRequested BY DEF Turns
  <2> QED BY <2>1, <2>2 DEF Moves
<1>4. CASE ~s.stopRequested /\ p.ladderActive /\ p.regionPhase
  <2> DEFINE q == [p EXCEPT !.ladderActive = FALSE, !.ladderTimer = FALSE, !.regionPhase = FALSE]
  <2>1. q \in Psi BY <1>1, Zenon DEF Psi
  <2>2. /\ q.alone = p.alone /\ ~q.ladderActive /\ q.tried = p.tried
        /\ q.psiphonVpnActivated = p.psiphonVpnActivated
        /\ q.ladderIndex = p.ladderIndex /\ q.ladderAttempts = p.ladderAttempts
    BY <1>1 DEF Psi
  <2>3. t = Redial([s EXCEPT !.psi = q]) BY <1>0, <1>4 DEF escalateLadder, Svc
  <2> HIDE DEF q, t
  <2>4. p.alone => \A r \in Rungs \ q.tried :
                       RungsAbove(r, q.ladderIndex) < LadderSize - q.ladderAttempts
    BY <2>2 DEF Turns
  <2>5. Moves(s, t) /\ t.psi = q /\ t.proxyMode = s.proxyMode
    BY <1>4, <2>1, <2>2, <2>3, <2>4, RedialMoves
  <2> QED BY <2>2, <2>5 DEF t
<1>5. CASE ~s.stopRequested /\ p.ladderActive /\ ~p.regionPhase
           /\ p.ladderAttempts + 1 >= LadderSize
  <2> DEFINE q == [p EXCEPT !.ladderActive = FALSE, !.ladderTimer = FALSE,
                            !.ladderIndex = 0, !.ladderAttempts = 0]
             u == [s EXCEPT !.psi = q]
  <2>0. 0 \in Rungs BY LadderSizeType DEF Rungs
  <2>1. q \in Psi BY <1>1, <2>0, Zenon DEF Psi
  <2>2. /\ q.ctrl = p.ctrl /\ q.handle = p.handle /\ q.stops = p.stops
        /\ q.attributionPending = p.attributionPending
    BY <1>1 DEF Psi
  <2>3. t = failAndStop(u) BY <1>0, <1>5 DEF escalateLadder, Svc
  <2> HIDE DEF q, t
  <2>4. Beside(s, u) /\ Keeps(s, u) /\ u.psi = q BY <1>0, <2>1, PsiBeside
  <2> HIDE DEF u
  <2>5. Stops(u, t) BY <2>3, <2>4, FailAndStopStops DEF Beside
  <2>6. Stops(s, t) BY <2>2, <2>4, <2>5, BesideStops
  <2>7. s.psi.alone => s.psi.tried = Rungs /\ s.job = None
    BY <1>0, <1>5, LastRung DEF Turns
  <2>8. Moves(s, t) BY <2>6, <2>7, StopsMoves
  <2> QED BY <2>6, <2>8 DEF Stops, t
<1>6. CASE ~s.stopRequested /\ p.ladderActive /\ ~p.regionPhase
           /\ ~(p.ladderAttempts + 1 >= LadderSize)
  <2> DEFINE i == (p.ladderIndex + 1) % LadderSize
             n == p.ladderAttempts + 1
             q == [p EXCEPT !.ladderActive = FALSE, !.ladderTimer = FALSE,
                            !.ladderIndex = i, !.ladderAttempts = n]
  <2>0. i \in Rungs /\ n \in Rungs BY <1>2, <1>6, NextRung, LadderSizeType DEF Rungs
  <2>3. t = Redial([s EXCEPT !.psi = q]) BY <1>0, <1>1, <1>6 DEF escalateLadder, Svc, Psi
  <2>4. p.alone => \A r \in Rungs \ p.tried : RungsAbove(r, i) < LadderSize - n
    BY <1>0, <1>6, RungUp
  <2> HIDE DEF i, n, t
  <2>1. q \in Psi BY <1>1, <2>0, Zenon DEF Psi
  <2>2. /\ q.alone = p.alone /\ ~q.ladderActive /\ q.tried = p.tried
        /\ q.psiphonVpnActivated = p.psiphonVpnActivated
        /\ q.ladderIndex = i /\ q.ladderAttempts = n
    BY <1>1 DEF Psi
  <2> HIDE DEF q
  <2>5. Moves(s, t) /\ t.psi = q /\ t.proxyMode = s.proxyMode
    BY <1>6, <2>1, <2>2, <2>3, <2>4, RedialMoves
  <2> QED BY <2>2, <2>5 DEF t
<1> QED BY <1>3, <1>4, <1>5, <1>6

(* s and u agree on what the ladder is about. *)
SameLadder(s, u) ==
    /\ Beside(s, u)
    /\ u.psi.alone = s.psi.alone /\ u.psi.ladderActive = s.psi.ladderActive
    /\ u.psi.regionPhase = s.psi.regionPhase /\ u.psi.tried = s.psi.tried
    /\ u.psi.ladderIndex = s.psi.ladderIndex /\ u.psi.ladderAttempts = s.psi.ladderAttempts
    /\ u.psi.psiphonVpnActivated = s.psi.psiphonVpnActivated

LEMMA SameLadderKeeps ==
    ASSUME NEW s, NEW u, Good(s), Named(s), Turns(s), SameLadder(s, u)
    PROVE  Good(u) /\ Named(u) /\ Turns(u)
<1>1. Good(u) BY BesideGood DEF SameLadder
<1>2. Named(u) BY DEF SameLadder, Named, Beside
<1>3. Turns(u) BY DEF SameLadder, Turns, Beside
<1> QED BY <1>1, <1>2, <1>3

LEMMA SameLadderMoves ==
    ASSUME NEW s, NEW u, NEW t, SameLadder(s, u), Moves(u, t)
    PROVE  Moves(s, t)
BY DEF SameLadder, Moves, Beside

(* Nothing moves. *)
LEMMA StaysMoves ==
    ASSUME NEW s, Good(s), Named(s), Turns(s)
    PROVE  Moves(s, s)
<1>1. s.psi.alone => ~s.stopRequested BY DEF Turns
<1> QED BY <1>1 DEF Moves

LEMMA TunnelLostStops ==
    ASSUME NEW s \in Svc, prefs \in Profiles
    PROVE  onTunnelLost(s) = s \/ Stops(s, onTunnelLost(s))
<1>1. \/ onTunnelLost(s) = s \/ onTunnelLost(s) = Replace(s)
      \/ onTunnelLost(s) = LeaveDown(s)
  BY DEF onTunnelLost
<1> QED BY <1>1, ReplaceStops, LeaveDownStops

LEMMA ExitingMoves ==
    ASSUME NEW s, Good(s), Named(s), Turns(s), prefs \in Profiles
    PROVE  Moves(s, onExiting(s))
<1> DEFINE q == [s.psi EXCEPT !.handle = FALSE]
           gone == [s EXCEPT !.psi = q]
           next == IF ~gone.stopRequested /\ ~gone.psi.psiphonVpnActivated
                          /\ gone.psi.ladderActive
                       THEN escalateLadder(gone) ELSE gone
           t == onExiting(s)
<1>0. s \in Svc /\ s.psi \in Psi BY SvcFields DEF Good
<1>1. CASE ~s.psi.stamped BY <1>1, StaysMoves DEF onExiting
<1>2. CASE s.psi.stamped
  <2>1. t = IF /\ ~next.stopRequested /\ ~next.userInitiatedStop
               /\ next.psi.psiphonVpnActivated \/ next.proxyMode
               /\ next.connected
            THEN onTunnelLost(next) ELSE next
    <3>1. gone = [s EXCEPT !.psi.handle = FALSE] BY <1>0 DEF Svc
    <3> HIDE DEF gone
    <3> QED BY <1>2, <3>1 DEF onExiting
  <2>2. SameLadder(s, gone)
    <3>1. q \in Psi BY <1>0, Zenon DEF Psi
    <3>2. /\ q.alone = s.psi.alone /\ q.ladderActive = s.psi.ladderActive
          /\ q.regionPhase = s.psi.regionPhase /\ q.tried = s.psi.tried
          /\ q.ladderIndex = s.psi.ladderIndex /\ q.ladderAttempts = s.psi.ladderAttempts
          /\ q.psiphonVpnActivated = s.psi.psiphonVpnActivated
      BY <1>0 DEF Psi
    <3> HIDE DEF q
    <3> QED BY <1>0, <3>1, <3>2, PsiBeside DEF SameLadder
  <2> HIDE DEF gone, t
  <2>3. Good(gone) /\ Named(gone) /\ Turns(gone) BY <2>2, SameLadderKeeps
  <2>4. /\ Moves(gone, next)
        /\ \/ next.stopRequested
           \/ /\ next.proxyMode = gone.proxyMode
              /\ next.psi.psiphonVpnActivated = gone.psi.psiphonVpnActivated
    BY <2>3, EscalateMoves, StaysMoves
  <2> HIDE DEF next
  <2>5. CASE t = next BY <2>2, <2>4, <2>5, SameLadderMoves DEF t
  <2>6. CASE t # next
    <3>1. /\ ~next.stopRequested /\ (next.psi.psiphonVpnActivated \/ next.proxyMode)
          /\ t = onTunnelLost(next)
      BY <2>1, <2>6
    <3>2. next \in Svc /\ Good(next) /\ Named(next) /\ next.job = gone.job
      BY <2>4 DEF Moves, Good
    <3>3. Stops(next, t) BY <2>6, <3>1, <3>2, TunnelLostStops
    <3>4. ~(gone.psi.alone /\ ~gone.proxyMode) BY <2>3, <2>4, <3>1 DEF Turns
    <3>5. Good(t) BY <3>2, <3>3, StopsGood
    <3>6. Named(t) /\ Turns(t) /\ t.job = gone.job /\ ~t.psi.alone
      BY <3>2, <3>3 DEF Named, Turns, Stops, Keeps, Disarmed
    <3>7. Moves(gone, t) BY <3>4, <3>5, <3>6 DEF Moves
    <3> QED BY <2>2, <3>7, SameLadderMoves DEF t
  <2> QED BY <2>5, <2>6
<1> QED BY <1>1, <1>2

(* The library's own fields are not the ladder's. *)
LEMMA LibrarySame ==
    ASSUME NEW s \in Svc, NEW c \in {"none", "dialing", "up", "foreign"}, NEW n \in 0 .. MaxStops
    PROVE  LET t == [s EXCEPT !.psi = [s.psi EXCEPT !.ctrl = c, !.stops = n]] IN
           SameLadder(s, t) /\ t.psi.ctrl = c /\ t.psi.stops = n
<1> DEFINE q == [s.psi EXCEPT !.ctrl = c, !.stops = n]
<1>0. s.psi \in Psi BY SvcFields
<1>1. q \in Psi BY <1>0, Zenon DEF Psi
<1>2. /\ q.alone = s.psi.alone /\ q.ladderActive = s.psi.ladderActive
      /\ q.regionPhase = s.psi.regionPhase /\ q.tried = s.psi.tried
      /\ q.ladderIndex = s.psi.ladderIndex /\ q.ladderAttempts = s.psi.ladderAttempts
      /\ q.psiphonVpnActivated = s.psi.psiphonVpnActivated
      /\ q.ctrl = c /\ q.stops = n
  BY <1>0 DEF Psi
<1> HIDE DEF q
<1> QED BY <1>1, <1>2, PsiBeside DEF SameLadder, q

LEMMA ControllerSame ==
    ASSUME NEW s \in Svc, NEW c \in {"none", "dialing", "up", "foreign"}
    PROVE  SameLadder(s, [s EXCEPT !.psi.ctrl = c])
<1> DEFINE n == s.psi.stops
<1>0. s.psi \in Psi /\ n \in 0 .. MaxStops BY SvcFields DEF Psi
<1>1. [s EXCEPT !.psi.ctrl = c] = [s EXCEPT !.psi = [s.psi EXCEPT !.ctrl = c, !.stops = n]]
  BY <1>0 DEF Svc, Psi
<1> HIDE DEF n
<1>2. SameLadder(s, [s EXCEPT !.psi = [s.psi EXCEPT !.ctrl = c, !.stops = n]])
  BY <1>0, LibrarySame, Zenon
<1> QED BY <1>1, <1>2

LEMMA StopLibraryMoves ==
    ASSUME NEW s, Good(s), Named(s), Turns(s), prefs \in Profiles
    PROVE  Moves(s, StopLibrary(s))
<1> DEFINE u == [s EXCEPT !.psi.ctrl = "none"]
<1>1. SameLadder(s, u) BY ControllerSame DEF Good
<1>2. StopLibrary(s) = u \/ StopLibrary(s) = onExiting(u) BY DEF StopLibrary
<1> HIDE DEF u
<1>3. Good(u) /\ Named(u) /\ Turns(u) BY <1>1, SameLadderKeeps
<1>4. Moves(u, u) /\ Moves(u, onExiting(u)) BY <1>3, StaysMoves, ExitingMoves
<1> QED BY <1>1, <1>2, <1>4, SameLadderMoves

-----------------------------------------------------------------------------
(* The steps of a Psiphon session *)

Laddered(s) == Good(s) /\ Named(s) /\ Turns(s)

(* The library, its stop threads and the timer. *)
LEMMA StepLibrary ==
    ASSUME Laddered(svc), prefs \in Profiles, PsiphonExits \/ PsiphonStop \/ LadderTimer
    PROVE  Moves(svc, svc')
<1>0. Good(svc) /\ Named(svc) /\ Turns(svc) /\ svc \in Svc /\ svc.psi \in Psi
  BY SvcFields DEF Laddered, Good
<1>1. CASE PsiphonExits
  <2> DEFINE u == [svc EXCEPT !.psi.ctrl = "none"]
  <2>1. SameLadder(svc, u) BY <1>0, ControllerSame
  <2>2. svc' = onExiting(u) BY <1>1 DEF PsiphonExits
  <2> HIDE DEF u
  <2>3. Good(u) /\ Named(u) /\ Turns(u) BY <1>0, <2>1, SameLadderKeeps
  <2> QED BY <2>1, <2>2, <2>3, ExitingMoves, SameLadderMoves
<1>2. CASE PsiphonStop
  <2> DEFINE n == svc.psi.stops - 1
             c == svc.psi.ctrl
             u == [svc EXCEPT !.psi = [svc.psi EXCEPT !.ctrl = c, !.stops = n]]
  <2>1. n \in 0 .. MaxStops /\ c \in {"none", "dialing", "up", "foreign"}
    <3>1. svc.psi.stops \in 0 .. MaxStops /\ svc.psi.stops > 0 /\ MaxStops \in Nat
      BY <1>0, <1>2, BoundsAssumption DEF Psi, PsiphonStop
    <3> QED BY <1>0, <3>1 DEF Psi
  <2>2. svc' = StopLibrary(u)
    <3>1. u = [svc EXCEPT !.psi.stops = @ - 1] BY <1>0 DEF Svc, Psi
    <3> HIDE DEF u
    <3> QED BY <1>2, <3>1 DEF PsiphonStop
  <2> HIDE DEF n, c
  <2>3. SameLadder(svc, u) BY <1>0, <2>1, LibrarySame, Zenon
  <2> HIDE DEF u
  <2>4. Good(u) /\ Named(u) /\ Turns(u) BY <1>0, <2>3, SameLadderKeeps
  <2> QED BY <2>2, <2>3, <2>4, StopLibraryMoves, SameLadderMoves
<1>3. CASE LadderTimer
  <2> DEFINE q == [svc.psi EXCEPT !.ladderTimer = FALSE]
             u == [svc EXCEPT !.psi = q]
  <2>1. q \in Psi BY <1>0, Zenon DEF Psi
  <2>2. /\ q.alone = svc.psi.alone /\ q.ladderActive = svc.psi.ladderActive
        /\ q.regionPhase = svc.psi.regionPhase /\ q.tried = svc.psi.tried
        /\ q.ladderIndex = svc.psi.ladderIndex /\ q.ladderAttempts = svc.psi.ladderAttempts
        /\ q.psiphonVpnActivated = svc.psi.psiphonVpnActivated
    BY <1>0 DEF Psi
  <2>3. svc' = escalateLadder(u) \/ svc' = u
    <3>1. u = [svc EXCEPT !.psi.ladderTimer = FALSE] BY <1>0 DEF Svc
    <3> HIDE DEF u
    <3> QED BY <1>3, <3>1 DEF LadderTimer
  <2> HIDE DEF q
  <2>4. SameLadder(svc, u) BY <1>0, <2>1, <2>2, PsiBeside DEF SameLadder
  <2> HIDE DEF u
  <2>5. Good(u) /\ Named(u) /\ Turns(u) BY <1>0, <2>4, SameLadderKeeps
  <2>6. Moves(u, escalateLadder(u)) /\ Moves(u, u) BY <2>5, EscalateMoves, StaysMoves
  <2> QED BY <2>3, <2>4, <2>6, SameLadderMoves
<1> QED BY <1>1, <1>2, <1>3

LEMMA StepAttribute ==
    ASSUME Laddered(svc), Attribute
    PROVE  Laddered(svc')
<1>0. Good(svc) /\ Named(svc) /\ Turns(svc) /\ svc \in Svc /\ svc.psi \in Psi
  BY SvcFields DEF Laddered, Good
<1>1. PICK winner \in Rungs :
          svc' = [svc EXCEPT !.psi.attributionPending = FALSE,
                             !.psi.remembered = IF svc.stopRequested THEN @ ELSE winner]
  BY DEF Attribute
<1> DEFINE r == IF svc.stopRequested THEN svc.psi.remembered ELSE winner
           q == [svc.psi EXCEPT !.attributionPending = FALSE, !.remembered = r]
           u == [svc EXCEPT !.psi = q]
<1>2. r \in Rungs BY <1>0 DEF Psi
<1>3. svc' = u BY <1>0, <1>1 DEF Svc, Psi
<1> HIDE DEF r
<1>4. q \in Psi BY <1>0, <1>2, Zenon DEF Psi
<1>5. /\ q.alone = svc.psi.alone /\ q.ladderActive = svc.psi.ladderActive
      /\ q.regionPhase = svc.psi.regionPhase /\ q.tried = svc.psi.tried
      /\ q.ladderIndex = svc.psi.ladderIndex /\ q.ladderAttempts = svc.psi.ladderAttempts
      /\ q.psiphonVpnActivated = svc.psi.psiphonVpnActivated
  BY <1>0 DEF Psi
<1> HIDE DEF q
<1>6. SameLadder(svc, u) BY <1>0, <1>4, <1>5, PsiBeside DEF SameLadder
<1> QED BY <1>0, <1>3, <1>6, SameLadderKeeps DEF Laddered

(* Once a session has been up its ladder is over. *)
LEMMA OverLaddered ==
    ASSUME NEW s, NEW t, Good(t), ~t.psi.alone, ~t.psi.ladderActive,
           Named(s), t.job = s.job, t.queue = s.queue, t.currentProtocol = s.currentProtocol
    PROVE  Laddered(t)
BY DEF Laddered, Named, Turns

LEMMA InUseOver ==
    ASSUME NEW s, Good(s), Named(s), ~s.psi.alone, ~s.psi.ladderActive
    PROVE  Laddered(InUse(s))
<1> DEFINE u == sendStatus(s, "CONNECTED")
           t == InUse(s)
<1>1. Beside(s, u) /\ u.psi = s.psi /\ u \in Svc
  BY StatusBeside DEF Statuses, Good, Beside
<1>2. t = [u EXCEPT !.connected = TRUE, !.watchdogTask = TRUE, !.carried = TRUE]
  BY DEF InUse
<1> HIDE DEF u, t
<1>3. t \in Svc BY <1>1, <1>2, ZenonT(60) DEF Svc
<1>4. /\ t.job = u.job /\ t.queue = u.queue /\ t.currentProtocol = u.currentProtocol
      /\ t.storedConfig = u.storedConfig /\ t.reconnectTask = u.reconnectTask
      /\ t.stopRequested = u.stopRequested /\ t.attached = u.attached /\ t.psi = u.psi
  BY <1>1, <1>2 DEF Svc
<1>5. Good(t) BY <1>1, <1>3, <1>4 DEF Good, Heard, Beside
<1> QED BY <1>1, <1>4, <1>5, OverLaddered DEF Beside, t

LEMMA StepPsiphonConnected ==
    ASSUME Laddered(svc), prefs \in Profiles, PsiphonConnected
    PROVE  Laddered(svc')
<1> DEFINE s == [svc EXCEPT !.psi.ctrl = "up"]
           q == [s.psi EXCEPT !.ladderActive = FALSE, !.ladderTimer = FALSE,
              !.ladderAttempts = 0, !.regionPhase = FALSE,
              !.attributionPending = TRUE, !.tried = {}, !.alone = FALSE]
           u == [s EXCEPT !.psi = q]
           a == [q EXCEPT !.psiphonVpnActivated = TRUE]
           v == [u EXCEPT !.psi = a]
           w == [v EXCEPT !.tun2socks = TRUE]
<1>0. Good(svc) /\ Named(svc) /\ Turns(svc) /\ svc \in Svc
  BY DEF Laddered, Good
<1>1. SameLadder(svc, s) BY <1>0, ControllerSame
<1>2. PICK routed \in BOOLEAN : svc' = onConnected(s, routed) BY DEF PsiphonConnected
<1> HIDE DEF s
<1>3. Good(s) /\ Named(s) /\ Turns(s) /\ s \in Svc /\ s.psi \in Psi
  BY <1>0, <1>1, SameLadderKeeps, SvcFields DEF Good
<1>4. Reached(s) = u BY <1>3 DEF Reached, Svc
<1>5. 0 \in Rungs /\ {} \in SUBSET Rungs BY LadderSizeType DEF Rungs
<1>6. q \in Psi BY <1>3, <1>5, Zenon DEF Psi
<1>7. ~q.alone /\ ~q.ladderActive BY <1>3 DEF Psi
<1>8. [u EXCEPT !.tun2socks = TRUE, !.psi.psiphonVpnActivated = TRUE] = w
  <2> HIDE DEF q
  <2> QED BY <1>3, <1>6 DEF Svc
<1>9. \/ svc' = s \/ svc' = InUse(u) \/ svc' = sendStatus(u, "CONNECTED")
      \/ svc' = failAndStop(u) \/ svc' = InUse(w)
  BY <1>2, <1>4, <1>8 DEF onConnected
<1>10. a \in Psi /\ ~a.alone /\ ~a.ladderActive
  <2> HIDE DEF q
  <2>1. a \in Psi BY <1>6, Zenon DEF Psi
  <2> QED BY <1>6, <1>7, <2>1 DEF Psi
<1> HIDE DEF q, a
<1>11. Beside(s, u) /\ u.psi = q /\ u \in Svc BY <1>3, <1>6, PsiBeside DEF Beside
<1>12. Good(u) /\ Named(u) BY <1>3, <1>7, <1>11, BesideGood DEF Named, Beside
<1> HIDE DEF u
<1>13. Beside(u, v) /\ v.psi = a /\ v \in Svc BY <1>10, <1>11, PsiBeside DEF Beside
<1> HIDE DEF v
<1>14. Beside(v, w) /\ w.psi = a
  <2>1. w \in Svc BY <1>13, Zenon DEF Svc
  <2> QED BY <1>13, <2>1 DEF Beside, Svc
<1> HIDE DEF w
<1>15. Good(w) /\ Named(w)
  <2>1. Good(v) BY <1>12, <1>13, BesideGood
  <2>2. Good(w) BY <1>14, <2>1, BesideGood
  <2> QED BY <1>10, <1>12, <1>13, <1>14, <2>2 DEF Named, Beside
<1>16. CASE svc' = s BY <1>3, <1>16 DEF Laddered
<1>17. CASE svc' = InUse(u) BY <1>7, <1>11, <1>12, <1>17, InUseOver
<1>18. CASE svc' = InUse(w) BY <1>10, <1>14, <1>15, <1>18, InUseOver
<1>19. CASE svc' = sendStatus(u, "CONNECTED")
  <2>1. Beside(u, svc') /\ svc'.psi = u.psi BY <1>11, <1>19, StatusBeside DEF Statuses
  <2>2. Good(svc') BY <1>12, <2>1, BesideGood
  <2> QED BY <1>7, <1>11, <1>12, <2>1, <2>2, OverLaddered DEF Beside
<1>20. CASE svc' = failAndStop(u)
  <2>1. Stops(u, svc') BY <1>11, <1>20, FailAndStopStops
  <2>2. Good(svc') BY <1>12, <2>1, StopsGood
  <2> QED BY <1>12, <2>1, <2>2, OverLaddered DEF Stops, Keeps, Disarmed
<1> QED BY <1>9, <1>16, <1>17, <1>18, <1>19, <1>20

(* The job goes on, or ends; the ladder stays as it is, but for the rung   *)
(* that is dialled.                                                        *)
OnJob(s, t) ==
    /\ t \in Svc
    /\ t.queue = s.queue /\ t.currentProtocol = s.currentProtocol
    /\ t.storedConfig = s.storedConfig /\ t.reconnectTask = s.reconnectTask
    /\ t.stopRequested = s.stopRequested
    /\ t.job # None => t.job.proto \in Psiphon
    /\ t.psi.alone = s.psi.alone
    /\ t.psi.ladderActive = s.psi.ladderActive
    /\ t.psi.psiphonVpnActivated = s.psi.psiphonVpnActivated
    /\ t.psi.regionPhase = s.psi.regionPhase
    /\ t.psi.ladderIndex = s.psi.ladderIndex
    /\ t.psi.ladderAttempts = s.psi.ladderAttempts
    /\ s.psi.tried \subseteq t.psi.tried

LEMMA OnJobLaddered ==
    ASSUME NEW s, NEW t, Laddered(s), s.job # None, OnJob(s, t),
           t.psi.alone /\ t.job # None /\ t.job.pc = "arm"
               => t.psi.regionPhase \/ t.psi.ladderIndex \in t.psi.tried
    PROVE  Laddered(t)
<1>1. s.currentProtocol # None BY DEF Laddered, Named
<1>2. Named(t) BY <1>1 DEF OnJob, Named
<1>3. t.job # None => t.job.proto \notin Native BY DEF OnJob, Psiphon, Native
<1>4. Good(t) BY <1>3 DEF OnJob, Good, Heard, Laddered
<1>5. Turns(t)
  <2> SUFFICES ASSUME t.psi.alone PROVE Turns(t) BY DEF Turns
  <2>1. s.psi.alone /\ Turns(s) BY DEF OnJob, Laddered
  <2>2. ~s.psi.ladderActive /\ s.queue = << >> BY <2>1 DEF Turns
  <2>3. \A r \in Rungs \ t.psi.tried :
            RungsAbove(r, t.psi.ladderIndex) < LadderSize - t.psi.ladderAttempts
    BY <2>1 DEF Turns, OnJob
  <2> QED BY <2>1, <2>2, <2>3 DEF Turns, OnJob
<1> QED BY <1>2, <1>4, <1>5 DEF Laddered

(* A step keeps the invariant, and ends a session that has a TUN only      *)
(* after the last rung.                                                    *)
Climbs(s, t) ==
    /\ Laddered(t)
    /\ s.psi.alone /\ ~s.proxyMode /\ ~s.stopRequested /\ t.stopRequested => s.psi.tried = Rungs

LEMMA MovesClimbs ==
    ASSUME NEW s, NEW u, NEW t, Moves(s, u), Laddered(t), t.stopRequested = u.stopRequested
    PROVE  Climbs(s, t)
BY DEF Moves, Climbs

LEMMA PsiphonJob ==
    ASSUME svc \in Svc, NEW pc, At(pc, Psiphon)
    PROVE  /\ svc.job # None /\ svc.job \in Job /\ svc.job.pc = pc
           /\ svc.job.proto \in Psiphon /\ svc.job.proto \notin Native
BY SvcFields DEF At, Psiphon, Native

LEMMA StepPsiphonEstablish ==
    ASSUME Laddered(svc), PsiphonEstablish
    PROVE  Laddered(svc')
<1>0. svc \in Svc /\ svc.psi \in Psi BY SvcFields DEF Laddered, Good
<1> DEFINE j == [svc.job EXCEPT !.pc = "dial"]
           n == IF svc.proxyMode THEN svc.tun ELSE "open"
           u == [svc EXCEPT !.tun = n]
<1>1. /\ svc.job # None /\ svc.job \in Job /\ svc.job.proto \in Psiphon
  BY <1>0, PsiphonJob DEF PsiphonEstablish
<1>2. j \in Job /\ j # None /\ j.pc = "dial" /\ j.proto = svc.job.proto
  BY <1>1, JobMoves DEF JobPC
<1>3. n \in {"none", "open", "blocking"} BY <1>0 DEF Svc
<1>4. svc' = [u EXCEPT !.job = j] BY <1>0 DEF PsiphonEstablish, Svc
<1> HIDE DEF j, n
<1>5. u \in Svc BY <1>0, <1>3 DEF Svc
<1>6. svc' \in Svc
  <2> HIDE DEF u
  <2> QED BY <1>2, <1>4, <1>5 DEF Svc
<1>7. OnJob(svc, svc') BY <1>0, <1>1, <1>2, <1>4, <1>6 DEF OnJob, Svc
<1>8. svc'.job = j BY <1>0, <1>4 DEF Svc
<1> QED BY <1>1, <1>2, <1>7, <1>8, OnJobLaddered

LEMMA StepPsiphonEstablishFails ==
    ASSUME Laddered(svc), PsiphonEstablishFails
    PROVE  Laddered(svc')
<1> DEFINE u == sendStatus(svc, "FAILED")
           failed == [u EXCEPT !.connected = FALSE, !.job = None]
<1>0. svc \in Svc BY DEF Laddered, Good
<1>1. svc.job # None BY <1>0, PsiphonJob DEF PsiphonEstablishFails
<1>2. Beside(svc, u) /\ u.psi = svc.psi /\ u \in Svc BY <1>0, StatusBeside DEF Statuses, Beside
<1>3. svc' = [failed EXCEPT !.reconnectRequested = FALSE] \/ svc' = stopSelf(failed)
  BY DEF PsiphonEstablishFails
<1> HIDE DEF u
<1>4. failed \in Svc /\ failed.job = None /\ failed.psi = svc.psi
         /\ failed.queue = svc.queue /\ failed.currentProtocol = svc.currentProtocol
         /\ failed.storedConfig = svc.storedConfig /\ failed.reconnectTask = svc.reconnectTask
         /\ failed.stopRequested = svc.stopRequested
  <2>1. None \in Job \cup {None} OBVIOUS
  <2>2. failed \in Svc BY <1>2, <2>1, ZenonT(60) DEF Svc
  <2> QED BY <1>2, <2>2 DEF Beside, Svc
<1> HIDE DEF failed
<1>5. svc' \in Svc
  <2>1. CASE svc' = [failed EXCEPT !.reconnectRequested = FALSE]
    <3> DEFINE v == [failed EXCEPT !.reconnectRequested = FALSE]
    <3>1. failed \in Svc /\ FALSE \in BOOLEAN BY <1>4
    <3>2. v \in Svc BY <3>1, ZenonT(60) DEF Svc
    <3> QED BY <2>1, <3>2
  <2>2. CASE svc' = stopSelf(failed) BY <1>4, <2>2, QuietStopSelf DEF Quiet
  <2> QED BY <1>3, <2>1, <2>2
<1>6. /\ svc'.job = None /\ svc'.psi = svc.psi
      /\ svc'.queue = svc.queue /\ svc'.currentProtocol = svc.currentProtocol
      /\ svc'.storedConfig = svc.storedConfig /\ svc'.reconnectTask = svc.reconnectTask
      /\ svc'.stopRequested = svc.stopRequested
  BY <1>3, <1>4 DEF stopSelf, Svc
<1>7. OnJob(svc, svc') BY <1>5, <1>6 DEF OnJob
<1> QED BY <1>1, <1>6, <1>7, OnJobLaddered

(* The ladder as StopLibrary left it, with Psiphon's part p and job j. *)
LEMMA GoesOnDialling ==
    ASSUME NEW u, Laddered(u), u.job # None, NEW p \in Psi, NEW j \in Job \cup {None},
           j # None => j.proto \in Psiphon,
           p.alone = u.psi.alone, p.ladderActive = u.psi.ladderActive,
           p.psiphonVpnActivated = u.psi.psiphonVpnActivated,
           p.regionPhase = u.psi.regionPhase, p.ladderIndex = u.psi.ladderIndex,
           p.ladderAttempts = u.psi.ladderAttempts, u.psi.tried \subseteq p.tried,
           p.alone /\ j # None /\ j.pc = "arm" => p.regionPhase \/ p.ladderIndex \in p.tried
    PROVE  LET t == [u EXCEPT !.psi = p, !.job = j] IN
           Laddered(t) /\ t.stopRequested = u.stopRequested
<1> DEFINE t == [u EXCEPT !.psi = p, !.job = j]
<1>0. u \in Svc BY DEF Laddered, Good
<1>1. /\ t \in Svc /\ t.psi = p /\ t.job = j
      /\ t.queue = u.queue /\ t.currentProtocol = u.currentProtocol
      /\ t.storedConfig = u.storedConfig /\ t.reconnectTask = u.reconnectTask
      /\ t.stopRequested = u.stopRequested
  <2> DEFINE v == [u EXCEPT !.psi = p]
  <2>1. v \in Svc BY <1>0 DEF Svc
  <2>2. t = [v EXCEPT !.job = j] OBVIOUS
  <2>3. /\ v.psi = p /\ v.queue = u.queue /\ v.currentProtocol = u.currentProtocol
        /\ v.storedConfig = u.storedConfig /\ v.reconnectTask = u.reconnectTask
        /\ v.stopRequested = u.stopRequested
    BY <1>0 DEF Svc
  <2> HIDE DEF v, t
  <2>4. t \in Svc BY <2>1, <2>2 DEF Svc
  <2> QED BY <2>1, <2>2, <2>3, <2>4 DEF Svc
<1> HIDE DEF t
<1>2. OnJob(u, t) BY <1>1 DEF OnJob
<1>3. Laddered(t) BY <1>1, <1>2, OnJobLaddered
<1> QED BY <1>1, <1>3 DEF t

LEMMA StepRedial ==
    ASSUME Laddered(svc), prefs \in Profiles, RedialStop \/ RedialWake \/ NewTunnel
    PROVE  Climbs(svc, svc')
<1>0. svc \in Svc /\ svc.psi \in Psi /\ Good(svc) /\ Named(svc) /\ Turns(svc)
  BY SvcFields DEF Laddered, Good
<1>1. svc.job # None /\ svc.job \in Job /\ svc.job.proto \in Psiphon
  BY <1>0, PsiphonJob DEF RedialStop, RedialWake, NewTunnel
<1>2. Moves(svc, svc) /\ Moves(svc, StopLibrary(svc))
  BY <1>0, StaysMoves, StopLibraryMoves
<1>3. ASSUME NEW u, Moves(svc, u), NEW pc \in JobPC \ {"arm"}, NEW h \in BOOLEAN,
             NEW m \in BOOLEAN,
             svc' = [u EXCEPT !.psi.handle = h, !.psi.stamped = m, !.job.pc = pc]
      PROVE  Climbs(svc, svc')
  <2> DEFINE p == [u.psi EXCEPT !.handle = h, !.stamped = m]
             j == [svc.job EXCEPT !.pc = pc]
  <2>1. u \in Svc /\ u.psi \in Psi /\ u.job = svc.job /\ Laddered(u)
    BY <1>3, SvcFields DEF Moves, Good, Laddered
  <2>2. p \in Psi BY <1>3, <2>1, Zenon DEF Psi
  <2>3. /\ p.alone = u.psi.alone /\ p.ladderActive = u.psi.ladderActive
        /\ p.psiphonVpnActivated = u.psi.psiphonVpnActivated
        /\ p.regionPhase = u.psi.regionPhase /\ p.ladderIndex = u.psi.ladderIndex
        /\ p.ladderAttempts = u.psi.ladderAttempts /\ p.tried = u.psi.tried
    BY <2>1 DEF Psi
  <2>4. j \in Job /\ j # None /\ j.pc = pc /\ j.proto = svc.job.proto BY <1>1, <1>3, JobMoves
  <2>5. svc' = [u EXCEPT !.psi = p, !.job = j] BY <1>3, <2>1 DEF Svc
  <2> HIDE DEF p, j
  <2>6. u.psi.tried \subseteq p.tried /\ j.pc # "arm" /\ u.job # None
             /\ j.proto \in Psiphon /\ j \in Job \cup {None}
    BY <1>1, <1>3, <2>1, <2>3, <2>4
  <2>7. Laddered(svc') /\ svc'.stopRequested = u.stopRequested
    BY <2>1, <2>2, <2>3, <2>5, <2>6, GoesOnDialling
  <2> QED BY <1>3, <2>7, MovesClimbs
<1>4. ASSUME svc' = [svc EXCEPT !.job = None]
      PROVE  Climbs(svc, svc')
  <2>1. svc' = [svc EXCEPT !.psi = svc.psi, !.job = None] BY <1>0, <1>4 DEF Svc
  <2>2. Laddered(svc') /\ svc'.stopRequested = svc.stopRequested
    BY <1>0, <1>1, <2>1, GoesOnDialling
  <2> QED BY <1>2, <2>2, MovesClimbs
<1>5. CASE RedialStop
  <2> DEFINE quiet == IF svc.psi.handle THEN StopLibrary(svc) ELSE svc
             m == quiet.psi.stamped
  <2>1. \/ svc' = [svc EXCEPT !.job = None]
        \/ svc' = [quiet EXCEPT !.psi.handle = FALSE, !.job.pc = "sleep"]
    BY <1>5 DEF RedialStop
  <2>2. Moves(svc, quiet) BY <1>2
  <2>3. m \in BOOLEAN /\ quiet \in Svc /\ quiet.psi \in Psi
    BY <2>2, SvcFields DEF Moves, Good, Psi
  <2>4. CASE svc' = [quiet EXCEPT !.psi.handle = FALSE, !.job.pc = "sleep"]
    <3> HIDE DEF quiet
    <3>1. svc' = [quiet EXCEPT !.psi.handle = FALSE, !.psi.stamped = m, !.job.pc = "sleep"]
      BY <2>3, <2>4 DEF Svc, Psi
    <3>2. "sleep" \in JobPC \ {"arm"} BY DEF JobPC
    <3> QED BY <1>3, <2>2, <2>3, <3>1, <3>2
  <2> QED BY <1>4, <2>1, <2>4
<1>6. CASE RedialWake
  <2> DEFINE m == svc.psi.stamped
             h == svc.psi.handle
  <2>1. svc' = [svc EXCEPT !.job = None] \/ svc' = [svc EXCEPT !.job.pc = "dial"]
    BY <1>6 DEF RedialWake
  <2>2. m \in BOOLEAN /\ h \in BOOLEAN BY <1>0 DEF Psi
  <2>3. CASE svc' = [svc EXCEPT !.job.pc = "dial"]
    <3>1. svc' = [svc EXCEPT !.psi.handle = h, !.psi.stamped = m, !.job.pc = "dial"]
      BY <1>0, <2>3, ZenonT(60) DEF Svc, Psi
    <3>2. "dial" \in JobPC \ {"arm"} BY DEF JobPC
    <3> QED BY <1>2, <1>3, <2>2, <3>1, <3>2
  <2> QED BY <1>4, <2>1, <2>3
<1>7. CASE NewTunnel
  <2> DEFINE quiet == StopLibrary(svc)
  <2>1. svc' = [quiet EXCEPT !.psi.handle = TRUE, !.psi.stamped = TRUE, !.job.pc = "start"]
    BY <1>7 DEF NewTunnel
  <2>2. "start" \in JobPC \ {"arm"} BY DEF JobPC
  <2> HIDE DEF quiet
  <2> QED BY <1>2, <1>3, <2>1, <2>2 DEF quiet
<1> QED BY <1>5, <1>6, <1>7

LEMMA StepStartTunneling ==
    ASSUME Laddered(svc), prefs \in Profiles, StartTunneling
    PROVE  Climbs(svc, svc')
<1>0. svc \in Svc /\ svc.psi \in Psi /\ Good(svc) /\ Named(svc) /\ Turns(svc)
  BY SvcFields DEF Laddered, Good
<1>1. svc.job # None /\ svc.job \in Job /\ svc.job.proto \in Psiphon
  BY <1>0, PsiphonJob DEF StartTunneling
<1> DEFINE u == StopLibrary(svc)
           d == IF svc.psi.regionPhase \/ ~svc.psi.alone THEN u.psi.tried
                ELSE u.psi.tried \cup {svc.psi.ladderIndex}
           p == [u.psi EXCEPT !.ctrl = "dialing", !.tried = d]
           j == [svc.job EXCEPT !.pc = "arm"]
<1>2. Moves(svc, u) BY <1>0, StopLibraryMoves
<1>3. svc' = [u EXCEPT !.psi.ctrl = "dialing", !.job.pc = "arm",
                       !.psi.tried = IF svc.psi.regionPhase \/ ~svc.psi.alone THEN @
                                     ELSE @ \cup {svc.psi.ladderIndex}]
  BY DEF StartTunneling
<1> HIDE DEF u
<1>4. u \in Svc /\ u.psi \in Psi /\ u.job = svc.job /\ Laddered(u)
  BY <1>2, SvcFields DEF Moves, Good, Laddered
<1>5. d \in SUBSET Rungs /\ u.psi.tried \subseteq d
  <2>1. u.psi.tried \in SUBSET Rungs /\ svc.psi.ladderIndex \in Rungs BY <1>0, <1>4 DEF Psi
  <2> QED BY <2>1
<1>6. j \in Job /\ j # None /\ j.pc = "arm" /\ j.proto = svc.job.proto
  BY <1>1, JobMoves DEF JobPC
<1>7. svc' = [u EXCEPT !.psi = p, !.job = j] BY <1>3, <1>4 DEF Svc, Psi
<1>8. u.psi.alone => u.psi.regionPhase \/ u.psi.ladderIndex \in d
  BY <1>1, <1>2 DEF Moves
<1> HIDE DEF d, j
<1>9. p \in Psi BY <1>4, <1>5, Zenon DEF Psi
<1>10. /\ p.alone = u.psi.alone /\ p.ladderActive = u.psi.ladderActive
       /\ p.psiphonVpnActivated = u.psi.psiphonVpnActivated
       /\ p.regionPhase = u.psi.regionPhase /\ p.ladderIndex = u.psi.ladderIndex
       /\ p.ladderAttempts = u.psi.ladderAttempts /\ p.tried = d
  BY <1>4 DEF Psi
<1> HIDE DEF p
<1>11. Laddered(svc') /\ svc'.stopRequested = u.stopRequested
  BY <1>1, <1>4, <1>5, <1>6, <1>7, <1>8, <1>9, <1>10, GoesOnDialling
<1> QED BY <1>2, <1>11, MovesClimbs

(* The job ends, reporting or not. *)
LEMMA EndsLaddered ==
    ASSUME NEW s, Laddered(s), s.job = None
    PROVE  Laddered(sendStatus(s, "CONNECTING"))
<1> DEFINE t == sendStatus(s, "CONNECTING")
<1>1. Beside(s, t) /\ t.psi = s.psi BY StatusBeside DEF Laddered, Good, Statuses
<1> HIDE DEF t
<1>2. Good(t) BY <1>1, BesideGood DEF Laddered
<1>3. Named(t) BY <1>1 DEF Named, Laddered, Beside
<1>4. Turns(t) BY <1>1 DEF Turns, Laddered, Beside
<1> QED BY <1>2, <1>3, <1>4 DEF Laddered, t

LEMMA StepArmTimer ==
    ASSUME Laddered(svc), ArmTimer
    PROVE  Laddered(svc')
<1>0. svc \in Svc /\ svc.psi \in Psi /\ Good(svc) /\ Named(svc) /\ Turns(svc)
  BY SvcFields DEF Laddered, Good
<1>1. svc.job # None /\ svc.job.pc = "arm" BY <1>0, PsiphonJob DEF ArmTimer
<1> DEFINE alive == svc.life # "none"
           p == [svc.psi EXCEPT !.ladderActive = alive, !.ladderTimer = alive]
           u == [svc EXCEPT !.psi = p]
           armed == [svc EXCEPT !.psi.ladderActive = alive, !.psi.ladderTimer = alive,
                                !.job = None]
<1>2. svc' = armed \/ svc' = sendStatus(armed, "CONNECTING") BY DEF ArmTimer
<1>3. armed = [u EXCEPT !.job = None] BY <1>0 DEF Svc, Psi
<1>4. alive \in BOOLEAN OBVIOUS
<1> HIDE DEF alive, armed
<1>5. p \in Psi BY <1>0, <1>4, Zenon DEF Psi
<1>6. /\ p.alone = svc.psi.alone /\ p.regionPhase = svc.psi.regionPhase
      /\ p.tried = svc.psi.tried /\ p.ladderIndex = svc.psi.ladderIndex
      /\ p.ladderAttempts = svc.psi.ladderAttempts
      /\ p.psiphonVpnActivated = svc.psi.psiphonVpnActivated
  BY <1>0 DEF Psi
<1> HIDE DEF p
<1>7. u \in Svc /\ u.psi = p /\ Beside(svc, u) BY <1>0, <1>5, PsiBeside DEF Beside
<1> HIDE DEF u
<1>8. armed \in Svc BY <1>3, <1>7, ZenonT(60) DEF Svc
<1>9. /\ armed.job = None /\ armed.psi = p
      /\ armed.queue = svc.queue /\ armed.currentProtocol = svc.currentProtocol
      /\ armed.storedConfig = svc.storedConfig /\ armed.reconnectTask = svc.reconnectTask
      /\ armed.stopRequested = svc.stopRequested
  BY <1>3, <1>7 DEF Svc, Beside
<1>10. Good(armed) BY <1>0, <1>8, <1>9 DEF Good, Heard
<1>11. Named(armed) BY <1>0, <1>1, <1>9 DEF Named
<1>12. Turns(armed) BY <1>0, <1>1, <1>6, <1>9 DEF Turns
<1>13. Laddered(armed) BY <1>10, <1>11, <1>12 DEF Laddered
<1> QED BY <1>2, <1>9, <1>13, EndsLaddered

LEMMA StepDialFails ==
    ASSUME Laddered(svc), prefs \in Profiles, DialFails
    PROVE  Laddered(svc')
<1> DEFINE u == StopLibrary(svc)
           f == failAndStop(u)
           failed == [f EXCEPT !.job = None]
<1>1. Moves(svc, u) BY StopLibraryMoves DEF Laddered
<1>2. svc' = failed \/ svc' = sendStatus(failed, "CONNECTING") BY DEF DialFails
<1> HIDE DEF u
<1>3. Good(u) /\ u \in Svc /\ Named(u) BY <1>1 DEF Moves, Good
<1>4. Stops(u, f) BY <1>3, FailAndStopStops
<1> HIDE DEF f
<1>5. Good(f) /\ f \in Svc BY <1>3, <1>4, StopsGood DEF Good
<1>6. failed \in Svc BY <1>5, ZenonT(60) DEF Svc
<1>7. /\ failed.job = None /\ failed.psi = f.psi
      /\ failed.queue = f.queue /\ failed.currentProtocol = f.currentProtocol
      /\ failed.storedConfig = f.storedConfig /\ failed.reconnectTask = f.reconnectTask
  BY <1>5 DEF Svc
<1> HIDE DEF failed
<1>8. Good(failed) BY <1>5, <1>6, <1>7 DEF Good, Heard
<1>9. ~failed.psi.alone /\ ~failed.psi.ladderActive BY <1>4, <1>7 DEF Stops, Disarmed
<1>10. Named(failed) BY <1>3, <1>4, <1>7, <1>9 DEF Named, Stops, Keeps
<1>11. Laddered(failed) BY <1>8, <1>9, <1>10 DEF Laddered, Turns
<1> QED BY <1>2, <1>7, <1>11, EndsLaddered

-----------------------------------------------------------------------------
(* The ladder beside the rest of the service *)

PsiphonNext ==
    \/ PsiphonConnected \/ PsiphonExits \/ PsiphonStop
    \/ LadderTimer \/ Attribute
    \/ PsiphonWorker

(* A service whose user keeps to core sessions, or to SHARD and Tor, takes *)
(* no step of a Psiphon session.                                           *)
LEMMA PsiphonOnly ==
    ASSUME LadderInv, PsiphonNext
    PROVE  ~(prefs.transports \subseteq Native) /\ ~(prefs.transports \subseteq Fronts)
<1> SUFFICES ASSUME prefs.transports \subseteq Native \/ prefs.transports \subseteq Fronts
             PROVE  FALSE
  OBVIOUS
<1>1. Unused(svc.psi) /\ svc \in Svc BY DEF LadderInv, UnusedInv, Inv, VpnInv, Good
<1>2. svc.job # None => svc.job.proto \notin Psiphon
  BY DEF LadderInv, Inv, NativeInv, FrontInv, InFamily, Native, Fronts, Psiphon
<1>3. CASE PsiphonConnected \/ PsiphonExits
  BY <1>1, <1>3 DEF PsiphonConnected, PsiphonExits, Live, Unused
<1>4. CASE PsiphonStop BY <1>1, <1>4 DEF PsiphonStop, Unused
<1>5. CASE LadderTimer \/ Attribute BY <1>1, <1>5 DEF LadderTimer, Attribute, Unused
<1>6. CASE PsiphonWorker
  BY <1>2, <1>6 DEF PsiphonWorker, PsiphonEstablish, PsiphonEstablishFails, RedialStop,
                    RedialWake, NewTunnel, StartTunneling, ArmTimer, DialFails, At
<1> QED BY <1>3, <1>4, <1>5, <1>6 DEF PsiphonNext

LEMMA PsiphonLaddered ==
    ASSUME Laddered(svc), prefs \in Profiles, PsiphonNext
    PROVE  Laddered(svc') /\ (LadderStep => Climbs(svc, svc'))
<1>1. ASSUME PsiphonExits \/ PsiphonStop \/ LadderTimer PROVE Climbs(svc, svc')
  BY <1>1, StepLibrary DEF Moves, Climbs, Laddered
<1>2. ASSUME RedialStop \/ RedialWake \/ NewTunnel \/ StartTunneling PROVE Climbs(svc, svc')
  BY <1>2, StepRedial, StepStartTunneling
<1>3. ASSUME PsiphonConnected \/ Attribute PROVE Laddered(svc')
  BY <1>3, StepPsiphonConnected, StepAttribute
<1>4. ASSUME PsiphonEstablish \/ PsiphonEstablishFails \/ ArmTimer \/ DialFails
      PROVE  Laddered(svc')
  BY <1>4, StepPsiphonEstablish, StepPsiphonEstablishFails, StepArmTimer, StepDialFails
<1> QED BY <1>1, <1>2, <1>3, <1>4 DEF PsiphonNext, PsiphonWorker, LadderStep, Climbs

LEMMA PsiphonInv ==
    ASSUME LadderInv, PsiphonNext, UNCHANGED <<old, prefs>>
    PROVE  LadderInv'
<1>1. Laddered(svc) /\ prefs \in Profiles BY DEF LadderInv, Inv, VpnInv, Laddered
<1>2. Laddered(svc') BY <1>1, PsiphonLaddered
<1>3. UNCHANGED sched
  BY DEF PsiphonNext, PsiphonConnected, PsiphonExits, PsiphonStop, LadderTimer, Attribute,
         PsiphonWorker, PsiphonEstablish, PsiphonEstablishFails, RedialStop, RedialWake,
         NewTunnel, StartTunneling, ArmTimer, DialFails
<1>4. VpnInv' BY <1>2, <1>3 DEF LadderInv, Inv, VpnInv, Laddered, Good, Heard
<1>5. ~(prefs'.transports \subseteq Native) /\ ~(prefs'.transports \subseteq Fronts)
  BY PsiphonOnly
<1>6. OldInv' BY DEF LadderInv, OldInv
<1> QED BY <1>2, <1>4, <1>5, <1>6
        DEF LadderInv, Inv, NativeInv, FrontInv, UnusedInv, Laddered, Named, Turns

LEMMA LadderInvStep == LadderInv /\ [LadderNext]_vars => LadderInv'
<1> SUFFICES ASSUME LadderInv, [LadderNext]_vars PROVE LadderInv' OBVIOUS
<1>1. CASE Next BY <1>1, NextLadder
<1>2. CASE PsiphonNext /\ UNCHANGED <<old, prefs>> BY <1>2, PsiphonInv
<1>3. CASE UNCHANGED vars
  <2>1. Inv' /\ OldInv' BY <1>3, InvStep, OldInvStep DEF LadderInv
  <2> QED BY <1>3, <2>1 DEF LadderInv, UnusedInv, vars, Named, Turns
<1> QED BY <1>1, <1>2, <1>3 DEF LadderNext, PsiphonNext

LEMMA LadderInvInit == Init => LadderInv
<1> SUFFICES ASSUME Init PROVE LadderInv OBVIOUS
<1>1. Inv /\ OldInv BY InitInv DEF Init, OldInv
<1>2. svc = Fresh BY DEF Init
<1>3. /\ svc.job = None /\ svc.queue = << >> /\ svc.psi = FreshPsiphon
  BY <1>2 DEF Fresh
<1>4. Unused(svc.psi) BY <1>3 DEF Unused, FreshPsiphon
<1> QED BY <1>1, <1>3, <1>4 DEF LadderInv, UnusedInv, Named, Turns, Unused

(* Whatever the profiles and whichever sessions follow each other, the     *)
(* ladder of a Psiphon session that started on an idle worker keeps its    *)
(* place: while a rung's budget runs the rung has been dialled, and the    *)
(* rungs without a turn are all ahead of it and within the attempts left.  *)
THEOREM LadderInvariant == LadderSpec => []LadderInv
BY LadderInvInit, LadderInvStep, PTL DEF LadderSpec

(* The service keeps its types through escalateLadder, the library's       *)
(* callbacks and the worker's redials too.                                 *)
THEOREM LadderTypeCorrect == LadderSpec => []TypeOK
<1>1. LadderInv => TypeOK BY DEF LadderInv, Inv, VpnInv, Good, OldInv, TypeOK
<1> QED BY <1>1, LadderInvariant, PTL

(* Also when Psiphon sessions come and go between core sessions, detach     *)
(* cuts off the core of the newest session (NewestIsHeard) only from the    *)
(* finally block of a job that a destroyed instance left behind.           *)
THEOREM LadderNewestIsHeard == LadderSpec => []NewestIsHeard
<1>1. LadderInv => NewestIsHeard
  BY DEF LadderInv, Inv, VpnInv, Good, Heard, NewestIsHeard, At, Ahead
<1> QED BY <1>1, LadderInvariant, PTL

(* "done means every rung has had a turn": whether the library exits by    *)
(* itself, is stopped by a thread of an older session or by the worker     *)
(* before a dial, or the budget's timer fires, the ladder ends a session   *)
(* that was never up only when every rung has been dialled with every      *)
(* country allowed, for a ladder of any length and with any earlier        *)
(* session's stop threads, timers and controllers still about.             *)
THEOREM LadderEveryRung == LadderSpec => EveryRungHasATurn
<1> DEFINE Turn == LadderStep /\ svc.psi.alone /\ ~svc.proxyMode /\ svc.connected
                     /\ ~svc.carried /\ ~svc.stopRequested /\ svc'.stopRequested
                   => svc.psi.tried = Rungs
<1>1. LadderInv /\ [LadderNext]_vars => [Turn]_vars
  <2> SUFFICES ASSUME LadderInv, LadderStep, svc.psi.alone, ~svc.proxyMode,
                      ~svc.stopRequested, svc'.stopRequested
               PROVE  svc.psi.tried = Rungs
    OBVIOUS
  <2>1. PsiphonNext BY DEF PsiphonNext, LadderStep, PsiphonWorker
  <2>2. Climbs(svc, svc')
    BY <2>1, PsiphonLaddered DEF LadderInv, Inv, VpnInv, Laddered
  <2> QED BY <2>2 DEF Climbs
<1> QED BY <1>1, LadderInvariant, PTL DEF LadderSpec, EveryRungHasATurn
=============================================================================
