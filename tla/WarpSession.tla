---------------------------- MODULE WarpSession ----------------------------
(***************************************************************************)
(* run_wireguard and run_gool (main.rs): the two loops that keep a WARP     *)
(* tunnel, or one inside another, up.  Each remembers the endpoint that     *)
(* worked, tries it again, gives up on it after MAX_CONSECUTIVE_FAILS and   *)
(* scans.  run_wireguard keeps an endpoint it gave up on out of its scans   *)
(* for a while; run_gool only forgets it.                                   *)
(*                                                                          *)
(* An endpoint is tried with an obfuscation profile: a target is            *)
(* <<address, profile>>.  The network says which targets carry data and     *)
(* which only shake hands.  The second identity of run_gool is loaded as    *)
(* the first one is (Identity) and is not modelled again; whether the inner *)
(* leg passes through an outer tunnel that is up is the network's business. *)
(***************************************************************************)
EXTENDS Identity, Sequences, SequencesExt

CONSTANTS Addrs, NoTarget, Torn,
          Candidates,      \* wg_profile_candidates(): the profiles in order
          GoolProfile,     \* GOOL_OUTER_PROFILE
          Users,           \* settings [gool, forced, quick, manual, dataCheck] to try
          OrgAddrs,        \* AETHER_TEAM_ENDPOINT values to try
          Networks,        \* states [data, shake, inner] of the network to try
          MaxConsecutiveFails

ASSUME WarpAssumption ==
    /\ MaxConsecutiveFails \in Nat \ {0}
    /\ Candidates \in Seq(ToSet(Candidates)) \ {<<>>}
    /\ Users \subseteq [gool : BOOLEAN, forced : Addrs \cup {NoTarget}, quick : BOOLEAN,
                       manual : BOOLEAN, dataCheck : BOOLEAN]
    /\ {NoTarget, Torn} \cap (Addrs \cup (Addrs \X (ToSet(Candidates) \cup {GoolProfile}))) = {}

VARIABLES user, net, org,
          quick,      \* quick of run_wireguard, cached_peer of run_gool
          lastGood,   \* last_good, last_peer
          fails,      \* consecutive_fails_on_peer, consecutive_fails
          cooldowns,  \* the keys of endpoint_cooldowns
          cooling,    \* the addresses whose cooldown still runs
          lastconn,   \* the lastconn file
          target,     \* the target of this round
          checked,    \* the target last seen to pass, NoTarget once it was given up
          tried       \* has this session tried a tunnel

warpVars == <<user, net, org, quick, lastGood, fails, cooldowns, cooling, lastconn,
              target, checked, tried>>
vars == <<pc, idVars, settings, warpVars>>

Targets == Addrs \X (ToSet(Candidates) \cup {GoolProfile})

-----------------------------------------------------------------------------
(* verify_endpoint: a handshake and, unless the check is off, data across   *)
(* it, which a device the account has deleted never gets.                   *)
Verified(t) == IF user.dataCheck THEN t \in net.data /\ mem.dev \in live
               ELSE t \in net.data \cup net.shake

(* The profiles of an address in the order they are tried; the first that   *)
(* passes is kept.                                                          *)
profiles == IF user.manual THEN SubSeq(Candidates, 1, 1) ELSE Candidates
FirstPassing(a) ==
    LET passing == {i \in DOMAIN profiles : Verified(<<a, profiles[i]>>)}
    IN IF passing = {} THEN NoTarget
       ELSE <<a, profiles[CHOOSE i \in passing : \A j \in passing : i <= j]>>

(* hunt_wg_peer: one scan per profile, in order, over every address that is *)
(* not excluded; the first profile with an answer decides.                  *)
Hunted(excluded) ==
    LET hits(i) == {a \in Addrs \ excluded : Verified(<<a, profiles[i]>>)}
        good == {i \in DOMAIN profiles : hits(i) # {}}
    IN IF good = {} THEN {}
       ELSE LET i == CHOOSE j \in good : \A k \in good : j <= k
            IN {<<a, profiles[i]>> : a \in hits(i)}

(* select_peer scans with the user's profile only, nothing excluded; the    *)
(* outer tunnel then uses GOOL_OUTER_PROFILE.                               *)
Selected == {<<a, GoolProfile>> : a \in {b \in Addrs : Verified(<<b, profiles[1]>>)}}

QuickReconnect == user.quick /\ user.forced = NoTarget /\ lastconn \in Targets

-----------------------------------------------------------------------------
(* The organization's endpoint, then the one of the lastconn file.          *)
BeginWireGuard ==
    /\ pc = "run" /\ ~user.gool
    /\ LET assigned == IF user.forced = NoTarget /\ org \in Addrs
                       THEN FirstPassing(org) ELSE NoTarget
       IN quick' = IF assigned # NoTarget THEN assigned
                   ELSE IF QuickReconnect /\ ~user.manual /\ Verified(lastconn)
                   THEN lastconn ELSE NoTarget
    /\ pc' = "loop"
    /\ checked' = quick'
    /\ UNCHANGED <<idVars, user, net, org, lastGood, fails, cooldowns, cooling, lastconn,
                   target, tried>>

(* load_cached_gool_peer *)
BeginGool ==
    /\ pc = "run" /\ user.gool
    /\ quick' = IF QuickReconnect /\ Verified(<<lastconn[1], GoolProfile>>)
                THEN <<lastconn[1], GoolProfile>> ELSE NoTarget
    /\ pc' = "loop"
    /\ checked' = quick'
    /\ UNCHANGED <<idVars, user, net, org, lastGood, fails, cooldowns, cooling, lastconn,
                   target, tried>>

-----------------------------------------------------------------------------
(* Mutant: the endpoint is forgotten, and not put aside. *)
GiveUp_NoCooldown ==
    /\ pc = "loop" /\ ~user.gool
    /\ IF fails >= MaxConsecutiveFails
       THEN LET bad == IF lastGood = NoTarget THEN {} ELSE {lastGood[1]} IN
            /\ lastGood' = NoTarget /\ fails' = 0
            /\ cooldowns' = cooldowns \cap cooling
            /\ cooling' = cooling \cup bad
       ELSE cooldowns' = cooldowns \cap cooling /\ UNCHANGED <<lastGood, fails, cooling>>
    /\ pc' = "pick"
    /\ UNCHANGED <<idVars, user, net, org, quick, lastconn, target, checked, tried>>

(* Mutant: a cooldown that is over is never dropped. *)
GiveUp_ForGood ==
    /\ pc = "loop" /\ ~user.gool
    /\ IF fails >= MaxConsecutiveFails
       THEN LET bad == IF lastGood = NoTarget THEN {} ELSE {lastGood[1]} IN
            /\ lastGood' = NoTarget /\ fails' = 0
            /\ cooldowns' = cooldowns \cup bad
            /\ cooling' = cooling \cup bad
       ELSE UNCHANGED <<cooldowns, lastGood, fails, cooling>>
    /\ pc' = "pick"
    /\ UNCHANGED <<idVars, user, net, org, quick, lastconn, target, checked, tried>>

(* The head of run_wireguard's loop: cooldowns that are over are dropped,   *)
(* and an endpoint that failed too often is put aside.                      *)
GiveUp ==
    /\ pc = "loop" /\ ~user.gool
    /\ IF fails >= MaxConsecutiveFails
       THEN LET bad == IF lastGood = NoTarget THEN {} ELSE {lastGood[1]} IN
            /\ lastGood' = NoTarget /\ fails' = 0
            /\ cooldowns' = (cooldowns \cap cooling) \cup bad
            /\ cooling' = cooling \cup bad
       ELSE cooldowns' = cooldowns \cap cooling /\ UNCHANGED <<lastGood, fails, cooling>>
    /\ pc' = "pick"
    /\ UNCHANGED <<idVars, user, net, org, quick, lastconn, target, checked, tried>>

Use(t) == target' = t /\ pc' = "use"

(* Mutant: a scan that finds nothing ends the session. *)
Scan_Fails(found) == \/ \E t \in found : Use(t) /\ checked' = t
                     \/ found = {} /\ pc' = "failed" /\ UNCHANGED <<target, checked>>

(* A scan that finds nothing is a pause. *)
Scan(found) == \/ \E t \in found : Use(t) /\ checked' = t
               \/ found = {} /\ pc' = "sleep" /\ UNCHANGED <<target, checked>>

(* The endpoint verified at the start is used once; then the last good one, *)
(* if it still passes; then the forced one, if it passes; then a scan.      *)
Pick ==
    /\ pc = "pick"
    /\ quick' = NoTarget
    /\ LET retry == quick = NoTarget /\ lastGood # NoTarget /\ Verified(lastGood)
           pin == IF user.forced = NoTarget THEN NoTarget ELSE FirstPassing(user.forced)
       IN \/ quick # NoTarget /\ Use(quick) /\ UNCHANGED checked
          \/ retry /\ Use(lastGood) /\ checked' = lastGood
          \/ quick = NoTarget /\ ~retry /\ pin # NoTarget /\ Use(pin) /\ checked' = pin
          \/ quick = NoTarget /\ ~retry /\ pin = NoTarget /\ Scan(Hunted(cooldowns))
    /\ UNCHANGED <<idVars, user, net, org, lastGood, fails, cooldowns, cooling, lastconn, tried>>

(* Mutant: a scan that found nothing clears the count as well. *)
PickGool_KeepCount ==
    /\ pc = "loop" /\ user.gool
    /\ LET known == IF lastGood # NoTarget THEN lastGood ELSE quick IN
       \/ /\ fails < MaxConsecutiveFails /\ known # NoTarget
          /\ Use(known)
          /\ UNCHANGED <<fails, quick, checked>>
       \/ /\ fails >= MaxConsecutiveFails \/ known = NoTarget
          /\ quick' = IF fails >= MaxConsecutiveFails THEN NoTarget ELSE quick
          /\ \/ /\ user.forced # NoTarget
                /\ Use(<<user.forced, GoolProfile>>) /\ fails' = 0 /\ UNCHANGED checked
             \/ /\ user.forced = NoTarget
                /\ Scan(Selected)
                /\ fails' = 0
    /\ UNCHANGED <<idVars, user, net, org, lastGood, cooldowns, cooling, lastconn, tried>>

(* Mutant: the failures of the last endpoint count against the new one. *)
PickGool_NoReset ==
    /\ pc = "loop" /\ user.gool
    /\ LET known == IF lastGood # NoTarget THEN lastGood ELSE quick IN
       \/ /\ fails < MaxConsecutiveFails /\ known # NoTarget
          /\ Use(known)
          /\ UNCHANGED <<fails, quick, checked>>
       \/ /\ fails >= MaxConsecutiveFails \/ known = NoTarget
          /\ quick' = IF fails >= MaxConsecutiveFails THEN NoTarget ELSE quick
          /\ \/ /\ user.forced # NoTarget
                /\ Use(<<user.forced, GoolProfile>>) /\ fails' = 0 /\ UNCHANGED checked
             \/ /\ user.forced = NoTarget
                /\ Scan(Selected)
                /\ fails' = fails
    /\ UNCHANGED <<idVars, user, net, org, lastGood, cooldowns, cooling, lastconn, tried>>

(* run_gool: the endpoint of the last round or the cached one, unchecked,   *)
(* until it has failed too often; then select_peer.                         *)
PickGool ==
    /\ pc = "loop" /\ user.gool
    /\ LET known == IF lastGood # NoTarget THEN lastGood ELSE quick IN
       \/ /\ fails < MaxConsecutiveFails /\ known # NoTarget
          /\ Use(known)
          /\ UNCHANGED <<fails, quick, checked>>
       \/ /\ fails >= MaxConsecutiveFails \/ known = NoTarget
          /\ quick' = IF fails >= MaxConsecutiveFails THEN NoTarget ELSE quick
          /\ \/ /\ user.forced # NoTarget
                /\ Use(<<user.forced, GoolProfile>>) /\ fails' = 0 /\ UNCHANGED checked
             \/ /\ user.forced = NoTarget
                /\ Scan(Selected)
                /\ fails' = IF pc' = "use" THEN 0 ELSE fails
    /\ UNCHANGED <<idVars, user, net, org, lastGood, cooldowns, cooling, lastconn, tried>>

(* lastconn::save, in place, unless the endpoint was forced; a file that    *)
(* cannot be opened is left.                                                *)
Remember ==
    /\ pc = "use"
    /\ \/ user.forced = NoTarget /\ lastconn' = Torn /\ pc' = "saving"
       \/ UNCHANGED lastconn /\ pc' = "connect"
    /\ fails' = IF ~user.gool /\ (lastGood = NoTarget \/ lastGood[1] # target[1])
                THEN 0 ELSE fails
    /\ lastGood' = target /\ tried' = TRUE
    /\ UNCHANGED <<idVars, user, net, org, quick, cooldowns, cooling, target, checked>>

Remembered ==
    /\ pc = "saving"
    /\ lastconn' = target /\ pc' = "connect"
    /\ UNCHANGED <<idVars, user, net, org, quick, lastGood, fails, cooldowns, cooling, target,
                   checked, tried>>

Carries == Verified(target) /\ (user.gool => net.inner)

(* run_wireguard_tunnel and run_warp_in_warp: the session that validated    *)
(* the endpoint carries the traffic.                                        *)
TunnelUp ==
    /\ pc = "connect" /\ Carries
    /\ pc' = "up"
    /\ UNCHANGED <<idVars, warpVars>>

(* A tunnel that ended counts against its endpoint, however long it lived;  *)
(* so does one that never came up, because its outer or its inner leg       *)
(* failed validation.                                                       *)
TunnelDown ==
    /\ \/ pc = "up"
       \/ pc = "connect" /\ ~Carries
    /\ pc' = "sleep" /\ fails' = fails + 1
    /\ checked' = IF fails' >= MaxConsecutiveFails THEN NoTarget ELSE checked
    /\ UNCHANGED <<idVars, user, net, org, quick, lastGood, cooldowns, cooling, lastconn, target,
                   tried>>

Sleep ==
    /\ pc = "sleep"
    /\ pc' = "loop" /\ target' = NoTarget
    /\ UNCHANGED <<idVars, user, net, org, quick, lastGood, fails, cooldowns, cooling, lastconn,
                   checked, tried>>

-----------------------------------------------------------------------------
CooldownEnds ==
    /\ \E a \in cooling : cooling' = cooling \ {a}
    /\ UNCHANGED <<pc, idVars, user, net, org, quick, lastGood, fails, cooldowns, lastconn,
                   target, checked, tried>>

NetworkChanges ==
    /\ net' \in Networks
    /\ UNCHANGED <<pc, idVars, user, org, quick, lastGood, fails, cooldowns, cooling, lastconn,
                   target, checked, tried>>

Stopped ==
    /\ Killed
    /\ quick' = NoTarget /\ lastGood' = NoTarget /\ fails' = 0 /\ target' = NoTarget
    /\ cooldowns' = {} /\ cooling' = {} /\ checked' = NoTarget /\ tried' = FALSE
    /\ UNCHANGED <<user, net, org, lastconn>>

run_warp == \/ BeginWireGuard \/ BeginGool \/ GiveUp \/ Pick \/ PickGool
            \/ Remember \/ Remembered \/ TunnelUp \/ Sleep
            \/ pc = "connect" /\ TunnelDown

Identify == (Start \/ load_or_provision) /\ UNCHANGED warpVars

Init ==
    /\ IdentityInit
    /\ user \in Users /\ net \in Networks /\ org \in OrgAddrs
    /\ quick = NoTarget /\ lastGood = NoTarget /\ target = NoTarget /\ fails = 0
    /\ cooldowns = {} /\ cooling = {} /\ checked = NoTarget /\ tried = FALSE
    /\ lastconn \in {NoTarget} \cup {<<a, profiles[1]>> : a \in Addrs}

Next ==
    /\ \/ Identify \/ run_warp \/ TunnelDown \/ CooldownEnds \/ NetworkChanges \/ Stopped
       \/ (DeviceDeleted \/ TimePasses) /\ UNCHANGED warpVars
    /\ UNCHANGED settings

(* The task runs as long as the process does, and time passes. *)
Fairness ==
    /\ WF_vars(((load_or_provision /\ UNCHANGED warpVars) \/ run_warp) /\ UNCHANGED settings)
    /\ \A a \in Addrs : WF_vars(a \in cooling /\ CooldownEnds /\ cooling' = cooling \ {a}
                                /\ UNCHANGED settings)

Spec == Init /\ [][Next]_vars /\ Fairness

-----------------------------------------------------------------------------
TypeOK ==
    /\ IdentityTypeOK
    /\ user \in Users /\ net \in Networks /\ org \in OrgAddrs
    /\ {quick, lastGood, target, checked} \subseteq Targets \cup {NoTarget}
    /\ lastconn \in Targets \cup {NoTarget, Torn}
    /\ cooldowns \subseteq Addrs /\ cooling \subseteq Addrs
    /\ fails \in 0..MaxConsecutiveFails /\ tried \in BOOLEAN

(* An endpoint that failed too often in a row is left alone until its        *)
(* cooldown is over, unless the user forced it: no scan, no memory and no    *)
(* cache brings it back early.                                              *)
CooledDownLeftAlone ==
    (pc \in {"use", "saving", "connect"} /\ ~user.gool /\ user.forced = NoTarget)
      => target[1] \notin cooling

(* What a loop dials, and writes down for the next start, has passed a check *)
(* since it was last given up, with the profile it is dialled with (for      *)
(* run_gool: on that address).  Only run_gool uses a forced endpoint blindly. *)
DialsWhatPassed ==
    (pc \in {"use", "saving", "connect"} /\ (user.gool => user.forced = NoTarget))
      => target = checked

(* What a loop remembers is sound: the fields keep their types, no endpoint *)
(* is counted past MAX_CONSECUTIVE_FAILS, and only what passed is dialled.  *)
WarpSafety == TypeOK /\ DialsWhatPassed

(* When the network stays good the session gets through again and again,    *)
(* however often its tunnel is lost and whatever it has put aside, until it *)
(* is stopped.                                                              *)
Recovers ==
    <>[](/\ mem \in Ids /\ mem.dev \in live /\ net.inner
         /\ Addrs \X {profiles[1], GoolProfile} \subseteq net.data)
      => []<>(pc \in {"up", "failed", "off"})

Phase == CASE pc = "off" -> "idle"
           [] pc = "failed" -> "failed"
           [] pc \in {"saving", "connect"} -> "trying"
           [] pc = "up" -> "up"
           [] pc = "sleep" -> "pausing"
           [] OTHER -> "choosing"
Core == INSTANCE CoreSession WITH phase <- Phase

(* run_wireguard and run_gool keep the promise of CoreSession: they give up *)
(* only before the first tunnel, and afterwards keep trying.                *)
ImplementsCore == Core!CoreSpec

=============================================================================
