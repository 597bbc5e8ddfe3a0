--------------------------- MODULE MasqueSession ---------------------------
(***************************************************************************)
(* run_masque (main.rs): from a loaded identity to a tunnel and back again, *)
(* for ever.  A session dials the gateways it knows over HTTP/3, then over  *)
(* HTTP/2 (the process-wide H2_FALLBACK flag of masque_h2.rs), renews a     *)
(* certificate the gateways refuse, and afterwards lives in a loop: the     *)
(* peer that was accepted, the last good one, the forced one or a scan;     *)
(* then the tunnel; then a pause.                                           *)
(*                                                                          *)
(* The network is one environment variable: on which transports a gateway   *)
(* can be reached, and which gateways refuse everyone for a while.          *)
(***************************************************************************)
EXTENDS Identity, Lists, SequencesExt

CONSTANTS Peers,          \* gateway addresses
          NoPeer,
          Torn,           \* a lastconn file cut short by a crash: does not parse
          GatewayPeers,   \* masque_gateway_peers(): the pool in dial order
          H2GatewayPeers, \* the pool's entries on QUIC_PORT, dialled over HTTP/2
          CachedPeers,    \* cached_masque_gateways(): the gateway cache, best first
          OrgPeers,       \* AETHER_TEAM_ENDPOINT: the organization's endpoints to try
          AccountPeers,   \* the account's endpoints to try
          Users,          \* the settings [h2, forced, cache, quick, ironclad] to try
          Networks,       \* the network states [reach, hiccup] to try
          IdentityRejectedLimit, H3ProbeLimit, H2ProbeLimit

ASSUME MasqueAssumption ==
    /\ {GatewayPeers, H2GatewayPeers, CachedPeers} \subseteq Seq(Peers)
    /\ OrgPeers \cup AccountPeers \subseteq Peers \cup {NoPeer}
    /\ NoPeer \notin Peers /\ Torn \notin Peers
    /\ Users \subseteq [h2 : BOOLEAN, forced : Peers \cup {NoPeer},
                       cache : BOOLEAN, quick : BOOLEAN, ironclad : BOOLEAN]
    /\ IdentityRejectedLimit \in Nat \ {0} /\ {H3ProbeLimit, H2ProbeLimit} \subseteq Nat

VARIABLES user,      \* the settings of this behaviour
          net,       \* the network
          org, account,  \* the two assigned endpoints, or NoPeer
          fallback,  \* H2_FALLBACK
          dial,      \* the pass being dialled: [stage, list, at, count]
          quick,     \* quick_peer
          lastGood,  \* last_good_peer
          lastconn,  \* the lastconn file
          peer,      \* the peer of this round
          status,    \* what the app was last told: "connecting" or "connected"
          verified,  \* <<peer, transport>> last accepted by a probe, <<>> before
          renewed    \* how often this start renewed the certificate

masqueVars == <<user, net, org, account, fallback, dial, quick, lastGood, lastconn,
                peer, status, verified, renewed>>
vars == <<pc, idVars, settings, masqueVars>>

Transports == {"h3", "h2"}
NoDial == [stage |-> "none", list |-> <<>>, at |-> 1, count |-> 0]

-----------------------------------------------------------------------------
(* masque_h2::enabled: the user's choice or the fallback. *)
Transport == IF user.h2 \/ fallback THEN "h2" ELSE "h3"

(* What a gateway answers to the CONNECT of one identity: try_masque_peer   *)
(* and is_identity_rejection.                                               *)
Outcome(p, id) ==
    IF Transport \notin net.reach[p] THEN "Unreachable"
    ELSE IF id.cert = "current" /\ id.dev \in live /\ p \notin net.hiccup
    THEN "Accepted" ELSE "IdentityRejected"

(* The candidate lists of run_masque, every address once, where it comes     *)
(* first.  quick is the answer of want_quick_reconnect.                     *)
Dedup(s) == Picked(s, FirstSeen(s))
Opt(p) == IF p \in Peers THEN <<p>> ELSE <<>>
KnownPeers == Dedup(Opt(org) \o (IF user.cache /\ user.quick THEN Opt(lastconn) ELSE <<>>)
                    \o Opt(account) \o (IF user.cache THEN CachedPeers ELSE <<>>))
h3_candidates == Dedup(KnownPeers \o Take(GatewayPeers, H3ProbeLimit))
h2_candidates == Dedup(KnownPeers \o Take(H2GatewayPeers, H2ProbeLimit))

-----------------------------------------------------------------------------
(* start() for Protocol::Masque: set_preferred clears a fallback of an      *)
(* earlier session in this process.  A forced peer skips both passes.       *)
Begin ==
    /\ pc = "run" /\ proto = "masque"
    /\ fallback' = FALSE
    /\ quick' = NoPeer /\ lastGood' = NoPeer /\ renewed' = 0
    /\ dial' = IF user.forced # NoPeer THEN NoDial
               ELSE [stage |-> "first", list |-> h3_candidates, at |-> 1, count |-> 0]
    /\ pc' = IF user.forced # NoPeer THEN "loop" ELSE "dial"
    /\ verified' = <<>>
    /\ UNCHANGED <<idVars, user, net, org, account, lastconn, peer, status>>

(* A probe accepted p over the transport now in use. *)
Accept(p) == verified' = <<p, Transport>>

(* dial_masque_pass_from: the candidates in order, counting the refusals,   *)
(* until one accepts or IDENTITY_REJECTED_LIMIT refuse.                     *)
DialNext ==
    /\ pc = "dial" /\ dial.at <= Len(dial.list)
    /\ LET p == dial.list[dial.at] IN
       \/ /\ Outcome(p, mem) = "Accepted"
          /\ Accept(p) /\ quick' = p /\ dial' = NoDial /\ pc' = "loop"
       \/ /\ Outcome(p, mem) = "IdentityRejected"
          /\ dial' = [dial EXCEPT !.at = @ + 1, !.count = @ + 1]
          /\ pc' = IF dial.count + 1 >= IdentityRejectedLimit THEN "rejected" ELSE "dial"
          /\ UNCHANGED <<quick, verified>>
       \/ /\ Outcome(p, mem) = "Unreachable"
          /\ dial' = [dial EXCEPT !.at = @ + 1]
          /\ UNCHANGED <<pc, quick, verified>>
    /\ UNCHANGED <<idVars, user, net, org, account, fallback, lastGood, lastconn, peer,
                   status, renewed>>

DialDone ==
    /\ pc = "dial" /\ dial.at > Len(dial.list)
    /\ pc' = IF dial.count > 0 THEN "rejected" ELSE "exhausted"
    /\ UNCHANGED <<idVars, masqueVars>>

(* Mutant: a renewed certificate that is refused is renewed again. *)
Rejected_RenewAgain ==
    /\ pc = "rejected"
    /\ pc' = IF dial.stage = "first" /\ dial.count < IdentityRejectedLimit
             THEN "exhausted" ELSE "refresh"
    /\ UNCHANGED <<idVars, masqueVars>>

(* The identity was refused in a pass.  The first pass over HTTP/3 renews   *)
(* at the limit and carries a smaller count into the HTTP/2 pass; that pass *)
(* renews at any count; a pass made with a renewed certificate gives up.    *)
Rejected ==
    /\ pc = "rejected"
    /\ pc' = IF dial.stage = "first" /\ dial.count < IdentityRejectedLimit THEN "exhausted"
             ELSE IF dial.stage \in {"first", "h2"} THEN "refresh" ELSE "failed"
    /\ UNCHANGED <<idVars, masqueVars>>

(* Mutant: the old certificate is dialled again when no new one was issued. *)
Refresh_RetryBlindly ==
    /\ pc = "refresh"
    /\ dial' = [dial EXCEPT !.at = 1, !.count = 0,
                            !.stage = IF @ = "first" THEN "firstAgain" ELSE "h2Again"]
    /\ pc' = "dial" /\ renewed' = renewed + 1
    /\ UNCHANGED <<idVars, user, net, org, account, fallback, quick, lastGood, lastconn, peer,
                   status, verified>>

(* refresh_refused_masque_identity: without a new certificate the session   *)
(* fails; with one, which may not reach the disk, the pass is made again.   *)
Refresh ==
    /\ pc = "refresh"
    /\ \E direct, fronted \in Answers(mem.dev) :
         LET result == enroll_key(direct, fronted) IN
         IF result = "ok"
         THEN /\ mem' = [mem EXCEPT !.cert = "current", !.age = "fresh"]
              /\ disk' \in {mem', Outdate(disk, mem.dev)}
              /\ renewed' = renewed + 1
              /\ dial' = [dial EXCEPT !.at = 1, !.count = 0,
                                !.stage = IF @ = "first" THEN "firstAgain" ELSE "h2Again"]
              /\ pc' = "dial"
         ELSE /\ EnrollEffect(result)
              /\ pc' = "failed"
              /\ UNCHANGED <<dial, renewed>>
    /\ UNCHANGED <<refused, live, told, user, net, org, account, fallback, quick, lastGood,
                   lastconn, peer, status, verified>>

(* No candidate of the first pass accepted: the HTTP/2 pass, unless HTTP/2  *)
(* is what the first pass used.                                             *)
ToHttp2 ==
    /\ pc = "exhausted" /\ dial.stage \in {"first", "firstAgain"}
    /\ IF Transport = "h2"
       THEN pc' = "loop" /\ dial' = NoDial /\ UNCHANGED fallback
       ELSE /\ fallback' = TRUE /\ pc' = "dial"
            /\ dial' = [stage |-> "h2", list |-> h2_candidates, at |-> 1,
                        count |-> IF dial.stage = "first" THEN dial.count ELSE 0]
    /\ UNCHANGED <<idVars, user, net, org, account, quick, lastGood, lastconn, peer, status,
                   verified, renewed>>

(* Mutant: the fallback is left latched. *)
BackToHttp3_Latched ==
    /\ pc = "exhausted" /\ dial.stage \in {"h2", "h2Again"}
    /\ dial' = NoDial /\ pc' = "loop"
    /\ UNCHANGED <<idVars, user, net, org, account, fallback, quick, lastGood, lastconn, peer,
                   status, verified, renewed>>

(* Nor any of the HTTP/2 pass: the scan is handed back to HTTP/3. *)
BackToHttp3 ==
    /\ pc = "exhausted" /\ dial.stage \in {"h2", "h2Again"}
    /\ fallback' = FALSE /\ dial' = NoDial /\ pc' = "loop"
    /\ UNCHANGED <<idVars, user, net, org, account, quick, lastGood, lastconn, peer, status,
                   verified, renewed>>

-----------------------------------------------------------------------------
(* Mutant: a last good peer that no longer answers is only tried again. *)
Choose_LastGoodOnly ==
    /\ pc = "loop"
    /\ \/ /\ quick # NoPeer
          /\ peer' = quick /\ quick' = NoPeer /\ pc' = "use"
          /\ UNCHANGED <<verified>>
       \/ /\ quick = NoPeer /\ lastGood # NoPeer /\ Outcome(lastGood, mem) = "Accepted"
          /\ Accept(lastGood) /\ peer' = lastGood /\ pc' = "use" /\ UNCHANGED quick
       \/ /\ quick = NoPeer
          /\ (lastGood # NoPeer) => Outcome(lastGood, mem) # "Accepted"
          /\ IF user.forced # NoPeer
             THEN peer' = user.forced /\ pc' = "use"
             ELSE pc' = (IF lastGood = NoPeer THEN "hunt" ELSE "sleep") /\ UNCHANGED peer
          /\ UNCHANGED <<quick, verified>>
    /\ UNCHANGED <<idVars, user, net, org, account, fallback, dial, lastGood, lastconn,
                   status, renewed>>

(* The loop.  The peer of the passes is used once; then the last good peer, *)
(* if a probe still accepts it; then the forced peer or a scan.             *)
Choose ==
    /\ pc = "loop"
    /\ \/ /\ quick # NoPeer
          /\ peer' = quick /\ quick' = NoPeer /\ pc' = "use"
          /\ UNCHANGED <<verified>>
       \/ /\ quick = NoPeer /\ lastGood # NoPeer /\ Outcome(lastGood, mem) = "Accepted"
          /\ Accept(lastGood) /\ peer' = lastGood /\ pc' = "use" /\ UNCHANGED quick
       \/ /\ quick = NoPeer
          /\ (lastGood # NoPeer) => Outcome(lastGood, mem) # "Accepted"
          /\ IF user.forced # NoPeer
             THEN peer' = user.forced /\ pc' = "use"
             ELSE pc' = "hunt" /\ UNCHANGED peer
          /\ UNCHANGED <<quick, verified>>
    /\ UNCHANGED <<idVars, user, net, org, account, fallback, dial, lastGood, lastconn, status,
                   renewed>>

(* A scan (hunt_best_gateway) selects a gateway that answers.  In Ironclad  *)
(* mode each probe is a whole tunnel that announces itself (tunnelping.rs). *)
Found(candidates) == {p \in candidates : Outcome(p, mem) = "Accepted"}
Announced(found) == IF user.ironclad /\ found # {} THEN "connected" ELSE status

Hunt ==
    /\ pc = "hunt"
    /\ LET found == Found(Peers) IN
       /\ status' = Announced(found)
       /\ \/ \E p \in found :
               Accept(p) /\ peer' = p /\ pc' = "use" /\ UNCHANGED fallback
          \/ /\ found = {}
             /\ IF Transport = "h2" THEN pc' = "sleep" /\ UNCHANGED fallback
                ELSE fallback' = TRUE /\ pc' = "anycast"
             /\ UNCHANGED <<peer, verified>>
    /\ UNCHANGED <<idVars, user, net, org, account, dial, quick, lastGood, lastconn, renewed>>

(* Mutant: the flag is taken back before the tunnel is dialled. *)
HuntAnycast_TakeBack ==
    /\ pc = "anycast"
    /\ LET found == Found(ToSet(GatewayPeers)) IN
       \/ \E p \in found : Accept(p) /\ peer' = p /\ pc' = "use" /\ fallback' = FALSE
       \/ /\ found = {} /\ fallback' = FALSE /\ pc' = "sleep"
          /\ UNCHANGED <<peer, verified>>
    /\ UNCHANGED <<idVars, user, net, org, account, dial, quick, lastGood, lastconn, status,
                   renewed>>

(* Mutant: a scan that finds nothing ends the session. *)
HuntAnycast_GiveUp ==
    /\ pc = "anycast"
    /\ LET found == Found(ToSet(GatewayPeers)) IN
       \/ \E p \in found : Accept(p) /\ peer' = p /\ pc' = "use" /\ UNCHANGED fallback
       \/ /\ found = {} /\ fallback' = FALSE /\ pc' = "failed"
          /\ UNCHANGED <<peer, verified>>
    /\ UNCHANGED <<idVars, user, net, org, account, dial, quick, lastGood, lastconn, status,
                   renewed>>

(* The bounded HTTP/2 check of the pool after an empty HTTP/3 scan. *)
HuntAnycast ==
    /\ pc = "anycast"
    /\ LET found == Found(ToSet(GatewayPeers)) IN
       \/ \E p \in found : Accept(p) /\ peer' = p /\ pc' = "use" /\ UNCHANGED fallback
       \/ /\ found = {} /\ fallback' = FALSE /\ pc' = "sleep"
          /\ UNCHANGED <<peer, verified>>
    /\ UNCHANGED <<idVars, user, net, org, account, dial, quick, lastGood, lastconn, status,
                   renewed>>

(* The peer is remembered before its tunnel is tried, in memory and, unless *)
(* it was forced, in the lastconn file, which is written in place.          *)
Remember ==
    /\ pc = "use"
    /\ lastGood' = peer
    /\ \/ user.forced = NoPeer /\ lastconn' = Torn /\ pc' = "saving"
       \/ pc' = "connect" /\ UNCHANGED lastconn   \* forced, or the file cannot be opened
    /\ UNCHANGED <<idVars, user, net, org, account, fallback, dial, quick, peer, status,
                   verified, renewed>>

Remembered ==
    /\ pc = "saving"
    /\ lastconn' = peer /\ pc' = "connect"
    /\ UNCHANGED <<idVars, user, net, org, account, fallback, dial, quick, lastGood, peer,
                   status, verified, renewed>>

(* run_masque_tunnel: the tunnel task reports ready after its own end-to-end *)
(* check, or it ends or stays silent until the startup timeout.             *)
TunnelUp ==
    /\ pc = "connect" /\ Outcome(peer, mem) = "Accepted"
    /\ pc' = "up" /\ status' = "connected"
    /\ UNCHANGED <<idVars, user, net, org, account, fallback, dial, quick, lastGood, lastconn,
                   peer, verified, renewed>>

(* Mutant: the app is not told of the end of a tunnel. *)
TunnelDown_Silent ==
    /\ \/ pc = "up"
       \/ pc = "connect" /\ Outcome(peer, mem) # "Accepted"
    /\ pc' = "sleep"
    /\ UNCHANGED <<idVars, masqueVars>>

(* The tunnel ended, or never came up: the app is told, and a pause follows. *)
TunnelDown ==
    /\ \/ pc = "up"
       \/ pc = "connect" /\ Outcome(peer, mem) # "Accepted"
    /\ pc' = "sleep" /\ status' = "connecting" /\ peer' = NoPeer
    /\ UNCHANGED <<idVars, user, net, org, account, fallback, dial, quick, lastGood, lastconn,
                   verified, renewed>>

Sleep ==
    /\ pc = "sleep"
    /\ pc' = "loop"
    /\ UNCHANGED <<idVars, masqueVars>>

-----------------------------------------------------------------------------
(* A network that changes, and a process that is stopped or killed: its      *)
(* memory is gone, or at least not looked at again; the files stay.          *)
NetworkChanges ==
    /\ net' \in Networks
    /\ UNCHANGED <<pc, idVars, user, org, account, fallback, dial, quick, lastGood, lastconn,
                   peer, status, verified, renewed>>

Stopped ==
    /\ Killed
    /\ dial' = NoDial /\ quick' = NoPeer /\ lastGood' = NoPeer /\ peer' = NoPeer
    /\ status' = "connecting" /\ verified' = <<>> /\ renewed' = 0
    /\ UNCHANGED <<user, net, org, account, fallback, lastconn>>

run_masque ==
    \/ Begin \/ DialNext \/ DialDone \/ Rejected \/ Refresh \/ ToHttp2 \/ BackToHttp3
    \/ Choose \/ Hunt \/ HuntAnycast \/ Remember \/ Remembered
    \/ TunnelUp \/ Sleep
    \/ pc = "connect" /\ TunnelDown

Identify == (Start \/ load_or_provision) /\ UNCHANGED masqueVars

Init ==
    /\ IdentityInit
    /\ user \in Users /\ net \in Networks
    /\ org \in OrgPeers /\ account \in AccountPeers
    /\ fallback = FALSE /\ dial = NoDial /\ quick = NoPeer /\ lastGood = NoPeer
    /\ lastconn \in {NoPeer} \cup Peers /\ peer = NoPeer
    /\ status = "connecting" /\ verified = <<>> /\ renewed = 0

Next ==
    /\ \/ Identify \/ run_masque \/ TunnelDown \/ Stopped \/ NetworkChanges
       \/ (DeviceDeleted \/ TimePasses) /\ UNCHANGED masqueVars
    /\ UNCHANGED settings

(* The core's task runs as long as the process does; the user, the network  *)
(* and the account owe nobody anything.                                     *)
Fairness == WF_vars(((load_or_provision /\ UNCHANGED masqueVars) \/ run_masque)
                    /\ UNCHANGED settings)

Spec == Init /\ [][Next]_vars /\ Fairness

-----------------------------------------------------------------------------
TypeOK ==
    /\ IdentityTypeOK
    /\ net \in Networks /\ user \in Users
    /\ fallback \in BOOLEAN /\ status \in {"connecting", "connected"}
    /\ {quick, lastGood, peer} \subseteq Peers \cup {NoPeer}
    /\ lastconn \in Peers \cup {NoPeer, Torn}
    /\ dial.count <= IdentityRejectedLimit /\ renewed \in 0..2

(* The tunnel is dialled the way its gateway was accepted: the peer, and     *)
(* the transport it answered on, are those of the last probe that           *)
(* succeeded.  A flag cleared or set in between would dial a transport      *)
(* nobody has seen work.                                                    *)
TunnelAsVerified ==
    (pc \in {"use", "saving", "connect"} /\ user.forced = NoPeer)
      => verified = <<peer, Transport>>

(* In the loop the HTTP/2 fallback is on only because a gateway accepted    *)
(* this session over HTTP/2: an attempt that found nothing puts it back.    *)
FallbackEarned ==
    (fallback /\ pc \in {"loop", "hunt", "use", "saving", "connect", "up", "sleep"})
      => verified # <<>> /\ verified[2] = "h2"

(* A pass made after a renewal never shows the gateways the certificate     *)
(* they have just refused.                                                  *)
RetriesWithNewCertificate ==
    (pc = "dial" /\ dial.stage \in {"firstAgain", "h2Again"}) => mem.cert = "current"

(* The app is told "connected" only while the session's tunnel is up.  An    *)
(* Ironclad scan is the exception: its probes announce themselves.           *)
ConnectedMeansTunnel == (status = "connected" /\ ~user.ironclad) => pc = "up"

(* What a session carries from one attempt to the next is sound: its fields *)
(* keep their types, the certificate is renewed once per pass at most, and  *)
(* the fallback, the retried certificate and the app's status are true.     *)
MasqueSafety == TypeOK /\ FallbackEarned /\ RetriesWithNewCertificate /\ ConnectedMeansTunnel

(* A gateway of the pool that answers on both transports, seen with a       *)
(* certificate the account knows.                                           *)
Reachable(p) == net.reach[p] = Transports /\ p \notin net.hiccup
Served == /\ proto = "masque" /\ mem \in Ids /\ mem.cert = "current" /\ mem.dev \in live
          /\ IF user.forced = NoPeer THEN \E p \in ToSet(GatewayPeers) : Reachable(p)
             ELSE Reachable(user.forced)

(* When the network settles with some gateway of the pool in reach, the     *)
(* session gets through again and again, however often its tunnel is lost,  *)
(* until it is stopped.                                                     *)
Recovers == <>[]Served /\ <>[][net' = net]_vars => []<>(pc \in {"up", "failed", "off"})

(* The session implements the abstract one.  An identity loaded for another  *)
(* protocol is none of its business.                                         *)
Phase == IF proto # "masque" THEN "idle"
         ELSE CASE pc = "off" -> "idle"
                [] pc = "failed" -> "failed"
                [] pc \in {"saving", "connect"} -> "trying"
                [] pc = "up" -> "up"
                [] pc = "sleep" -> "pausing"
                [] OTHER -> "choosing"
Core == INSTANCE CoreSession WITH phase <- Phase, tried <- (lastGood # NoPeer)

(* run_masque keeps the promise of CoreSession: it gives up only before the *)
(* first tunnel, and afterwards keeps trying.                               *)
ImplementsCore == Core!CoreSpec

=============================================================================
