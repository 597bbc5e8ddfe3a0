---------------------------- MODULE MasqueTunnel ----------------------------
(***************************************************************************)
(* One MASQUE tunnel over either carrier: quic::run (HTTP/3) and            *)
(* masque_h2::run (HTTP/2), under run_masque_tunnel, which starts one of    *)
(* them with the local side (TUN bridge or netstack) and waits for it.      *)
(*                                                                          *)
(* An iteration of either select loop is one step: the arm that fired and   *)
(* the rest of the loop's body.  What can block within one is a step of its *)
(* own (send_capsule).  What is under way from the edge is a set: datagrams *)
(* may overtake the response they follow and may be lost, the rest is       *)
(* retransmitted by QUIC and TCP as long as the path works.  Keepalives and *)
(* probes change nothing here: the edge may always send.  Timers fire at    *)
(* any moment they may.                                                     *)
(***************************************************************************)
EXTENDS Naturals, FiniteSets

CONSTANTS Settings,           \* [carrier, check, ech] to start a tunnel with
          RequiredSuccesses,  \* DATA_PROBE_REQUIRED_SUCCESSES
          MaxQueued           \* bound: device packets in the outbound channel

Setting == [carrier: {"h3", "h2"}, check: BOOLEAN, ech: BOOLEAN]

ASSUME MasqueTunnelAssumption ==
    Settings \subseteq Setting /\ {RequiredSuccesses, MaxQueued} \subseteq Nat \ {0}

VARIABLES cfg,     \* the carrier, data_check_enabled(), and whether ECH is configured
          tun,     \* run's own variables
          conn,    \* the connection underneath: quiche's, or TCP with TLS and h2 on it
          edge,    \* the edge's view of the CONNECT-IP request
          wire,    \* what is on its way from the edge
          window,  \* h2: the edge takes more of the body
          path,    \* packets get through
          local,   \* the local side: up or ended, and what it has queued for the tunnel
          caller,  \* run_masque_tunnel
          sent,    \* history: the edge's view whenever a device packet went out
          heard    \* history: iterations that brought data from the edge

world == <<edge, window, path>>
vars == <<cfg, tun, conn, wire, world, local, caller, sent, heard>>

(* at: where run is; h2 has "dial" before its request and "await" its      *)
(* response, "send" and "probe" in send_capsule with a device packet and   *)
(* with a probe.  established: established_ever.  rejected: the *)
(* handshake failed and the edge's retry configurations are at hand.       *)
Starting == [at |-> IF cfg.carrier = "h3" THEN "loop" ELSE "dial",
             ready |-> FALSE, req |-> FALSE, successes |-> 0,
             established |-> FALSE, rejected |-> FALSE, ech_retried |-> FALSE,
             ctrl_open |-> TRUE, outbound_open |-> TRUE]

Init ==
    /\ cfg \in Settings
    /\ tun = Starting
    /\ conn = "handshake" /\ edge = "idle" /\ wire = {} /\ window = TRUE /\ path = TRUE
    /\ local = [up |-> TRUE, queued |-> 0]
    /\ caller = "waiting"
    /\ sent = {} /\ heard = 0

H3 == cfg.carrier = "h3"
Live == tun.at # "done"
Done(t) == [t EXCEPT !.at = "done"]
Heard(data) == IF data /\ heard < RequiredSuccesses THEN heard + 1 ELSE heard

(* Mutant: replies go on being counted. *)
Validated_NoStop(t, data) ==
    IF ~data THEN t
    ELSE [t EXCEPT !.successes = @ + 1, !.ready = @ \/ t.successes + 1 >= RequiredSuccesses]

(* Mutant: the first reply is enough. *)
Validated_FirstReply(t, data) ==
    IF ~data \/ t.ready THEN t
    ELSE [t EXCEPT !.successes = @ + 1, !.ready = TRUE]

(* Data from the edge before the tunnel is ready counts towards it. *)
Validated(t, data) ==
    IF ~data \/ t.ready THEN t
    ELSE [t EXCEPT !.successes = @ + 1, !.ready = t.successes + 1 >= RequiredSuccesses]

-----------------------------------------------------------------------------
(* quic::run *)

(* The arm of net_rx and the tail of the loop behind it: a finished        *)
(* handshake sends the request, the response is read before the datagrams, *)
(* and the end of the request's stream is an event poll_h3 passes over.    *)
Poll(t, got) ==
    LET asked == IF "hello" \in got THEN [t EXCEPT !.established = TRUE, !.req = TRUE] ELSE t
        accepted == [asked EXCEPT !.ready = @ \/ ("status" \in got /\ ~cfg.check)]
    IN  IF "ech" \in got THEN [asked EXCEPT !.rejected = TRUE]
        ELSE IF asked.req /\ "denied" \in got THEN Done(asked)
        ELSE Validated(accepted, asked.req /\ "dgram" \in got)

Receive ==
    /\ H3 /\ Live /\ conn \in {"handshake", "up"} /\ wire # {}
    /\ \E got \in SUBSET wire \ {{}} :
         /\ tun' = Poll(tun, got)
         /\ conn' = IF got \cap {"ech", "bye"} # {} THEN "closing"
                    ELSE IF "hello" \in got THEN "up" ELSE conn
         /\ edge' = IF "hello" \in got THEN "asked" ELSE edge
         /\ wire' = wire \ got
         /\ heard' = Heard("dgram" \in got)
    /\ UNCHANGED <<cfg, window, path, local, caller, sent>>

(* Mutant: a request is enough to carry traffic. *)
Outbound_OnRequest ==
    /\ H3 /\ Live /\ tun.outbound_open /\ local.queued > 0
    /\ sent' = IF tun.req THEN sent \cup {edge} ELSE sent
    /\ local' = [local EXCEPT !.queued = IF tun.req THEN 0 ELSE @ - 1]
    /\ UNCHANGED <<cfg, tun, conn, wire, world, caller, heard>>

(* The arm of outbound_rx: a packet dropped, or a batch handed to QUIC, as *)
(* far as QUIC takes it.                                                   *)
Outbound ==
    /\ H3 /\ Live /\ tun.outbound_open /\ local.queued > 0
    /\ sent' = IF tun.req /\ tun.ready THEN sent \cup {edge} ELSE sent
    /\ \E left \in 0..(local.queued - 1) :
         /\ (tun.req /\ tun.ready) \/ left = local.queued - 1
         /\ local' = [local EXCEPT !.queued = left]
    /\ UNCHANGED <<cfg, tun, conn, wire, world, caller, heard>>

Closing == IF conn \in {"handshake", "up"} THEN "closing" ELSE conn

(* The channels' other ends are gone: the connection is closed, the loop   *)
(* goes on until it has drained.                                           *)
OutboundEof ==
    /\ H3 /\ Live /\ tun.outbound_open /\ ~local.up /\ local.queued = 0
    /\ tun' = [tun EXCEPT !.outbound_open = FALSE]
    /\ conn' = Closing
    /\ UNCHANGED <<cfg, wire, world, local, caller, sent, heard>>

CtrlEof ==
    /\ H3 /\ Live /\ tun.ctrl_open /\ caller = "gone"
    /\ tun' = [tun EXCEPT !.ctrl_open = FALSE]
    /\ conn' = Closing
    /\ UNCHANGED <<cfg, wire, world, local, caller, sent, heard>>

Retry == tun.rejected /\ ~tun.established /\ ~tun.ech_retried /\ cfg.ech

(* Mutant: no idle timer. *)
OnTimeout_DrainsOnly ==
    /\ H3 /\ Live /\ conn = "closing"
    /\ IF Retry
       THEN /\ tun' = [tun EXCEPT !.ech_retried = TRUE, !.rejected = FALSE, !.req = FALSE]
            /\ conn' = "handshake" /\ wire' = {}
       ELSE tun' = Done(tun) /\ conn' = "closed" /\ UNCHANGED wire
    /\ UNCHANGED <<cfg, world, local, caller, sent, heard>>

(* conn.on_timeout: the draining timer, or the idle timer of a connection  *)
(* that hears nothing.  A closed connection ends run, unless ECH was       *)
(* refused: then the handshake is tried once more with the edge's keys.    *)
OnTimeout ==
    /\ H3 /\ Live
    /\ conn = "closing" \/ ~path \/ (conn = "handshake" /\ wire = {})
    /\ IF Retry
       THEN /\ tun' = [tun EXCEPT !.ech_retried = TRUE, !.rejected = FALSE, !.req = FALSE]
            /\ conn' = "handshake" /\ wire' = {}
       ELSE tun' = Done(tun) /\ conn' = "closed" /\ UNCHANGED wire
    /\ UNCHANGED <<cfg, world, local, caller, sent, heard>>

-----------------------------------------------------------------------------
(* masque_h2::run *)

(* TCP, TLS and the h2 handshake, then the request. *)
Connect ==
    /\ ~H3 /\ tun.at = "dial" /\ "hello" \in wire
    /\ tun' = [tun EXCEPT !.at = "await", !.req = TRUE, !.established = TRUE]
    /\ conn' = "up" /\ edge' = "asked" /\ wire' = wire \ {"hello"}
    /\ UNCHANGED <<cfg, window, path, local, caller, sent, heard>>

Response ==
    /\ ~H3 /\ tun.at = "await" /\ wire \cap {"status", "denied"} # {}
    /\ tun' = IF "denied" \in wire THEN Done(tun)
              ELSE IF cfg.check THEN [tun EXCEPT !.at = "probe"]
              ELSE [tun EXCEPT !.at = "loop", !.ready = TRUE]
    /\ wire' = wire \ {"status", "denied"}
    /\ UNCHANGED <<cfg, conn, world, local, caller, sent, heard>>

(* Mutant: the end of the outbound channel is passed over. *)
H2Closed_Ignored ==
    /\ ~H3 /\ tun.at = "loop" /\ caller = "gone"
    /\ tun' = Done(tun) /\ conn' = "closed"
    /\ UNCHANGED <<cfg, wire, world, local, caller, sent, heard>>

(* The biased loop: control first, then the device, then the edge. *)
H2Closed ==
    /\ ~H3 /\ tun.at = "loop"
    /\ caller = "gone" \/ (~local.up /\ local.queued = 0)
    /\ tun' = Done(tun) /\ conn' = "closed"
    /\ UNCHANGED <<cfg, wire, world, local, caller, sent, heard>>

H2Outbound ==
    /\ ~H3 /\ tun.at = "loop" /\ caller # "gone" /\ local.queued > 0
    /\ tun' = [tun EXCEPT !.at = "send"]
    /\ local' = [local EXCEPT !.queued = @ - 1]
    /\ UNCHANGED <<cfg, conn, wire, world, caller, sent, heard>>

Idle == caller # "gone" /\ local.queued = 0 /\ local.up

H2Data ==
    /\ ~H3 /\ tun.at = "loop" /\ Idle /\ "dgram" \in wire
    /\ LET heardOf == Validated(tun, TRUE) IN
       tun' = IF heardOf.ready THEN heardOf ELSE [heardOf EXCEPT !.at = "probe"]
    /\ wire' = wire \ {"dgram"}
    /\ heard' = Heard(TRUE)
    /\ UNCHANGED <<cfg, conn, world, local, caller, sent>>

(* Mutant: the end of the body is passed over. *)
H2End_KeepsTunnel ==
    /\ ~H3 /\ tun.at = "loop" /\ Idle /\ "dgram" \notin wire
    /\ "bye" \in wire \/ ~path
    /\ tun' = Done(tun) /\ conn' = "closed"
    /\ UNCHANGED <<cfg, wire, world, local, caller, sent, heard>>

(* The body ends, or fails with the connection. *)
H2End ==
    /\ ~H3 /\ tun.at = "loop" /\ Idle /\ "dgram" \notin wire
    /\ wire \cap {"fin", "bye"} # {} \/ ~path
    /\ tun' = Done(tun) /\ conn' = "closed"
    /\ UNCHANGED <<cfg, wire, world, local, caller, sent, heard>>

(* send_capsule waits for the edge's window and for nothing else; on a     *)
(* dead path nothing opens it again.                                       *)
SendCapsule ==
    /\ tun.at \in {"send", "probe"} /\ window
    /\ tun' = [tun EXCEPT !.at = "loop"]
    /\ window' = path
    /\ sent' = IF tun.at = "send" THEN sent \cup {edge} ELSE sent
    /\ UNCHANGED <<cfg, conn, wire, edge, path, local, caller, heard>>

(* The stream or the connection fails under it, or before the loop: only a *)
(* probe's failure is passed over.                                         *)
H2Fails ==
    /\ ~H3 /\ tun.at \in {"dial", "await", "send", "probe"}
    /\ wire \cap {"fin", "bye"} # {} \/ ~path
    /\ tun' = IF tun.at = "probe" THEN [tun EXCEPT !.at = "loop"] ELSE Done(tun)
    /\ conn' = IF tun.at = "probe" THEN conn ELSE "closed"
    /\ UNCHANGED <<cfg, wire, world, local, caller, sent, heard>>

-----------------------------------------------------------------------------
(* Either carrier *)

(* The validation's deadline, looked at when an iteration begins. *)
ValidationTimeout ==
    /\ cfg.check /\ ~tun.ready /\ tun.req /\ tun.at = "loop"
    /\ tun' = Done(tun) /\ conn' = "closed"
    /\ UNCHANGED <<cfg, wire, world, local, caller, sent, heard>>

(* An error that run returns at once: of the socket, TLS, quiche or h2. *)
Fails ==
    /\ tun.at \in IF H3 THEN {"loop"} ELSE {"dial", "await"}
    /\ tun' = Done(tun) /\ conn' = "closed"
    /\ UNCHANGED <<cfg, wire, world, local, caller, sent, heard>>

-----------------------------------------------------------------------------
(* run_masque_tunnel *)

Told ==
    /\ caller = "waiting" /\ tun.ready
    /\ caller' = "running"
    /\ UNCHANGED <<cfg, tun, conn, wire, world, local, sent, heard>>

(* masque_startup_timeout: the tunnel and the local side are aborted. *)
StartupTimeout ==
    /\ caller = "waiting" /\ ~tun.ready /\ Live
    /\ caller' = "returned"
    /\ tun' = Done(tun) /\ conn' = "closed" /\ local' = [local EXCEPT !.up = FALSE]
    /\ UNCHANGED <<cfg, wire, world, sent, heard>>

TunnelEnded ==
    /\ caller \in {"waiting", "running"} /\ ~Live
    /\ caller' = "returned" /\ local' = [local EXCEPT !.up = FALSE]
    /\ UNCHANGED <<cfg, tun, conn, wire, world, sent, heard>>

(* The session's future is dropped: the tasks it spawned are not. *)
Abandoned ==
    /\ caller \in {"waiting", "running"}
    /\ caller' = "gone"
    /\ UNCHANGED <<cfg, tun, conn, wire, world, local, sent, heard>>

(* The local side: the device's packets, and its end. *)
DevicePacket ==
    /\ local.up /\ local.queued < MaxQueued /\ Live
    /\ local' = [local EXCEPT !.queued = @ + 1]
    /\ UNCHANGED <<cfg, tun, conn, wire, world, caller, sent, heard>>

LocalEnds ==
    /\ local.up
    /\ local' = [local EXCEPT !.up = FALSE]
    /\ UNCHANGED <<cfg, tun, conn, wire, world, caller, sent, heard>>

-----------------------------------------------------------------------------
(* The edge and the path *)

Arrives(m) == wire' = wire \cup {m}
EdgeKeeps == UNCHANGED <<cfg, tun, conn, path, local, caller, sent, heard>>

EdgeHello ==
    /\ path /\ Live /\ conn = "handshake" /\ wire = {}
    /\ \/ Arrives("hello")
       \/ Arrives("bye")
       \/ cfg.ech /\ Arrives("ech")
    /\ UNCHANGED <<edge, window>> /\ EdgeKeeps

EdgeAnswers ==
    /\ path /\ Live /\ edge = "asked"
    /\ \/ edge' = "accepted" /\ Arrives("status")
       \/ edge' = "refused" /\ Arrives("denied")
    /\ UNCHANGED window /\ EdgeKeeps

EdgeSends ==
    /\ path /\ Live /\ edge = "accepted" /\ "dgram" \notin wire
    /\ Arrives("dgram")
    /\ UNCHANGED <<edge, window>> /\ EdgeKeeps

EdgeEnds ==
    /\ path /\ Live /\ edge = "accepted"
    /\ edge' = "ended" /\ Arrives("fin")
    /\ UNCHANGED window /\ EdgeKeeps

EdgeCloses ==
    /\ path /\ Live /\ edge # "idle" /\ "bye" \notin wire
    /\ Arrives("bye")
    /\ UNCHANGED <<edge, window>> /\ EdgeKeeps

EdgeWindow ==
    /\ window' = ~window /\ ~H3 /\ path /\ Live
    /\ UNCHANGED <<edge, wire>> /\ EdgeKeeps

Lost ==
    /\ H3 /\ "dgram" \in wire /\ wire' = wire \ {"dgram"}
    /\ UNCHANGED <<edge, window>> /\ EdgeKeeps

PathDies ==
    /\ path /\ Live /\ path' = FALSE /\ wire' = {}
    /\ UNCHANGED <<cfg, tun, conn, edge, window, local, caller, sent, heard>>

-----------------------------------------------------------------------------
quic_run == Receive \/ Outbound \/ OutboundEof \/ CtrlEof \/ OnTimeout
h2_run == Connect \/ Response \/ H2Closed \/ H2Outbound \/ H2Data \/ H2End \/ SendCapsule \/ H2Fails
run_masque_tunnel == Told \/ StartupTimeout \/ TunnelEnded \/ Abandoned
Edge == EdgeHello \/ EdgeAnswers \/ EdgeSends \/ EdgeEnds \/ EdgeCloses \/ EdgeWindow

Next ==
    \/ quic_run \/ h2_run \/ ValidationTimeout \/ Fails \/ run_masque_tunnel
    \/ DevicePacket \/ LocalEnds \/ Edge \/ Lost \/ PathDies

(* tokio polls the arms of the unbiased select in random order, so each    *)
(* has its turn; the biased one moves on whenever something is ready.  A   *)
(* timer fires, and a live edge reads what it has accepted.                *)
Fairness ==
    /\ WF_vars(Receive) /\ WF_vars(Outbound) /\ WF_vars(OutboundEof) /\ WF_vars(CtrlEof)
    /\ WF_vars(OnTimeout) /\ WF_vars(h2_run) /\ SF_vars(SendCapsule)
    /\ WF_vars(EdgeWindow /\ ~window)
    /\ WF_vars(Told \/ StartupTimeout \/ TunnelEnded)

Spec == Init /\ [][Next]_vars /\ Fairness

-----------------------------------------------------------------------------
TypeOK ==
    /\ cfg \in Settings
    /\ tun \in [at: {"dial", "await", "loop", "send", "probe", "done"}, ready: BOOLEAN,
                req: BOOLEAN, successes: 0..RequiredSuccesses, established: BOOLEAN,
                rejected: BOOLEAN, ech_retried: BOOLEAN, ctrl_open: BOOLEAN,
                outbound_open: BOOLEAN]
    /\ conn \in {"handshake", "up", "closing", "closed"}
    /\ edge \in {"idle", "asked", "accepted", "refused", "ended"}
    /\ wire \subseteq {"hello", "ech", "status", "denied", "dgram", "fin", "bye"}
    /\ window \in BOOLEAN /\ path \in BOOLEAN
    /\ local \in [up: BOOLEAN, queued: 0..MaxQueued]
    /\ caller \in {"waiting", "running", "returned", "gone"}
    /\ sent \subseteq {"idle", "asked", "accepted", "refused", "ended"}
    /\ heard \in 0..RequiredSuccesses

Accepted == {"accepted", "ended"}

(* "Only carry device traffic once the edge has accepted the CONNECT-IP    *)
(* request": what the device had queued before never reaches the edge.     *)
CarriedOnceAccepted == sent \subseteq Accepted

(* The loop's own account of the tunnel is sound: its fields keep their      *)
(* types, replies are counted up to DATA_PROBE_REQUIRED_SUCCESSES and no     *)
(* further, and nothing of the device's was sent too early.                 *)
CarrierSafety == TypeOK /\ CarriedOnceAccepted

(* The tunnel is announced on the edge's word and never on the client's:   *)
(* the edge accepted the request and, where the data plane is checked, was *)
(* heard RequiredSuccesses times, whatever was lost, overtook or retried.  *)
ReadyIsEarned ==
    tun.ready => edge \in Accepted /\ (cfg.check => heard >= RequiredSuccesses)

(* A tunnel that is up ends when the local side ends or the session is     *)
(* dropped.  What run was told before an ECH retry is the exception: the   *)
(* retry's new connection is not closed for it.                            *)
LeftMeansEnded ==
    (tun.ready /\ ((~local.up /\ tun.outbound_open) \/ (caller = "gone" /\ tun.ctrl_open)))
    ~> ~Live

(* A path that carries nothing any more ends the tunnel, by the idle timer *)
(* of QUIC or the failure of TCP, whatever state it is in.                 *)
DeadPathEnds == ~path ~> ~Live

(* On HTTP/2 the edge's end of the stream ends the tunnel once the device, *)
(* which the loop serves first, falls silent.                              *)
StreamEndNoticed == <>[](local.queued = 0) => ((~H3 /\ edge = "ended") ~> ~Live)

(* A far end that is lost, with its path or by its own word, ends the tunnel. *)
FarEndLost == DeadPathEnds /\ StreamEndNoticed
=============================================================================
