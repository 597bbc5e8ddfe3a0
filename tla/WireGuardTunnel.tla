-------------------------- MODULE WireGuardTunnel --------------------------
(***************************************************************************)
(* One WireGuard tunnel (wireguard.rs) and the TUN bridge it feeds (tun.rs):*)
(* the handshake, the validation that measures how large a packet the path  *)
(* takes, and the four tasks of WgTunnel::run with the bridge's loop,        *)
(* joined by two bounded channels.                                          *)
(*                                                                          *)
(* Packets are counted, not carried.  A probe is known by its size, 0 for   *)
(* the small one.  Timers fire at any moment they may.                      *)
(***************************************************************************)
EXTENDS Naturals, Sequences

CONSTANTS Ladder,            \* PROBE_LADDER, largest first
          Paths,             \* sizes the path may be limited to; Dead carries nothing
          Dead,
          RequiredSuccesses, \* DATAPLANE_REQUIRED_SUCCESSES
          MaxTransient,      \* MAX_TRANSIENT_RECV_ERRORS
          Cap                \* sysprofile::channel_capacity()

ASSUME TunnelAssumption ==
    /\ Ladder \in Seq(Nat \ {0}) /\ Len(Ladder) > 0
    /\ \A i, j \in 1..Len(Ladder) : i < j => Ladder[i] > Ladder[j]
    /\ Paths \subseteq Nat \cup {Dead} /\ Dead \notin Nat
    /\ {RequiredSuccesses, Cap} \subseteq Nat \ {0} /\ MaxTransient \in Nat

VARIABLES stage,      \* "idle", "handshake", "small", "ladder", "live", "ended", "rejected"
          path,       \* the largest packet that crosses, or Dead
          check,      \* wireguard_data_check
          successes, rung,
          inflight,   \* sizes of the probes whose replies are under way
          crossed,    \* sizes of the echoes that came back in this validation
          hint,       \* INNER_MTU_HINT, one for the whole process
          inq, outq,  \* packets in the inbound and the outbound channel
          recv,       \* the recv task: "ready", or "blocked" on the inbound channel
          bridge,     \* "ready", "writing" to the TUN, "answering" a query, "blocked" on the
                      \* outbound channel, "over"
          tun,        \* does the TUN take packets: "open", "full", or "closed" for good
          fresh,      \* was something received within wg_stale_timeout
          transient   \* transient_errors

validation == <<stage, check, successes, rung, inflight, crossed, hint>>
traffic == <<inq, outq, recv, bridge, fresh, transient>>
vars == <<validation, traffic, path, tun>>

Crosses(size) == path # Dead /\ size <= path
Floor == Ladder[Len(Ladder)]
Rungs == {Ladder[i] : i \in 1..Len(Ladder)}

-----------------------------------------------------------------------------
(* verify_endpoint_keep_session and verify_dataplane. *)

Sent(size) == inflight \cup (IF Crosses(size) THEN {size} ELSE {})
ProbeSize == IF stage = "small" THEN 0 ELSE Ladder[rung]

Start ==
    /\ stage \in {"idle", "ended", "rejected"}
    /\ stage' = "handshake" /\ successes' = 0 /\ rung' = 0 /\ inflight' = {} /\ crossed' = {}
    /\ check' \in BOOLEAN
    /\ inq' = 0 /\ outq' = 0 /\ recv' = "ready" /\ bridge' = "ready" /\ fresh' = TRUE
    /\ transient' = 0
    /\ UNCHANGED <<hint, path, tun>>

Handshake ==
    /\ stage = "handshake" /\ path # Dead
    /\ \/ check /\ stage' = "small" /\ inflight' = Sent(0)
       \/ ~check /\ stage' = "live" /\ UNCHANGED inflight
    /\ UNCHANGED <<check, successes, rung, crossed, hint, traffic, path, tun>>

(* The probe of the moment is sent again after a while. *)
Resend ==
    /\ stage \in {"small", "ladder"}
    /\ inflight' = Sent(ProbeSize)
    /\ UNCHANGED <<stage, check, successes, rung, crossed, hint, traffic, path, tun>>

(* A small probe came back: any packet out of the tunnel counts. *)
SmallReply ==
    /\ stage = "small" /\ inflight # {}
    /\ \E r \in inflight, twice \in BOOLEAN :
         LET rest == IF twice THEN inflight ELSE inflight \ {r} IN
         IF successes + 1 >= RequiredSuccesses
         THEN /\ stage' = "ladder" /\ rung' = 1
              /\ inflight' = rest \cup (IF Crosses(Ladder[1]) THEN {Ladder[1]} ELSE {})
         ELSE /\ inflight' = rest \cup (IF Crosses(0) THEN {0} ELSE {})
              /\ UNCHANGED <<stage, rung>>
    /\ successes' = successes + 1
    /\ UNCHANGED <<check, crossed, hint, traffic, path, tun>>

(* Mutant: any packet passes for the echo. *)
EchoReply_AnyPacket ==
    /\ stage = "ladder"
    /\ \E r \in inflight :
         /\ crossed' = crossed \cup ({r} \ {0})
         /\ hint' = Ladder[rung] /\ stage' = "live" /\ inflight' = {}
    /\ UNCHANGED <<check, successes, rung, traffic, path, tun>>

(* In the ladder only an echo counts, whichever rung it was sent for; late   *)
(* small replies are passed over.                                           *)
EchoReply ==
    /\ stage = "ladder"
    /\ \E r \in inflight \ {0} :
         /\ crossed' = crossed \cup {r}
         /\ hint' = Ladder[rung] /\ stage' = "live" /\ inflight' = {}
    /\ UNCHANGED <<check, successes, rung, traffic, path, tun>>

(* A reply is lost, or a late small one is read and ignored. *)
ReplyGone ==
    /\ stage \in {"small", "ladder"}
    /\ \E r \in inflight : inflight' = inflight \ {r}
    /\ UNCHANGED <<stage, check, successes, rung, crossed, hint, traffic, path, tun>>

RungDeadline ==
    /\ stage = "ladder" /\ rung < Len(Ladder)
    /\ rung' = rung + 1
    /\ inflight' = inflight \cup (IF Crosses(Ladder[rung']) THEN {Ladder[rung']} ELSE {})
    /\ UNCHANGED <<stage, check, successes, crossed, hint, traffic, path, tun>>

(* The deadline of the whole validation. *)
Deadline ==
    /\ \/ stage \in {"handshake", "small"} /\ stage' = "rejected" /\ UNCHANGED hint
       \/ stage = "ladder" /\ hint' = Floor /\ stage' = "live"
    /\ inflight' = {}
    /\ UNCHANGED <<check, successes, rung, crossed, traffic, path, tun>>

(* A socket error in the middle of the validation rejects the endpoint.      *)
SocketFails ==
    /\ stage \in {"handshake", "small", "ladder"}
    /\ stage' = "rejected" /\ inflight' = {}
    /\ UNCHANGED <<check, successes, rung, crossed, hint, traffic, path, tun>>

-----------------------------------------------------------------------------
(* WgTunnel::run: the first task to end ends the tunnel, and the guard      *)
(* aborts the others.                                                       *)
End == stage' = "ended" /\ UNCHANGED <<check, successes, rung, inflight, crossed, hint>>
Live == stage = "live"

(* recv task: a valid packet is stamped first and handed on when there is   *)
(* room; a bridge that is gone takes it to nowhere.                         *)
RecvPacket ==
    /\ Live /\ recv = "ready" /\ path # Dead
    /\ fresh' = TRUE /\ transient' = 0 /\ recv' = "blocked"
    /\ UNCHANGED <<validation, inq, outq, bridge, path, tun>>

RecvForward ==
    /\ Live /\ recv = "blocked"
    /\ \/ bridge # "over" /\ inq < Cap /\ inq' = inq + 1
       \/ bridge = "over" /\ UNCHANGED inq
    /\ recv' = "ready"
    /\ UNCHANGED <<validation, outq, bridge, fresh, transient, path, tun>>

(* Mutant: transient errors are retried for ever. *)
RecvError_Forever ==
    /\ Live /\ recv = "ready"
    /\ \/ End /\ UNCHANGED transient
       \/ transient' = transient + 1 /\ UNCHANGED validation
    /\ UNCHANGED <<inq, outq, recv, bridge, fresh, path, tun>>

(* A fatal error ends the task, a transient one only when there are too     *)
(* many in a row.                                                           *)
RecvError ==
    /\ Live /\ recv = "ready"
    /\ \/ End /\ UNCHANGED transient
       \/ transient < MaxTransient /\ transient' = transient + 1 /\ UNCHANGED validation
    /\ UNCHANGED <<inq, outq, recv, bridge, fresh, path, tun>>

(* Mutant: nothing is sent while the other channel is full. *)
SendPacket_Locked ==
    /\ Live /\ outq > 0 /\ inq < Cap
    /\ outq' = outq - 1
    /\ UNCHANGED <<validation, inq, recv, bridge, fresh, transient, path, tun>>

(* send task: drains the outbound channel, and ends with it. *)
SendPacket ==
    /\ Live /\ outq > 0
    /\ outq' = outq - 1
    /\ UNCHANGED <<validation, inq, recv, bridge, fresh, transient, path, tun>>

(* Mutant: the send task outlives its channel. *)
SendEnds_Never == FALSE /\ UNCHANGED vars

SendEnds ==
    /\ Live /\ bridge = "over" /\ outq = 0
    /\ End
    /\ UNCHANGED <<traffic, path, tun>>

(* Nothing was received for wg_stale_timeout: the path carries nothing, or  *)
(* the recv task has been waiting for room.                                 *)
GoesStale ==
    /\ Live /\ fresh /\ (path = Dead \/ recv = "blocked")
    /\ fresh' = FALSE
    /\ UNCHANGED <<validation, inq, outq, recv, bridge, transient, path, tun>>

(* Mutant: the health task only sends its probe. *)
HealthCheck_ProbeOnly == FALSE /\ UNCHANGED vars

(* health task *)
HealthCheck ==
    /\ Live /\ ~fresh
    /\ End
    /\ UNCHANGED <<traffic, path, tun>>

-----------------------------------------------------------------------------
(* tun::bridge: one loop, which takes a packet from either side and does    *)
(* nothing else until it has put it on the other, or, for a DNS query that  *)
(* smart DNS answers, has written the answer back.                          *)
BridgeTake ==
    /\ Live /\ bridge = "ready"
    /\ \/ inq > 0 /\ inq' = inq - 1
          /\ bridge' \in {"writing", "ready"}   \* "ready": a reply to the exit probe
       \/ tun # "closed" /\ bridge' \in {"blocked", "answering"} /\ UNCHANGED inq
    /\ UNCHANGED <<validation, outq, recv, fresh, transient, path, tun>>

BridgeWrite ==
    /\ Live /\ bridge = "writing" /\ tun = "open"
    /\ bridge' = "ready"
    /\ UNCHANGED <<validation, inq, outq, recv, fresh, transient, path, tun>>

BridgeAnswer ==   \* an answer that cannot be written is dropped
    /\ Live /\ bridge = "answering" /\ tun # "full"
    /\ bridge' = "ready"
    /\ UNCHANGED <<validation, inq, outq, recv, fresh, transient, path, tun>>

BridgeSend ==
    /\ Live /\ bridge = "blocked" /\ outq < Cap
    /\ outq' = outq + 1 /\ bridge' = "ready"
    /\ UNCHANGED <<validation, inq, recv, fresh, transient, path, tun>>

(* The TUN is gone, noticed at a read or a write. *)
BridgeEnds ==
    /\ Live /\ bridge \in {"ready", "writing"} /\ tun = "closed"
    /\ bridge' = "over" /\ inq' = 0
    /\ UNCHANGED <<validation, outq, recv, fresh, transient, path, tun>>

(* The carrier and the app. *)
PathChanges ==
    /\ path' \in Paths
    /\ UNCHANGED <<validation, traffic, tun>>

TunChanges ==
    /\ tun # "closed" /\ tun' \in {"open", "full", "closed"}
    /\ UNCHANGED <<validation, traffic, path>>

Validate == \/ Handshake \/ Resend \/ SmallReply \/ EchoReply \/ ReplyGone
            \/ RungDeadline \/ Deadline \/ SocketFails
Run == \/ RecvPacket \/ RecvForward \/ RecvError \/ SendPacket \/ SendEnds
       \/ GoesStale \/ HealthCheck
Bridge == BridgeTake \/ BridgeWrite \/ BridgeAnswer \/ BridgeSend \/ BridgeEnds

Init ==
    /\ stage = "idle" /\ path \in Paths /\ check = TRUE /\ successes = 0 /\ rung = 0
    /\ inflight = {} /\ crossed = {} /\ hint = Ladder[1]
    /\ inq = 0 /\ outq = 0 /\ recv = "ready" /\ bridge = "ready" /\ tun = "open"
    /\ fresh = TRUE /\ transient = 0

Next == Start \/ Validate \/ Run \/ Bridge \/ PathChanges \/ TunChanges

(* Every task is polled, and every timer fires. *)
Fairness ==
    /\ WF_vars(Deadline) /\ WF_vars(GoesStale) /\ WF_vars(HealthCheck)
    /\ WF_vars(RecvForward) /\ WF_vars(SendPacket) /\ WF_vars(SendEnds)
    /\ WF_vars(Bridge)

Spec == Init /\ [][Next]_vars /\ Fairness

-----------------------------------------------------------------------------
ValidationTypeOK ==
    /\ stage \in {"idle", "handshake", "small", "ladder", "live", "ended", "rejected"}
    /\ check \in BOOLEAN
    /\ successes \in 0..RequiredSuccesses /\ rung \in 0..Len(Ladder)
    /\ inflight \subseteq {0} \cup Rungs /\ crossed \subseteq Rungs
    /\ hint \in Rungs

TrafficTypeOK ==
    /\ inq \in 0..Cap /\ outq \in 0..Cap /\ transient \in 0..MaxTransient
    /\ recv \in {"ready", "blocked"} /\ fresh \in BOOLEAN
    /\ bridge \in {"ready", "writing", "answering", "blocked", "over"}
    /\ path \in Paths /\ tun \in {"open", "full", "closed"}

TypeOK == ValidationTypeOK /\ TrafficTypeOK

(* The MTU hint the bridge clamps to is a size that crossed this very        *)
(* session, or the floor: echoes that come late, twice or for an earlier     *)
(* rung, and small replies that come during the ladder, never raise it       *)
(* above what was proven, and a hint of an earlier session does not survive. *)
HintProven == (stage = "live" /\ check) => hint = Floor \/ \E s \in crossed : s >= hint

(* The two directions never wait for each other: a bridge that waits for     *)
(* room in the outbound channel gets it, though the inbound channel is full  *)
(* and its writer waits as well.                                            *)
NoCrossedWait == (Live /\ bridge = "blocked") ~> (~Live \/ bridge # "blocked")

(* A tunnel does not stay up over a path that carries nothing any more.      *)
DeadPathNoticed == <>[](path = Dead) => []<>~Live

(* When the bridge is over, its TUN gone, the tunnel ends too.               *)
BridgeTakesTunnelDown == (Live /\ bridge = "over") ~> ~Live

(* A tunnel with nothing at its far end, or nothing at its near end, ends.   *)
LostEndNoticed == DeadPathNoticed /\ BridgeTakesTunnelDown

=============================================================================
