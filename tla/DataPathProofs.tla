--------------------------- MODULE DataPathProofs ---------------------------
(***************************************************************************)
(* The components a user's bytes go through: the tunnel, whose check of the *)
(* path decides how large a packet may be; the relay of a SOCKS CONNECT     *)
(* over the user-space stack; and the DNS split, as an instance with        *)
(* variables of its own.  They share nothing but TLAPS.                     *)
(*                                                                          *)
(* The tunnel, for every ladder of probe sizes, every set of path sizes and *)
(* every bound.  HintProven is not inductive: that the rung published is no *)
(* larger than what crossed needs to know what is under way.  LadderInv     *)
(* adds it: before the ladder only small probes are, and on rung i nothing  *)
(* but small probes and probes of rung i or larger ones, because the ladder *)
(* only descends.                                                           *)
(*                                                                          *)
(* The relay, for every request, every capacity of the queues and buffers   *)
(* and every number of chunks.  UploadIntact needs to know of every chunk   *)
(* where it is: ConnectInv follows the stream through data_in, the pending  *)
(* buffer, the socket and the far end (Stream), says what the fields of a   *)
(* connection say of each other (Sound), that no connection is opened twice *)
(* (OpenedOnce), and what the request's own place in handle_connect implies *)
(* (Place).  A poll takes any number of segments and a drain any number of  *)
(* items, so both need an induction: it goes over the positions that        *)
(* satisfy a predicate, a set of numbers whose complement has no least      *)
(* member.                                                                  *)
(***************************************************************************)
EXTENDS WireGuardTunnel, SocksConnect, TLAPS, FiniteSetTheorems, SequenceTheorems,
        WellFoundedInduction

-----------------------------------------------------------------------------
(* The tunnel: the probe ladder and the traffic *)

(* What may be under way at each stage of verify_dataplane. *)
UnderWay ==
    /\ stage # "ladder" => inflight \subseteq {0}
    /\ stage = "ladder" => /\ rung \in 1..Len(Ladder)
                           /\ \A s \in inflight : s = 0 \/ s >= Ladder[rung]

(* The count that opens the ladder is still short of it before. *)
Counting == stage \in {"handshake", "small"} => successes < RequiredSuccesses

(* The invariant of the validation, and with the traffic's types the whole. *)
Ladders == ValidationTypeOK /\ UnderWay /\ Counting /\ HintProven
LadderInv == Ladders /\ TrafficTypeOK

-----------------------------------------------------------------------------
(* The ladder of PROBE_LADDER: its rungs are positive sizes, and descend. *)
LEMMA LadderFacts ==
    /\ Len(Ladder) \in Nat /\ Len(Ladder) > 0
    /\ \A i \in 1..Len(Ladder) : Ladder[i] \in Nat \ {0} /\ Ladder[i] \in Rungs
    /\ \A i, j \in 1..Len(Ladder) : i < j => Ladder[i] > Ladder[j]
    /\ Rungs \subseteq Nat \ {0}
    /\ Floor \in Rungs
  BY TunnelAssumption DEF Rungs, Floor

(* The first state: nothing is under way, and the hint is the largest rung. *)
LEMMA InitLadder == Init => LadderInv
<1> SUFFICES ASSUME Init PROVE LadderInv
  OBVIOUS
<1> USE LadderFacts, TunnelAssumption
<1>1. Ladders
  BY DEF Init, Ladders, ValidationTypeOK, UnderWay, Counting, HintProven
<1>2. TrafficTypeOK
  BY DEF Init, TrafficTypeOK
<1> QED
  BY <1>1, <1>2 DEF LadderInv

(* A step that leaves the validation alone leaves what it found alone. *)
LEMMA ValidationKept == Ladders /\ UNCHANGED validation => Ladders'
  BY DEF Ladders, ValidationTypeOK, UnderWay, Counting, HintProven, validation, Floor

(* So does a step that leaves the traffic alone. *)
LEMMA TrafficKept == TrafficTypeOK /\ UNCHANGED <<traffic, path, tun>> => TrafficTypeOK'
  BY DEF TrafficTypeOK, traffic

(* The end of a tunnel forgets nothing that was proven. *)
LEMMA EndKeeps == Ladders /\ Live /\ End => Ladders'
  BY DEF Ladders, ValidationTypeOK, UnderWay, Counting, HintProven, End, Live, Floor

(* A validation begins with nothing under way, in fresh channels. *)
LEMMA StartLadder == LadderInv /\ Start => LadderInv'
<1> SUFFICES ASSUME LadderInv, Start PROVE LadderInv'
  OBVIOUS
<1> USE LadderFacts, TunnelAssumption
<1>1. Ladders'
  BY DEF LadderInv, Ladders, ValidationTypeOK, UnderWay, Counting, HintProven, Start
<1>2. TrafficTypeOK'
  BY DEF LadderInv, TrafficTypeOK, Start
<1> QED
  BY <1>1, <1>2 DEF LadderInv

(* Every step of the validation keeps the invariant. *)
LEMMA ValidateLadder == Ladders /\ Validate => Ladders'
<1> SUFFICES ASSUME Ladders, Validate PROVE Ladders'
  OBVIOUS
<1> USE LadderFacts, TunnelAssumption
<1>1. CASE Handshake
  <2>1. inflight' \subseteq {0}
    BY <1>1 DEF Handshake, Sent, Ladders, UnderWay
  <2> QED
    BY <1>1, <2>1 DEF Ladders, ValidationTypeOK, UnderWay, Counting, HintProven, Handshake
<1>2. CASE Resend
  <2>1. inflight' \subseteq inflight \cup {ProbeSize}
    BY <1>2 DEF Resend, Sent
  <2>2. ValidationTypeOK' /\ Counting' /\ HintProven'
    BY <1>2, <2>1
       DEF Ladders, ValidationTypeOK, UnderWay, Counting, HintProven, Resend, ProbeSize
  <2>3. CASE stage = "small"
    BY <1>2, <2>1, <2>2, <2>3 DEF Ladders, UnderWay, Resend, ProbeSize
  <2>4. CASE stage = "ladder"
    <3>1. rung' = rung /\ rung \in 1..Len(Ladder) /\ stage' = stage
      BY <1>2, <2>4 DEF Ladders, UnderWay, Resend
    <3>2. \A s \in inflight' : s = 0 \/ s >= Ladder[rung]
      BY <2>1, <2>4, <3>1 DEF Ladders, UnderWay, ProbeSize
    <3> QED
      BY <2>2, <2>4, <3>1, <3>2 DEF Ladders, UnderWay
  <2> QED
    BY <1>2, <2>3, <2>4 DEF Resend
<1>3. CASE SmallReply
  <2>1. successes' = successes + 1 /\ successes < RequiredSuccesses /\ successes \in Nat
    BY <1>3 DEF Ladders, ValidationTypeOK, Counting, SmallReply
  <2>2. CASE successes + 1 >= RequiredSuccesses
    <3>1. stage' = "ladder" /\ rung' = 1 /\ inflight' \subseteq inflight \cup {Ladder[1]}
      BY <1>3, <2>2 DEF SmallReply
    <3>2. UnderWay'
      BY <1>3, <3>1 DEF Ladders, UnderWay, SmallReply
    <3>3. Ladder[1] \in Rungs /\ 1 \in 0..Len(Ladder)
      OBVIOUS
    <3>4. ValidationTypeOK'
      BY <1>3, <2>1, <3>1, <3>3 DEF Ladders, ValidationTypeOK, SmallReply
    <3>5. Counting' /\ HintProven'
      BY <3>1 DEF Counting, HintProven
    <3> QED
      BY <3>2, <3>4, <3>5 DEF Ladders
  <2>3. CASE ~(successes + 1 >= RequiredSuccesses)
    <3>1. stage' = stage /\ rung' = rung /\ inflight' \subseteq inflight \cup {0}
      BY <1>3, <2>3 DEF SmallReply
    <3> QED
      BY <1>3, <2>1, <2>3, <3>1
         DEF Ladders, ValidationTypeOK, UnderWay, Counting, HintProven, SmallReply
  <2> QED
    BY <2>2, <2>3
<1>4. CASE EchoReply
  BY <1>4 DEF Ladders, ValidationTypeOK, UnderWay, Counting, HintProven, EchoReply
<1>5. CASE ReplyGone
  BY <1>5 DEF Ladders, ValidationTypeOK, UnderWay, Counting, HintProven, ReplyGone
<1>6. CASE RungDeadline
  <2>1. inflight' \subseteq inflight \cup {Ladder[rung']}
    BY <1>6 DEF RungDeadline
  <2>2. rung \in 1..Len(Ladder) /\ rung' \in 1..Len(Ladder) /\ rung < rung'
    BY <1>6 DEF Ladders, UnderWay, RungDeadline
  <2>3. Ladder[rung] > Ladder[rung'] /\ Ladder[rung] \in Nat /\ Ladder[rung'] \in Nat
    BY <2>2
  <2>4. \A s \in inflight' : s = 0 \/ s >= Ladder[rung']
    BY <1>6, <2>1, <2>3 DEF Ladders, ValidationTypeOK, UnderWay, RungDeadline
  <2>5. ValidationTypeOK'
    <3>1. Ladder[rung'] \in Rungs /\ rung' \in 0..Len(Ladder)
      BY <2>2
    <3>2. inflight' \subseteq {0} \cup Rungs
      BY <2>1, <3>1 DEF Ladders, ValidationTypeOK
    <3> QED
      BY <1>6, <3>1, <3>2 DEF Ladders, ValidationTypeOK, RungDeadline
  <2>6. UnderWay'
    BY <1>6, <2>2, <2>4 DEF UnderWay, RungDeadline
  <2>7. Counting' /\ HintProven'
    BY <1>6 DEF Counting, HintProven, RungDeadline
  <2> QED
    BY <2>5, <2>6, <2>7 DEF Ladders
<1>7. CASE Deadline
  BY <1>7 DEF Ladders, ValidationTypeOK, UnderWay, Counting, HintProven, Deadline
<1>8. CASE SocketFails
  BY <1>8 DEF Ladders, ValidationTypeOK, UnderWay, Counting, HintProven, SocketFails
<1> QED
  BY <1>1, <1>2, <1>3, <1>4, <1>5, <1>6, <1>7, <1>8 DEF Validate

(* The tasks of a live tunnel and the bridge end it or leave the validation   *)
(* alone.                                                                     *)
LEMMA RunLadder == Ladders /\ (Run \/ Bridge) => Ladders'
<1>1. Run \/ Bridge => UNCHANGED validation \/ (Live /\ End)
  BY DEF Run, Bridge, RecvPacket, RecvForward, RecvError, SendPacket, SendEnds, GoesStale,
         HealthCheck, BridgeTake, BridgeWrite, BridgeAnswer, BridgeSend, BridgeEnds
<1> QED
  BY <1>1, ValidationKept, EndKeeps

(* And they keep to the channels' capacity. *)
LEMMA RunTraffic == TrafficTypeOK /\ (Run \/ Bridge) => TrafficTypeOK'
<1> SUFFICES ASSUME TrafficTypeOK, Run \/ Bridge PROVE TrafficTypeOK'
  OBVIOUS
<1> USE TunnelAssumption
<1>1. CASE RecvPacket
  BY <1>1 DEF TrafficTypeOK, RecvPacket
<1>2. CASE GoesStale
  BY <1>2 DEF TrafficTypeOK, GoesStale
<1>3. CASE RecvForward
  BY <1>3 DEF TrafficTypeOK, RecvForward
<1>4. CASE RecvError
  BY <1>4 DEF TrafficTypeOK, RecvError
<1>5. CASE SendPacket
  BY <1>5 DEF TrafficTypeOK, SendPacket
<1>6. CASE SendEnds \/ HealthCheck
  BY <1>6, TrafficKept DEF SendEnds, HealthCheck
<1>7. CASE BridgeTake
  BY <1>7 DEF TrafficTypeOK, BridgeTake
<1>8. CASE BridgeWrite \/ BridgeAnswer
  BY <1>8 DEF TrafficTypeOK, BridgeWrite, BridgeAnswer
<1>9. CASE BridgeSend
  BY <1>9 DEF TrafficTypeOK, BridgeSend
<1>10. CASE BridgeEnds
  BY <1>10 DEF TrafficTypeOK, BridgeEnds
<1> QED
  BY <1>1, <1>2, <1>3, <1>4, <1>5, <1>6, <1>7, <1>8, <1>9, <1>10 DEF Run, Bridge

(* The invariant is inductive: it holds in every reachable state of a         *)
(* WireGuard tunnel, whatever the ladder, the path and the bounds.            *)
THEOREM TunnelSafety == Spec => []LadderInv
<1>1. LadderInv /\ Next => LadderInv'
  <2> SUFFICES ASSUME LadderInv, Next PROVE LadderInv'
    OBVIOUS
  <2>1. CASE Start
    BY <2>1, StartLadder
  <2>2. CASE Validate
    <3>1. UNCHANGED <<traffic, path, tun>>
      BY <2>2 DEF Validate, Handshake, Resend, SmallReply, EchoReply, ReplyGone, RungDeadline,
                  Deadline, SocketFails
    <3> QED
      BY <2>2, <3>1, ValidateLadder, TrafficKept DEF LadderInv
  <2>3. CASE Run \/ Bridge
    BY <2>3, RunLadder, RunTraffic DEF LadderInv
  <2>4. CASE PathChanges \/ TunChanges
    <3>1. UNCHANGED validation
      BY <2>4 DEF PathChanges, TunChanges
    <3>2. TrafficTypeOK'
      BY <2>4 DEF LadderInv, TrafficTypeOK, PathChanges, TunChanges, traffic
    <3> QED
      BY <3>1, <3>2, ValidationKept DEF LadderInv
  <2> QED
    BY <2>1, <2>2, <2>3, <2>4 DEF Next
<1>2. LadderInv /\ UNCHANGED vars => LadderInv'
  BY ValidationKept, TrafficKept DEF LadderInv, vars
<1> QED
  BY <1>1, <1>2, InitLadder, PTL DEF Spec

(* verify_dataplane and WgTunnel::run keep to the types of their state: the   *)
(* channels to their capacity, the count of transient errors to its limit.    *)
THEOREM TunnelTypeOK == Spec => []TypeOK
<1>1. LadderInv => TypeOK
  BY DEF LadderInv, Ladders, TypeOK
<1> QED
  BY <1>1, TunnelSafety, PTL

(* The MTU hint of a live, checked tunnel is the floor or no larger than a    *)
(* probe that crossed in this very validation, for every ladder that          *)
(* descends and whatever the path does to the replies.                        *)
THEOREM TunnelHintProven == Spec => []HintProven
<1>1. LadderInv => HintProven
  BY DEF LadderInv, Ladders
<1> QED
  BY <1>1, TunnelSafety, PTL

-----------------------------------------------------------------------------
(* The relay: induction over positions *)

(* A set of numbers has a least one. *)
LEMMA Least ==
    ASSUME NEW T \in SUBSET Nat, T # {}
    PROVE  \E n \in T : \A m \in T : n <= m
<1> DEFINE R == OpToRel(<, Nat)
<1>1. IsWellFoundedOn(R, Nat) BY NatLessThanWellFounded
<1>2. ASSUME NEW m \in Nat, NEW n \in Nat, ~(<<m, n>> \in R) PROVE n <= m
  <2>1. R = {ss \in Nat \X Nat : ss[1] < ss[2]} BY Zenon DEF OpToRel
  <2> HIDE DEF R
  <2>2. ~(m < n) BY <1>2, <2>1
  <2> QED BY <2>2
<1> HIDE DEF R
<1>3. PICK n \in T : \A m \in T : ~(<<m, n>> \in R) BY <1>1, WFMin, Zenon
<1> QED BY <1>2, <1>3

(* What holds at 0, and at i when at i - 1, holds up to n. *)
LEMMA Induction ==
    ASSUME NEW n \in Nat, NEW T, 0 \in T, \A i \in 1..n : i - 1 \in T => i \in T
    PROVE  0..n \subseteq T
<1> DEFINE B == {i \in 0..n : i \notin T}
<1> SUFFICES ASSUME B # {} PROVE FALSE OBVIOUS
<1>1. B \in SUBSET Nat OBVIOUS
<1>2. PICK k \in B : \A m \in B : k <= m BY <1>1, Least
<1>3. k \in 1..n BY <1>2
<1>4. k - 1 \in 0..n /\ ~(k <= k - 1) BY <1>3
<1>5. k - 1 \in T BY <1>2, <1>4
<1> QED BY <1>2, <1>3, <1>5

-----------------------------------------------------------------------------
(* The segments of one poll *)

(* Seen is what its definition says: the recursion has a solution. *)
SeenRun(f, e, s, n) == f = [i \in 0..n |-> IF i = 0 THEN e ELSE Received(f[i - 1], s[i])]

(* The recursion has a solution. *)
LEMMA SeenExists ==
    ASSUME NEW e, NEW s
    PROVE  \A n \in Nat : \E f : SeenRun(f, e, s, n)
<1> DEFINE G(n) == \E f : SeenRun(f, e, s, n)
           T == {n \in Nat : G(n)}
<1> SUFFICES ASSUME NEW n \in Nat PROVE G(n) OBVIOUS
<1>1. G(0)
  <2> DEFINE f == [i \in 0..0 |-> IF i = 0 THEN e ELSE e]
  <2>1. f = [i \in 0..0 |-> IF i = 0 THEN e ELSE Received(f[i - 1], s[i])] OBVIOUS
  <2> QED BY <2>1 DEF SeenRun
<1>2. ASSUME NEW k \in 1..n, G(k - 1) PROVE G(k)
  <2>1. PICK f : f = [i \in 0..(k - 1) |-> IF i = 0 THEN e ELSE Received(f[i - 1], s[i])]
    BY <1>2 DEF SeenRun
  <2> DEFINE g == [i \in 0..k |-> IF i < k THEN f[i] ELSE Received(f[k - 1], s[k])]
  <2>2. g = [i \in 0..k |-> IF i = 0 THEN e ELSE Received(g[i - 1], s[i])] BY <2>1
  <2> QED BY <2>2 DEF SeenRun
<1> HIDE DEF G
<1>3. 0 \in T /\ \A i \in 1..n : i - 1 \in T => i \in T BY <1>1, <1>2
<1> HIDE DEF T
<1>4. n \in T BY <1>3, Induction
<1> QED BY <1>4 DEF T

(* Segment by segment. *)
LEMMA SeenDef ==
    ASSUME NEW e, NEW s \in Seq(Segments)
    PROVE  LET f == Seen(e, s) IN
           /\ f[0] = e
           /\ \A i \in 1..Len(s) : f[i] = Received(f[i - 1], s[i])
<1>1. Len(s) \in Nat OBVIOUS
<1>2. \E f : f = [i \in 0..Len(s) |-> IF i = 0 THEN e ELSE Received(f[i - 1], s[i])]
  <2>1. \E f : SeenRun(f, e, s, Len(s)) BY <1>1, SeenExists
  <2> QED BY <2>1, Zenon DEF SeenRun
<1> DEFINE f == Seen(e, s)
<1>3. f = [i \in 0..Len(s) |-> IF i = 0 THEN e ELSE Received(f[i - 1], s[i])]
  BY <1>2, Zenon DEF Seen
<1> HIDE DEF f
<1>4. f[0] = e /\ \A i \in 1..Len(s) : f[i] = Received(f[i - 1], s[i]) BY <1>1, <1>3
<1> QED BY <1>4 DEF f

(* The items of one drain of data_in. *)
HandlingRun(f, id, c, s, n) ==
    f = [i \in 0..n |-> IF i = 0 THEN c ELSE handle_data(id, f[i - 1], s[i])]

(* So has this one. *)
LEMMA HandlingExists ==
    ASSUME NEW id, NEW c, NEW s
    PROVE  \A n \in Nat : \E f : HandlingRun(f, id, c, s, n)
<1> DEFINE G(n) == \E f : HandlingRun(f, id, c, s, n)
           T == {n \in Nat : G(n)}
<1> SUFFICES ASSUME NEW n \in Nat PROVE G(n) OBVIOUS
<1>1. G(0)
  <2> DEFINE f == [i \in 0..0 |-> IF i = 0 THEN c ELSE c]
  <2>1. f = [i \in 0..0 |-> IF i = 0 THEN c ELSE handle_data(id, f[i - 1], s[i])] OBVIOUS
  <2> QED BY <2>1 DEF HandlingRun
<1>2. ASSUME NEW k \in 1..n, G(k - 1) PROVE G(k)
  <2>1. PICK f : f = [i \in 0..(k - 1) |->
                        IF i = 0 THEN c ELSE handle_data(id, f[i - 1], s[i])]
    BY <1>2 DEF HandlingRun
  <2> DEFINE g == [i \in 0..k |-> IF i < k THEN f[i] ELSE handle_data(id, f[k - 1], s[k])]
  <2>2. g = [i \in 0..k |-> IF i = 0 THEN c ELSE handle_data(id, g[i - 1], s[i])] BY <2>1
  <2> QED BY <2>2 DEF HandlingRun
<1> HIDE DEF G
<1>3. 0 \in T /\ \A i \in 1..n : i - 1 \in T => i \in T BY <1>1, <1>2
<1> HIDE DEF T
<1>4. n \in T BY <1>3, Induction
<1> QED BY <1>4 DEF T

(* Item by item. *)
LEMMA HandlingDef ==
    ASSUME NEW id, NEW c, NEW S, NEW s \in Seq(S)
    PROVE  LET f == Handling(id, c, s) IN
           /\ f[0] = c
           /\ \A i \in 1..Len(s) : f[i] = handle_data(id, f[i - 1], s[i])
<1>1. Len(s) \in Nat OBVIOUS
<1>2. \E f : f = [i \in 0..Len(s) |-> IF i = 0 THEN c ELSE handle_data(id, f[i - 1], s[i])]
  <2>1. \E f : HandlingRun(f, id, c, s, Len(s)) BY <1>1, HandlingExists
  <2> QED BY <2>1, Zenon DEF HandlingRun
<1> DEFINE f == Handling(id, c, s)
<1>3. f = [i \in 0..Len(s) |-> IF i = 0 THEN c ELSE handle_data(id, f[i - 1], s[i])]
  BY <1>2, Zenon DEF Handling
<1> HIDE DEF f
<1>4. f[0] = c /\ \A i \in 1..Len(s) : f[i] = handle_data(id, f[i - 1], s[i]) BY <1>1, <1>3
<1> QED BY <1>4 DEF f

(* One connection: what its fields say of each other. *)

(* Not opened yet, and nothing has been heard of it. *)
Blank(c) ==
    /\ c.entry = None /\ c.rx = "none" /\ c.inbound = << >>
    /\ ~c.peer.up /\ ~c.peer.fin /\ ~c.peer.gotFin /\ c.peer.got = << >>

(* The far end may still send: its SYN has been or will be taken first. *)
Receiving(e, inbound) ==
    \/ e.state \in {"Established", "FinWait1", "FinWait2"}
    \/ e.state = "SynSent" /\ inbound # << >> /\ inbound[1] = "synack"

Ends(inbound, i) == inbound[i] \in {"fin", "rst"}

(* A connection in the table.  It is the application's, or was dropped by   *)
(* it, once it is established.  Data comes before the end of the stream,    *)
(* the states after the far end's FIN have seen one, and what is under way  *)
(* fits in the receive buffer.                                              *)
Sound(c) ==
    c.entry # None =>
        LET e == c.entry IN
        /\ Len(e.txbuf) <= TxBuf
        /\ c.rx # "none" /\ (e.established <=> c.rx \in {"app", "dropped"})
        /\ e.half_closed => e.established
        /\ e.established => e.state # "SynSent"
        /\ e.state \in {"FinWait1", "FinWait2"} \/ (c.peer.gotFin /\ ~c.peer.fin) => e.established
        /\ e.state \in {"CloseWait", "Closing", "TimeWait", "LastAck"} => c.peer.fin
        /\ \A i \in 1..Len(c.inbound) : c.inbound[i] = "fin" => c.peer.fin
        /\ c.peer.up /\ ~c.peer.fin =>
               Receiving(e, c.inbound) /\ \A i \in 1..Len(c.inbound) : ~Ends(c.inbound, i)
        /\ \A i \in 1..Len(c.inbound) : c.inbound[i] = "data" =>
               Receiving(e, c.inbound) /\ \A j \in 1..i : ~Ends(c.inbound, j)
        /\ e.rxbuf + InFlight(c) <= RxBuf

(* The socket was closed from this side, by an application that is still    *)
(* there, only after its last byte had left `pending`.                      *)
Drained(c) ==
    /\ c.entry # None /\ c.rx = "app" /\ ~c.peer.fin
    /\ c.entry.state \in {"FinWait1", "FinWait2"}
    => c.entry.half_closed /\ c.entry.pending = << >>

(* What has been given to the socket, in order, and may still arrive. *)
Flow(c) ==
    IF c.entry = None THEN c.peer.got ELSE c.peer.got \o c.entry.txbuf \o c.entry.pending

-----------------------------------------------------------------------------
(* The relay *)

(* The connection that carries the upload, or is meant to. *)
Follows(id) ==
    \/ via = id
    \/ id = "gateway" /\ pc \in {"gateway", "answer"}
    \/ id = "dst" /\ pc = "opening"

(* The chunk at position p of the stream of connection id. *)
Chunk(id, p) ==
    IF id = "dst" THEN Len(head) + p ELSE IF p = 1 THEN 0 ELSE Len(head) + p - 1

(* How many have been sent to the stack. *)
Pushed(id) ==
    IF id = "dst" THEN next - 1 - Len(head) ELSE IF pc = "gateway" THEN 0 ELSE next - Len(head)

InOrder(id, q) == \A p \in 1..Len(q) : q[p] = Chunk(id, p)

(* The application has closed its side of the relay. *)
Over == pc \in {"relay", Ended} /\ ~up /\ (next > req.up \/ client = "gone")

(* The last w items of data_in are this connection's; with the close, k, of *)
(* the application they are what the table has not seen yet.                *)
Queued(id, w, k) ==
    LET c == conns[id]
        n == Len(dataIn)
        total == Pushed(id) + k
    IN  /\ w <= n
        /\ \A i \in 1..n : dataIn[i].id = id <=> i > n - w
        /\ \A i \in 1..n : i > n - w =>
               dataIn[i] = IF k = 1 /\ i = n THEN TcpClose(id)
                           ELSE Tcp(id, Chunk(id, total - (n - i)))
        /\ Len(Flow(c)) + (IF c.entry.half_closed THEN 1 ELSE 0) + w = total
        /\ c.entry.half_closed <=> (k = 1 /\ w = 0)
        /\ k = 1 => Over

Stream(id) ==
    LET c == conns[id] IN
    /\ InOrder(id, Flow(c))
    /\ Len(c.peer.got) <= Pushed(id)
    /\ c.entry # None => Drained(c) /\ \E w \in 0..Len(dataIn), k \in {0, 1} : Queued(id, w, k)
    /\ c.peer.gotFin /\ ~c.peer.fin /\ c.rx = "app" =>
           Over /\ Len(c.peer.got) = Pushed(id)

(* Every connection is opened once, by the request that is first in line.   *)
OpenedOnce ==
    /\ \A i \in 1..Len(cmd) : cmd[i] \in Ids =>
           Blank(conns[cmd[i]]) /\ conns[cmd[i]].answer \in {"wait", "gone"}
    /\ \A i, j \in 1..Len(cmd) : cmd[i] = cmd[j] /\ cmd[i] \in Ids => i = j
    /\ \A id \in Ids : conns[id].answer = "none" =>
           Blank(conns[id]) /\ \A i \in 1..Len(cmd) : cmd[i] # id
    /\ \A id \in Ids : conns[id].answer = "ok" => conns[id].rx \in {"app", "dropped"}
    /\ \A i \in 1..Len(dataIn) :
           dataIn[i].id \in Ids => conns[dataIn[i].id].rx \in {"app", "dropped"}

(* Where the request is. *)
Place ==
    /\ pc \in {"request", "peek", "route"} => conns["gateway"].answer = "none"
    /\ pc \in {"request", "peek", "route", "gateway", "answer", "resolve", "asking"} =>
           conns["dst"].answer = "none"
    /\ pc \notin {"direct", "relay", Ended} => next = Len(head) + 1
    /\ pc \in {"request", "peek"} => head = << >>
    /\ pc = "request" => replies = << >>
    /\ pc = "answer" => conns["gateway"].rx \in {"app", "dropped"}
    /\ via # None => pc \in {"reply", "relay", Ended} /\ conns[via].rx \in {"app", "dropped"}
    /\ pc \in {"reply", "relay"} => via # None
    /\ up => pc = "relay"
    /\ pc = "gateway" => \A i \in 1..Len(dataIn) : dataIn[i].id # "gateway"
    /\ via # "dst" => \A i \in 1..Len(dataIn) : dataIn[i].id # "dst"
    /\ pc \notin {"relay", Ended} => Len(replies) <= 1
    /\ via = "gateway" => Len(conns["gateway"].peer.got) > 0
    /\ \A i \in 1..Len(head) : head[i] = i
    /\ \A i \in 1..Len(direct) : direct[i] = i
    /\ pc = "direct" => Len(direct) = next - 1

ConnectInv ==
    /\ ConnectTypeOK /\ OpenedOnce /\ Place
    /\ \A id \in Ids : Sound(conns[id]) /\ (~alive => conns[id].entry = None)
    /\ \A id \in Ids : Follows(id) => Stream(id)

-----------------------------------------------------------------------------
(* Received, segment by segment *)

(* An entry in the middle of a poll: the window has not been checked. *)
Wide == [state: SocketStates, rxbuf: Nat, txbuf: Seq(Nat), pending: Seq(Nat),
         established: BOOLEAN, half_closed: BOOLEAN]

(* Taking data, and after the far end's FIN. *)
Taking == {"Established", "FinWait1", "FinWait2"}
After == {"CloseWait", "Closing", "TimeWait", "LastAck"}

(* Every entry is one. *)
LEMMA EntryWide == Entry \subseteq Wide
<1>1. 0..RxBuf \subseteq Nat BY NetstackAssumption
<1> QED BY <1>1 DEF Entry, Wide

(* A segment that takes the socket from state a to state b. *)
Taken(a, s, b) ==
    /\ b \in SocketStates
    /\ a # "SynSent" => b # "SynSent"
    /\ b \in After => a \in After \/ s = "fin"
    /\ s \notin {"fin", "rst"} /\ a \in Taking => b \in Taking
    /\ s = "synack" /\ a = "SynSent" => b = "Established"
    /\ b \in {"FinWait1", "FinWait2"} => a \in {"FinWait1", "FinWait2"}

(* The three things a segment can do. *)
LEMMA ReceivedState ==
    ASSUME NEW e \in Wide, NEW s \in Segments
    PROVE  \/ Received(e, s) = e /\ (s = "data" => e.state \notin Taking)
                /\ Taken(e.state, s, e.state)
           \/ s = "data" /\ e.state \in Taking /\ Received(e, s) = [e EXCEPT !.rxbuf = @ + 1]
                /\ Taken(e.state, s, e.state)
           \/ s # "data" /\ \E b : Received(e, s) = [e EXCEPT !.state = b] /\ Taken(e.state, s, b)
<1>0. e.state \in SocketStates BY DEF Wide
<1> USE <1>0 DEF Received, Taken, Taking, After, SocketStates
<1>1. CASE s = "data" BY <1>1
<1>2. CASE s = "rst" BY <1>2
<1>3. CASE s = "synack" BY <1>3
<1>4. CASE s = "fin"
  <2>1. CASE e.state = "Established" BY <1>4, <2>1
  <2>2. CASE e.state = "FinWait1" BY <1>4, <2>2
  <2>3. CASE e.state = "FinWait2" BY <1>4, <2>3
  <2>4. CASE e.state \notin Taking BY <1>4, <2>4
  <2> QED BY <2>1, <2>2, <2>3, <2>4
<1>5. CASE s = "ackfin"
  <2>1. CASE e.state = "FinWait1" BY <1>5, <2>1
  <2>2. CASE e.state = "Closing" BY <1>5, <2>2
  <2>3. CASE e.state = "LastAck" BY <1>5, <2>3
  <2>4. CASE e.state \notin {"FinWait1", "Closing", "LastAck"} BY <1>5, <2>4
  <2> QED BY <2>1, <2>2, <2>3, <2>4
<1> QED BY <1>1, <1>2, <1>3, <1>4, <1>5 DEF Segments

(* The same, field by field. *)
LEMMA ReceivedFacts ==
    ASSUME NEW e \in Wide, NEW s \in Segments, NEW r, r = Received(e, s)
    PROVE  /\ r \in Wide
           /\ r.txbuf = e.txbuf /\ r.pending = e.pending
           /\ r.established = e.established /\ r.half_closed = e.half_closed
           /\ r.rxbuf = IF s = "data" /\ e.state \in Taking THEN e.rxbuf + 1 ELSE e.rxbuf
           /\ Taken(e.state, s, r.state)
<1>0. e.rxbuf + 1 \in Nat BY DEF Wide
<1>1. CASE r = e /\ (s = "data" => e.state \notin Taking) /\ Taken(e.state, s, e.state)
  BY <1>1
<1>2. CASE s = "data" /\ e.state \in Taking /\ r = [e EXCEPT !.rxbuf = @ + 1]
             /\ Taken(e.state, s, e.state)
  <2>1. r \in Wide BY <1>0, <1>2, Zenon DEF Wide
  <2> QED BY <1>2, <2>1 DEF Wide
<1>3. ASSUME NEW b, s # "data", r = [e EXCEPT !.state = b], Taken(e.state, s, b)
      PROVE  /\ r \in Wide
             /\ r.txbuf = e.txbuf /\ r.pending = e.pending /\ r.established = e.established
             /\ r.half_closed = e.half_closed /\ r.rxbuf = e.rxbuf /\ r.state = b
  BY <1>3 DEF Wide, Taken
<1> QED BY <1>1, <1>2, <1>3, ReceivedState

(* How many of the first i segments carry data. *)
Data(s, i) == Cardinality({j \in 1..i : s[j] = "data"})

(* The count, one segment further. *)
LEMMA DataCount ==
    ASSUME NEW s \in Seq(Segments)
    PROVE  /\ Data(s, 0) = 0
           /\ \A i \in 0..Len(s) : Data(s, i) \in Nat
           /\ \A i \in 1..Len(s) :
                Data(s, i) = Data(s, i - 1) + (IF s[i] = "data" THEN 1 ELSE 0)
<1> DEFINE D(i) == {j \in 1..i : s[j] = "data"}
<1>1. \A i \in Nat : IsFiniteSet(D(i))
  <2> SUFFICES ASSUME NEW i \in Nat PROVE IsFiniteSet(D(i)) OBVIOUS
  <2>1. IsFiniteSet(1..i) BY FS_Interval
  <2> QED BY <2>1, FS_Subset
<1>2. D(0) = {} OBVIOUS
<1>3. Cardinality(D(0)) = 0 BY <1>2, FS_EmptySet
<1>4. \A i \in Nat : Cardinality(D(i)) \in Nat
  <2> HIDE DEF D
  <2> QED BY <1>1, FS_CardinalityType
<1>5. ASSUME NEW i \in 1..Len(s)
      PROVE  Cardinality(D(i)) = Cardinality(D(i - 1)) + (IF s[i] = "data" THEN 1 ELSE 0)
  <2>1. i - 1 \in Nat /\ i \notin D(i - 1) OBVIOUS
  <2>2. CASE s[i] = "data"
    <3>1. D(i) = D(i - 1) \cup {i} BY <2>2
    <3> HIDE DEF D
    <3> QED BY <1>1, <2>1, <2>2, <3>1, FS_AddElement
  <2>3. CASE s[i] # "data"
    <3>1. D(i) = D(i - 1) BY <2>3
    <3> HIDE DEF D
    <3> QED BY <1>4, <2>1, <2>3, <3>1
  <2> QED BY <2>2, <2>3
<1> HIDE DEF D
<1>6. \A i : Data(s, i) = Cardinality(D(i)) BY DEF Data, D
<1>7. Len(s) \in Nat OBVIOUS
<1> QED BY <1>3, <1>4, <1>5, <1>6, <1>7

(* What the first i segments have made of the socket e. *)
SeenSo(e, s, i, r) ==
    /\ r \in Wide /\ (i = 0 => r = e)
    /\ r.txbuf = e.txbuf /\ r.pending = e.pending
    /\ r.established = e.established /\ r.half_closed = e.half_closed
    /\ r.rxbuf <= e.rxbuf + Data(s, i)
    /\ (\A j \in 1..i : s[j] = "data" => Receiving(e, s) /\ \A l \in 1..j : ~Ends(s, l))
           => r.rxbuf = e.rxbuf + Data(s, i)
    /\ e.state # "SynSent" => r.state # "SynSent"
    /\ r.state \in After => e.state \in After \/ \E j \in 1..i : s[j] = "fin"
    /\ r.state \in {"FinWait1", "FinWait2"} => e.state \in {"FinWait1", "FinWait2"}
    /\ Receiving(e, s) /\ (\A j \in 1..i : ~Ends(s, j)) /\ i > 0 => r.state \in Taking

(* One segment more. *)
LEMMA SeenStep ==
    ASSUME NEW e \in Wide, NEW s \in Seq(Segments), NEW i \in 1..Len(s), NEW q,
           SeenSo(e, s, i - 1, q), NEW r, r = Received(q, s[i])
    PROVE  SeenSo(e, s, i, r)
<1>0. s[i] \in Segments /\ q \in Wide /\ e.rxbuf \in Nat /\ q.rxbuf \in Nat /\ Len(s) \in Nat
  BY DEF SeenSo, Wide
<1>1. /\ r \in Wide
      /\ r.txbuf = q.txbuf /\ r.pending = q.pending
      /\ r.established = q.established /\ r.half_closed = q.half_closed
      /\ r.rxbuf = IF s[i] = "data" /\ q.state \in Taking THEN q.rxbuf + 1 ELSE q.rxbuf
      /\ Taken(q.state, s[i], r.state)
  <2> DEFINE x == s[i]
  <2>1. x \in Segments /\ q \in Wide /\ r = Received(q, x) BY <1>0
  <2> HIDE DEF x
  <2>2. /\ r \in Wide
        /\ r.txbuf = q.txbuf /\ r.pending = q.pending
        /\ r.established = q.established /\ r.half_closed = q.half_closed
        /\ r.rxbuf = IF x = "data" /\ q.state \in Taking THEN q.rxbuf + 1 ELSE q.rxbuf
        /\ Taken(q.state, x, r.state)
    BY <2>1, ReceivedFacts, Zenon
  <2> QED BY <2>2 DEF x
<1>2. /\ Data(s, i - 1) \in Nat
      /\ Data(s, i) = Data(s, i - 1) + (IF s[i] = "data" THEN 1 ELSE 0)
  BY DataCount
<1>3. r.rxbuf <= e.rxbuf + Data(s, i) BY <1>0, <1>1, <1>2 DEF SeenSo
<1>4. ASSUME Receiving(e, s), \A j \in 1..(i - 1) : ~Ends(s, j)
      PROVE  q.state \in Taking \/ (q.state = "SynSent" /\ s[i] = "synack")
  <2>1. CASE i > 1 BY <1>4, <2>1 DEF SeenSo
  <2>2. CASE i = 1 BY <1>4, <2>2 DEF SeenSo, Receiving, Taking
  <2> QED BY <2>1, <2>2
<1>5. ASSUME \A j \in 1..i : s[j] = "data" => Receiving(e, s) /\ \A l \in 1..j : ~Ends(s, l)
      PROVE  r.rxbuf = e.rxbuf + Data(s, i)
  <2>1. \A j \in 1..(i - 1) : s[j] = "data" => Receiving(e, s) /\ \A l \in 1..j : ~Ends(s, l)
    BY <1>5
  <2>2. q.rxbuf = e.rxbuf + Data(s, i - 1) BY <2>1 DEF SeenSo
  <2>3. s[i] = "data" => q.state \in Taking BY <1>4, <1>5
  <2> QED BY <1>0, <1>1, <1>2, <2>2, <2>3
<1>6. e.state # "SynSent" => r.state # "SynSent" BY <1>1 DEF SeenSo, Taken
<1>7. r.state \in After => e.state \in After \/ \E j \in 1..i : s[j] = "fin"
  BY <1>1 DEF SeenSo, Taken
<1>8. r.state \in {"FinWait1", "FinWait2"} => e.state \in {"FinWait1", "FinWait2"}
  BY <1>1 DEF SeenSo, Taken
<1>9. ASSUME Receiving(e, s), \A j \in 1..i : ~Ends(s, j) PROVE r.state \in Taking
  <2>1. s[i] \notin {"fin", "rst"} BY <1>9 DEF Ends
  <2>2. q.state \in Taking \/ (q.state = "SynSent" /\ s[i] = "synack") BY <1>4, <1>9
  <2> QED BY <1>1, <2>1, <2>2 DEF Taken, Taking
<1>10. /\ r.txbuf = e.txbuf /\ r.pending = e.pending
       /\ r.established = e.established /\ r.half_closed = e.half_closed
  BY <1>1 DEF SeenSo
<1> QED BY <1>1, <1>3, <1>5, <1>6, <1>7, <1>8, <1>9, <1>10 DEF SeenSo

(* All the segments of a poll. *)
LEMMA SeenFacts ==
    ASSUME NEW e \in Wide, NEW s \in Seq(Segments)
    PROVE  SeenSo(e, s, Len(s), Seen(e, s)[Len(s)])
<1> DEFINE f == Seen(e, s)
           T == {i \in 0..Len(s) : SeenSo(e, s, i, f[i])}
<1>1. f[0] = e /\ \A i \in 1..Len(s) : f[i] = Received(f[i - 1], s[i]) BY SeenDef
<1> HIDE DEF f
<1>2. Len(s) \in Nat OBVIOUS
<1>3. SeenSo(e, s, 0, f[0])
  <2>1. e.rxbuf \in Nat /\ Data(s, 0) = 0 BY DataCount DEF Wide
  <2> QED BY <1>1, <2>1 DEF SeenSo
<1>4. \A i \in 1..Len(s) : i - 1 \in T => i \in T
  <2> SUFFICES ASSUME NEW i \in 1..Len(s), SeenSo(e, s, i - 1, f[i - 1])
               PROVE  SeenSo(e, s, i, f[i])
    BY <1>2
  <2> QED BY <1>1, SeenStep
<1>5. 0 \in T BY <1>2, <1>3
<1> HIDE DEF T
<1>6. 0..Len(s) \subseteq T BY <1>2, <1>4, <1>5, Induction
<1>7. Len(s) \in T BY <1>2, <1>6
<1> QED BY <1>7 DEF T, f

(* The fields of a connection, and of an entry. *)
LEMMA ConnFields ==
    ASSUME NEW c \in Conn
    PROVE  /\ c.entry \in Entry \cup {None}
           /\ c.answer \in {"none", "wait", "ok", "err", "gone"}
           /\ c.rx \in {"none", "stack", "app", "dropped"}
           /\ c.queue \in 0..AppQueue /\ c.inbound \in Seq(Segments)
           /\ c.peer.syn \in BOOLEAN /\ c.peer.up \in BOOLEAN /\ c.peer.left \in Nat
           /\ c.peer.fin \in BOOLEAN /\ c.peer.gotFin \in BOOLEAN /\ c.peer.acked \in BOOLEAN
           /\ c.peer.got \in Seq(Nat)
BY DEF Conn

LEMMA EntryFields ==
    ASSUME NEW e \in Entry
    PROVE  /\ e.state \in SocketStates /\ e.rxbuf \in 0..RxBuf
           /\ e.txbuf \in Seq(Nat) /\ e.pending \in Seq(Nat)
           /\ e.established \in BOOLEAN /\ e.half_closed \in BOOLEAN /\ e # None
BY NoneAssumption DEF Entry

(* What is under way, counted. *)
LEMMA InFlightData ==
    ASSUME NEW c \in Conn
    PROVE  InFlight(c) = Data(c.inbound, Len(c.inbound)) /\ InFlight(c) \in Nat
<1>1. c.inbound \in Seq(Segments) BY ConnFields
<1>2. DOMAIN c.inbound = 1..Len(c.inbound) /\ Len(c.inbound) \in Nat BY <1>1
<1>3. InFlight(c) = Data(c.inbound, Len(c.inbound)) BY <1>2 DEF InFlight, Data
<1> QED BY <1>1, <1>2, <1>3, DataCount

LEMMA NoneInFlight ==
    ASSUME NEW c, c.inbound = << >>
    PROVE  InFlight(c) = 0
<1>1. {i \in DOMAIN c.inbound : c.inbound[i] = "data"} = {} OBVIOUS
<1> QED BY <1>1, FS_EmptySet DEF InFlight

(* What the provers forget of concatenation. *)
LEMMA ConcatSeq ==
    ASSUME NEW p \in Seq(Nat), NEW q \in Seq(Nat)
    PROVE  /\ p \o q \in Seq(Nat) /\ Len(p \o q) = Len(p) + Len(q) /\ p \o << >> = p
           /\ Len(p) <= Len(p \o q) /\ Len(p) <= Len(p)
OBVIOUS

(* iface.poll on a connection of the table. *)
Polled(c, d) ==
    /\ d \in Conn /\ Sound(d) /\ d.inbound = << >>
    /\ d.entry # None
    /\ d.answer = c.answer /\ d.rx = c.rx /\ d.queue = c.queue
    /\ d.peer.up = c.peer.up /\ d.peer.fin = c.peer.fin
    /\ Flow(d) = Flow(c) /\ Len(c.peer.got) <= Len(d.peer.got)
    /\ d.entry.pending = c.entry.pending
    /\ d.entry.established = c.entry.established /\ d.entry.half_closed = c.entry.half_closed
    /\ d.entry.rxbuf = c.entry.rxbuf + InFlight(c)
    /\ d.entry.state \in {"FinWait1", "FinWait2"} => c.entry.state \in {"FinWait1", "FinWait2"}
    /\ d.peer.gotFin /\ ~c.peer.gotFin /\ ~c.peer.fin =>
           c.entry.state \in {"FinWait1", "FinWait2"} /\ d.entry.txbuf = << >>
    /\ c.peer.gotFin => d.peer.gotFin

(* Whether its packets get through or not. *)
LEMMA PollEntry ==
    ASSUME NEW c \in Conn, Sound(c), c.entry # None,
           NEW carried \in BOOLEAN, NEW expired \in BOOLEAN
    PROVE  Polled(c, Poll(c, carried, expired))
<1> DEFINE e == c.entry
           in == Seen(c.entry, c.inbound)[Len(c.inbound)]
           aged == IF expired /\ in.state = "TimeWait" THEN [in EXCEPT !.state = "Closed"] ELSE in
           out == carried /\ aged.state # "Closed"
           fin == out /\ aged.state \in {"FinWait1", "Closing", "LastAck"}
           w == IF out THEN [aged EXCEPT !.txbuf = << >>] ELSE aged
           got == IF out THEN c.peer.got \o aged.txbuf ELSE c.peer.got
           p == [c.peer EXCEPT !.syn = @ \/ out, !.got = got, !.gotFin = @ \/ fin]
           d == [c EXCEPT !.inbound = << >>, !.entry = w, !.peer = p]
<1>0. /\ e \in Entry /\ e \in Wide /\ c.inbound \in Seq(Segments) /\ Len(c.inbound) \in Nat
      /\ e.rxbuf \in Nat /\ RxBuf \in Nat
  BY ConnFields, EntryWide, NetstackAssumption DEF Entry
<1>1. Poll(c, carried, expired) = d
  <2>1. Poll(c, carried, expired) =
          [c EXCEPT !.inbound = << >>, !.entry = w, !.peer.syn = @ \/ out,
                    !.peer.got = IF out THEN @ \o aged.txbuf ELSE @,
                    !.peer.gotFin = @ \/ (out /\ aged.state \in {"FinWait1", "Closing", "LastAck"})]
    BY Zenon DEF Poll
  <2> HIDE DEF in, aged, out, w
  <2> QED BY <2>1 DEF Conn
<1>2. SeenSo(e, c.inbound, Len(c.inbound), in) BY <1>0, SeenFacts
<1> HIDE DEF in
<1>3. in.rxbuf = e.rxbuf + InFlight(c) /\ in.rxbuf \in 0..RxBuf /\ InFlight(c) \in Nat
  <2>1. InFlight(c) = Data(c.inbound, Len(c.inbound)) /\ InFlight(c) \in Nat BY InFlightData
  <2>2. in.rxbuf = e.rxbuf + InFlight(c) BY <1>2, <2>1 DEF SeenSo, Sound
  <2>3. e.rxbuf + InFlight(c) <= RxBuf BY DEF Sound
  <2> QED BY <1>0, <2>1, <2>2, <2>3
<1>4. /\ in \in Wide /\ in.txbuf = e.txbuf /\ in.pending = e.pending
      /\ in.established = e.established /\ in.half_closed = e.half_closed
  BY <1>2 DEF SeenSo
<1>5. /\ e.state # "SynSent" => in.state # "SynSent"
      /\ in.state \in After => c.peer.fin
      /\ in.state \in {"FinWait1", "FinWait2"} => e.state \in {"FinWait1", "FinWait2"}
      /\ c.peer.up /\ ~c.peer.fin => in.state \in Taking
  <2>1. in.state \in After => c.peer.fin BY <1>2 DEF SeenSo, Sound, After
  <2>2. ASSUME c.peer.up, ~c.peer.fin PROVE in.state \in Taking
    <3>1. Receiving(e, c.inbound) /\ \A i \in 1..Len(c.inbound) : ~Ends(c.inbound, i)
      BY <2>2 DEF Sound
    <3>2. CASE Len(c.inbound) > 0 BY <1>2, <3>1, <3>2 DEF SeenSo
    <3>3. CASE Len(c.inbound) = 0
      <4>1. c.inbound = << >> /\ in = e BY <1>0, <1>2, <3>3 DEF SeenSo
      <4> QED BY <3>1, <4>1 DEF Receiving, Taking
    <3> QED BY <1>0, <3>2, <3>3
  <2> QED BY <1>2, <2>1, <2>2 DEF SeenSo
<1>6. /\ aged \in Entry /\ aged.txbuf = e.txbuf /\ aged.pending = e.pending
      /\ aged.established = e.established /\ aged.half_closed = e.half_closed
      /\ aged.rxbuf = in.rxbuf
      /\ aged.state = in.state \/ (in.state = "TimeWait" /\ aged.state = "Closed")
  <2>1. in \in Entry
    BY <1>3, <1>4 DEF Entry, Wide
  <2>2. [in EXCEPT !.state = "Closed"] \in Entry BY <2>1 DEF Entry, SocketStates
  <2>3. aged \in Entry BY <2>1, <2>2
  <2> QED BY <1>4, <2>1, <2>3 DEF Entry
<1>7. /\ e.state # "SynSent" => aged.state # "SynSent"
      /\ aged.state \in After => c.peer.fin
      /\ aged.state \in {"FinWait1", "FinWait2"} => e.state \in {"FinWait1", "FinWait2"}
      /\ c.peer.up /\ ~c.peer.fin => aged.state \in Taking
  BY <1>5, <1>6 DEF Taking, After
<1> HIDE DEF aged
<1>8. out \in BOOLEAN /\ fin \in BOOLEAN OBVIOUS
<1>9. fin /\ ~c.peer.fin => e.state \in {"FinWait1", "FinWait2"} /\ out BY <1>7 DEF After
<1> HIDE DEF fin
<1>10. /\ w \in Entry /\ w.pending = e.pending /\ w.established = e.established
       /\ w.half_closed = e.half_closed /\ w.rxbuf = in.rxbuf /\ w.state = aged.state
       /\ w.txbuf = IF out THEN << >> ELSE e.txbuf
  <2>1. << >> \in Seq(Nat) OBVIOUS
  <2>2. [aged EXCEPT !.txbuf = << >>] \in Entry BY <1>6, <2>1 DEF Entry
  <2>3. w \in Entry BY <1>6, <2>2
  <2> HIDE DEF out
  <2> QED BY <1>6, <2>3 DEF Entry
<1>11. /\ got \in Seq(Nat) /\ got \o w.txbuf = c.peer.got \o e.txbuf
       /\ Len(c.peer.got) <= Len(got)
  <2>1. c.peer.got \in Seq(Nat) /\ e.txbuf \in Seq(Nat) BY <1>0, ConnFields, EntryFields
  <2>2. c.peer.got \o e.txbuf \in Seq(Nat)
           /\ (c.peer.got \o e.txbuf) \o << >> = c.peer.got \o e.txbuf
           /\ Len(c.peer.got) <= Len(c.peer.got \o e.txbuf)
           /\ Len(c.peer.got) <= Len(c.peer.got)
    BY <2>1, ConcatSeq
  <2> HIDE DEF out, w
  <2> QED BY <1>6, <1>10, <2>1, <2>2
<1> HIDE DEF out, w, got
<1>12. /\ p \in [syn: BOOLEAN, up: BOOLEAN, left: Nat, fin: BOOLEAN, gotFin: BOOLEAN,
                acked: BOOLEAN, got: Seq(Nat)]
       /\ p.up = c.peer.up /\ p.fin = c.peer.fin /\ p.got = got
       /\ p.gotFin = (c.peer.gotFin \/ fin)
  <2> DEFINE s == c.peer.syn \/ out
             g == c.peer.gotFin \/ fin
  <2>1. s \in BOOLEAN /\ g \in BOOLEAN OBVIOUS
  <2>2. p = [c.peer EXCEPT !.syn = s, !.got = got, !.gotFin = g] BY DEF Conn
  <2> HIDE DEF s, g, p
  <2>3. p \in [syn: BOOLEAN, up: BOOLEAN, left: Nat, fin: BOOLEAN, gotFin: BOOLEAN,
               acked: BOOLEAN, got: Seq(Nat)]
    BY <1>11, <2>1, <2>2, Zenon DEF Conn
  <2> QED BY <2>2, <2>3 DEF Conn, g
<1> HIDE DEF p
<1>13. d \in Conn
  <2>1. << >> \in Seq(Segments) /\ w \in Entry \cup {None} BY <1>10
  <2> QED BY <1>12, <2>1, Zenon DEF Conn
<1>14. /\ d.inbound = << >> /\ d.entry = w /\ d.peer = p
       /\ d.answer = c.answer /\ d.rx = c.rx /\ d.queue = c.queue
  BY DEF Conn
<1> HIDE DEF d
<1>15. w # None BY <1>10, EntryFields
<1>16. Flow(d) = Flow(c)
  <2>1. Flow(d) = (got \o w.txbuf) \o w.pending BY <1>12, <1>14, <1>15 DEF Flow
  <2>2. Flow(c) = (c.peer.got \o e.txbuf) \o e.pending BY DEF Flow
  <2> QED BY <1>10, <1>11, <2>1, <2>2
<1>17. Sound(d)
  <2>1. InFlight(d) = 0 BY <1>14, NoneInFlight
  <2>2. Len(w.txbuf) <= TxBuf BY <1>0, <1>10, NetstackAssumption DEF Sound
  <2>3. w.rxbuf + InFlight(d) <= RxBuf
    BY <1>0, <1>3, <1>10, <2>1
  <2>4. c.peer.up /\ ~c.peer.fin => Receiving(w, << >>) BY <1>7, <1>10 DEF Receiving, Taking
  <2>5. /\ c.rx # "none" /\ (w.established <=> c.rx \in {"app", "dropped"})
        /\ w.half_closed => w.established
        /\ w.established => w.state # "SynSent"
        /\ w.state \in {"CloseWait", "Closing", "TimeWait", "LastAck"} => c.peer.fin
    BY <1>7, <1>10 DEF Sound, After
  <2>6. w.state \in {"FinWait1", "FinWait2"} \/ (p.gotFin /\ ~c.peer.fin) => w.established
    BY <1>7, <1>9, <1>10, <1>12 DEF Sound
  <2>7. 1..Len(<< >>) = {} OBVIOUS
  <2> QED BY <1>12, <1>14, <1>15, <2>1, <2>2, <2>3, <2>4, <2>5, <2>6, <2>7 DEF Sound
<1>18. d.peer.gotFin /\ ~c.peer.gotFin /\ ~c.peer.fin =>
           c.entry.state \in {"FinWait1", "FinWait2"} /\ d.entry.txbuf = << >>
  BY <1>9, <1>10, <1>12, <1>14
<1>19. Polled(c, d)
  BY <1>3, <1>7, <1>10, <1>11, <1>12, <1>13, <1>14, <1>15, <1>16, <1>17, <1>18 DEF Polled
<1> QED BY <1>1, <1>19

(* Min, as it is used here. *)
LEMMA MinOfTwo ==
    ASSUME NEW a \in Nat, NEW b \in Nat
    PROVE  Min({a, b}) = IF a <= b THEN a ELSE b
<1> DEFINE m == IF a <= b THEN a ELSE b
<1>1. m \in {a, b} /\ \A y \in {a, b} : m <= y OBVIOUS
<1>2. ASSUME NEW x \in {a, b}, \A y \in {a, b} : x <= y PROVE x = m BY <1>2
<1> HIDE DEF m
<1>3. Min({a, b}) \in {a, b} /\ \A y \in {a, b} : Min({a, b}) <= y
  BY <1>1, Zenon DEF Min
<1>4. Min({a, b}) = m BY <1>2, <1>3
<1> QED BY <1>4 DEF m

(* Concatenation is associative. *)
LEMMA Regroup ==
    ASSUME NEW p \in Seq(Nat), NEW q \in Seq(Nat), NEW r \in Seq(Nat)
    PROVE  (p \o q) \o r = p \o (q \o r)
<1> DEFINE u == (p \o q) \o r
           v == p \o (q \o r)
<1>1. u \in Seq(Nat) /\ v \in Seq(Nat) /\ Len(u) = Len(v) OBVIOUS
<1>2. \A i \in 1..Len(u) : u[i] = v[i] OBVIOUS
<1> HIDE DEF u, v
<1>3. u = v BY <1>1, <1>2, SeqEqual
<1> QED BY <1>3 DEF u, v

(* A part of the pending bytes goes to the socket: none is lost or moved. *)
Split(g, x, y, n) ==
    /\ x \o SubSeq(y, 1, n) \in Seq(Nat) /\ SubSeq(y, n + 1, Len(y)) \in Seq(Nat)
    /\ Len(x \o SubSeq(y, 1, n)) = Len(x) + n
    /\ (g \o (x \o SubSeq(y, 1, n))) \o SubSeq(y, n + 1, Len(y)) = (g \o x) \o y

(* Moving the first n bytes from one buffer to the next. *)
LEMMA SplitFlow ==
    ASSUME NEW g \in Seq(Nat), NEW x \in Seq(Nat), NEW y \in Seq(Nat), NEW n \in 0..Len(y)
    PROVE  Split(g, x, y, n)
<1> DEFINE a == SubSeq(y, 1, n)
           b == SubSeq(y, n + 1, Len(y))
<1>1. a \in Seq(Nat) /\ Len(a) = n OBVIOUS
<1>2. b \in Seq(Nat) OBVIOUS
<1>3. a \o b = y
  <2>1. 1 \in 1..(Len(y) + 1) /\ n \in (1 - 1)..Len(y) /\ Len(y) \in n..Len(y) OBVIOUS
  <2>2. a \o b = SubSeq(y, 1, Len(y)) BY <2>1, ConcatAdjacentSubSeq
  <2> QED BY <2>2, SubSeqFull
<1> HIDE DEF a, b
<1>4. x \o a \in Seq(Nat) /\ Len(x \o a) = Len(x) + n /\ g \o x \in Seq(Nat)
  <2>1. x \o a \in Seq(Nat) /\ Len(x \o a) = Len(x) + Len(a)
    BY <1>1, ConcatProperties, Zenon
  <2>2. g \o x \in Seq(Nat) BY ConcatProperties, Zenon
  <2> QED BY <1>1, <2>1, <2>2
<1>5. g \o (x \o a) = (g \o x) \o a BY <1>1, Regroup, Zenon
<1>6. ((g \o x) \o a) \o b = (g \o x) \o (a \o b)
  <2> DEFINE h == g \o x
  <2>1. h \in Seq(Nat) BY <1>4
  <2> HIDE DEF h
  <2>2. (h \o a) \o b = h \o (a \o b) BY <1>1, <1>2, <2>1, Regroup, Zenon
  <2> QED BY <2>2 DEF h
<1> QED BY <1>2, <1>3, <1>4, <1>5, <1>6 DEF a, b, Split

-----------------------------------------------------------------------------
(* service_tcp, stage by stage *)

(* What no stage does to a connection that has been polled: lose, reorder   *)
(* or invent a byte of the upload, take the queue from the application, or  *)
(* close the socket before its last byte.                                   *)
Onward(c, d) ==
    /\ d \in Conn /\ Sound(d) /\ d.inbound = << >> /\ d.peer = c.peer
    /\ d.entry # None =>
           c.entry # None /\ Flow(d) = Flow(c) /\ d.entry.half_closed = c.entry.half_closed
    /\ Drained(c) => Drained(d)
    /\ c.rx \in {"app", "dropped"} => d.rx = c.rx
    /\ d.answer = c.answer \/ (c.answer = "wait" /\ d.answer \in {"ok", "err"})
    /\ d.answer = "ok" /\ c.answer # "ok" => d.rx = "app"
    /\ c.entry = None => d = c

(* The download waits in the receive buffer. *)
Waiting(c, d) ==
    c.entry # None /\ c.rx = "app" =>
        d.entry # None /\ d.entry.rxbuf = c.entry.rxbuf /\ d.queue = c.queue

(* A new entry with the old one's bytes: the socket stays as it is, or is   *)
(* closed from this side.                                                   *)
Renewed(c, w) ==
    LET e == c.entry IN
    /\ Len(w.txbuf) <= TxBuf /\ w.rxbuf <= e.rxbuf
    /\ (c.peer.got \o w.txbuf) \o w.pending = (c.peer.got \o e.txbuf) \o e.pending
    /\ e.pending = << >> => w.pending = << >>
    /\ w.established = e.established /\ w.half_closed = e.half_closed
    /\ \/ w.state = e.state
       \/ /\ w.state = close(e.state) /\ e.established
          /\ c.rx = "app" => e.half_closed /\ w.pending = << >>
       \/ e.state = "CloseWait" /\ w.state = "LastAck"

(* A renewed entry goes onward. *)
LEMMA OnwardEntry ==
    ASSUME NEW c \in Conn, Sound(c), c.inbound = << >>, c.entry # None,
           NEW w \in Entry, Renewed(c, w), NEW q \in 0..AppQueue, NEW d,
           d = [c EXCEPT !.entry = w, !.queue = q]
    PROVE  Onward(c, d) /\ d.entry = w /\ d.queue = q /\ d.rx = c.rx
<1>0. w # None /\ w.state \in SocketStates /\ w.rxbuf \in 0..RxBuf /\ c.entry.rxbuf \in Nat /\ RxBuf \in Nat
         /\ c.entry \in Entry /\ c.entry.state \in SocketStates
  BY ConnFields, EntryFields, NetstackAssumption
<1>1. d \in Conn
  <2>1. w \in Entry \cup {None} OBVIOUS
  <2> QED BY <2>1, Zenon DEF Conn
<1>2. /\ d.entry = w /\ d.queue = q /\ d.peer = c.peer /\ d.rx = c.rx /\ d.answer = c.answer
      /\ d.inbound = << >>
  BY DEF Conn
<1>3. Flow(d) = Flow(c) BY <1>0, <1>2 DEF Flow, Renewed
<1>4. \/ w.state = c.entry.state
      \/ c.entry.state \in {"Established", "FinWait1"} /\ w.state = "FinWait1"
      \/ c.entry.state \in {"CloseWait", "LastAck"} /\ w.state = "LastAck"
  <2>1. c.entry.established => c.entry.state # "SynSent" BY DEF Sound
  <2> QED BY <1>0, <2>1 DEF close, SocketStates, Renewed
<1>5. Sound(d)
  <2>1. InFlight(d) = 0 /\ InFlight(c) = 0 BY <1>2, NoneInFlight
  <2>2. w.rxbuf + InFlight(d) <= RxBuf
    BY <1>0, <2>1 DEF Renewed
  <2>3. c.peer.up /\ ~c.peer.fin => Receiving(w, << >>)
    <3>1. c.peer.up /\ ~c.peer.fin => Receiving(c.entry, << >>) BY DEF Sound
    <3> QED BY <1>4, <3>1 DEF Receiving
  <2>4. /\ c.rx # "none" /\ (w.established <=> c.rx \in {"app", "dropped"})
        /\ w.half_closed => w.established
        /\ w.established => w.state # "SynSent"
        /\ w.state \in {"CloseWait", "Closing", "TimeWait", "LastAck"} => c.peer.fin
    BY <1>4 DEF Sound, Renewed
  <2>5. w.state \in {"FinWait1", "FinWait2"} => w.established
    BY <1>0, <1>4 DEF Sound, close, SocketStates, Renewed
  <2>6. c.peer.gotFin /\ ~c.peer.fin => w.established BY DEF Sound, Renewed
  <2>7. 1..Len(<< >>) = {} OBVIOUS
  <2> QED BY <1>2, <2>1, <2>2, <2>3, <2>4, <2>5, <2>6, <2>7 DEF Sound, Renewed
<1>6. Drained(c) => Drained(d)
  BY <1>0, <1>2, <1>4 DEF Drained, close, SocketStates, Renewed
<1> QED BY <1>0, <1>1, <1>2, <1>3, <1>5, <1>6 DEF Onward, Renewed

(* So does one that is left alone. *)
LEMMA OnwardSame ==
    ASSUME NEW c \in Conn, Sound(c), c.inbound = << >>
    PROVE  Onward(c, c) /\ Waiting(c, c)
BY DEF Onward, Waiting

LEMMA OnwardTrans ==
    ASSUME NEW c, NEW d, NEW f, Onward(c, d), Onward(d, f)
    PROVE  Onward(c, f)
BY DEF Onward

(* The hand-over to the application, or the refusal. *)
LEMMA EstablishOnward ==
    ASSUME NEW c \in Conn, Sound(c), c.inbound = << >>
    PROVE  Onward(c, Establish(c)) /\ Waiting(c, Establish(c))
<1>1. CASE c.entry = None \/ c.entry.established BY <1>1, OnwardSame DEF Establish
<1> SUFFICES ASSUME c.entry # None, ~c.entry.established
             PROVE  Onward(c, Establish(c)) /\ Waiting(c, Establish(c))
  BY <1>1
<1>2. c.entry \in Entry /\ c.entry.established = FALSE /\ c.rx = "stack"
  BY ConnFields, EntryFields DEF Sound
<1>3. CASE c.entry.state = "Established"
  <2> DEFINE w == [c.entry EXCEPT !.established = TRUE]
             a == IF c.answer = "wait" THEN "ok" ELSE c.answer
             x == IF c.answer = "wait" THEN "app" ELSE "dropped"
             d == [c EXCEPT !.entry = w, !.answer = a, !.rx = x]
  <2>1. Establish(c) = d
    <3>1. Establish(c) = HandOver(c) BY <1>2, <1>3 DEF Establish
    <3> QED BY <3>1 DEF HandOver, Conn
  <2>2. w \in Entry /\ w # None BY <1>2, NoneAssumption DEF Entry
  <2>3. /\ w.state = "Established" /\ w.rxbuf = c.entry.rxbuf /\ w.txbuf = c.entry.txbuf
        /\ w.pending = c.entry.pending /\ w.established = TRUE
        /\ w.half_closed = c.entry.half_closed
    BY <1>2, <1>3 DEF Entry
  <2> HIDE DEF w
  <2>4. a \in {"none", "wait", "ok", "err", "gone"} /\ x \in {"none", "stack", "app", "dropped"}
    BY ConnFields
  <2>5. /\ (a = c.answer /\ x = "dropped") \/ (c.answer = "wait" /\ a = "ok" /\ x = "app")
        /\ x # "none" /\ x \in {"app", "dropped"}
        /\ a = "ok" /\ c.answer # "ok" => x = "app"
    OBVIOUS
  <2> HIDE DEF a, x
  <2>6. d \in Conn
    <3>1. w \in Entry \cup {None} BY <2>2
    <3> QED BY <2>4, <3>1, Zenon DEF Conn
  <2>7. /\ d.entry = w /\ d.queue = c.queue /\ d.peer = c.peer /\ d.rx = x /\ d.answer = a
        /\ d.inbound = << >>
    BY DEF Conn
  <2> HIDE DEF d
  <2>8. Flow(d) = Flow(c) BY <2>2, <2>3, <2>7 DEF Flow
  <2>9. Sound(d)
    <3>1. InFlight(d) = 0 /\ InFlight(c) = 0 BY <2>7, NoneInFlight
    <3>2. w.rxbuf + InFlight(d) <= RxBuf BY <2>3, <3>1 DEF Sound
    <3>3. Receiving(w, << >>) BY <2>3 DEF Receiving
    <3>4. Len(w.txbuf) <= TxBuf BY <2>3 DEF Sound
    <3>5. 1..Len(<< >>) = {} OBVIOUS
    <3> QED BY <2>3, <2>5, <2>7, <3>1, <3>2, <3>3, <3>4, <3>5 DEF Sound
  <2>10. Drained(d) BY <2>3, <2>7 DEF Drained
  <2> QED BY <1>2, <2>1, <2>2, <2>3, <2>5, <2>6, <2>7, <2>8, <2>9, <2>10 DEF Onward, Waiting
<1>4. CASE c.entry.state \in {"Closed", "TimeWait"}
  <2> DEFINE a == IF c.answer = "wait" THEN "err" ELSE c.answer
             d == [c EXCEPT !.entry = None, !.rx = "none", !.answer = a]
  <2>1. Establish(c) = d
    <3>1. Establish(c) = Refused(c) BY <1>2, <1>4 DEF Establish
    <3> QED BY <3>1 DEF Refused, Conn
  <2>2. a \in {"none", "wait", "ok", "err", "gone"}
           /\ (a = c.answer \/ (c.answer = "wait" /\ a = "err"))
    BY ConnFields
  <2> HIDE DEF a
  <2>3. d \in Conn BY <2>2, Zenon DEF Conn
  <2>4. /\ d.entry = None /\ d.peer = c.peer /\ d.rx = "none" /\ d.answer = a /\ d.inbound = << >>
    BY DEF Conn
  <2> HIDE DEF d
  <2> QED BY <1>2, <2>1, <2>2, <2>3, <2>4 DEF Onward, Waiting, Sound, Drained
<1>5. CASE c.entry.state \notin {"Established", "Closed", "TimeWait"}
  <2>1. Establish(c) = c BY <1>2, <1>5 DEF Establish
  <2> QED BY <2>1, OnwardSame
<1> QED BY <1>3, <1>4, <1>5

(* send_slice, and the close that waits for it. *)
SendStage(c) == IF c.entry = None THEN c ELSE [c EXCEPT !.entry = HalfClose(Send(@))]

(* The socket's bytes, then the pending ones, are the same stream as before. *)
LEMMA SendEntry ==
    ASSUME NEW e \in Entry, Len(e.txbuf) <= TxBuf, NEW g \in Seq(Nat), NEW w, w = Send(e)
    PROVE  /\ w \in Entry /\ w.state = e.state /\ w.rxbuf = e.rxbuf
           /\ w.established = e.established /\ w.half_closed = e.half_closed
           /\ Len(w.txbuf) <= TxBuf
           /\ (g \o w.txbuf) \o w.pending = (g \o e.txbuf) \o e.pending
           /\ e.pending = << >> => w.pending = << >>
<1>1. CASE ~may_send(e.state) BY <1>1 DEF Send
<1>2. CASE may_send(e.state)
  <2> DEFINE n == Min({Len(e.pending), TxBuf - Len(e.txbuf)})
             x == e.txbuf \o SubSeq(e.pending, 1, n)
             y == SubSeq(e.pending, n + 1, Len(e.pending))
  <2>1. /\ e.pending \in Seq(Nat) /\ e.txbuf \in Seq(Nat) /\ TxBuf \in Nat
        /\ Len(e.pending) \in Nat /\ TxBuf - Len(e.txbuf) \in Nat /\ Len(e.txbuf) \in Nat
    BY EntryFields, NetstackAssumption
  <2>2. n \in 0..Len(e.pending) /\ n <= TxBuf - Len(e.txbuf)
    <3> DEFINE a == Len(e.pending) b == TxBuf - Len(e.txbuf)
    <3>1. a \in Nat /\ b \in Nat BY <2>1
    <3> HIDE DEF a, b
    <3>2. Min({a, b}) = IF a <= b THEN a ELSE b BY <3>1, MinOfTwo
    <3>3. Min({a, b}) \in 0..a /\ Min({a, b}) <= b BY <3>1, <3>2
    <3> QED BY <3>3 DEF a, b
  <2>3. w = [e EXCEPT !.txbuf = x, !.pending = y] BY <1>2 DEF Send, Entry
  <2> HIDE DEF n
  <2>4. /\ x \in Seq(Nat) /\ y \in Seq(Nat) /\ Len(x) = Len(e.txbuf) + n
        /\ (g \o x) \o y = (g \o e.txbuf) \o e.pending
    <3> DEFINE t == e.txbuf r == e.pending
    <3>1. t \in Seq(Nat) /\ r \in Seq(Nat) /\ n \in 0..Len(r) BY <2>1, <2>2
    <3> HIDE DEF t, r
    <3>2. Split(g, t, r, n) BY <3>1, SplitFlow, Zenon
    <3> QED BY <3>2, Zenon DEF t, r, Split
  <2>5. e.pending = << >> => y = << >> BY <2>1, <2>2
  <2> HIDE DEF x, y
  <2>6. w \in Entry BY <2>3, <2>4, Zenon DEF Entry
  <2>7. /\ w.txbuf = x /\ w.pending = y /\ w.state = e.state /\ w.rxbuf = e.rxbuf
        /\ w.established = e.established /\ w.half_closed = e.half_closed
    BY <2>3 DEF Entry
  <2>8. Len(x) <= TxBuf BY <2>1, <2>2, <2>4
  <2> QED BY <2>4, <2>5, <2>6, <2>7, <2>8
<1> QED BY <1>1, <1>2

LEMMA CloseType ==
    ASSUME NEW s \in SocketStates
    PROVE  close(s) \in SocketStates
BY DEF close, SocketStates

(* Sending, and closing once there is nothing left to send. *)
LEMMA SentOnward ==
    ASSUME NEW c \in Conn, Sound(c), c.inbound = << >>
    PROVE  Onward(c, SendStage(c)) /\ Waiting(c, SendStage(c))
<1>1. CASE c.entry = None BY <1>1, OnwardSame DEF SendStage
<1>2. CASE c.entry # None
  <2> DEFINE e == c.entry
             v == Send(e)
             w == HalfClose(v)
             d == [c EXCEPT !.entry = w]
  <2>0. e \in Entry /\ c.peer.got \in Seq(Nat) /\ c.queue \in 0..AppQueue /\ Len(e.txbuf) <= TxBuf
    BY <1>2, ConnFields DEF Sound
  <2>1. SendStage(c) = d BY <1>2 DEF SendStage, Conn
  <2>2. /\ v \in Entry /\ v.state = e.state /\ v.rxbuf = e.rxbuf
        /\ v.established = e.established /\ v.half_closed = e.half_closed
        /\ Len(v.txbuf) <= TxBuf
        /\ (c.peer.got \o v.txbuf) \o v.pending = (c.peer.got \o e.txbuf) \o e.pending
        /\ e.pending = << >> => v.pending = << >>
    BY <2>0, SendEntry
  <2> HIDE DEF v
  <2>3. /\ w \in Entry /\ w.rxbuf = v.rxbuf /\ w.txbuf = v.txbuf /\ w.pending = v.pending
        /\ w.established = v.established /\ w.half_closed = v.half_closed
        /\ \/ w.state = v.state
           \/ w.state = close(v.state) /\ v.half_closed /\ v.pending = << >>
    <3>1. close(v.state) \in SocketStates BY <2>2, CloseType, EntryFields
    <3>2. CASE v.half_closed /\ v.pending = << >>
      <4>1. w = [v EXCEPT !.state = close(v.state)] BY <2>2, <3>2 DEF HalfClose, Entry
      <4> HIDE DEF w
      <4>2. w \in Entry BY <2>2, <3>1, <4>1, Zenon DEF Entry
      <4> QED BY <2>2, <3>2, <4>1, <4>2 DEF Entry
    <3>3. CASE ~(v.half_closed /\ v.pending = << >>)
      BY <2>2, <3>3 DEF HalfClose
    <3> QED BY <3>2, <3>3
  <2> HIDE DEF w
  <2>4. d = [c EXCEPT !.entry = w, !.queue = c.queue] BY DEF Conn
  <2>5. w.rxbuf <= e.rxbuf
    <3>1. e.rxbuf \in Int BY <2>0, EntryFields
    <3> QED BY <2>2, <2>3, <3>1
  <2>6. e.half_closed => e.established BY <1>2 DEF Sound
  <2>7. \/ w.state = e.state
        \/ /\ w.state = close(e.state) /\ e.established
           /\ c.rx = "app" => e.half_closed /\ w.pending = << >>
    BY <2>2, <2>3, <2>6
  <2>a. Renewed(c, w) BY <2>2, <2>3, <2>5, <2>7 DEF Renewed
  <2> DEFINE d2 == [c EXCEPT !.entry = w, !.queue = c.queue]
  <2>8. Onward(c, d2) BY <1>2, <2>0, <2>3, <2>a, OnwardEntry, Zenon
  <2>b. d2 = d /\ d.entry = w /\ d.queue = c.queue BY <2>4 DEF Conn
  <2> HIDE DEF d2
  <2>9. w # None BY <2>3, EntryFields
  <2> QED BY <2>1, <2>2, <2>3, <2>8, <2>9, <2>b DEF Waiting
<1> QED BY <1>1, <1>2

(* What was received is handed over, or fills the queue. *)
LEMMA DeliverOnward ==
    ASSUME NEW c \in Conn, Sound(c), c.inbound = << >>
    PROVE  /\ Onward(c, Deliver(c))
           /\ c.entry # None /\ c.rx = "app" =>
                  Deliver(c).queue = c.queue + c.entry.rxbuf \/ Deliver(c).queue = AppQueue
<1>1. CASE c.entry = None BY <1>1, OnwardSame DEF Deliver
<1> SUFFICES ASSUME c.entry # None
             PROVE  /\ Onward(c, Deliver(c))
                    /\ c.rx = "app" =>
                         Deliver(c).queue = c.queue + c.entry.rxbuf \/ Deliver(c).queue = AppQueue
  BY <1>1
<1> DEFINE e == c.entry
<1>2. /\ e \in Entry /\ c.queue \in 0..AppQueue /\ Len(e.txbuf) <= TxBuf /\ AppQueue \in Nat
      /\ e.rxbuf \in 0..RxBuf /\ RxBuf \in Nat /\ close(e.state) \in SocketStates
  BY ConnFields, EntryFields, NetstackAssumption, CloseType DEF Sound
<1>3. CASE c.rx = "dropped"
  <2> DEFINE w == [e EXCEPT !.state = close(e.state)]
             d == [c EXCEPT !.entry = w, !.queue = c.queue]
  <2>1. Deliver(c) = d BY <1>2, <1>3 DEF Deliver, Conn, Entry
  <2>2. w \in Entry BY <1>2, Zenon DEF Entry
  <2>3. /\ w.state = close(e.state) /\ w.rxbuf = e.rxbuf /\ w.txbuf = e.txbuf
        /\ w.pending = e.pending /\ w.established = e.established
        /\ w.half_closed = e.half_closed
    BY <1>2 DEF Entry
  <2> HIDE DEF w
  <2>4. e.established BY <1>3 DEF Sound
  <2>5. w.rxbuf <= e.rxbuf BY <1>2, <2>3
  <2>a. Renewed(c, w) BY <1>2, <1>3, <2>3, <2>4, <2>5 DEF Renewed
  <2>6. Onward(c, d) BY <1>2, <2>2, <2>a, OnwardEntry, Zenon
  <2> QED BY <1>3, <2>1, <2>6
<1>4. CASE c.rx # "dropped"
  <2> DEFINE n == Min({e.rxbuf, AppQueue - c.queue})
             w == [e EXCEPT !.rxbuf = e.rxbuf - n]
             d == [c EXCEPT !.entry = w, !.queue = c.queue + n]
  <2>1. Deliver(c) = d BY <1>2, <1>4 DEF Deliver, Conn, Entry
  <2>2. n \in Nat /\ n <= e.rxbuf /\ n <= AppQueue - c.queue
           /\ (n = e.rxbuf \/ n = AppQueue - c.queue)
    <3> DEFINE a == e.rxbuf b == AppQueue - c.queue
    <3>1. a \in Nat /\ b \in Nat BY <1>2
    <3> HIDE DEF a, b
    <3>2. Min({a, b}) = IF a <= b THEN a ELSE b BY <3>1, MinOfTwo
    <3>3. Min({a, b}) \in Nat /\ Min({a, b}) <= a /\ Min({a, b}) <= b
             /\ (Min({a, b}) = a \/ Min({a, b}) = b) BY <3>1, <3>2
    <3> QED BY <3>3 DEF a, b
  <2> HIDE DEF n
  <2>3. e.rxbuf - n \in 0..RxBuf /\ c.queue + n \in 0..AppQueue /\ e.rxbuf - n <= e.rxbuf
    <3> DEFINE a == e.rxbuf b == c.queue
    <3>1. a \in 0..RxBuf /\ b \in 0..AppQueue /\ RxBuf \in Nat /\ AppQueue \in Nat
      BY <1>2
    <3>2. n \in Nat /\ n <= a /\ n <= AppQueue - b BY <2>2
    <3> HIDE DEF a, b
    <3>3. a - n \in 0..RxBuf /\ a - n <= a BY <3>1, <3>2
    <3>4. b + n \in 0..AppQueue BY <3>1, <3>2
    <3> QED BY <3>3, <3>4 DEF a, b
  <2>4. w \in Entry BY <1>2, <2>3, Zenon DEF Entry
  <2>5. /\ w.state = e.state /\ w.rxbuf = e.rxbuf - n /\ w.txbuf = e.txbuf
        /\ w.pending = e.pending /\ w.established = e.established
        /\ w.half_closed = e.half_closed
    BY <1>2 DEF Entry
  <2>6. c.queue + n = c.queue + e.rxbuf \/ c.queue + n = AppQueue BY <1>2, <2>2
  <2> DEFINE q == c.queue + n
  <2>7. q \in 0..AppQueue BY <2>3
  <2> HIDE DEF w, q
  <2> DEFINE d2 == [c EXCEPT !.entry = w, !.queue = q]
  <2>a. Renewed(c, w) BY <1>2, <2>3, <2>5 DEF Renewed
  <2>8. Onward(c, d2) BY <2>4, <2>7, <2>a, OnwardEntry, Zenon
  <2>9. d2.queue = q BY DEF Conn
  <2>10. d2 = d BY DEF q
  <2> HIDE DEF d, d2
  <2> QED BY <2>1, <2>6, <2>8, <2>9, <2>10 DEF q
<1> QED BY <1>3, <1>4

(* Answering the far end's FIN, and removing a closed socket. *)
LEMMA FinishOnward ==
    ASSUME NEW c \in Conn, Sound(c), c.inbound = << >>
    PROVE  Onward(c, Finish(c)) /\ Finish(c).queue = c.queue
<1>1. CASE c.entry = None
  <2>1. Finish(c) = c BY <1>1 DEF Finish
  <2> QED BY <2>1, OnwardSame
<1>2. CASE c.entry # None /\ c.entry.state = "CloseWait"
  <2> DEFINE e == c.entry
             w == [e EXCEPT !.state = "LastAck"]
             d == [c EXCEPT !.entry = w, !.queue = c.queue]
  <2>1. e \in Entry /\ c.queue \in 0..AppQueue /\ Len(e.txbuf) <= TxBuf /\ e.rxbuf \in Nat
    BY <1>2, ConnFields, EntryFields, NetstackAssumption DEF Sound
  <2>2. Finish(c) = d BY <1>2, <2>1 DEF Finish, close, Conn, Entry
  <2>3. w \in Entry BY <2>1 DEF Entry, SocketStates
  <2>4. /\ w.state = "LastAck" /\ w.rxbuf = e.rxbuf /\ w.txbuf = e.txbuf
        /\ w.pending = e.pending /\ w.established = e.established
        /\ w.half_closed = e.half_closed
    BY <2>1 DEF Entry
  <2>5. w.rxbuf <= e.rxbuf BY <2>1, <2>4
  <2> HIDE DEF w
  <2>a. Renewed(c, w) BY <1>2, <2>1, <2>4, <2>5 DEF Renewed
  <2>6. Onward(c, d) BY <1>2, <2>1, <2>3, <2>a, OnwardEntry, Zenon
  <2>7. d.queue = c.queue BY DEF Conn
  <2> QED BY <2>2, <2>6, <2>7
<1>3. CASE c.entry # None /\ c.entry.state = "Closed" /\ c.entry.established
  <2> DEFINE d == [c EXCEPT !.entry = None]
  <2>1. Finish(c) = d BY <1>3 DEF Finish
  <2>2. d \in Conn BY Zenon DEF Conn
  <2>3. /\ d.entry = None /\ d.peer = c.peer /\ d.rx = c.rx /\ d.answer = c.answer
        /\ d.inbound = << >> /\ d.queue = c.queue
    BY DEF Conn
  <2> HIDE DEF d
  <2> QED BY <1>3, <2>1, <2>2, <2>3 DEF Onward, Sound, Drained
<1>4. CASE c.entry # None /\ c.entry.state # "CloseWait"
             /\ ~(c.entry.state = "Closed" /\ c.entry.established)
  <2>1. Finish(c) = c BY <1>4 DEF Finish
  <2> QED BY <2>1, OnwardSame
<1> QED BY <1>1, <1>2, <1>3, <1>4

(* One iteration of the loop, for one connection. *)
Serve(c, carried, expired) == Finish(Deliver(SendStage(Establish(Poll(c, carried, expired)))))

Served(c, d) ==
    /\ d \in Conn /\ Sound(d) /\ d.inbound = << >>
    /\ d.peer.fin = c.peer.fin
    /\ c.entry = None => d = [c EXCEPT !.inbound = << >>]
    /\ d.entry # None =>
           c.entry # None /\ Flow(d) = Flow(c) /\ d.entry.half_closed = c.entry.half_closed
    /\ Len(c.peer.got) <= Len(d.peer.got) /\ Len(d.peer.got) <= Len(Flow(c))
    /\ \A i \in 1..Len(d.peer.got) : d.peer.got[i] = Flow(c)[i]
    /\ Drained(c) => Drained(d)
    /\ c.rx \in {"app", "dropped"} => d.rx = c.rx
    /\ d.answer = c.answer \/ (c.answer = "wait" /\ d.answer \in {"ok", "err"})
    /\ d.answer = "ok" /\ c.answer # "ok" => d.rx = "app"
    /\ d.peer.gotFin /\ ~d.peer.fin /\ d.rx = "app" /\ Drained(c) /\ c.entry # None =>
           /\ c.rx = "app"
           /\ c.peer.gotFin \/ (c.entry.half_closed /\ Len(d.peer.got) = Len(Flow(c)))
    /\ c.entry # None /\ c.rx = "app" =>
           c.queue + c.entry.rxbuf + InFlight(c) = d.queue \/ d.queue = AppQueue

(* The stream begins with what the far end has got. *)
LEMMA FlowSeq ==
    ASSUME NEW c \in Conn
    PROVE  /\ Flow(c) \in Seq(Nat) /\ Len(c.peer.got) <= Len(Flow(c))
           /\ \A i \in 1..Len(c.peer.got) : c.peer.got[i] = Flow(c)[i]
           /\ c.entry # None => Len(Flow(c)) = Len(c.peer.got) + Len(c.entry.txbuf) + Len(c.entry.pending)
<1>1. c.peer.got \in Seq(Nat) BY ConnFields
<1>2. CASE c.entry = None BY <1>1, <1>2 DEF Flow
<1>3. CASE c.entry # None
  <2>1. c.entry.txbuf \in Seq(Nat) /\ c.entry.pending \in Seq(Nat)
    BY <1>3, ConnFields, EntryFields
  <2>2. Flow(c) = (c.peer.got \o c.entry.txbuf) \o c.entry.pending BY <1>3 DEF Flow
  <2> DEFINE g == c.peer.got x == c.entry.txbuf y == c.entry.pending
  <2>3. g \in Seq(Nat) /\ x \in Seq(Nat) /\ y \in Seq(Nat) BY <1>1, <2>1
  <2> HIDE DEF g, x, y
  <2>4. /\ (g \o x) \o y \in Seq(Nat) /\ Len(g) <= Len((g \o x) \o y)
        /\ Len((g \o x) \o y) = Len(g) + Len(x) + Len(y)
        /\ \A i \in 1..Len(g) : g[i] = ((g \o x) \o y)[i]
    BY <2>3
  <2> QED BY <1>3, <2>2, <2>4 DEF g, x, y
<1> QED BY <1>2, <1>3

(* No entry, nothing to serve. *)
LEMMA ServeNone ==
    ASSUME NEW c \in Conn, c.entry = None, NEW carried \in BOOLEAN, NEW expired \in BOOLEAN
    PROVE  Served(c, Serve(c, carried, expired))
<1> DEFINE d == [c EXCEPT !.inbound = << >>]
<1>1. d \in Conn
  <2>1. << >> \in Seq(Segments) OBVIOUS
  <2> QED BY <2>1, Zenon DEF Conn
<1>2. /\ d.entry = None /\ d.inbound = << >> /\ d.peer = c.peer /\ d.answer = c.answer
      /\ d.rx = c.rx /\ d.queue = c.queue
  BY DEF Conn
<1>3. Poll(c, carried, expired) = d BY Zenon DEF Poll
<1> HIDE DEF d
<1>4. Establish(d) = d /\ SendStage(d) = d /\ Deliver(d) = d /\ Finish(d) = d
  BY <1>2 DEF Establish, SendStage, Deliver, Finish
<1>5. Serve(c, carried, expired) = d BY <1>3, <1>4 DEF Serve
<1>6. Sound(d) /\ Drained(d) BY <1>2 DEF Sound, Drained
<1>7. c.peer.got \in Seq(Nat) /\ Flow(c) = c.peer.got BY ConnFields DEF Flow
<1>8. Len(c.peer.got) <= Len(c.peer.got) BY <1>7
<1>9. d = [c EXCEPT !.inbound = << >>] BY DEF d
<1>10. Served(c, d)
  BY <1>1, <1>2, <1>6, <1>7, <1>8, <1>9 DEF Served
<1> QED BY <1>5, <1>10

(* The stages after the poll. *)
LEMMA ServePolled ==
    ASSUME NEW p \in Conn, Sound(p), p.inbound = << >>, p.entry # None,
           NEW d, d = Finish(Deliver(SendStage(Establish(p))))
    PROVE  /\ Onward(p, d)
           /\ p.rx = "app" => d.queue = p.queue + p.entry.rxbuf \/ d.queue = AppQueue
<1> DEFINE h == Establish(p) s == SendStage(h) r == Deliver(s)
<1>1. Onward(p, h) /\ Waiting(p, h) BY EstablishOnward
<1> HIDE DEF h
<1>2. Onward(h, s) /\ Waiting(h, s) BY <1>1, SentOnward DEF Onward
<1> HIDE DEF s
<1>3. /\ Onward(s, r)
      /\ s.entry # None /\ s.rx = "app" => r.queue = s.queue + s.entry.rxbuf \/ r.queue = AppQueue
  BY <1>2, DeliverOnward DEF Onward
<1> HIDE DEF r
<1>4. Onward(r, d) /\ d.queue = r.queue
  BY <1>3, FinishOnward DEF Onward, h, s, r
<1>5. Onward(p, s) BY <1>1, <1>2, OnwardTrans
<1>6. Onward(p, r) BY <1>3, <1>5, OnwardTrans
<1>7. Onward(p, d) BY <1>4, <1>6, OnwardTrans
<1>8. p.rx = "app" => /\ s.entry # None /\ s.rx = "app"
                      /\ s.entry.rxbuf = p.entry.rxbuf /\ s.queue = p.queue
  BY <1>1, <1>2, <1>5 DEF Waiting, Onward
<1> QED BY <1>3, <1>4, <1>7, <1>8

(* The five stages, one after the other. *)
LEMMA ServeEntry ==
    ASSUME NEW c \in Conn, Sound(c), c.entry # None,
           NEW carried \in BOOLEAN, NEW expired \in BOOLEAN
    PROVE  Served(c, Serve(c, carried, expired))
<1> DEFINE p == Poll(c, carried, expired)
           d == Serve(c, carried, expired)
<1>1. Polled(c, p) BY PollEntry
<1>2. d = Finish(Deliver(SendStage(Establish(p)))) BY DEF Serve
<1> HIDE DEF p, d
<1>3. p \in Conn /\ Sound(p) /\ p.inbound = << >> /\ p.entry # None BY <1>1 DEF Polled
<1>4. /\ Onward(p, d)
      /\ p.rx = "app" => d.queue = p.queue + p.entry.rxbuf \/ d.queue = AppQueue
  BY <1>2, <1>3, ServePolled
<1>5. d \in Conn /\ Sound(d) /\ d.inbound = << >> /\ d.peer = p.peer BY <1>4 DEF Onward
<1>6. d.peer.fin = c.peer.fin BY <1>1, <1>5 DEF Polled
<1>7. d.entry # None =>
           Flow(d) = Flow(c) /\ d.entry.half_closed = c.entry.half_closed
  BY <1>1, <1>4 DEF Polled, Onward
<1>8. Len(c.peer.got) <= Len(d.peer.got) BY <1>1, <1>5 DEF Polled
<1>9. /\ Len(d.peer.got) <= Len(Flow(c))
      /\ \A i \in 1..Len(d.peer.got) : d.peer.got[i] = Flow(c)[i]
  <2>1. Flow(p) = Flow(c) /\ d.peer.got = p.peer.got BY <1>1, <1>5 DEF Polled
  <2>2. /\ Len(p.peer.got) <= Len(Flow(p))
        /\ \A i \in 1..Len(p.peer.got) : p.peer.got[i] = Flow(p)[i]
    BY <1>3, FlowSeq
  <2> QED BY <2>1, <2>2
<1>10. Drained(c) => Drained(p) BY <1>1 DEF Polled, Drained
<1>11. Drained(c) => Drained(d) BY <1>4, <1>10 DEF Onward
<1>12. /\ c.rx \in {"app", "dropped"} => d.rx = c.rx
       /\ d.answer = c.answer \/ (c.answer = "wait" /\ d.answer \in {"ok", "err"})
       /\ d.answer = "ok" /\ c.answer # "ok" => d.rx = "app"
  BY <1>1, <1>4 DEF Polled, Onward
<1>13. ASSUME d.peer.gotFin, ~d.peer.fin, d.rx = "app", Drained(c)
       PROVE  /\ c.rx = "app"
              /\ c.peer.gotFin \/ (c.entry.half_closed /\ Len(d.peer.got) = Len(Flow(c)))
  <2>1. p.peer.gotFin /\ ~p.peer.fin /\ ~c.peer.fin BY <1>5, <1>6, <1>13
  <2>2. p.entry.established BY <1>3, <2>1 DEF Sound
  <2>3. p.rx \in {"app", "dropped"} BY <1>3, <2>2 DEF Sound
  <2>4. c.rx = "app" BY <1>1, <1>4, <1>13, <2>3 DEF Polled, Onward
  <2>5. ASSUME ~c.peer.gotFin
        PROVE  c.entry.half_closed /\ Len(d.peer.got) = Len(Flow(c))
    <3>1. c.entry.state \in {"FinWait1", "FinWait2"} /\ p.entry.txbuf = << >>
      BY <1>1, <2>1, <2>5 DEF Polled
    <3>2. c.entry.half_closed /\ c.entry.pending = << >> BY <1>13, <2>1, <2>4, <3>1 DEF Drained
    <3>3. p.entry.pending = << >> BY <1>1, <3>2 DEF Polled
    <3>4. Len(Flow(p)) = Len(p.peer.got) + Len(<< >>) + Len(<< >>) BY <1>3, <3>1, <3>3, FlowSeq
    <3>5. p.peer.got \in Seq(Nat) BY <1>3, ConnFields
    <3>6. Len(Flow(p)) = Len(p.peer.got) BY <3>4, <3>5
    <3> QED BY <1>1, <1>5, <3>2, <3>6 DEF Polled
  <2> QED BY <2>4, <2>5
<1>14. c.rx = "app" =>
           c.queue + c.entry.rxbuf + InFlight(c) = d.queue \/ d.queue = AppQueue
  <2>1. c.queue \in Nat /\ c.entry.rxbuf \in Nat /\ InFlight(c) \in Nat
    BY ConnFields, EntryFields, InFlightData, NetstackAssumption
  <2> QED BY <1>1, <1>4, <2>1 DEF Polled
<1>15. Served(c, d)
  BY <1>5, <1>6, <1>7, <1>8, <1>9, <1>11, <1>12, <1>13, <1>14 DEF Served
<1> QED BY <1>15 DEF d

LEMMA ServeConn ==
    ASSUME NEW c \in Conn, Sound(c), NEW carried \in BOOLEAN, NEW expired \in BOOLEAN
    PROVE  Served(c, Serve(c, carried, expired))
BY ServeNone, ServeEntry

(* An iteration serves every connection. *)
LEMMA IterateServes ==
    ASSUME NEW cs \in [Ids -> Conn], \A id \in Ids : Sound(cs[id]),
           NEW carried \in BOOLEAN, NEW expired \in BOOLEAN, Iterate(cs, carried, expired)
    PROVE  /\ conns' \in [Ids -> Conn]
           /\ \A id \in Ids : Served(cs[id], conns'[id])
<1>1. conns' = [id \in Ids |-> Serve(cs[id], carried, expired)]
  BY DEF Iterate, Serve, SendStage
<1>2. \A id \in Ids : Served(cs[id], Serve(cs[id], carried, expired))
  BY ServeConn
<1>3. \A id \in Ids : Serve(cs[id], carried, expired) \in Conn BY <1>2 DEF Served
<1> QED BY <1>1, <1>2, <1>3

-----------------------------------------------------------------------------
(* The items of one drain of data_in *)

Item == [kind: {"Tcp"}, id: Ids, chunk: Nat] \cup [kind: {"TcpClose"}, id: Ids] \cup {UdpClose}

(* What none of them changes. *)
SameButUpload(c, h) ==
    /\ h \in Conn /\ h.peer = c.peer /\ h.rx = c.rx /\ h.answer = c.answer
    /\ h.queue = c.queue /\ h.inbound = c.inbound
    /\ c.entry = None => h = c
    /\ c.entry # None =>
           /\ h.entry # None /\ h.entry.state = c.entry.state /\ h.entry.rxbuf = c.entry.rxbuf
           /\ h.entry.txbuf = c.entry.txbuf /\ h.entry.established = c.entry.established

(* What the first i of the items s have made of the connection c. *)
HandledSo(id, c, s, i, h) ==
    /\ SameButUpload(c, h)
    /\ (\A j \in 1..i : s[j].id # id) => h = c
    /\ c.entry # None =>
         (h.entry.half_closed
            <=> c.entry.half_closed \/ \E j \in 1..i : s[j].id = id /\ s[j].kind = "TcpClose")

(* What the item d does. *)
ItemSo(id, c, d, h) ==
    /\ SameButUpload(c, h)
    /\ d.id # id => h = c
    /\ c.entry # None /\ d.id = id =>
         IF d.kind = "TcpClose"
         THEN h.entry.half_closed = TRUE /\ h.entry.pending = c.entry.pending
         ELSE /\ h.entry.half_closed = c.entry.half_closed /\ d.chunk \in Nat
              /\ h.entry.pending = Append(c.entry.pending, d.chunk)

(* One item. *)
LEMMA HandleItem ==
    ASSUME NEW id \in Ids, NEW c \in Conn, NEW d \in Item, NEW h, h = handle_data(id, c, d)
    PROVE  ItemSo(id, c, d, h)
<1>1. CASE c.entry = None \/ d.id # id BY <1>1 DEF handle_data, SameButUpload, ItemSo
<1>2. CASE c.entry # None /\ d.id = id
  <2> DEFINE e == c.entry
  <2>0. e \in Entry /\ e.pending \in Seq(Nat) BY <1>2, ConnFields, EntryFields
  <2>1. d # UdpClose BY <1>2, NoneAssumption DEF UdpClose
  <2>2. d.kind = "TcpClose" \/ (d.kind = "Tcp" /\ d.chunk \in Nat) BY <2>1 DEF Item
  <2>3. ASSUME NEW w \in Entry, h = [c EXCEPT !.entry = w],
               w.state = e.state, w.rxbuf = e.rxbuf, w.txbuf = e.txbuf,
               w.established = e.established
        PROVE  SameButUpload(c, h) /\ h.entry = w
    <3>1. h \in Conn
      <4>1. w \in Entry \cup {None} OBVIOUS
      <4> QED BY <2>3, <4>1, Zenon DEF Conn
    <3>2. /\ h.entry = w /\ h.peer = c.peer /\ h.rx = c.rx /\ h.answer = c.answer
          /\ h.queue = c.queue /\ h.inbound = c.inbound
      BY <2>3 DEF Conn
    <3>3. w # None BY EntryFields
    <3> QED BY <1>2, <2>3, <3>1, <3>2, <3>3 DEF SameButUpload
  <2>4. CASE d.kind = "TcpClose"
    <3> DEFINE w == [e EXCEPT !.half_closed = TRUE]
    <3>1. h = [c EXCEPT !.entry = w] BY <1>2, <2>0, <2>4 DEF handle_data, Conn, Entry
    <3>2. w \in Entry BY <2>0, Zenon DEF Entry
    <3>3. /\ w.state = e.state /\ w.rxbuf = e.rxbuf /\ w.txbuf = e.txbuf
          /\ w.established = e.established /\ w.half_closed = TRUE /\ w.pending = e.pending
      BY <2>0 DEF Entry
    <3> HIDE DEF w
    <3>4. SameButUpload(c, h) /\ h.entry = w BY <2>3, <3>1, <3>2, <3>3
    <3> QED BY <1>2, <2>4, <3>3, <3>4 DEF ItemSo
  <2>5. CASE d.kind = "Tcp" /\ d.chunk \in Nat
    <3> DEFINE y == Append(e.pending, d.chunk)
               w == [e EXCEPT !.pending = y]
    <3>1. h = [c EXCEPT !.entry = w] BY <1>2, <2>0, <2>5 DEF handle_data, Conn, Entry
    <3>2. y \in Seq(Nat) BY <2>0, <2>5
    <3> HIDE DEF y, ItemSo
    <3>3. w \in Entry BY <2>0, <3>2, Zenon DEF Entry
    <3>4. /\ w.state = e.state /\ w.rxbuf = e.rxbuf /\ w.txbuf = e.txbuf
          /\ w.established = e.established /\ w.half_closed = e.half_closed /\ w.pending = y
      BY <2>0 DEF Entry
    <3> HIDE DEF w
    <3>5. SameButUpload(c, h) /\ h.entry = w BY <2>3, <3>1, <3>3, <3>4
    <3> QED BY <1>2, <2>5, <3>4, <3>5 DEF y, ItemSo
  <2> QED BY <2>2, <2>4, <2>5
<1> QED BY <1>1, <1>2

(* One item more. *)
LEMMA HandledStep ==
    ASSUME NEW id \in Ids, NEW c \in Conn, NEW s \in Seq(Item), NEW i \in 1..Len(s),
           NEW q, HandledSo(id, c, s, i - 1, q), NEW r, r = handle_data(id, q, s[i])
    PROVE  HandledSo(id, c, s, i, r)
<1>1. s[i] \in Item /\ q \in Conn /\ SameButUpload(c, q) /\ Len(s) \in Nat
  BY DEF HandledSo, SameButUpload
<1>2. /\ SameButUpload(q, r)
      /\ s[i].id # id => r = q
      /\ q.entry # None /\ s[i].id = id =>
           IF s[i].kind = "TcpClose"
           THEN r.entry.half_closed = TRUE
           ELSE r.entry.half_closed = q.entry.half_closed
  <2>1. ItemSo(id, q, s[i], r) BY <1>1, HandleItem, Zenon
  <2> QED BY <2>1 DEF ItemSo
<1>3. SameButUpload(c, r) BY <1>1, <1>2 DEF SameButUpload
<1>4. (\A j \in 1..i : s[j].id # id) => r = c
  <2>1. (\A j \in 1..i : s[j].id # id) => s[i].id # id /\ \A j \in 1..(i - 1) : s[j].id # id
    BY <1>1
  <2> QED BY <1>2, <2>1 DEF HandledSo
<1>5. ASSUME c.entry # None
      PROVE  r.entry.half_closed
               <=> c.entry.half_closed \/ \E j \in 1..i : s[j].id = id /\ s[j].kind = "TcpClose"
  <2>1. q.entry # None /\ q.entry \in Entry BY <1>1, <1>5, ConnFields DEF SameButUpload
  <2>2. q.entry.half_closed \in BOOLEAN BY <2>1, EntryFields
  <2>3. r.entry.half_closed <=> (q.entry.half_closed \/ (s[i].id = id /\ s[i].kind = "TcpClose"))
    BY <1>2, <2>1, <2>2
  <2>4. (\E j \in 1..i : s[j].id = id /\ s[j].kind = "TcpClose")
          <=> (\E j \in 1..(i - 1) : s[j].id = id /\ s[j].kind = "TcpClose")
                 \/ (s[i].id = id /\ s[i].kind = "TcpClose")
    BY <1>1
  <2> QED BY <1>5, <2>3, <2>4 DEF HandledSo
<1> QED BY <1>3, <1>4, <1>5 DEF HandledSo

(* All of them. *)
LEMMA HandledFacts ==
    ASSUME NEW id \in Ids, NEW c \in Conn, NEW s \in Seq(Item)
    PROVE  \A i \in 0..Len(s) : HandledSo(id, c, s, i, Handling(id, c, s)[i])
<1> DEFINE f == Handling(id, c, s)
           T == {i \in 0..Len(s) : HandledSo(id, c, s, i, f[i])}
<1>1. f[0] = c /\ \A i \in 1..Len(s) : f[i] = handle_data(id, f[i - 1], s[i]) BY HandlingDef
<1> HIDE DEF f
<1>2. Len(s) \in Nat OBVIOUS
<1>3. HandledSo(id, c, s, 0, f[0])
  <2>1. SameButUpload(c, c) BY DEF SameButUpload
  <2>2. 1..0 = {} OBVIOUS
  <2> QED BY <1>1, <2>1, <2>2 DEF HandledSo
<1>4. \A i \in 1..Len(s) : i - 1 \in T => i \in T
  <2> SUFFICES ASSUME NEW i \in 1..Len(s), HandledSo(id, c, s, i - 1, f[i - 1])
               PROVE  HandledSo(id, c, s, i, f[i])
    BY <1>2
  <2> QED BY <1>1, HandledStep
<1>5. 0 \in T BY <1>2, <1>3
<1> HIDE DEF T
<1>6. 0..Len(s) \subseteq T BY <1>2, <1>4, <1>5, Induction
<1> QED BY <1>6 DEF T, f

(* A byte added to the last buffer is added to the stream. *)
LEMMA AppendLast ==
    ASSUME NEW a \in Seq(Nat), NEW y \in Seq(Nat), NEW x \in Nat
    PROVE  a \o Append(y, x) = Append(a \o y, x)
<1> DEFINE u == a \o Append(y, x)
           v == Append(a \o y, x)
<1>1. u \in Seq(Nat) /\ v \in Seq(Nat) /\ Len(u) = Len(v) OBVIOUS
<1>2. \A i \in 1..Len(u) : u[i] = v[i] OBVIOUS
<1> HIDE DEF u, v
<1>3. u = v BY <1>1, <1>2, SeqEqual
<1> QED BY <1>3 DEF u, v

LEMMA FlowAppend ==
    ASSUME NEW q \in Conn, q.entry # None, NEW r, SameButUpload(q, r), NEW x \in Nat,
           r.entry.pending = Append(q.entry.pending, x)
    PROVE  Flow(r) = Append(Flow(q), x)
<1> DEFINE a == q.peer.got \o q.entry.txbuf
           y == q.entry.pending
<1>1. q.peer.got \in Seq(Nat) /\ q.entry.txbuf \in Seq(Nat) /\ y \in Seq(Nat)
  BY ConnFields, EntryFields
<1>2. a \in Seq(Nat) BY <1>1, ConcatSeq
<1>3. Flow(q) = a \o y BY DEF Flow
<1>4. Flow(r) = a \o Append(y, x) BY DEF Flow, SameButUpload
<1> HIDE DEF a, y
<1>5. a \o Append(y, x) = Append(a \o y, x) BY <1>1, <1>2, AppendLast
<1> QED BY <1>3, <1>4, <1>5

(* The next chunk keeps the order. *)
LEMMA InOrderAppend ==
    ASSUME NEW id, NEW s \in Seq(Nat), NEW x \in Nat, InOrder(id, s), x = Chunk(id, Len(s) + 1)
    PROVE  InOrder(id, Append(s, x)) /\ Len(Append(s, x)) = Len(s) + 1
<1> DEFINE C(p) == Chunk(id, p)
<1>1. \A p \in 1..Len(s) : s[p] = C(p) BY DEF InOrder
<1>2. x = C(Len(s) + 1) OBVIOUS
<1> HIDE DEF C
<1>3. \A p \in 1..Len(Append(s, x)) : Append(s, x)[p] = C(p) BY <1>1, <1>2
<1> QED BY <1>3 DEF InOrder, C

(* The upload after the first i items, of which the last w are its own. *)
FlowSo(id, w, k, i, r) ==
    /\ InOrder(id, Flow(r))
    /\ Len(Flow(r)) = Len(Flow(conns[id]))
          + (IF i <= Len(dataIn) - w THEN 0
             ELSE i - (Len(dataIn) - w) - (IF k = 1 /\ i = Len(dataIn) THEN 1 ELSE 0))

(* One item more. *)
LEMMA FlowStep ==
    ASSUME NEW id \in Ids, conns[id] \in Conn, conns[id].entry # None, dataIn \in Seq(Item),
           NEW w \in 0..Len(dataIn), NEW k \in {0, 1}, Queued(id, w, k),
           Pushed(id) \in Int, NEW i \in 1..Len(dataIn), NEW q, SameButUpload(conns[id], q),
           FlowSo(id, w, k, i - 1, q),
           NEW r, ItemSo(id, q, dataIn[i], r)
    PROVE  FlowSo(id, w, k, i, r)
<1> DEFINE n == Len(dataIn)
           d == dataIn[i]
           z == Len(Flow(conns[id]))
           m == Len(Flow(q))
           G(l) == IF l <= n - w THEN 0 ELSE l - (n - w) - (IF k = 1 /\ l = n THEN 1 ELSE 0)
<1>1. q \in Conn /\ q.entry # None /\ SameButUpload(q, r) BY DEF SameButUpload, ItemSo
<1>2. Flow(q) \in Seq(Nat) /\ m \in Nat /\ z \in Nat
  <2>1. Flow(q) \in Seq(Nat) BY <1>1, FlowSeq
  <2>2. Flow(conns[id]) \in Seq(Nat) BY FlowSeq
  <2> QED BY <2>1, <2>2
<1>3. n \in Nat /\ w \in 0..n /\ i \in 1..n OBVIOUS
<1>4. InOrder(id, Flow(q)) /\ m = z + G(i - 1) BY Zenon DEF FlowSo
<1>5. SUFFICES InOrder(id, Flow(r)) /\ Len(Flow(r)) = z + G(i) BY Zenon DEF FlowSo
<1>6. /\ d.id = id <=> i > n - w
      /\ i > n - w => d = IF k = 1 /\ i = n THEN TcpClose(id)
                          ELSE Tcp(id, Chunk(id, Pushed(id) + k - (n - i)))
      /\ z + (IF conns[id].entry.half_closed THEN 1 ELSE 0) + w = Pushed(id) + k
      /\ conns[id].entry.half_closed <=> (k = 1 /\ w = 0)
  <2>1. d.id = id <=> i > n - w BY Zenon DEF Queued
  <2>2. i > n - w => d = IF k = 1 /\ i = n THEN TcpClose(id)
                         ELSE Tcp(id, Chunk(id, Pushed(id) + k - (n - i)))
    BY DEF Queued
  <2>3. /\ z + (IF conns[id].entry.half_closed THEN 1 ELSE 0) + w = Pushed(id) + k
        /\ conns[id].entry.half_closed <=> (k = 1 /\ w = 0)
    BY DEF Queued
  <2> QED BY <2>1, <2>2, <2>3
<1>7. d.id # id => r = q BY DEF ItemSo
<1>8. q.entry # None /\ d.id = id =>
         IF d.kind = "TcpClose" THEN r.entry.pending = q.entry.pending
         ELSE d.chunk \in Nat /\ r.entry.pending = Append(q.entry.pending, d.chunk)
  BY DEF ItemSo
<1> HIDE DEF n, d, z, m
<1>9. CASE i <= n - w
  <2>1. r = q BY <1>3, <1>6, <1>7, <1>9
  <2> QED BY <1>2, <1>3, <1>4, <1>9, <2>1 DEF m
<1>10. CASE i > n - w
  <2>1. z + w = Pushed(id) + k BY <1>2, <1>3, <1>6, <1>10
  <2>2. CASE k = 1 /\ i = n
    <3>1. d.kind = "TcpClose" BY <1>6, <1>10, <2>2 DEF TcpClose
    <3>2. r.entry.pending = q.entry.pending BY <1>1, <1>6, <1>8, <1>10, <3>1
    <3>3. Flow(r) = Flow(q) BY <1>1, <3>2 DEF Flow, SameButUpload
    <3>4. m = z + G(i) BY <1>2, <1>3, <1>4, <1>10, <2>2
    <3> QED BY <1>4, <3>3, <3>4 DEF m
  <2>3. CASE ~(k = 1 /\ i = n)
    <3>1. d = Tcp(id, Chunk(id, Pushed(id) + k - (n - i))) BY <1>6, <1>10, <2>3
    <3>2. d.kind # "TcpClose" /\ d.chunk = Chunk(id, Pushed(id) + k - (n - i))
      BY <3>1 DEF Tcp
    <3>3. d.chunk \in Nat /\ r.entry.pending = Append(q.entry.pending, d.chunk)
      BY <1>1, <1>6, <1>8, <1>10, <3>2
    <3>4. Flow(r) = Append(Flow(q), d.chunk) BY <1>1, <3>3, FlowAppend
    <3>5. m = z + (i - 1 - (n - w)) BY <1>2, <1>3, <1>4, <1>10, <2>3
    <3>6. Pushed(id) + k - (n - i) = m + 1
      <4> DEFINE t == Pushed(id)
      <4>1. t \in Int /\ k \in Int /\ z + w = t + k BY <2>1
      <4> HIDE DEF t
      <4>2. t + k - (n - i) = m + 1 BY <1>2, <1>3, <3>5, <4>1
      <4> QED BY <4>2 DEF t
    <3>7. d.chunk = Chunk(id, Len(Flow(q)) + 1) BY <3>2, <3>6 DEF m
    <3>8. InOrder(id, Flow(r)) /\ Len(Flow(r)) = m + 1
      BY <1>2, <1>4, <3>3, <3>4, <3>7, InOrderAppend DEF m
    <3> QED BY <1>2, <1>3, <1>10, <2>3, <3>5, <3>8
  <2> QED BY <2>2, <2>3
<1> QED BY <1>3, <1>9, <1>10

(* After the drain the stream is all that was sent, in order. *)
LEMMA HandledFlow ==
    ASSUME NEW id \in Ids, conns[id] \in Conn, conns[id].entry # None, dataIn \in Seq(Item),
           NEW w \in 0..Len(dataIn), NEW k \in {0, 1}, Queued(id, w, k), Pushed(id) \in Int,
           InOrder(id, Flow(conns[id])), NEW h, h = Handling(id, conns[id], dataIn)[Len(dataIn)]
    PROVE  InOrder(id, Flow(h)) /\ Len(Flow(h)) = Pushed(id) /\ (h.entry.half_closed <=> k = 1)
<1> DEFINE c == conns[id]
           s == dataIn
           f == Handling(id, c, s)
           T == {i \in 0..Len(s) : FlowSo(id, w, k, i, f[i])}
<1>1. f[0] = c /\ \A i \in 1..Len(s) : f[i] = handle_data(id, f[i - 1], s[i]) BY HandlingDef
<1>2. \A i \in 0..Len(s) : HandledSo(id, c, s, i, f[i]) BY HandledFacts
<1>3. h = f[Len(s)] OBVIOUS
<1> HIDE DEF f
<1>4. Len(s) \in Nat /\ Len(Flow(c)) \in Nat BY FlowSeq
<1>5. FlowSo(id, w, k, 0, f[0])
  BY <1>1, <1>4 DEF FlowSo
<1>6. \A i \in 1..Len(s) : i - 1 \in T => i \in T
  <2> SUFFICES ASSUME NEW i \in 1..Len(s), FlowSo(id, w, k, i - 1, f[i - 1])
               PROVE  FlowSo(id, w, k, i, f[i])
    BY <1>4
  <2>1. SameButUpload(c, f[i - 1]) /\ f[i - 1] \in Conn
    BY <1>2, <1>4 DEF HandledSo, SameButUpload
  <2>2. s[i] \in Item BY <1>4
  <2>3. ItemSo(id, f[i - 1], s[i], f[i]) BY <1>1, <2>1, <2>2, HandleItem, Zenon
  <2> QED BY <2>1, <2>3, FlowStep, Zenon
<1>7. 0 \in T BY <1>4, <1>5
<1> HIDE DEF T
<1>8. 0..Len(s) \subseteq T BY <1>4, <1>6, <1>7, Induction
<1>9. Len(s) \in 0..Len(s) BY <1>4
<1>10. FlowSo(id, w, k, Len(s), h) /\ HandledSo(id, c, s, Len(s), h)
  <2>1. Len(s) \in T BY <1>8, <1>9
  <2>2. FlowSo(id, w, k, Len(s), f[Len(s)]) BY <2>1 DEF T
  <2> QED BY <1>2, <1>3, <1>9, <2>2
<1>11. c.entry.half_closed <=> (k = 1 /\ w = 0) BY DEF Queued
<1>12. Len(Flow(h)) = Pushed(id)
  <2>1. CASE w = 0
    <3>1. Len(Flow(c)) + (IF k = 1 THEN 1 ELSE 0) + 0 = Pushed(id) + k
      BY <1>11, <2>1 DEF Queued
    <3> QED BY <1>4, <1>10, <2>1, <3>1 DEF FlowSo
  <2>2. CASE w # 0
    <3>1. Len(Flow(c)) + 0 + w = Pushed(id) + k BY <1>11, <2>2 DEF Queued
    <3> QED BY <1>4, <1>10, <2>2, <3>1 DEF FlowSo
  <2> QED BY <2>1, <2>2
<1>13. h.entry.half_closed <=> k = 1
  <2>1. h.entry.half_closed
          <=> c.entry.half_closed \/ \E j \in 1..Len(s) : s[j].id = id /\ s[j].kind = "TcpClose"
    BY <1>10 DEF HandledSo
  <2>2. CASE k = 0
    <3>1. \A j \in 1..Len(s) : s[j].id = id => s[j].kind = "Tcp"
      <4> SUFFICES ASSUME NEW j \in 1..Len(s), s[j].id = id PROVE s[j].kind = "Tcp"
        OBVIOUS
      <4>1. PICK x : s[j] = Tcp(id, x) BY <2>2 DEF Queued
      <4> QED BY <4>1 DEF Tcp
    <3> QED BY <1>11, <2>1, <2>2, <3>1
  <2>3. CASE k = 1 /\ w = 0 BY <1>11, <2>1, <2>3
  <2>4. CASE k = 1 /\ w # 0
    <3>1. Len(s) \in 1..Len(s) /\ Len(s) > Len(s) - w BY <1>4, <2>4
    <3>2. s[Len(s)].id = id /\ s[Len(s)] = TcpClose(id) BY <2>4, <3>1 DEF Queued
    <3>3. s[Len(s)].kind = "TcpClose" BY <3>2 DEF TcpClose
    <3> QED BY <2>1, <2>4, <3>1, <3>2, <3>3
  <2> QED BY <2>2, <2>3, <2>4
<1> QED BY <1>10, <1>12, <1>13 DEF FlowSo

(* Nothing else comes of a drain, and the connection stays sound. *)
LEMMA HandledSound ==
    ASSUME NEW id \in Ids, NEW c \in Conn, Sound(c), NEW s \in Seq(Item),
           (\E j \in 1..Len(s) : s[j].id = id) => c.rx \in {"app", "dropped"},
           NEW h, h = Handling(id, c, s)[Len(s)]
    PROVE  Sound(h) /\ SameButUpload(c, h) /\ InFlight(h) = InFlight(c)
<1>1. Len(s) \in 0..Len(s) OBVIOUS
<1>2. HandledSo(id, c, s, Len(s), h) BY <1>1, HandledFacts
<1>3. SameButUpload(c, h) BY <1>2 DEF HandledSo
<1>4. InFlight(h) = InFlight(c) BY <1>3 DEF InFlight, SameButUpload
<1>5. c.entry # None => (h.entry.half_closed => h.entry.established)
  BY <1>2 DEF Sound, HandledSo, SameButUpload
<1>6. Sound(h)
  <2>1. CASE c.entry = None BY <1>3, <2>1 DEF SameButUpload
  <2>2. CASE c.entry # None
    <3>1. Receiving(c.entry, c.inbound) => Receiving(h.entry, h.inbound)
      BY <1>3, <2>2 DEF Receiving, SameButUpload
    <3> QED BY <1>3, <1>4, <1>5, <2>2, <3>1 DEF Sound, SameButUpload
  <2> QED BY <2>1, <2>2
<1> QED BY <1>3, <1>4, <1>6

-----------------------------------------------------------------------------
(* Steps that leave most of the state alone *)

(* The types, unfolded. *)
LEMMA ConnectTypes ==
    ASSUME ConnectTypeOK
    PROVE  /\ conns \in [Ids -> Conn] /\ Ids = {"gateway", "dst"} /\ None \notin Ids /\ "udp" \notin Ids
           /\ cmd \in Seq(Ids \cup {"udp"}) /\ dataIn \in Seq(Item) /\ udp \in BOOLEAN /\ alive \in BOOLEAN
           /\ Len(cmd) \in Nat /\ Len(dataIn) \in Nat /\ Len(dataIn) <= DataIn /\ DataIn \in Nat
           /\ req \in Request /\ req.up \in Nat /\ next \in Nat \ {0} /\ next <= req.up + 1
           /\ head \in Seq(Nat) /\ direct \in Seq(Nat) /\ Len(head) \in Nat /\ Len(direct) \in Nat
           /\ replies \in Seq({"ok", "refused", "error"}) /\ Len(replies) \in Nat
<1>1. req \in Request /\ next \in 1..req.up + 1 BY DEF ConnectTypeOK
<1>2. req.up \in Nat BY <1>1 DEF Request
<1> QED BY <1>1, <1>2, NetstackAssumption, NoneAssumption, SocksAssumption
        DEF ConnectTypeOK, NetTypeOK, Item

(* The upload's side of a connection is the same, or its end is known. *)
Kept(c, d) ==
    /\ d.entry = c.entry /\ d.peer.got = c.peer.got
    /\ d.peer.gotFin => c.peer.gotFin
    /\ ~d.peer.fin => ~c.peer.fin
    /\ d.rx = "app" => c.rx = "app"

(* A stream nobody touches is still one. *)
LEMMA StreamFrame ==
    ASSUME NEW id \in Ids, Stream(id), Kept(conns[id], conns'[id]), dataIn' = dataIn, head' = head,
           Pushed(id)' = Pushed(id), Over => Over'
    PROVE  Stream(id)'
<1> DEFINE c == conns[id]
           d == conns'[id]
<1>1. Flow(d) = Flow(c) /\ d.peer.got = c.peer.got BY DEF Kept, Flow
<1>2. \A p : Chunk(id, p)' = Chunk(id, p) BY DEF Chunk
<1>3. InOrder(id, Flow(c))' BY <1>1, <1>2 DEF InOrder, Stream
<1>4. Len(d.peer.got) <= Pushed(id)' BY <1>1 DEF Stream
<1>5. ASSUME d.entry # None
      PROVE  Drained(d) /\ \E w \in 0..Len(dataIn)', k \in {0, 1} : Queued(id, w, k)'
  <2>1. Drained(c) /\ \E w \in 0..Len(dataIn), k \in {0, 1} : Queued(id, w, k)
    BY <1>5 DEF Stream, Kept
  <2>2. Drained(d) BY <2>1 DEF Drained, Kept
  <2>3. PICK w \in 0..Len(dataIn), k \in {0, 1} : Queued(id, w, k) BY <2>1
  <2>4. Queued(id, w, k)'
    <3>1. d.entry = c.entry BY DEF Kept
    <3> QED BY <1>1, <1>2, <2>3, <3>1 DEF Queued
  <2> QED BY <2>2, <2>4
<1>6. d.peer.gotFin /\ ~d.peer.fin /\ d.rx = "app" =>
           Over' /\ Len(d.peer.got) = Pushed(id)'
  BY <1>1 DEF Stream, Kept
<1> QED BY <1>3, <1>4, <1>5, <1>6 DEF Stream

(* No step takes a connection back. *)
Later(c, d) ==
    /\ Blank(c) => Blank(d) /\ (c.answer \in {"wait", "gone"} => d.answer \in {"wait", "gone"})
    /\ d.answer = "none" => c.answer = "none"
    /\ d.answer = "ok" => d.rx \in {"app", "dropped"}
    /\ c.rx \in {"app", "dropped"} => d.rx \in {"app", "dropped"}

(* Then every connection is still opened once. *)
LEMMA OpenedLater ==
    ASSUME ConnectTypeOK, OpenedOnce, \A id \in Ids : Later(conns[id], conns'[id]), cmd' = cmd,
           \A i \in 1..Len(dataIn') :
              dataIn'[i].id \in Ids => conns'[dataIn'[i].id].rx \in {"app", "dropped"}
    PROVE  OpenedOnce'
BY DEF OpenedOnce, Later

(* Where the request is, when only the stack and the far ends move. *)
Further(c, d) ==
    /\ c.answer = "none" => d.answer = "none"
    /\ c.rx \in {"app", "dropped"} => d.rx \in {"app", "dropped"}
    /\ Len(c.peer.got) <= Len(d.peer.got)

(* Then the request is where it was. *)
LEMMA PlaceFurther ==
    ASSUME ConnectTypeOK, Place, UNCHANGED svars, \A id \in Ids : Further(conns[id], conns'[id]),
           conns' \in [Ids -> Conn], dataIn' = dataIn \/ dataIn' = << >>
    PROVE  Place'
<1>1. Ids = {"gateway", "dst"} BY ConnectTypes
<1>2. Further(conns["gateway"], conns'["gateway"]) /\ Further(conns["dst"], conns'["dst"])
  BY <1>1
<1>3. Len(conns["gateway"].peer.got) \in Nat /\ Len(conns'["gateway"].peer.got) \in Nat
  <2>1. conns["gateway"].peer.got \in Seq(Nat) /\ conns'["gateway"].peer.got \in Seq(Nat)
    BY <1>1, ConnectTypes, ConnFields
  <2> QED BY <2>1
<1>4. via # None => via \in Ids /\ Further(conns[via], conns'[via]) BY DEF ConnectTypeOK
<1>5. \A x : (\A i \in 1..Len(dataIn) : dataIn[i].id # x) => \A i \in 1..Len(dataIn') : dataIn'[i].id # x
  <2>1. 1..Len(<< >>) = {} OBVIOUS
  <2> QED BY <2>1
<1>6. via = "gateway" => Len(conns'["gateway"].peer.got) > 0 BY <1>2, <1>3 DEF Place, Further
<1> QED BY <1>2, <1>4, <1>5, <1>6 DEF Place, svars, Further

LEMMA FollowsSame ==
    ASSUME UNCHANGED <<via, pc>>, NEW id
    PROVE  Follows(id)' = Follows(id)
BY DEF Follows

LEMMA PushedSame ==
    ASSUME UNCHANGED <<pc, next, head>>, NEW id
    PROVE  Pushed(id)' = Pushed(id)
BY DEF Pushed

FarEnd == [syn: BOOLEAN, up: BOOLEAN, left: Nat, fin: BOOLEAN, gotFin: BOOLEAN,
           acked: BOOLEAN, got: Seq(Nat)]

LEMMA NoneSound ==
    ASSUME NEW c, c.entry = None
    PROVE  Sound(c)
BY DEF Sound

(* Only one connection changes, and its upload goes on as it was. *)
LEMMA OneConnection ==
    ASSUME ConnectInv, UNCHANGED svars, UNCHANGED <<cmd, dataIn, udp, alive>>,
           NEW id \in Ids, NEW d \in Conn, conns' = [conns EXCEPT ![id] = d],
           Sound(d), Kept(conns[id], d), Later(conns[id], d), Further(conns[id], d)
    PROVE  ConnectInv'
<1>0. ConnectTypeOK /\ OpenedOnce /\ Place BY DEF ConnectInv
<1>1. conns \in [Ids -> Conn] BY <1>0, ConnectTypes
<1>2. conns' \in [Ids -> Conn] /\ conns'[id] = d /\ \A j \in Ids : j # id => conns'[j] = conns[j]
  BY <1>1
<1>3. \A j \in Ids : Sound(conns'[j]) BY <1>2 DEF ConnectInv
<1>4. ConnectTypeOK'
  BY <1>0, <1>2, <1>3 DEF ConnectTypeOK, NetTypeOK, svars, Sound
<1>5. \A j \in Ids : Kept(conns[j], conns'[j])
  BY <1>2 DEF Kept
<1>6. \A j \in Ids : Later(conns[j], conns'[j])
  <2> SUFFICES ASSUME NEW j \in Ids, j # id PROVE Later(conns[j], conns'[j]) BY <1>2
  <2>1. conns[j].answer = "ok" => conns[j].rx \in {"app", "dropped"} BY <1>0 DEF OpenedOnce
  <2> QED BY <1>2, <2>1 DEF Later
<1>7. \A j \in Ids : Further(conns[j], conns'[j])
  <2> SUFFICES ASSUME NEW j \in Ids, j # id PROVE Further(conns[j], conns'[j]) BY <1>2
  <2>1. conns[j].peer.got \in Seq(Nat) BY <1>1, ConnFields
  <2> QED BY <1>2, <2>1 DEF Further
<1>8. OpenedOnce'
  <2>1. \A i \in 1..Len(dataIn') :
              dataIn'[i].id \in Ids => conns'[dataIn'[i].id].rx \in {"app", "dropped"}
    BY <1>0, <1>6 DEF OpenedOnce, Later
  <2> QED BY <1>0, <1>6, <2>1, OpenedLater
<1>9. Place' BY <1>0, <1>2, <1>7, PlaceFurther
<1>10. \A j \in Ids : Follows(j)' => Stream(j)'
  <2> SUFFICES ASSUME NEW j \in Ids, Follows(j)' PROVE Stream(j)' OBVIOUS
  <2>1. UNCHANGED <<via, pc, next, head, up, req, client>> BY DEF svars
  <2>2. Follows(j) BY <2>1, FollowsSame
  <2>3. Stream(j) BY <2>2 DEF ConnectInv
  <2>4. Pushed(j)' = Pushed(j) BY <2>1, PushedSame
  <2> QED BY <1>5, <2>1, <2>3, <2>4, StreamFrame DEF Over
<1>11. \A j \in Ids : ~alive' => conns'[j].entry = None BY <1>5 DEF Kept, ConnectInv
<1> QED BY <1>3, <1>4, <1>8, <1>9, <1>10, <1>11 DEF ConnectInv

-----------------------------------------------------------------------------
(* The far ends *)

(* One segment more under way. *)
LEMMA DataAppend ==
    ASSUME NEW s \in Seq(Segments), NEW x \in Segments
    PROVE  LET t == Append(s, x) IN
           /\ t \in Seq(Segments) /\ Len(t) = Len(s) + 1 /\ t[Len(t)] = x
           /\ \A i \in 1..Len(s) : t[i] = s[i]
           /\ Data(t, Len(t)) = Data(s, Len(s)) + (IF x = "data" THEN 1 ELSE 0)
<1> DEFINE t == Append(s, x)
           n == Len(s)
<1>1. t \in Seq(Segments) /\ Len(t) = n + 1 /\ t[n + 1] = x /\ n \in Nat OBVIOUS
<1>2. \A i \in 1..n : t[i] = s[i] OBVIOUS
<1> HIDE DEF t
<1>3. {j \in 1..n : t[j] = "data"} = {j \in 1..n : s[j] = "data"} BY <1>2
<1>4. Data(t, n) = Data(s, n) BY <1>3 DEF Data
<1>5. Data(t, n + 1) = Data(t, n + 1 - 1) + (IF t[n + 1] = "data" THEN 1 ELSE 0)
  <2>1. n + 1 \in 1..Len(t) BY <1>1
  <2> QED BY <1>1, <2>1, DataCount
<1>6. n + 1 - 1 = n BY <1>1
<1> QED BY <1>1, <1>2, <1>4, <1>5, <1>6 DEF t

(* A segment the far end may send. *)
Sayable(c, p, seg) ==
    /\ p.got = c.peer.got /\ p.gotFin = c.peer.gotFin
    /\ c.peer.fin \/ seg = "fin" => p.fin
    /\ p.up /\ ~p.fin =>
           \/ c.peer.up /\ ~c.peer.fin /\ seg \notin {"fin", "rst"}
           \/ seg = "synack" /\ c.inbound = << >> /\ c.entry.state = "SynSent"
    /\ seg = "data" => c.peer.up /\ ~c.peer.fin /\ c.entry.rxbuf + InFlight(c) < RxBuf

Said(c, p, d) ==
    /\ d \in Conn /\ Sound(d)
    /\ d.entry = c.entry /\ d.rx = c.rx /\ d.answer = c.answer /\ d.peer = p

(* What a far end may say keeps the connection sound. *)
LEMMA PeerSays ==
    ASSUME NEW c \in Conn, Sound(c), c.entry # None, NEW seg \in Segments, NEW p \in FarEnd,
           Sayable(c, p, seg), NEW d, d = [c EXCEPT !.inbound = Append(c.inbound, seg), !.peer = p]
    PROVE  Said(c, p, d)
<1> DEFINE s == c.inbound
           t == Append(s, seg)
           e == c.entry
<1>0. s \in Seq(Segments) /\ e \in Entry /\ e.rxbuf \in Nat /\ RxBuf \in Nat /\ Len(s) \in Nat
         /\ InFlight(c) \in Nat /\ InFlight(c) = Data(s, Len(s))
  BY ConnFields, EntryFields, NetstackAssumption, InFlightData
<1>1. /\ t \in Seq(Segments) /\ Len(t) = Len(s) + 1 /\ t[Len(t)] = seg
      /\ \A i \in 1..Len(s) : t[i] = s[i]
      /\ Data(t, Len(t)) = Data(s, Len(s)) + (IF seg = "data" THEN 1 ELSE 0)
  BY <1>0, DataAppend
<1> HIDE DEF t
<1>2. d = [c EXCEPT !.inbound = t, !.peer = p] BY DEF t
<1>3. d \in Conn BY <1>1, <1>2, Zenon DEF Conn, FarEnd
<1>4. /\ d.entry = e /\ d.rx = c.rx /\ d.answer = c.answer /\ d.peer = p /\ d.inbound = t
  BY <1>2 DEF Conn
<1>5. InFlight(d) = InFlight(c) + (IF seg = "data" THEN 1 ELSE 0)
  BY <1>0, <1>1, <1>3, <1>4, InFlightData
<1>6. Receiving(e, s) => Receiving(e, t)
  <2>1. s # << >> => 1 \in 1..Len(s) /\ t # << >> /\ t[1] = s[1] BY <1>0, <1>1
  <2> QED BY <2>1 DEF Receiving
<1>7. e.rxbuf + InFlight(d) <= RxBuf
  <2>1. e.rxbuf + InFlight(c) <= RxBuf BY DEF Sound
  <2> QED BY <1>0, <1>5, <2>1 DEF Sayable
<1>8. \A i \in 1..Len(t) : t[i] = "fin" => p.fin
  <2> SUFFICES ASSUME NEW i \in 1..Len(t), t[i] = "fin" PROVE p.fin OBVIOUS
  <2>1. CASE i = Len(t) BY <1>1, <2>1 DEF Sayable
  <2>2. CASE i \in 1..Len(s)
    <3>1. s[i] = "fin" BY <1>1, <2>2
    <3>2. c.peer.fin BY <2>2, <3>1 DEF Sound
    <3> QED BY <3>2 DEF Sayable
  <2> QED BY <1>0, <1>1, <2>1, <2>2
<1>9. ASSUME c.peer.up, ~c.peer.fin, seg \notin {"fin", "rst"}
      PROVE  Receiving(e, t) /\ \A i \in 1..Len(t) : ~Ends(t, i)
  <2>1. Receiving(e, s) /\ \A i \in 1..Len(s) : ~Ends(s, i) BY <1>9 DEF Sound
  <2>2. \A i \in 1..Len(t) : i = Len(t) \/ i \in 1..Len(s) BY <1>0, <1>1
  <2> QED BY <1>1, <1>6, <1>9, <2>1, <2>2 DEF Ends
<1>10. ASSUME p.up, ~p.fin
       PROVE  Receiving(e, t) /\ \A i \in 1..Len(t) : ~Ends(t, i)
  <2>1. CASE seg = "synack" /\ s = << >> /\ e.state = "SynSent"
    <3>1. Len(s) = 0 BY <2>1
    <3>2. Len(t) = 1 BY <1>1, <3>1
    <3>3. t[1] = "synack" /\ t # << >>
      <4>1. t[Len(t)] = seg BY <1>1
      <4>2. t # << >> BY <3>2
      <4> QED BY <2>1, <3>2, <4>1, <4>2
    <3> QED BY <2>1, <3>2, <3>3 DEF Receiving, Ends
  <2> QED BY <1>9, <1>10, <2>1 DEF Sayable
<1>11. ASSUME NEW i \in 1..Len(t), t[i] = "data"
       PROVE  Receiving(e, t) /\ \A j \in 1..i : ~Ends(t, j)
  <2>1. CASE i = Len(t)
    <3>1. seg = "data" BY <1>1, <1>11, <2>1
    <3> QED BY <1>9, <2>1, <3>1 DEF Sayable
  <2>2. CASE i \in 1..Len(s)
    <3>1. s[i] = "data" BY <1>1, <1>11, <2>2
    <3>2. Receiving(e, s) /\ \A j \in 1..i : ~Ends(s, j) BY <2>2, <3>1 DEF Sound
    <3>3. \A j \in 1..i : j \in 1..Len(s) BY <1>0, <2>2
    <3> QED BY <1>1, <1>6, <3>2, <3>3 DEF Ends
  <2> QED BY <1>0, <1>1, <2>1, <2>2
<1>12. /\ Len(e.txbuf) <= TxBuf
       /\ c.rx # "none" /\ (e.established <=> c.rx \in {"app", "dropped"})
       /\ e.half_closed => e.established
       /\ e.established => e.state # "SynSent"
       /\ e.state \in {"FinWait1", "FinWait2"} \/ (p.gotFin /\ ~p.fin) => e.established
       /\ e.state \in {"CloseWait", "Closing", "TimeWait", "LastAck"} => p.fin
  BY DEF Sound, Sayable
<1>13. Sound(d)
  BY <1>4, <1>7, <1>8, <1>10, <1>11, <1>12 DEF Sound
<1> QED BY <1>3, <1>4, <1>13 DEF Said

(* The far end's steps touch no entry of the stack. *)
EntriesKept == \A j \in Ids : conns'[j].entry = conns[j].entry

LEMMA PeerSaysInv ==
    ASSUME ConnectInv, UNCHANGED svars, UNCHANGED <<cmd, dataIn, udp, alive>>,
           NEW id \in Ids, conns[id].entry # None, NEW seg \in Segments, NEW p \in FarEnd,
           Sayable(conns[id], p, seg), NEW d,
           d = [conns[id] EXCEPT !.inbound = Append(conns[id].inbound, seg), !.peer = p],
           conns' = [conns EXCEPT ![id] = d]
    PROVE  ConnectInv' /\ EntriesKept
<1> DEFINE c == conns[id]
<1>1. c \in Conn /\ Sound(c) BY ConnectTypes DEF ConnectInv
<1>2. /\ d \in Conn /\ Sound(d)
      /\ d.entry = c.entry /\ d.rx = c.rx /\ d.answer = c.answer /\ d.peer = p
  <2> HIDE DEF c
  <2>1. c.entry # None /\ Sayable(c, p, seg) /\ d = [c EXCEPT !.inbound = Append(c.inbound, seg), !.peer = p]
    BY DEF c
  <2>2. Said(c, p, d) BY <1>1, <2>1, PeerSays, Zenon
  <2> QED BY <2>2 DEF Said
<1>3. Kept(c, d) BY <1>2 DEF Kept, Sayable
<1>4. Later(c, d)
  <2>1. c.answer = "ok" => c.rx \in {"app", "dropped"} BY DEF ConnectInv, OpenedOnce
  <2> QED BY <1>2, <2>1 DEF Later, Blank
<1>5. Further(c, d)
  <2>1. c.peer.got \in Seq(Nat) BY <1>1, ConnFields
  <2> QED BY <1>2, <2>1 DEF Further, Sayable
<1>6. EntriesKept
  <2>1. conns \in [Ids -> Conn] BY ConnectTypes DEF ConnectInv
  <2>2. d.entry = conns[id].entry BY <1>2
  <2> QED BY <2>1, <2>2 DEF EntriesKept
<1>7. ConnectInv' BY <1>2, <1>3, <1>4, <1>5, OneConnection
<1> QED BY <1>6, <1>7

(* Every step of a far end. *)
LEMMA PeerInv ==
    ASSUME ConnectInv, NEW id \in Ids, Peer(id)
    PROVE  ConnectInv' /\ EntriesKept
<1> DEFINE c == conns[id]
<1>0. c \in Conn /\ Sound(c) /\ conns \in [Ids -> Conn] BY ConnectTypes DEF ConnectInv
<1>1. c.peer \in FarEnd BY <1>0 DEF Conn, FarEnd
<1>2. UNCHANGED svars BY DEF Peer
<1>3. ASSUME NEW seg \in Segments, NEW p \in FarEnd, c.entry # None, Sayable(c, p, seg),
             UNCHANGED <<cmd, dataIn, udp, alive>>,
             conns' = [conns EXCEPT ![id] = [c EXCEPT !.inbound = Append(c.inbound, seg), !.peer = p]]
      PROVE  ConnectInv' /\ EntriesKept
  BY <1>2, <1>3, PeerSaysInv
<1>4. CASE PeerAccepts(id)
  <2>1. c.entry # None /\ c.entry.state = "SynSent" /\ c.inbound = << >>
           /\ UNCHANGED <<cmd, dataIn, udp, alive>>
    BY <1>4 DEF PeerAccepts
  <2>2. CASE conns' = [conns EXCEPT ![id].inbound = Append(@, "synack"), ![id].peer.up = TRUE]
    <3> DEFINE p == [c.peer EXCEPT !.up = TRUE]
    <3>1. p \in FarEnd BY <1>1, Zenon DEF FarEnd
    <3>2. p.got = c.peer.got /\ p.gotFin = c.peer.gotFin /\ p.fin = c.peer.fin BY <1>1 DEF FarEnd
    <3>3. conns' = [conns EXCEPT ![id] = [c EXCEPT !.inbound = Append(c.inbound, "synack"), !.peer = p]]
      BY <1>0, <2>2 DEF Conn
    <3> HIDE DEF p
    <3>4. Sayable(c, p, "synack") BY <2>1, <3>2 DEF Sayable
    <3> QED BY <1>3, <2>1, <3>1, <3>3, <3>4 DEF Segments
  <2>3. CASE Say(id, "rst")
    <3>1. conns' = [conns EXCEPT ![id] = [c EXCEPT !.inbound = Append(c.inbound, "rst"), !.peer = c.peer]]
      BY <1>0, <2>3 DEF Say, Conn
    <3>2. ~(c.peer.up /\ ~c.peer.fin) BY <1>0, <2>1 DEF Sound, Receiving
    <3>3. Sayable(c, c.peer, "rst") BY <3>2 DEF Sayable
    <3> QED BY <1>1, <1>3, <2>1, <3>1, <3>3 DEF Segments
  <2> QED BY <1>4, <2>2, <2>3 DEF PeerAccepts
<1>5. CASE PeerSends(id)
  <2> DEFINE p == [c.peer EXCEPT !.left = c.peer.left - 1]
  <2>1. c.entry # None /\ c.peer.up /\ ~c.peer.fin /\ c.entry.rxbuf + InFlight(c) < RxBuf
           /\ c.peer.left > 0 /\ UNCHANGED <<cmd, dataIn, udp, alive>>
    BY <1>5 DEF PeerSends
  <2>2. c.peer.left - 1 \in Nat BY <1>1, <2>1 DEF FarEnd
  <2>3. p \in FarEnd BY <1>1, <2>2, Zenon DEF FarEnd
  <2>4. p.got = c.peer.got /\ p.gotFin = c.peer.gotFin /\ p.fin = c.peer.fin /\ p.up = c.peer.up
    BY <1>1 DEF FarEnd
  <2>5. conns' = [conns EXCEPT ![id] = [c EXCEPT !.inbound = Append(c.inbound, "data"), !.peer = p]]
    BY <1>0, <1>5 DEF PeerSends, Conn
  <2> HIDE DEF p
  <2>6. Sayable(c, p, "data") BY <2>1, <2>4 DEF Sayable
  <2> QED BY <1>3, <2>1, <2>3, <2>5, <2>6 DEF Segments
<1>6. CASE PeerFinishes(id)
  <2> DEFINE p == [c.peer EXCEPT !.fin = TRUE]
  <2>1. c.entry # None /\ UNCHANGED <<cmd, dataIn, udp, alive>> BY <1>6 DEF PeerFinishes
  <2>2. p \in FarEnd BY <1>1, Zenon DEF FarEnd
  <2>3. p.got = c.peer.got /\ p.gotFin = c.peer.gotFin /\ p.fin = TRUE BY <1>1 DEF FarEnd
  <2>4. conns' = [conns EXCEPT ![id] = [c EXCEPT !.inbound = Append(c.inbound, "fin"), !.peer = p]]
    BY <1>0, <1>6 DEF PeerFinishes, Conn
  <2> HIDE DEF p
  <2>5. Sayable(c, p, "fin") BY <2>3 DEF Sayable
  <2> QED BY <1>3, <2>1, <2>2, <2>4, <2>5 DEF Segments
<1>7. CASE PeerAcknowledges(id)
  <2> DEFINE p == [c.peer EXCEPT !.acked = TRUE]
  <2>1. c.entry # None /\ UNCHANGED <<cmd, dataIn, udp, alive>> BY <1>7 DEF PeerAcknowledges
  <2>2. p \in FarEnd BY <1>1, Zenon DEF FarEnd
  <2>3. p.got = c.peer.got /\ p.gotFin = c.peer.gotFin /\ p.fin = c.peer.fin /\ p.up = c.peer.up
    BY <1>1 DEF FarEnd
  <2>4. conns' = [conns EXCEPT ![id] = [c EXCEPT !.inbound = Append(c.inbound, "ackfin"), !.peer = p]]
    BY <1>0, <1>7 DEF PeerAcknowledges, Conn
  <2> HIDE DEF p
  <2>5. Sayable(c, p, "ackfin") BY <2>3 DEF Sayable
  <2> QED BY <1>3, <2>1, <2>2, <2>4, <2>5 DEF Segments
<1>8. CASE PeerResets(id)
  <2> DEFINE p == [c.peer EXCEPT !.up = FALSE]
  <2>1. c.entry # None /\ UNCHANGED <<cmd, dataIn, udp, alive>> BY <1>8 DEF PeerResets
  <2>2. p \in FarEnd BY <1>1, Zenon DEF FarEnd
  <2>3. p.got = c.peer.got /\ p.gotFin = c.peer.gotFin /\ p.fin = c.peer.fin /\ p.up = FALSE
    BY <1>1 DEF FarEnd
  <2>4. conns' = [conns EXCEPT ![id] = [c EXCEPT !.inbound = Append(c.inbound, "rst"), !.peer = p]]
    BY <1>0, <1>8 DEF PeerResets, Conn
  <2> HIDE DEF p
  <2>5. Sayable(c, p, "rst") BY <2>3 DEF Sayable
  <2> QED BY <1>3, <2>1, <2>2, <2>4, <2>5 DEF Segments
<1> QED BY <1>4, <1>5, <1>6, <1>7, <1>8 DEF Peer

-----------------------------------------------------------------------------
(* The loop *)

LEMMA GotLen ==
    ASSUME NEW c \in Conn
    PROVE  Len(c.peer.got) \in Nat
<1>1. c.peer.got \in Seq(Nat) BY ConnFields
<1> QED BY <1>1

LEMMA PushedInt ==
    ASSUME ConnectTypeOK, NEW id
    PROVE  Pushed(id) \in Int
BY ConnectTypes DEF Pushed

(* A connection just before it is polled: what is left of the stream once   *)
(* data_in is out of sight.                                                 *)
Mid(id, h) ==
    /\ InOrder(id, Flow(h)) /\ Len(h.peer.got) <= Pushed(id)
    /\ h.entry # None =>
           /\ Drained(h) /\ Len(Flow(h)) <= Pushed(id)
           /\ h.entry.half_closed => Over /\ Len(Flow(h)) = Pushed(id)
    /\ h.peer.gotFin /\ ~h.peer.fin /\ h.rx = "app" =>
           Over /\ Len(h.peer.got) = Pushed(id)

(* Serving it restores the stream. *)
LEMMA MidServed ==
    ASSUME NEW id \in Ids, ConnectTypeOK, NEW h \in Conn, Mid(id, h), Served(h, conns'[id]),
           UNCHANGED svars,
           conns'[id].entry # None => \E w \in 0..Len(dataIn'), k \in {0, 1} : Queued(id, w, k)'
    PROVE  Stream(id)'
<1> DEFINE d == conns'[id]
           n == Pushed(id)
<1>0. Pushed(id)' = n /\ n \in Int /\ Over' = Over
  <2>1. UNCHANGED <<pc, next, head, up, req, client>> BY DEF svars
  <2> QED BY <2>1, PushedSame, PushedInt DEF Over
<1>1. \A p : Chunk(id, p)' = Chunk(id, p) BY DEF Chunk, svars
<1>2. d \in Conn BY DEF Served
<1>3. /\ Flow(h) \in Seq(Nat) /\ Len(Flow(h)) \in Nat
      /\ d.peer.got \in Seq(Nat) /\ Len(d.peer.got) \in Nat
      /\ h.peer.got \in Seq(Nat) /\ Len(h.peer.got) \in Nat
  <2>1. Flow(h) \in Seq(Nat) BY FlowSeq
  <2>2. d.peer.got \in Seq(Nat) /\ h.peer.got \in Seq(Nat) BY <1>2, ConnFields
  <2> QED BY <2>1, <2>2
<1>4. \A i \in 1..Len(Flow(h)) : Flow(h)[i] = Chunk(id, i) BY DEF Mid, InOrder
<1>5. \A i \in 1..Len(d.peer.got) : d.peer.got[i] = Chunk(id, i)
  <2> DEFINE g == d.peer.got q == Flow(h) C(i) == Chunk(id, i)
  <2>1. Len(g) \in Nat /\ Len(q) \in Nat BY <1>3
  <2>2. \A i \in 1..Len(q) : q[i] = C(i) BY <1>4
  <2>3. Len(g) <= Len(q) /\ \A i \in 1..Len(g) : g[i] = q[i] BY DEF Served
  <2> HIDE DEF g, q, C
  <2>4. \A i \in 1..Len(g) : g[i] = C(i) BY <2>1, <2>2, <2>3
  <2> QED BY <2>4 DEF g, C
<1>6. \A i \in 1..Len(Flow(d)) : Flow(d)[i] = Chunk(id, i)
  <2>1. CASE d.entry = None
    <3>1. Flow(d) = d.peer.got BY <2>1 DEF Flow
    <3> QED BY <1>5, <3>1
  <2>2. CASE d.entry # None
    <3>1. Flow(d) = Flow(h) BY <2>2 DEF Served
    <3> QED BY <1>4, <3>1
  <2> QED BY <2>1, <2>2
<1>7. InOrder(id, Flow(conns[id]))' BY <1>1, <1>6 DEF InOrder
<1>8. h.entry = None => d.peer = h.peer /\ d.rx = h.rx
  <2>1. h.entry = None => d = [h EXCEPT !.inbound = << >>] BY DEF Served
  <2> QED BY <2>1 DEF Conn
<1>9. Len(d.peer.got) <= n
  <2>1. CASE h.entry = None BY <1>8, <2>1 DEF Mid
  <2>2. CASE h.entry # None
    <3>1. Len(Flow(h)) <= n /\ Len(d.peer.got) <= Len(Flow(h)) BY <2>2 DEF Mid, Served
    <3> QED BY <1>0, <1>3, <3>1
  <2> QED BY <2>1, <2>2
<1>10. d.entry # None => Drained(d) BY DEF Served, Mid
<1>11. ASSUME d.peer.gotFin, ~d.peer.fin, d.rx = "app"
       PROVE  Over /\ Len(d.peer.got) = n
  <2>1. CASE h.entry = None BY <1>8, <1>11, <2>1 DEF Mid
  <2>2. CASE h.entry # None
    <3>1. Drained(h) BY <2>2 DEF Mid
    <3>2. /\ h.rx = "app" /\ ~h.peer.fin
          /\ h.peer.gotFin \/ (h.entry.half_closed /\ Len(d.peer.got) = Len(Flow(h)))
      BY <1>11, <2>2, <3>1 DEF Served
    <3>3. CASE h.peer.gotFin
      <4>1. Over /\ Len(h.peer.got) = n BY <3>2, <3>3 DEF Mid
      <4>2. Len(h.peer.got) <= Len(d.peer.got) BY DEF Served
      <4> QED BY <1>0, <1>3, <1>9, <4>1, <4>2
    <3>4. CASE h.entry.half_closed /\ Len(d.peer.got) = Len(Flow(h))
      BY <2>2, <3>4 DEF Mid
    <3> QED BY <3>2, <3>3, <3>4
  <2> QED BY <2>1, <2>2
<1> QED BY <1>0, <1>7, <1>9, <1>10, <1>11 DEF Stream

(* The stream, between two iterations. *)
LEMMA StreamMid ==
    ASSUME ConnectTypeOK, NEW id \in Ids, Stream(id)
    PROVE  Mid(id, conns[id])
<1> DEFINE c == conns[id]
<1>0. c \in Conn /\ Pushed(id) \in Int BY ConnectTypes, PushedInt
<1>1. Len(Flow(c)) \in Nat
  <2>1. Flow(c) \in Seq(Nat) BY <1>0, FlowSeq
  <2> QED BY <2>1
<1>2. ASSUME c.entry # None
      PROVE  /\ Drained(c) /\ Len(Flow(c)) <= Pushed(id)
             /\ c.entry.half_closed => Over /\ Len(Flow(c)) = Pushed(id)
  <2>1. PICK w \in 0..Len(dataIn), k \in {0, 1} : Queued(id, w, k) BY <1>2 DEF Stream
  <2>2. /\ Len(Flow(c)) + (IF c.entry.half_closed THEN 1 ELSE 0) + w = Pushed(id) + k
        /\ c.entry.half_closed <=> (k = 1 /\ w = 0)
        /\ k = 1 => Over
    BY <2>1 DEF Queued
  <2>3. w \in Nat BY ConnectTypes
  <2>4. Len(Flow(c)) <= Pushed(id) BY <1>0, <1>1, <2>2, <2>3
  <2>5. c.entry.half_closed => Len(Flow(c)) = Pushed(id) BY <1>0, <1>1, <2>2, <2>3
  <2> QED BY <1>2, <2>2, <2>4, <2>5 DEF Stream
<1> QED BY <1>2 DEF Mid, Stream

(* No iteration takes a connection back. *)
LEMMA ServedLater ==
    ASSUME NEW h \in Conn, NEW d, Served(h, d), h.answer = "ok" => h.rx \in {"app", "dropped"}
    PROVE  Later(h, d) /\ Further(h, d)
<1>1. h.entry = None => d = [h EXCEPT !.inbound = << >>] BY DEF Served
<1>2. h.entry = None => /\ d.peer = h.peer /\ d.rx = h.rx /\ d.answer = h.answer
                        /\ d.entry = None /\ d.inbound = << >>
  BY <1>1 DEF Conn
<1>3. Blank(h) => Blank(d) /\ d.answer = h.answer BY <1>2 DEF Blank
<1> QED BY <1>3 DEF Later, Further, Served

(* The invariant after an iteration from cs. *)
LEMMA TickInv ==
    ASSUME ConnectInv, UNCHANGED svars, NEW cs \in [Ids -> Conn],
           \A id \in Ids : Sound(cs[id]),
           \A id \in Ids : Further(conns[id], cs[id]),
           NEW carried \in BOOLEAN, NEW expired \in BOOLEAN, Iterate(cs, carried, expired),
           cmd' \in Seq(Ids \cup {"udp"}), dataIn' = dataIn \/ dataIn' = << >>,
           udp' \in BOOLEAN, alive' = TRUE,
           (\A id \in Ids : Served(cs[id], conns'[id])) => OpenedOnce',
           \A id \in Ids : Follows(id) => Mid(id, cs[id]),
           \A id \in Ids : Follows(id) /\ Served(cs[id], conns'[id]) /\ conns'[id].entry # None =>
               \E w \in 0..Len(dataIn'), k \in {0, 1} : Queued(id, w, k)'
    PROVE  ConnectInv'
<1>0. ConnectTypeOK /\ OpenedOnce /\ Place BY DEF ConnectInv
<1>1. conns' \in [Ids -> Conn] /\ \A id \in Ids : Served(cs[id], conns'[id])
  BY IterateServes
<1>2. \A id \in Ids : Sound(conns'[id]) BY <1>1 DEF Served
<1>3. ConnectTypeOK'
  <2>1. dataIn' \in Seq(Item) /\ Len(dataIn') <= DataIn
    <3>1. << >> \in Seq(Item) /\ Len(<< >>) = 0 OBVIOUS
    <3>2. dataIn \in Seq(Item) /\ Len(dataIn) <= DataIn /\ DataIn \in Nat BY <1>0, ConnectTypes
    <3>3. CASE dataIn' = dataIn BY <3>2, <3>3
    <3>4. CASE dataIn' = << >> BY <3>1, <3>2, <3>4
    <3> QED BY <3>3, <3>4
  <2>2. NetTypeOK' BY <1>1, <1>2, <2>1 DEF NetTypeOK, Sound, Item
  <2> QED BY <1>0, <2>1, <2>2 DEF ConnectTypeOK, svars
<1>4. OpenedOnce' BY <1>1
<1>5. Place'
  <2>1. \A id \in Ids : Further(conns[id], conns'[id])
    <3> SUFFICES ASSUME NEW id \in Ids PROVE Further(conns[id], conns'[id]) OBVIOUS
    <3>1. Further(conns[id], cs[id]) /\ Served(cs[id], conns'[id]) BY <1>1
    <3>2. conns[id] \in Conn /\ cs[id] \in Conn /\ conns'[id] \in Conn
      BY <1>0, <1>1, ConnectTypes
    <3>3. Len(conns[id].peer.got) <= Len(conns'[id].peer.got)
      <4> DEFINE a == Len(conns[id].peer.got)
                 b == Len(cs[id].peer.got)
                 x == Len(conns'[id].peer.got)
      <4>1. a \in Nat /\ b \in Nat /\ x \in Nat BY <3>2, GotLen
      <4>2. a <= b /\ b <= x BY <3>1 DEF Further, Served
      <4> HIDE DEF a, b, x
      <4>3. a <= x BY <4>1, <4>2
      <4> QED BY <4>3 DEF a, x
    <3> QED BY <3>1, <3>3 DEF Further, Served
  <2> QED BY <1>0, <1>1, <2>1, PlaceFurther
<1>6. \A id \in Ids : Follows(id)' => Stream(id)'
  <2> SUFFICES ASSUME NEW id \in Ids, Follows(id)' PROVE Stream(id)' OBVIOUS
  <2>1. Follows(id) BY FollowsSame DEF svars
  <2>2. Mid(id, cs[id]) /\ Served(cs[id], conns'[id]) /\ cs[id] \in Conn BY <1>1, <2>1
  <2>3. conns'[id].entry # None => \E w \in 0..Len(dataIn'), k \in {0, 1} : Queued(id, w, k)'
    BY <2>1, <2>2
  <2> QED BY <1>0, <2>2, <2>3, MidServed
<1> QED BY <1>2, <1>3, <1>4, <1>5, <1>6 DEF ConnectInv

(* Nothing but the packets, or the timer. *)
LEMMA TickPlain ==
    ASSUME ConnectInv, UNCHANGED svars, NEW carried \in BOOLEAN, NEW expired \in BOOLEAN,
           Iterate(conns, carried, expired), alive' = TRUE, UNCHANGED <<cmd, dataIn, udp>>
    PROVE  ConnectInv'
<1>0. ConnectTypeOK /\ OpenedOnce /\ Place /\ \A id \in Ids : Sound(conns[id]) BY DEF ConnectInv
<1>1. /\ conns \in [Ids -> Conn] /\ cmd \in Seq(Ids \cup {"udp"}) /\ udp \in BOOLEAN
  BY <1>0, ConnectTypes
<1>2. \A id \in Ids : Further(conns[id], conns[id])
  <2>1. \A id \in Ids : conns[id].peer.got \in Seq(Nat) BY <1>1, ConnFields
  <2> QED BY <2>1 DEF Further
<1>3. ASSUME \A id \in Ids : Served(conns[id], conns'[id]) PROVE OpenedOnce'
  <2>1. \A id \in Ids : Later(conns[id], conns'[id])
    BY <1>0, <1>1, <1>3, ServedLater DEF OpenedOnce
  <2>2. \A i \in 1..Len(dataIn') :
              dataIn'[i].id \in Ids => conns'[dataIn'[i].id].rx \in {"app", "dropped"}
    BY <1>0, <2>1 DEF OpenedOnce, Later
  <2> QED BY <1>0, <2>1, <2>2, OpenedLater
<1>4. \A id \in Ids : Follows(id) => Mid(id, conns[id]) BY <1>0, StreamMid DEF ConnectInv
<1>5. ASSUME NEW id \in Ids, Follows(id), Served(conns[id], conns'[id]), conns'[id].entry # None
      PROVE  \E w \in 0..Len(dataIn'), k \in {0, 1} : Queued(id, w, k)'
  <2>1. /\ conns[id].entry # None /\ Flow(conns'[id]) = Flow(conns[id])
        /\ conns'[id].entry.half_closed = conns[id].entry.half_closed
    BY <1>5 DEF Served
  <2>2. PICK w \in 0..Len(dataIn), k \in {0, 1} : Queued(id, w, k)
    BY <1>5, <2>1 DEF ConnectInv, Stream
  <2>3. Pushed(id)' = Pushed(id) /\ \A p : Chunk(id, p)' = Chunk(id, p)
    BY PushedSame DEF svars, Chunk
  <2>4. Queued(id, w, k)' BY <2>1, <2>2, <2>3 DEF Queued, svars, Over
  <2> QED BY <2>4
<1> QED BY <1>0, <1>1, <1>2, <1>3, <1>4, <1>5, TickInv

(* The drain of data_in, and an iteration. *)
LEMMA TickDrains ==
    ASSUME ConnectInv, UNCHANGED svars, NEW carried \in BOOLEAN, NEW expired \in BOOLEAN,
           Iterate(Handled(conns), carried, expired), cmd' = cmd, alive' = TRUE,
           dataIn' = << >>, udp' \in BOOLEAN
    PROVE  ConnectInv'
<1> DEFINE cs == Handled(conns)
<1>0. ConnectTypeOK /\ OpenedOnce /\ Place BY DEF ConnectInv
<1>1. /\ conns \in [Ids -> Conn] /\ cmd \in Seq(Ids \cup {"udp"})
      /\ dataIn \in Seq(Item) /\ Len(dataIn) \in Nat
  BY <1>0, ConnectTypes
<1>2. \A id \in Ids : cs[id] = Handling(id, conns[id], dataIn)[Len(dataIn)] BY DEF Handled
<1>3. \A id \in Ids : Sound(cs[id]) /\ SameButUpload(conns[id], cs[id])
  <2> SUFFICES ASSUME NEW id \in Ids PROVE Sound(cs[id]) /\ SameButUpload(conns[id], cs[id])
    OBVIOUS
  <2>1. conns[id] \in Conn /\ Sound(conns[id]) BY <1>1 DEF ConnectInv
  <2>2. (\E j \in 1..Len(dataIn) : dataIn[j].id = id) => conns[id].rx \in {"app", "dropped"}
    BY <1>0 DEF OpenedOnce
  <2> QED BY <1>1, <1>2, <2>1, <2>2, HandledSound, Zenon
<1>4. cs \in [Ids -> Conn]
  <2>1. \A id \in Ids : cs[id] \in Conn BY <1>3 DEF SameButUpload
  <2>2. cs = [id \in Ids |-> cs[id]] BY Zenon DEF Handled
  <2> HIDE DEF cs
  <2> QED BY <2>1, <2>2, Zenon
<1>a. Iterate(cs, carried, expired) OBVIOUS
<1> HIDE DEF cs
<1>5. \A id \in Ids : Further(conns[id], cs[id])
  <2> SUFFICES ASSUME NEW id \in Ids PROVE Further(conns[id], cs[id]) OBVIOUS
  <2>1. SameButUpload(conns[id], cs[id]) BY <1>3
  <2>2. Len(conns[id].peer.got) \in Nat BY <1>1, GotLen
  <2> QED BY <2>1, <2>2 DEF Further, SameButUpload
<1>6. ASSUME \A id \in Ids : Served(cs[id], conns'[id]) PROVE OpenedOnce'
  <2>1. \A id \in Ids : Later(conns[id], conns'[id])
    <3> SUFFICES ASSUME NEW id \in Ids PROVE Later(conns[id], conns'[id]) OBVIOUS
    <3>1. SameButUpload(conns[id], cs[id]) BY <1>3
    <3>2. conns[id].answer = "ok" => conns[id].rx \in {"app", "dropped"} BY <1>0 DEF OpenedOnce
    <3>3. Later(cs[id], conns'[id])
      BY <1>4, <1>6, <3>1, <3>2, ServedLater DEF SameButUpload
    <3>4. Blank(conns[id]) => cs[id] = conns[id] BY <3>1 DEF SameButUpload, Blank
    <3> QED BY <3>1, <3>3, <3>4 DEF SameButUpload, Later
  <2>2. 1..Len(dataIn') = {} BY <1>1
  <2> QED BY <1>0, <2>1, <2>2, OpenedLater
<1>7. ASSUME NEW id \in Ids, Follows(id), conns[id].entry # None
      PROVE  /\ InOrder(id, Flow(cs[id])) /\ Len(Flow(cs[id])) = Pushed(id)
             /\ cs[id].entry.half_closed => Over
             /\ Drained(cs[id])
  <2>0. Stream(id) /\ conns[id] \in Conn /\ Pushed(id) \in Int
    BY <1>0, <1>1, <1>7, PushedInt DEF ConnectInv
  <2>1. PICK w \in 0..Len(dataIn), k \in {0, 1} : Queued(id, w, k) BY <1>7, <2>0 DEF Stream
  <2>2. InOrder(id, Flow(conns[id])) /\ Drained(conns[id]) BY <1>7, <2>0 DEF Stream
  <2>3. /\ InOrder(id, Flow(cs[id])) /\ Len(Flow(cs[id])) = Pushed(id)
        /\ cs[id].entry.half_closed <=> k = 1
    BY <1>1, <1>2, <1>7, <2>0, <2>1, <2>2, HandledFlow
  <2>4. k = 1 => Over BY <2>1 DEF Queued
  <2>5. Drained(cs[id])
    <3>1. SameButUpload(conns[id], cs[id]) BY <1>3
    <3>2. CASE conns[id].rx = "app" /\ ~conns[id].peer.fin
                 /\ conns[id].entry.state \in {"FinWait1", "FinWait2"}
      <4>1. conns[id].entry.half_closed BY <1>7, <2>2, <3>2 DEF Drained
      <4>2. w = 0 BY <2>1, <4>1 DEF Queued
      <4>3. \A j \in 1..Len(dataIn) : dataIn[j].id # id
        BY <1>1, <2>1, <4>2 DEF Queued
      <4>4. HandledSo(id, conns[id], dataIn, Len(dataIn), cs[id])
        <5>1. Len(dataIn) \in 0..Len(dataIn) BY <1>1
        <5> QED BY <1>1, <1>2, <2>0, <5>1, HandledFacts
      <4>5. cs[id] = conns[id] BY <4>3, <4>4 DEF HandledSo
      <4> QED BY <2>2, <4>5
    <3>3. CASE ~(conns[id].rx = "app" /\ ~conns[id].peer.fin
                 /\ conns[id].entry.state \in {"FinWait1", "FinWait2"})
      BY <1>7, <3>1, <3>3 DEF Drained, SameButUpload
    <3> QED BY <3>2, <3>3
  <2> QED BY <2>3, <2>4, <2>5
<1>8. ASSUME NEW id \in Ids, Follows(id) PROVE Mid(id, cs[id])
  <2>1. SameButUpload(conns[id], cs[id]) /\ Stream(id) BY <1>3, <1>8 DEF ConnectInv
  <2>2. CASE conns[id].entry = None
    <3>1. cs[id] = conns[id] BY <2>1, <2>2 DEF SameButUpload
    <3> QED BY <1>0, <2>1, <3>1, StreamMid
  <2>3. CASE conns[id].entry # None
    <3>1. /\ InOrder(id, Flow(cs[id])) /\ Len(Flow(cs[id])) = Pushed(id)
          /\ cs[id].entry.half_closed => Over
          /\ Drained(cs[id])
      BY <1>7, <1>8, <2>3
    <3>2. Pushed(id) <= Pushed(id)
      <4>1. Pushed(id) \in Int BY <1>0, PushedInt
      <4> QED BY <4>1
    <3>3. cs[id].peer = conns[id].peer /\ cs[id].rx = conns[id].rx BY <2>1 DEF SameButUpload
    <3> QED BY <2>1, <3>1, <3>2, <3>3 DEF Mid, Stream
  <2> QED BY <2>2, <2>3
<1>9. ASSUME NEW id \in Ids, Follows(id), Served(cs[id], conns'[id]), conns'[id].entry # None
      PROVE  \E w \in 0..Len(dataIn'), k \in {0, 1} : Queued(id, w, k)'
  <2>1. /\ cs[id].entry # None /\ Flow(conns'[id]) = Flow(cs[id])
        /\ conns'[id].entry.half_closed = cs[id].entry.half_closed
    BY <1>9 DEF Served
  <2>2. conns[id].entry # None BY <1>3, <2>1 DEF SameButUpload
  <2>3. /\ Len(Flow(cs[id])) = Pushed(id)
        /\ cs[id].entry.half_closed => Over
    BY <1>7, <1>9, <2>2
  <2>4. Pushed(id)' = Pushed(id) /\ Pushed(id) \in Int BY <1>0, PushedSame, PushedInt DEF svars
  <2>5. Len(dataIn') = 0 /\ 1..0 = {} BY <1>1
  <2>6. PICK k \in {0, 1} : cs[id].entry.half_closed <=> k = 1
    <3>1. CASE cs[id].entry.half_closed
      <4> WITNESS 1 \in {0, 1}
      <4> QED BY <3>1
    <3>2. CASE ~cs[id].entry.half_closed
      <4> WITNESS 0 \in {0, 1}
      <4> QED BY <3>2
    <3> QED BY <3>1, <3>2
  <2>7. Pushed(id) + k + 0 = Pushed(id) + k BY <2>4, <2>6
  <2>8. Queued(id, 0, k)'
    <3>1. Len(Flow(conns'[id])) + (IF conns'[id].entry.half_closed THEN 1 ELSE 0) + 0
            = Pushed(id)' + k
      BY <2>1, <2>3, <2>4, <2>6, <2>7
    <3>2. conns'[id].entry.half_closed <=> k = 1 BY <2>1, <2>6
    <3>3. k = 1 => Over' BY <2>3, <2>6 DEF svars, Over
    <3> QED BY <2>5, <3>1, <3>2, <3>3 DEF Queued
  <2>9. 0 \in 0..Len(dataIn') BY <2>5
  <2> QED BY <2>6, <2>8, <2>9
<1>10. cmd' \in Seq(Ids \cup {"udp"}) BY <1>1
<1> QED BY <1>3, <1>4, <1>5, <1>6, <1>8, <1>9, <1>10, <1>a, TickInv

(* A new entry, or a connect that failed at once. *)
LEMMA OpenTcpSound ==
    ASSUME NEW c \in Conn, Blank(c), NEW h, h = OpenTcp(c)
    PROVE  /\ h \in Conn /\ Sound(h) /\ h.entry = TcpState /\ h.entry # None
           /\ h.answer = c.answer /\ h.peer = c.peer /\ h.rx = "stack" /\ Flow(h) = << >>
<1>1. TcpState \in Entry /\ TcpState # None
  <2>1. TcpState \in Entry
    BY NetstackAssumption DEF TcpState, Entry, SocketStates
  <2> QED BY <2>1, EntryFields
<1>2. h = [c EXCEPT !.entry = TcpState, !.rx = "stack"] BY DEF OpenTcp
<1>3. h \in Conn
  <2>1. TcpState \in Entry \cup {None} BY <1>1
  <2> HIDE DEF TcpState
  <2> QED BY <1>2, <2>1, Zenon DEF Conn
<1>4. /\ h.entry = TcpState /\ h.rx = "stack" /\ h.answer = c.answer /\ h.peer = c.peer
      /\ h.inbound = << >>
  BY <1>2 DEF Conn, Blank
<1>5. Flow(h) = << >>
  <2>1. Flow(h) = (<< >> \o << >>) \o << >> BY <1>1, <1>4 DEF Flow, TcpState, Blank
  <2> QED BY <2>1
<1>6. Sound(h)
  <2>1. InFlight(h) = 0 /\ 1..Len(<< >>) = {} /\ Len(<< >>) = 0 BY <1>4, NoneInFlight
  <2>2. TxBuf \in Nat /\ RxBuf \in Nat BY NetstackAssumption
  <2> QED BY <1>4, <2>1, <2>2 DEF Sound, TcpState, Blank
<1> QED BY <1>1, <1>3, <1>4, <1>5, <1>6

LEMMA UnconnectedSound ==
    ASSUME NEW c \in Conn, Blank(c), NEW h, h = Unconnected(c)
    PROVE  /\ h \in Conn /\ Sound(h) /\ Blank(h) /\ h.peer = c.peer
           /\ h.answer = (IF c.answer = "wait" THEN "err" ELSE c.answer)
<1> DEFINE a == IF c.answer = "wait" THEN "err" ELSE c.answer
<1>1. a \in {"none", "wait", "ok", "err", "gone"} BY ConnFields
<1>2. h = [c EXCEPT !.answer = a] BY DEF Unconnected, Conn
<1> HIDE DEF a
<1>3. h \in Conn BY <1>1, <1>2, Zenon DEF Conn
<1>4. /\ h.entry = c.entry /\ h.rx = c.rx /\ h.answer = a /\ h.peer = c.peer
      /\ h.inbound = c.inbound
  BY <1>2 DEF Conn
<1>5. Blank(h) /\ Sound(h) BY <1>4 DEF Blank, Sound
<1> QED BY <1>3, <1>4, <1>5 DEF a

(* A command, and an iteration. *)
LEMMA TickOpens ==
    ASSUME ConnectInv, UNCHANGED svars, NEW carried \in BOOLEAN, NEW expired \in BOOLEAN,
           cmd # << >>, NEW connects \in BOOLEAN, NEW cs,
           cs = [id \in Ids |-> IF id # Head(cmd) THEN conns[id]
                                ELSE IF connects THEN OpenTcp(conns[id])
                                ELSE Unconnected(conns[id])],
           Iterate(cs, carried, expired), cmd' = Tail(cmd), dataIn' = dataIn, alive' = TRUE,
           udp' \in BOOLEAN
    PROVE  ConnectInv'
<1> DEFINE x == Head(cmd)
<1>0. ConnectTypeOK /\ OpenedOnce /\ Place BY DEF ConnectInv
<1>1. /\ conns \in [Ids -> Conn] /\ cmd \in Seq(Ids \cup {"udp"})
      /\ dataIn \in Seq(Item) /\ Len(dataIn) \in Nat /\ Len(cmd) \in Nat
  BY <1>0, ConnectTypes
<1>2. /\ x = cmd[1] /\ 1 \in 1..Len(cmd)
      /\ Tail(cmd) \in Seq(Ids \cup {"udp"}) /\ Len(Tail(cmd)) = Len(cmd) - 1
      /\ \A i \in 1..Len(Tail(cmd)) : Tail(cmd)[i] = cmd[i + 1] /\ i + 1 \in 1..Len(cmd) /\ i + 1 # 1
  BY <1>1
<1> HIDE DEF x
<1>3. x \in Ids => Blank(conns[x]) /\ conns[x].answer \in {"wait", "gone"}
  BY <1>0, <1>2 DEF OpenedOnce
<1>4. \A id \in Ids : id # x => cs[id] = conns[id] BY DEF x
<1>5. x \in Ids => /\ cs[x] \in Conn /\ Sound(cs[x]) /\ cs[x].peer = conns[x].peer
                   /\ cs[x].answer \in {"wait", "gone", "err"}
                   /\ \/ cs[x].entry = TcpState /\ cs[x].entry # None /\ Flow(cs[x]) = << >>
                      \/ Blank(cs[x])
  <2> SUFFICES ASSUME x \in Ids
               PROVE /\ cs[x] \in Conn /\ Sound(cs[x]) /\ cs[x].peer = conns[x].peer
                     /\ cs[x].answer \in {"wait", "gone", "err"}
                     /\ \/ cs[x].entry = TcpState /\ cs[x].entry # None /\ Flow(cs[x]) = << >>
                        \/ Blank(cs[x])
    OBVIOUS
  <2>1. conns[x] \in Conn /\ Blank(conns[x]) /\ conns[x].answer \in {"wait", "gone"}
    BY <1>1, <1>3
  <2>2. cs[x] = IF connects THEN OpenTcp(conns[x]) ELSE Unconnected(conns[x]) BY DEF x
  <2>3. CASE connects
    <3>1. cs[x] = OpenTcp(conns[x]) BY <2>2, <2>3
    <3> HIDE DEF TcpState
    <3> QED BY <2>1, <3>1, OpenTcpSound
  <2>4. CASE ~connects
    <3>1. cs[x] = Unconnected(conns[x]) BY <2>2, <2>4
    <3> QED BY <2>1, <3>1, UnconnectedSound
  <2> QED BY <2>3, <2>4
<1>6. cs \in [Ids -> Conn]
  <2>1. \A id \in Ids : cs[id] \in Conn BY <1>1, <1>4, <1>5
  <2>2. cs = [id \in Ids |-> cs[id]] BY Zenon
  <2> QED BY <2>1, <2>2, Zenon
<1>7. \A id \in Ids : Sound(cs[id]) BY <1>4, <1>5 DEF ConnectInv
<1>8. \A id \in Ids : Further(conns[id], cs[id])
  <2> SUFFICES ASSUME NEW id \in Ids PROVE Further(conns[id], cs[id]) OBVIOUS
  <2>1. Len(conns[id].peer.got) \in Nat BY <1>1, GotLen
  <2>2. CASE id # x BY <1>4, <2>1, <2>2 DEF Further
  <2>3. CASE id = x BY <1>3, <1>5, <2>1, <2>3 DEF Further, Blank
  <2> QED BY <2>2, <2>3
<1>9. ASSUME \A id \in Ids : Served(cs[id], conns'[id]) PROVE OpenedOnce'
  <2>1. \A id \in Ids : id # x => Later(conns[id], conns'[id])
    <3> SUFFICES ASSUME NEW id \in Ids, id # x PROVE Later(conns[id], conns'[id]) OBVIOUS
    <3>1. conns[id].answer = "ok" => conns[id].rx \in {"app", "dropped"} BY <1>0 DEF OpenedOnce
    <3> QED BY <1>1, <1>4, <1>9, <3>1, ServedLater
  <2>2. x \in Ids => /\ conns'[x].answer # "none"
                     /\ conns'[x].answer = "ok" => conns'[x].rx \in {"app", "dropped"}
    BY <1>5, <1>9 DEF Served
  <2>3. \A i \in 1..Len(cmd') : cmd'[i] \in Ids => cmd'[i] # x
    BY <1>0, <1>2 DEF OpenedOnce
  <2>4. \A i \in 1..Len(cmd') :
           cmd'[i] \in Ids => Blank(conns'[cmd'[i]]) /\ conns'[cmd'[i]].answer \in {"wait", "gone"}
    <3> SUFFICES ASSUME NEW i \in 1..Len(cmd'), cmd'[i] \in Ids
                 PROVE  Blank(conns'[cmd'[i]]) /\ conns'[cmd'[i]].answer \in {"wait", "gone"}
      OBVIOUS
    <3> DEFINE y == cmd'[i]
    <3>1. y = cmd[i + 1] /\ i + 1 \in 1..Len(cmd) BY <1>2
    <3>2. Blank(conns[y]) /\ conns[y].answer \in {"wait", "gone"} BY <1>0, <3>1 DEF OpenedOnce
    <3>3. Later(conns[y], conns'[y]) BY <2>1, <2>3
    <3> QED BY <3>2, <3>3 DEF Later
  <2>5. \A i, j \in 1..Len(cmd') : cmd'[i] = cmd'[j] /\ cmd'[i] \in Ids => i = j
    <3> SUFFICES ASSUME NEW i \in 1..Len(cmd'), NEW j \in 1..Len(cmd'),
                        cmd'[i] = cmd'[j], cmd'[i] \in Ids
                 PROVE  i = j
      OBVIOUS
    <3>1. cmd[i + 1] = cmd[j + 1] /\ cmd[i + 1] \in Ids /\ i + 1 \in 1..Len(cmd) /\ j + 1 \in 1..Len(cmd)
      BY <1>2
    <3>2. i + 1 = j + 1 BY <1>0, <3>1 DEF OpenedOnce
    <3>3. i \in Int /\ j \in Int BY <1>2
    <3> QED BY <3>2, <3>3
  <2>6. \A id \in Ids : conns'[id].answer = "none" =>
           Blank(conns'[id]) /\ \A i \in 1..Len(cmd') : cmd'[i] # id
    <3> SUFFICES ASSUME NEW id \in Ids, conns'[id].answer = "none"
                 PROVE  Blank(conns'[id]) /\ \A i \in 1..Len(cmd') : cmd'[i] # id
      OBVIOUS
    <3>1. id # x BY <2>2
    <3>2. Later(conns[id], conns'[id]) BY <2>1, <3>1
    <3>3. conns[id].answer = "none" BY <3>2 DEF Later
    <3>4. Blank(conns[id]) /\ \A i \in 1..Len(cmd) : cmd[i] # id BY <1>0, <3>3 DEF OpenedOnce
    <3>5. Blank(conns'[id]) BY <3>2, <3>4 DEF Later
    <3> QED BY <1>2, <3>4, <3>5
  <2>7. \A id \in Ids : conns'[id].answer = "ok" => conns'[id].rx \in {"app", "dropped"}
    BY <2>1, <2>2 DEF Later
  <2>8. \A i \in 1..Len(dataIn') :
           dataIn'[i].id \in Ids => conns'[dataIn'[i].id].rx \in {"app", "dropped"}
    <3> SUFFICES ASSUME NEW i \in 1..Len(dataIn), dataIn[i].id \in Ids
                 PROVE  conns'[dataIn[i].id].rx \in {"app", "dropped"}
      OBVIOUS
    <3>1. conns[dataIn[i].id].rx \in {"app", "dropped"} BY <1>0 DEF OpenedOnce
    <3>2. dataIn[i].id # x BY <1>3, <3>1 DEF Blank
    <3> QED BY <2>1, <3>1, <3>2 DEF Later
  <2> QED BY <2>4, <2>5, <2>6, <2>7, <2>8 DEF OpenedOnce
<1>10. ASSUME x \in Ids, Follows(x) PROVE Pushed(x) = 0
  <2>1. conns[x].rx = "none" BY <1>3, <1>10 DEF Blank
  <2>2. via # x /\ ~(x = "gateway" /\ pc = "answer")
    BY <1>0, <1>10, <2>1, ConnectTypes DEF Place
  <2>3. (x = "gateway" /\ pc = "gateway") \/ (x = "dst" /\ pc = "opening")
    BY <1>10, <2>2 DEF Follows
  <2>4. pc = "opening" => next = Len(head) + 1 BY <1>0 DEF Place, Ended
  <2>5. Len(head) \in Nat BY <1>0, ConnectTypes
  <2> QED BY <2>3, <2>4, <2>5 DEF Pushed
<1>11. ASSUME NEW id \in Ids, Follows(id) PROVE Mid(id, cs[id])
  <2>1. Stream(id) BY <1>11 DEF ConnectInv
  <2>2. Mid(id, conns[id]) BY <1>0, <2>1, StreamMid
  <2>3. CASE id # x BY <1>4, <2>2, <2>3
  <2>4. CASE id = x /\ Blank(cs[x])
    <3>1. Flow(cs[x]) = Flow(conns[x]) /\ cs[x].entry = None /\ cs[x].rx = "none"
             /\ cs[x].peer = conns[x].peer
      BY <1>3, <1>5, <2>4 DEF Flow, Blank
    <3> QED BY <2>2, <2>4, <3>1 DEF Mid
  <2>5. CASE id = x /\ cs[x].entry = TcpState /\ cs[x].entry # None /\ Flow(cs[x]) = << >>
    <3>1. Pushed(x) = 0 BY <1>10, <1>11, <2>5
    <3>2. InOrder(id, << >>) /\ Len(<< >>) = 0 BY DEF InOrder
    <3>3. Drained(cs[x]) BY <2>5 DEF Drained, TcpState
    <3>4. cs[x].peer.got = << >> /\ ~cs[x].peer.gotFin BY <1>3, <1>5, <2>5 DEF Blank
    <3>5. cs[x].entry.half_closed = FALSE BY <2>5 DEF TcpState
    <3> QED BY <2>5, <3>1, <3>2, <3>3, <3>4, <3>5 DEF Mid
  <2> QED BY <1>5, <2>3, <2>4, <2>5
<1>12. ASSUME NEW id \in Ids, Follows(id), Served(cs[id], conns'[id]), conns'[id].entry # None
       PROVE  \E w \in 0..Len(dataIn'), k \in {0, 1} : Queued(id, w, k)'
  <2>1. /\ cs[id].entry # None /\ Flow(conns'[id]) = Flow(cs[id])
        /\ conns'[id].entry.half_closed = cs[id].entry.half_closed
    BY <1>12 DEF Served
  <2>2. Pushed(id)' = Pushed(id) /\ \A p : Chunk(id, p)' = Chunk(id, p)
    BY PushedSame DEF svars, Chunk
  <2>3. CASE id # x
    <3>1. cs[id] = conns[id] BY <1>4, <2>3
    <3>2. PICK w \in 0..Len(dataIn), k \in {0, 1} : Queued(id, w, k)
      BY <1>12, <2>1, <3>1 DEF ConnectInv, Stream
    <3>3. /\ Flow(conns'[id]) = Flow(conns[id])
          /\ conns'[id].entry.half_closed = conns[id].entry.half_closed
      BY <2>1, <3>1
    <3>4. UNCHANGED <<dataIn, pc, up, next, req, client>> BY DEF svars
    <3>5. Queued(id, w, k)' BY <2>2, <3>2, <3>3, <3>4 DEF Queued, Over
    <3> QED BY <3>4, <3>5
  <2>4. CASE id = x
    <3>1. cs[x].entry = TcpState /\ Flow(cs[x]) = << >> BY <1>5, <2>1, <2>4 DEF Blank
    <3>2. cs[id].entry.half_closed = FALSE /\ Len(Flow(cs[id])) = 0 BY <2>4, <3>1 DEF TcpState
    <3>3. Pushed(id)' = 0 BY <1>10, <1>12, <2>2, <2>4
    <3>4. \A i \in 1..Len(dataIn) : dataIn[i].id # id
      <4>1. conns[id].rx = "none" BY <1>3, <2>4 DEF Blank
      <4> QED BY <1>0, <4>1 DEF OpenedOnce
    <3>5. Queued(id, 0, 0)'
      <4>1. Len(Flow(conns'[id])) + 0 + 0 = Pushed(id)' + 0 BY <2>1, <3>2, <3>3
      <4>2. \A i \in 1..Len(dataIn') : ~(i > Len(dataIn') - 0) BY <1>1
      <4>3. 0 <= Len(dataIn') BY <1>1
      <4> QED BY <2>1, <3>2, <3>4, <4>1, <4>2, <4>3 DEF Queued
    <3>6. 0 \in 0..Len(dataIn') BY <1>1
    <3> QED BY <3>5, <3>6
  <2> QED BY <2>3, <2>4
<1>13. cmd' \in Seq(Ids \cup {"udp"}) BY <1>1, <1>2
<1> QED BY <1>6, <1>7, <1>8, <1>9, <1>11, <1>12, <1>13, TickInv

(* Every iteration of the loop. *)
LEMMA StackInv ==
    ASSUME ConnectInv, Stack
    PROVE  ConnectInv'
<1>1. PICK carried \in BOOLEAN, expired \in BOOLEAN : Tick(carried, expired) /\ UNCHANGED svars
  BY DEF Stack
<1>2. alive' = TRUE /\ UNCHANGED svars /\ udp \in BOOLEAN
  <2>1. alive \in BOOLEAN /\ udp \in BOOLEAN BY ConnectTypes DEF ConnectInv
  <2> QED BY <1>1, <2>1 DEF Tick
<1>3. CASE Iterate(conns, carried, expired) /\ UNCHANGED <<cmd, dataIn, udp>>
  BY <1>2, <1>3, TickPlain
<1>4. ASSUME cmd # << >>, NEW connects \in BOOLEAN,
             Iterate([id \in Ids |-> IF id # Head(cmd) THEN conns[id]
                                     ELSE IF connects THEN OpenTcp(conns[id])
                                     ELSE Unconnected(conns[id])], carried, expired),
             udp' = (udp \/ Head(cmd) = "udp"), cmd' = Tail(cmd), UNCHANGED dataIn
      PROVE  ConnectInv'
  <2>1. udp' \in BOOLEAN BY <1>4
  <2>2. PICK cs : /\ cs = [id \in Ids |-> IF id # Head(cmd) THEN conns[id]
                                          ELSE IF connects THEN OpenTcp(conns[id])
                                          ELSE Unconnected(conns[id])]
                  /\ Iterate(cs, carried, expired)
    BY <1>4
  <2> QED BY <1>2, <1>4, <2>1, <2>2, TickOpens
<1>5. CASE /\ Iterate(Handled(conns), carried, expired)
           /\ udp' = (udp /\ \A i \in DOMAIN dataIn : dataIn[i].kind # "UdpClose")
           /\ dataIn' = << >> /\ UNCHANGED cmd
  <2>1. udp' \in BOOLEAN BY <1>5
  <2> QED BY <1>2, <1>5, <2>1, TickDrains
<1> QED BY <1>1, <1>3, <1>4, <1>5, Zenon DEF Tick

(* The loop returns. *)
LEMMA TunnelInv ==
    ASSUME ConnectInv, Tunnel
    PROVE  ConnectInv'
<1>0. ConnectTypeOK /\ OpenedOnce /\ Place BY DEF ConnectInv
<1>1. conns \in [Ids -> Conn] BY <1>0, ConnectTypes
<1>2. UNCHANGED svars /\ cmd' = << >> /\ dataIn' = << >> /\ udp' = FALSE /\ alive' = FALSE
  BY DEF Tunnel, StackEnds
<1> DEFINE X(c) == IF c.rx = "stack" THEN "none" ELSE c.rx
           A(c) == IF c.answer = "wait" THEN "err" ELSE c.answer
           D(c) == [c EXCEPT !.entry = None, !.inbound = << >>, !.rx = X(c), !.answer = A(c)]
<1>3. \A id \in Ids : conns'[id] = D(conns[id])
  BY <1>1 DEF Tunnel, StackEnds, Conn
<1>4. ASSUME NEW c \in Conn
      PROVE  /\ D(c) \in Conn /\ D(c).entry = None /\ D(c).inbound = << >>
             /\ D(c).rx = X(c) /\ D(c).answer = A(c) /\ D(c).peer = c.peer
  <2>1. /\ X(c) \in {"none", "stack", "app", "dropped"}
        /\ A(c) \in {"none", "wait", "ok", "err", "gone"} /\ << >> \in Seq(Segments)
    BY ConnFields
  <2> HIDE DEF X, A
  <2>2. D(c) \in Conn BY <2>1, Zenon DEF Conn
  <2> QED BY <2>2 DEF Conn
<1> HIDE DEF D
<1>5. ASSUME NEW id \in Ids
      PROVE  /\ conns'[id] \in Conn /\ conns'[id].entry = None /\ conns'[id].inbound = << >>
             /\ conns'[id].rx = X(conns[id]) /\ conns'[id].answer = A(conns[id])
             /\ conns'[id].peer = conns[id].peer
  BY <1>1, <1>3, <1>4
<1>6. conns' \in [Ids -> Conn]
  <2>1. \A id \in Ids : conns'[id] \in Conn BY <1>5
  <2>2. conns' = [id \in Ids |-> conns'[id]] BY DEF Tunnel, StackEnds
  <2> QED BY <2>1, <2>2, Zenon
<1>7. \A id \in Ids : Sound(conns'[id]) /\ conns'[id].entry = None BY <1>5 DEF Sound
<1>8. 1..Len(cmd') = {} /\ 1..Len(dataIn') = {} /\ Len(dataIn') = 0 BY <1>2
<1>9. ConnectTypeOK'
  <2>1. cmd' \in Seq(Ids \cup {"udp"}) /\ dataIn' \in Seq(Item) BY <1>2
  <2>2. NetTypeOK' BY <1>2, <1>6, <1>7, <2>1 DEF NetTypeOK, Item
  <2>3. Len(dataIn') <= DataIn
    <3>1. DataIn \in Nat BY <1>0, ConnectTypes
    <3> QED BY <1>8, <3>1
  <2> QED BY <1>0, <1>2, <2>2, <2>3 DEF ConnectTypeOK, svars
<1>10. OpenedOnce'
  <2>1. \A id \in Ids : conns'[id].answer = "none" => Blank(conns'[id])
    BY <1>0, <1>5 DEF OpenedOnce, Blank
  <2>2. \A id \in Ids : conns'[id].answer = "ok" => conns'[id].rx \in {"app", "dropped"}
    BY <1>0, <1>5 DEF OpenedOnce
  <2> QED BY <1>8, <2>1, <2>2 DEF OpenedOnce
<1>11. Place'
  <2>1. \A id \in Ids : Further(conns[id], conns'[id])
    <3> SUFFICES ASSUME NEW id \in Ids PROVE Further(conns[id], conns'[id]) OBVIOUS
    <3>1. Len(conns[id].peer.got) \in Nat BY <1>1, GotLen
    <3> QED BY <1>5, <3>1 DEF Further
  <2> QED BY <1>0, <1>2, <1>6, <2>1, PlaceFurther
<1>12. \A id \in Ids : Follows(id)' => Stream(id)'
  <2> SUFFICES ASSUME NEW id \in Ids, Follows(id)' PROVE Stream(id)' OBVIOUS
  <2>1. UNCHANGED <<pc, via, next, head, up, req, client>> BY <1>2 DEF svars
  <2>2. Stream(id) BY <2>1, FollowsSame DEF ConnectInv
  <2>3. Pushed(id)' = Pushed(id) BY <2>1, PushedSame
  <2>4. Over' = Over BY <2>1 DEF Over
  <2>5. \A p : Chunk(id, p)' = Chunk(id, p) BY <2>1 DEF Chunk
  <2>6. conns'[id].entry = None /\ conns'[id].peer = conns[id].peer BY <1>5
  <2>7. InOrder(id, Flow(conns[id]))'
    <3>1. Flow(conns'[id]) = conns[id].peer.got BY <2>6 DEF Flow
    <3>2. conns[id] \in Conn BY <1>1
    <3>3. /\ Flow(conns[id]) \in Seq(Nat) /\ Len(conns[id].peer.got) <= Len(Flow(conns[id]))
          /\ \A i \in 1..Len(conns[id].peer.got) : conns[id].peer.got[i] = Flow(conns[id])[i]
      BY <3>2, FlowSeq
    <3>4. Len(conns[id].peer.got) \in Nat /\ Len(Flow(conns[id])) \in Nat BY <3>2, <3>3, GotLen
    <3>5. \A i \in 1..Len(Flow(conns[id])) : Flow(conns[id])[i] = Chunk(id, i)
      BY <2>2 DEF Stream, InOrder
    <3>6. \A i \in 1..Len(conns[id].peer.got) : conns[id].peer.got[i] = Chunk(id, i)
      <4> DEFINE g == conns[id].peer.got
                 q == Flow(conns[id])
                 C(i) == Chunk(id, i)
      <4>1. /\ Len(g) \in Nat /\ Len(q) \in Nat /\ Len(g) <= Len(q)
            /\ \A i \in 1..Len(g) : g[i] = q[i]
            /\ \A i \in 1..Len(q) : q[i] = C(i)
        BY <3>3, <3>4, <3>5
      <4> HIDE DEF g, q, C
      <4>2. \A i \in 1..Len(g) : g[i] = C(i) BY <4>1
      <4> QED BY <4>2 DEF g, C
    <3> QED BY <2>5, <3>1, <3>6 DEF InOrder
  <2>8. conns'[id].rx = "app" => conns[id].rx = "app" BY <1>5
  <2> QED BY <2>2, <2>3, <2>4, <2>6, <2>7, <2>8 DEF Stream
<1> QED BY <1>7, <1>9, <1>10, <1>11, <1>12 DEF ConnectInv

(* The first state. *)
LEMMA InitConnect ==
    ASSUME ConnectInit
    PROVE  ConnectInv
<1>1. req \in Request /\ req.up \in Nat /\ req.down \in [Ids -> Nat]
  BY SocksAssumption DEF ConnectInit, Request
<1>2. /\ cmd = << >> /\ dataIn = << >> /\ udp = FALSE /\ alive = TRUE
      /\ conns = [id \in Ids |-> Unopened(req.down[id])]
      /\ pc = "request" /\ client = "on" /\ next = 1 /\ head = << >> /\ replies = << >>
      /\ via = None /\ up = FALSE /\ direct = << >>
  BY DEF ConnectInit, NetInit
<1>3. ASSUME NEW n \in Nat
      PROVE  /\ Unopened(n) \in Conn /\ Blank(Unopened(n)) /\ Unopened(n).answer = "none"
  <2>1. 0 \in 0..AppQueue /\ << >> \in Seq(Segments) /\ << >> \in Seq(Nat)
    BY NetstackAssumption
  <2> QED BY <2>1 DEF Unopened, Conn, Blank
<1>4. \A id \in Ids : conns[id] \in Conn /\ Blank(conns[id]) /\ conns[id].answer = "none"
  BY <1>1, <1>2, <1>3
<1>5. conns \in [Ids -> Conn] BY <1>1, <1>2, <1>3
<1>6. \A id \in Ids : conns[id].entry = None BY <1>4 DEF Blank
<1>7. 1..Len(cmd) = {} /\ 1..Len(dataIn) = {} /\ Len(dataIn) = 0 /\ Len(head) = 0 /\ Len(replies) = 0
         /\ 1..Len(head) = {} /\ 1..Len(direct) = {}
  BY <1>2
<1>8. ConnectTypeOK
  <2>0. cmd \in Seq(Ids \cup {"udp"}) /\ dataIn \in Seq(Item) /\ udp \in BOOLEAN /\ alive \in BOOLEAN
    <3>1. cmd = << >> /\ dataIn = << >> BY <1>2
    <3>2. << >> \in Seq(Ids \cup {"udp"}) /\ << >> \in Seq(Item) OBVIOUS
    <3>3. cmd \in Seq(Ids \cup {"udp"}) BY <3>1, <3>2, Zenon
    <3>4. dataIn \in Seq(Item) BY <3>1, <3>2, Zenon
    <3>5. udp \in BOOLEAN /\ alive \in BOOLEAN BY <1>2, Zenon
    <3> QED BY <3>3, <3>4, <3>5, Zenon
  <2>1. NetTypeOK BY <1>5, <1>6, <2>0 DEF NetTypeOK, Item
  <2>2. next \in 1..req.up + 1 BY <1>1, <1>2
  <2>3. DataIn \in Nat BY SocksAssumption
  <2>4. head \in Seq(Nat) /\ direct \in Seq(Nat) /\ replies \in Seq({"ok", "refused", "error"})
    BY <1>2
  <2>5. Len(dataIn) <= DataIn /\ Len(head) <= 1 /\ Len(replies) <= 2 BY <1>7, <2>3
  <2>6. pc = "request" /\ client = "on" /\ via = None /\ up = FALSE BY <1>2
  <2> QED BY <1>1, <2>1, <2>2, <2>4, <2>5, <2>6 DEF ConnectTypeOK
<1>9. OpenedOnce BY <1>4, <1>7 DEF OpenedOnce
<1>10. Ids = {"gateway", "dst"} /\ None \notin Ids BY SocksAssumption, NoneAssumption
<1>11. Place BY <1>2, <1>4, <1>7, <1>10 DEF Place
<1>12. \A id \in Ids : ~Follows(id) BY <1>2, <1>10 DEF Follows
<1> QED BY <1>6, <1>8, <1>9, <1>11, <1>12, NoneSound DEF ConnectInv

-----------------------------------------------------------------------------
(* The application *)

(* What the invariant says, unfolded once. *)
LEMMA ConnectFacts ==
    ASSUME ConnectInv
    PROVE  /\ ConnectTypeOK /\ OpenedOnce /\ Place
           /\ \A id \in Ids : conns[id] \in Conn /\ Sound(conns[id])
           /\ \A id \in Ids : ~alive => conns[id].entry = None
           /\ \A id \in Ids : Follows(id) => Stream(id)
           /\ \A i \in 1..Len(dataIn) :
                 dataIn[i].id \in Ids => conns[dataIn[i].id].rx \in {"app", "dropped"}
           /\ pc \notin {"reply", "relay", Ended} => via = None
BY ConnectTypes DEF ConnectInv, OpenedOnce, Place

(* The request takes a step by itself: the stack is as it was. *)
LEMMA RequestStep ==
    ASSUME ConnectInv, UNCHANGED netvars, ConnectTypeOK', Place',
           \A id \in Ids : Follows(id)' => Stream(id)'
    PROVE  ConnectInv'
<1>1. OpenedOnce' BY DEF ConnectInv, netvars, OpenedOnce
<1> QED BY <1>1 DEF ConnectInv, netvars

(* The steps of a request that has no connection. *)
LEMMA BeginInv ==
    ASSUME ConnectInv, Begin \/ read_sniff_head \/ Block \/ handle_direct \/ DirectCopy
    PROVE  ConnectInv'
<1>0. /\ ConnectTypeOK /\ Place /\ via = None /\ UNCHANGED netvars /\ UNCHANGED <<via, up, req, client>>
      /\ pc \in {"request", "peek", "route", "direct"}
  BY ConnectFacts DEF Begin, read_sniff_head, Block, handle_direct, DirectCopy, Ended
<1>1. /\ req.up \in Nat /\ next \in Nat \ {0} /\ next <= req.up + 1 /\ head \in Seq(Nat)
      /\ direct \in Seq(Nat) /\ Len(head) \in Nat /\ Len(direct) \in Nat
      /\ replies \in Seq({"ok", "refused", "error"}) /\ Len(replies) \in Nat
      /\ next \in 1..req.up + 1 /\ Len(head) <= 1
  BY <1>0, ConnectTypes DEF ConnectTypeOK
<1>2. /\ pc' \in {"peek", "route", "direct", Ended}
      /\ next' \in 1..req.up + 1 /\ head' \in Seq(Nat) /\ Len(head') <= 1 /\ direct' \in Seq(Nat)
      /\ replies' \in Seq({"ok", "refused", "error"}) /\ Len(replies') <= 1
      /\ pc' \in {"peek", "route"} => next' = Len(head') + 1
      /\ pc' = "peek" => head' = << >>
      /\ \A i \in 1..Len(head') : head'[i] = i
      /\ \A i \in 1..Len(direct') : direct'[i] = i
      /\ pc' = "direct" => Len(direct') = next' - 1
  <2>1. /\ \A i \in 1..Len(head) : head[i] = i
        /\ \A i \in 1..Len(direct) : direct[i] = i
        /\ pc \in {"request", "peek", "route"} => next = Len(head) + 1
        /\ pc \in {"request", "peek"} => head = << >>
        /\ pc = "request" => replies = << >>
        /\ Len(replies) <= 1
        /\ pc = "direct" => Len(direct) = next - 1
    BY <1>0 DEF Place, Ended
  <2>2. \A x \in {"ok", "refused", "error"} : replies = << >> =>
           Append(replies, x) \in Seq({"ok", "refused", "error"}) /\ Len(Append(replies, x)) <= 1
    BY <1>1
  <2>3. CASE Begin BY <1>1, <2>1, <2>2, <2>3 DEF Begin, Replied
  <2>4. CASE read_sniff_head
    <3>1. pc = "peek" /\ head = << >> /\ next = 1 /\ UNCHANGED <<replies, direct>>
      BY <2>1, <2>4 DEF read_sniff_head
    <3>2. CASE ClientData /\ head' = <<next>> /\ next' = next + 1 /\ pc' = "route"
      <4>1. head' = <<1>> /\ next' = 2 BY <3>1, <3>2
      <4>2. head' \in Seq(Nat) /\ Len(head') = 1 /\ head'[1] = 1 BY <4>1
      <4>3. next' \in 1..req.up + 1 BY <1>1, <3>1, <3>2, <4>1 DEF ClientData
      <4> QED BY <1>1, <2>1, <3>1, <3>2, <4>1, <4>2, <4>3
    <3>3. CASE pc' \in {"route", Ended} /\ UNCHANGED <<head, next>>
      BY <1>1, <2>1, <3>1, <3>3 DEF Ended
    <3> QED BY <2>4, <3>2, <3>3 DEF read_sniff_head
  <2>5. CASE Block BY <1>1, <2>1, <2>2, <2>5 DEF Block, Replied, Ended
  <2>6. CASE handle_direct
    <3>1. pc = "route" /\ UNCHANGED <<next, head>> BY <2>6 DEF handle_direct
    <3>2. replies' \in Seq({"ok", "refused", "error"}) /\ Len(replies') <= 1
      BY <1>1, <2>1, <2>2, <2>6 DEF handle_direct, Replied
    <3>3. CASE pc' = "direct" /\ direct' = head BY <1>1, <2>1, <3>1, <3>2, <3>3
    <3>4. CASE pc' = Ended /\ UNCHANGED direct BY <1>1, <2>1, <3>1, <3>2, <3>4 DEF Ended
    <3> QED BY <2>6, <3>3, <3>4 DEF handle_direct
  <2>7. CASE DirectCopy
    <3>1. pc = "direct" /\ UNCHANGED <<head, replies>> BY <2>7 DEF DirectCopy
    <3>2. CASE ClientData /\ direct' = Append(direct, next) /\ next' = next + 1 /\ UNCHANGED pc
      <4>1. Len(direct) + 1 = next /\ next \in Nat BY <1>1, <2>1, <3>1
      <4>2. /\ direct' \in Seq(Nat) /\ Len(direct') = next
            /\ \A i \in 1..Len(direct') : direct'[i] = i
        BY <1>1, <2>1, <3>2, <4>1
      <4>3. next' \in 1..req.up + 1 /\ next' - 1 = next BY <1>1, <3>2 DEF ClientData
      <4> QED BY <1>1, <2>1, <3>1, <3>2, <4>2, <4>3
    <3>3. CASE pc' = Ended /\ UNCHANGED <<direct, next>>
      BY <1>1, <2>1, <3>1, <3>3 DEF Ended
    <3> QED BY <2>7, <3>2, <3>3 DEF DirectCopy
  <2> QED BY <2>3, <2>4, <2>5, <2>6, <2>7
<1>3. ConnectTypeOK'
  BY <1>0, <1>2 DEF ConnectTypeOK, netvars, NetTypeOK, Ended
<1>4. Place'
  <2>1. /\ pc \in {"request", "peek", "route"} => conns["gateway"].answer = "none"
        /\ pc \in {"request", "peek", "route"} => conns["dst"].answer = "none"
        /\ \A i \in 1..Len(dataIn) : dataIn[i].id # "dst"
        /\ ~up
    <3>1. None # "dst" BY <1>0, ConnectTypes
    <3> QED BY <1>0, <3>1 DEF Place
  <2>2. pc' \in {"peek", "route"} => pc \in {"request", "peek", "route"}
    BY DEF Begin, read_sniff_head, Block, handle_direct, DirectCopy, Ended
  <2>3. None # "gateway" BY <1>0, ConnectTypes
  <2> QED BY <1>0, <1>2, <2>1, <2>2, <2>3 DEF Place, netvars, Ended
<1>5. \A id \in Ids : ~Follows(id)' BY <1>0, <1>2, ConnectTypes DEF Follows, Ended
<1> QED BY <1>0, <1>3, <1>4, <1>5, RequestStep

(* One more item in data_in, if the stack is there to take it. *)
LEMMA PushItem ==
    ASSUME ConnectTypeOK, NEW item \in Item, Room, Push(item)
    PROVE  /\ dataIn' \in Seq(Item) /\ Len(dataIn') <= DataIn
           /\ ~alive => dataIn' = dataIn
           /\ alive => /\ Len(dataIn') = Len(dataIn) + 1 /\ dataIn'[Len(dataIn) + 1] = item
                       /\ \A i \in 1..Len(dataIn) : dataIn'[i] = dataIn[i]
           /\ \A i \in 1..Len(dataIn') :
                 dataIn'[i] = item \/ \E j \in 1..Len(dataIn) : dataIn'[i] = dataIn[j]
<1>1. dataIn \in Seq(Item) /\ Len(dataIn) \in Nat /\ DataIn \in Nat /\ Len(dataIn) <= DataIn
  BY ConnectTypes
<1>2. CASE ~alive BY <1>1, <1>2 DEF Push
<1>3. CASE alive
  <2>1. dataIn' = Append(dataIn, item) /\ Len(dataIn) < DataIn BY <1>3 DEF Push, Room
  <2>2. /\ dataIn' \in Seq(Item) /\ Len(dataIn') = Len(dataIn) + 1
        /\ dataIn'[Len(dataIn) + 1] = item
        /\ \A i \in 1..Len(dataIn) : dataIn'[i] = dataIn[i]
    BY <1>1, <2>1
  <2>3. \A i \in 1..Len(dataIn') : i \in 1..Len(dataIn) \/ i = Len(dataIn) + 1 BY <1>1, <2>2
  <2>4. Len(dataIn') <= DataIn BY <1>1, <2>1, <2>2
  <2>5. \A i \in 1..Len(dataIn') :
           dataIn'[i] = item \/ \E j \in 1..Len(dataIn) : dataIn'[i] = dataIn[j]
    BY <2>2, <2>3, Zenon
  <2> QED BY <1>3, <2>2, <2>4, <2>5
<1> QED BY <1>2, <1>3

(* The stack's types, after a step of the application. *)
LEMMA NetTypes ==
    ASSUME ConnectTypeOK, conns' \in [Ids -> Conn], \A id \in Ids : Sound(conns'[id]),
           cmd' \in Seq(Ids \cup {"udp"}), dataIn' \in Seq(Item), UNCHANGED <<udp, alive>>
    PROVE  NetTypeOK'
<1>1. udp' \in BOOLEAN /\ alive' \in BOOLEAN BY ConnectTypes
<1> QED BY <1>1 DEF NetTypeOK, Sound, Item

(* A connection is asked for, once. *)
LEMMA OpensOnce ==
    ASSUME ConnectInv, NEW id \in Ids, conns[id].answer = "none", open_tcp(id), UNCHANGED alive,
           \A i \in 1..Len(dataIn') :
              dataIn'[i].id \in Ids => \E j \in 1..Len(dataIn) : dataIn'[i] = dataIn[j]
    PROVE  /\ conns' \in [Ids -> Conn] /\ cmd' \in Seq(Ids \cup {"udp"}) /\ OpenedOnce'
           /\ Blank(conns'[id]) /\ \A j \in Ids : j # id => conns'[j] = conns[j]
           /\ \A j \in Ids : Sound(conns'[j]) /\ (~alive' => conns'[j].entry = None)
           /\ \A j \in Ids : conns'[j].rx = conns[j].rx /\ conns'[j].peer = conns[j].peer
<1> DEFINE c == conns[id]
           a == IF alive THEN "wait" ELSE "err"
           d == [c EXCEPT !.answer = a]
<1>0. /\ conns \in [Ids -> Conn] /\ c \in Conn /\ cmd \in Seq(Ids \cup {"udp"})
      /\ Len(cmd) \in Nat /\ OpenedOnce
      /\ \A j \in Ids : Sound(conns[j]) /\ (~alive => conns[j].entry = None)
  BY ConnectTypes, ConnectFacts
<1>1. conns' = [conns EXCEPT ![id] = d] BY <1>0 DEF open_tcp
<1>2. a \in {"wait", "err"} OBVIOUS
<1> HIDE DEF a
<1>3. /\ d \in Conn /\ d.answer = a /\ d.rx = c.rx /\ d.peer = c.peer /\ d.entry = c.entry
      /\ d.inbound = c.inbound
  <2>1. d \in Conn BY <1>0, <1>2, Zenon DEF Conn
  <2> QED BY <1>0, <2>1 DEF Conn
<1> HIDE DEF d
<1>4. conns' \in [Ids -> Conn] /\ conns'[id] = d /\ \A j \in Ids : j # id => conns'[j] = conns[j]
  BY <1>0, <1>1, <1>3
<1>5. Blank(c) /\ \A i \in 1..Len(cmd) : cmd[i] # id BY <1>0 DEF OpenedOnce
<1>6. Blank(d) BY <1>3, <1>5 DEF Blank
<1>7. Sound(d) /\ d.entry = None BY <1>6, NoneSound DEF Blank
<1>8. \A j \in Ids : Sound(conns'[j]) /\ (~alive' => conns'[j].entry = None)
  BY <1>0, <1>4, <1>7
<1>9. \A j \in Ids : conns'[j].rx = conns[j].rx /\ conns'[j].peer = conns[j].peer
  BY <1>3, <1>4
<1>10. /\ cmd' \in Seq(Ids \cup {"udp"})
       /\ \A i \in 1..Len(cmd') : (i \in 1..Len(cmd) /\ cmd'[i] = cmd[i])
                                  \/ (alive /\ i = Len(cmd) + 1 /\ cmd'[i] = id)
  BY <1>0 DEF open_tcp
<1>11. OpenedOnce'
  <2>1. \A i \in 1..Len(cmd') : cmd'[i] \in Ids =>
           Blank(conns'[cmd'[i]]) /\ conns'[cmd'[i]].answer \in {"wait", "gone"}
    <3> SUFFICES ASSUME NEW i \in 1..Len(cmd'), cmd'[i] \in Ids
                 PROVE  Blank(conns'[cmd'[i]]) /\ conns'[cmd'[i]].answer \in {"wait", "gone"}
      OBVIOUS
    <3>1. CASE i \in 1..Len(cmd) /\ cmd'[i] = cmd[i]
      BY <1>0, <1>4, <1>5, <3>1 DEF OpenedOnce
    <3>2. CASE alive /\ cmd'[i] = id BY <1>3, <1>4, <1>6, <3>2 DEF a
    <3> QED BY <1>10, <3>1, <3>2
  <2>2. \A i, j \in 1..Len(cmd') : cmd'[i] = cmd'[j] /\ cmd'[i] \in Ids => i = j
    BY <1>0, <1>5, <1>10 DEF OpenedOnce
  <2>3. \A j \in Ids : conns'[j].answer = "none" =>
           Blank(conns'[j]) /\ \A i \in 1..Len(cmd') : cmd'[i] # j
    <3> SUFFICES ASSUME NEW j \in Ids, conns'[j].answer = "none"
                 PROVE  Blank(conns'[j]) /\ \A i \in 1..Len(cmd') : cmd'[i] # j
      OBVIOUS
    <3>1. j # id BY <1>2, <1>3, <1>4
    <3> QED BY <1>0, <1>4, <1>10, <3>1 DEF OpenedOnce
  <2>4. \A j \in Ids : conns'[j].answer = "ok" => conns'[j].rx \in {"app", "dropped"}
    BY <1>0, <1>2, <1>3, <1>4 DEF OpenedOnce
  <2>5. \A i \in 1..Len(dataIn') :
           dataIn'[i].id \in Ids => conns'[dataIn'[i].id].rx \in {"app", "dropped"}
    BY <1>0, <1>9 DEF OpenedOnce
  <2> QED BY <2>1, <2>2, <2>3, <2>4, <2>5 DEF OpenedOnce
<1> QED BY <1>4, <1>6, <1>8, <1>9, <1>10, <1>11

(* The gateway or the destination is asked for. *)
LEMMA OpenInv ==
    ASSUME ConnectInv, NEW id \in Ids, open_tcp(id),
           \/ id = "gateway" /\ pc = "route" /\ pc' = "gateway"
           \/ id = "dst" /\ pc \in {"resolve", "asking"} /\ pc' = "opening",
           UNCHANGED <<udp, alive, req, client, next, head, replies, via, up, direct>>,
           dataIn' \in Seq(Item), Len(dataIn') <= DataIn,
           \A i \in 1..Len(dataIn') :
              dataIn'[i].id \in Ids => \E j \in 1..Len(dataIn) : dataIn'[i] = dataIn[j]
    PROVE  ConnectInv'
<1>0. ConnectTypeOK /\ Place /\ via = None BY ConnectFacts DEF Ended
<1>1. Ids = {"gateway", "dst"} /\ None \notin Ids /\ next \in Nat /\ Len(head) \in Nat
  BY <1>0, ConnectTypes
<1>2. conns[id].answer = "none" BY <1>0 DEF Place
<1>3. /\ conns' \in [Ids -> Conn] /\ cmd' \in Seq(Ids \cup {"udp"}) /\ OpenedOnce'
      /\ Blank(conns'[id]) /\ \A j \in Ids : j # id => conns'[j] = conns[j]
      /\ \A j \in Ids : Sound(conns'[j]) /\ (~alive' => conns'[j].entry = None)
  BY <1>2, OpensOnce
<1>4. ConnectTypeOK'
  <2>1. NetTypeOK' BY <1>0, <1>3, NetTypes
  <2> QED BY <1>0, <2>1 DEF ConnectTypeOK
<1>5. Place'
  <2>1. \A x \in Ids : (\A i \in 1..Len(dataIn) : dataIn[i].id # x)
                          => \A i \in 1..Len(dataIn') : dataIn'[i].id # x
    OBVIOUS
  <2>2. \A i \in 1..Len(dataIn') : dataIn'[i].id # "dst"
    BY <1>0, <1>1, <2>1 DEF Place
  <2>3. pc' = "gateway" => \A i \in 1..Len(dataIn') : dataIn'[i].id # "gateway"
    <3>1. ASSUME pc' = "gateway" PROVE \A i \in 1..Len(dataIn) : dataIn[i].id # "gateway"
      <4>1. conns["gateway"].answer = "none" BY <1>2, <3>1
      <4>2. conns["gateway"].rx = "none" BY <1>1, <4>1 DEF ConnectInv, OpenedOnce, Blank
      <4> QED BY <1>1, <4>2, ConnectFacts
    <3> QED BY <1>1, <2>1, <3>1
  <2>4. pc' = "gateway" => conns'["dst"].answer = "none"
    BY <1>0, <1>1, <1>3 DEF Place
  <2> QED BY <1>0, <1>1, <2>2, <2>3, <2>4 DEF Place, Ended
<1>6. \A j \in Ids : Follows(j)' => Stream(j)'
  <2> SUFFICES ASSUME NEW j \in Ids, Follows(j)' PROVE Stream(j)' OBVIOUS
  <2>1. j = id BY <1>0, <1>1 DEF Follows
  <2>2. Pushed(j)' = 0
    <3>1. next = Len(head) + 1 BY <1>0 DEF Place, Ended
    <3> QED BY <1>1, <2>1, <3>1 DEF Pushed
  <2>3. Blank(conns'[j]) BY <1>3, <2>1
  <2>4. Flow(conns'[j]) = << >> /\ Len(<< >>) = 0 /\ 1..0 = {} BY <2>3 DEF Blank, Flow
  <2> QED BY <2>2, <2>3, <2>4 DEF Stream, Blank, InOrder
<1> QED BY <1>3, <1>4, <1>5, <1>6 DEF ConnectInv

(* The request goes on without a connection. *)
LEMMA BetweenInv ==
    ASSUME ConnectInv, UNCHANGED <<udp, alive, client, next, head, via, up, direct>>,
           req' \in Request, req'.up = req.up,
           pc \in {"route", "gateway", "answer", "resolve", "asking"},
           pc' \in {"resolve", "asking", Ended},
           replies' \in Seq({"ok", "refused", "error"}), Len(replies') <= IF pc' = Ended THEN 2 ELSE 1,
           conns' \in [Ids -> Conn], \A j \in Ids : Sound(conns'[j]) /\ (~alive' => conns'[j].entry = None),
           cmd' \in Seq(Ids \cup {"udp"}), OpenedOnce', conns'["dst"] = conns["dst"],
           dataIn' \in Seq(Item), Len(dataIn') <= DataIn, \A i \in 1..Len(dataIn') : dataIn'[i].id # "dst"
    PROVE  ConnectInv'
<1>0. ConnectTypeOK /\ Place /\ via = None BY ConnectFacts DEF Ended
<1>1. Ids = {"gateway", "dst"} /\ None \notin Ids BY <1>0, ConnectTypes
<1>2. ConnectTypeOK'
  <2>1. NetTypeOK' BY <1>0, NetTypes
  <2>2. Len(replies') <= 2
    <3>1. Len(replies') \in Nat OBVIOUS
    <3> QED BY <3>1
  <2>3. next' \in 1..req'.up + 1 BY <1>0 DEF ConnectTypeOK
  <2> QED BY <1>0, <2>1, <2>2, <2>3 DEF ConnectTypeOK
<1>3. Place' BY <1>0, <1>1 DEF Place, Ended
<1>4. \A j \in Ids : ~Follows(j)' BY <1>0, <1>1 DEF Follows, Ended
<1> QED BY <1>2, <1>3, <1>4 DEF ConnectInv

(* The three steps that ask for a connection. *)
LEMMA ProxyInv ==
    ASSUME ConnectInv, Proxy
    PROVE  ConnectInv'
<1>0. ConnectTypeOK /\ Place /\ via = None /\ OpenedOnce
         /\ \A id \in Ids : Sound(conns[id]) /\ (~alive => conns[id].entry = None)
  BY ConnectFacts DEF Proxy, Ended
<1>1. Ids = {"gateway", "dst"} /\ None \notin Ids /\ dataIn \in Seq(Item) /\ Len(dataIn) <= DataIn
        /\ conns \in [Ids -> Conn] /\ cmd \in Seq(Ids \cup {"udp"}) /\ req \in Request
        /\ replies \in Seq({"ok", "refused", "error"})
  BY <1>0, ConnectTypes
<1>2. CASE req.gateway
  <2>1. "gateway" \in Ids BY <1>1
  <2> QED BY <1>1, <1>2, <2>1, OpenInv DEF Proxy
<1>3. CASE ~req.gateway
  <2>1. /\ UNCHANGED netvars /\ pc' = "resolve" /\ pc = "route"
        /\ UNCHANGED <<req, client, next, head, replies, via, up, direct>>
    BY <1>3 DEF Proxy, netvars
  <2>2. Len(replies') <= 1 /\ \A i \in 1..Len(dataIn') : dataIn'[i].id # "dst"
    BY <1>0, <1>1, <2>1 DEF Place, netvars, Ended
  <2>3. OpenedOnce' BY <1>0, <2>1 DEF netvars, OpenedOnce
  <2> QED BY <1>0, <1>1, <2>1, <2>2, <2>3, BetweenInv DEF netvars, Ended
<1> QED BY <1>2, <1>3

LEMMA ResolveInv ==
    ASSUME ConnectInv, Resolve
    PROVE  ConnectInv'
<1>0. ConnectTypeOK /\ Place /\ via = None /\ OpenedOnce /\ pc = "resolve"
         /\ \A id \in Ids : Sound(conns[id]) /\ (~alive => conns[id].entry = None)
  BY ConnectFacts DEF Resolve, Ended
<1>1. Ids = {"gateway", "dst"} /\ None \notin Ids /\ dataIn \in Seq(Item) /\ Len(dataIn) <= DataIn
        /\ conns \in [Ids -> Conn] /\ cmd \in Seq(Ids \cup {"udp"}) /\ req \in Request
        /\ replies \in Seq({"ok", "refused", "error"}) /\ "udp" \notin Ids /\ Len(cmd) \in Nat
  BY <1>0, ConnectTypes
<1>2. CASE req.target # "domain"
  <2>1. "dst" \in Ids BY <1>1
  <2> QED BY <1>1, <1>2, <2>1, OpenInv DEF Resolve
<1>3. CASE req.target = "domain"
  <2>1. /\ UNCHANGED <<conns, dataIn, udp, alive>> /\ pc' = "asking"
        /\ cmd' = (IF alive THEN Append(cmd, "udp") ELSE cmd)
        /\ UNCHANGED <<req, client, next, head, replies, via, up, direct>>
    BY <1>3 DEF Resolve
  <2>2. Len(replies') <= 1 /\ \A i \in 1..Len(dataIn') : dataIn'[i].id # "dst"
    BY <1>0, <1>1, <2>1 DEF Place, Ended
  <2>3. /\ cmd' \in Seq(Ids \cup {"udp"})
        /\ \A i \in 1..Len(cmd') : cmd'[i] \in Ids => i \in 1..Len(cmd) /\ cmd'[i] = cmd[i]
    BY <1>1, <2>1
  <2>4. OpenedOnce' BY <1>0, <2>1, <2>3 DEF OpenedOnce
  <2> QED BY <1>0, <1>1, <2>1, <2>2, <2>3, <2>4, BetweenInv DEF Ended
<1> QED BY <1>2, <1>3

LEMMA DnsInv ==
    ASSUME ConnectInv, dns_resolve
    PROVE  ConnectInv'
<1>0. ConnectTypeOK /\ Place /\ via = None /\ OpenedOnce /\ pc = "asking"
         /\ \A id \in Ids : Sound(conns[id]) /\ (~alive => conns[id].entry = None)
  BY ConnectFacts DEF dns_resolve, Ended
<1>1. Ids = {"gateway", "dst"} /\ None \notin Ids /\ dataIn \in Seq(Item) /\ Len(dataIn) <= DataIn
        /\ conns \in [Ids -> Conn] /\ cmd \in Seq(Ids \cup {"udp"}) /\ req \in Request
        /\ replies \in Seq({"ok", "refused", "error"}) /\ "udp" \notin Ids /\ Len(cmd) \in Nat
  BY <1>0, ConnectTypes
<1>2. /\ dataIn' \in Seq(Item) /\ Len(dataIn') <= DataIn
      /\ \A i \in 1..Len(dataIn') :
            dataIn'[i] = UdpClose \/ \E j \in 1..Len(dataIn) : dataIn'[i] = dataIn[j]
  <2>1. UdpClose \in Item BY DEF Item
  <2> QED BY <1>0, <2>1, PushItem DEF dns_resolve
<1>3. UdpClose.id \notin Ids BY <1>1 DEF UdpClose
<1>4. \A i \in 1..Len(dataIn') :
         dataIn'[i].id \in Ids => \E j \in 1..Len(dataIn) : dataIn'[i] = dataIn[j]
  BY <1>2, <1>3
<1>5. CASE pc' = "opening" /\ open_tcp("dst") /\ UNCHANGED replies
  <2>1. "dst" \in Ids BY <1>1
  <2> QED BY <1>0, <1>2, <1>4, <1>5, <2>1, OpenInv DEF dns_resolve
<1>6. CASE Replied("error") /\ pc' = Ended /\ UNCHANGED <<cmd, conns>>
  <2>1. replies' \in Seq({"ok", "refused", "error"}) /\ Len(replies') <= 2
    <3>1. Len(replies) <= 1 BY <1>0 DEF Place, Ended
    <3> QED BY <1>1, <1>6, <3>1 DEF Replied
  <2>2. \A i \in 1..Len(dataIn') : dataIn'[i].id # "dst" BY <1>0, <1>1, <1>4 DEF Place
  <2>3. OpenedOnce' BY <1>0, <1>4, <1>6 DEF OpenedOnce
  <2> QED BY <1>0, <1>1, <1>2, <1>6, <2>1, <2>2, <2>3, BetweenInv DEF dns_resolve
<1> QED BY <1>5, <1>6 DEF dns_resolve

(* The application's end of a connection, alone, has moved. *)
Held(c, d) ==
    /\ d \in Conn /\ d.entry = c.entry /\ d.peer = c.peer /\ d.inbound = c.inbound
    /\ d.rx = c.rx \/ (c.rx = "app" /\ d.rx = "dropped")
    /\ d.answer \in {c.answer, "gone"}

(* It is still sound, and its stream is untouched. *)
LEMMA HeldSound ==
    ASSUME NEW c \in Conn, NEW d, Held(c, d), Sound(c)
    PROVE  Sound(d)
<1>1. InFlight(d) = InFlight(c) BY DEF Held, InFlight
<1>2. (d.rx \in {"app", "dropped"} <=> c.rx \in {"app", "dropped"}) /\ (d.rx # "none" <=> c.rx # "none")
  BY DEF Held
<1>3. d.entry = c.entry /\ d.peer = c.peer /\ d.inbound = c.inbound BY DEF Held
<1> QED BY <1>1, <1>2, <1>3 DEF Sound

LEMMA HeldKept ==
    ASSUME NEW c \in Conn, NEW d, Held(c, d), c.answer = "ok" => c.rx \in {"app", "dropped"}
    PROVE  Kept(c, d) /\ Later(c, d) /\ (c.rx \in {"app", "dropped"} => d.rx \in {"app", "dropped"})
BY DEF Held, Kept, Later, Blank

(* Dropping it, and reading from it. *)
LEMMA DroppedHeld ==
    ASSUME NEW c \in Conn
    PROVE  Held(c, Dropped(c))
<1> DEFINE r == IF c.rx = "app" THEN "dropped" ELSE c.rx
           q == IF c.rx = "app" THEN 0 ELSE c.queue
           d == [c EXCEPT !.answer = "gone", !.rx = r, !.queue = q]
<1>1. Dropped(c) = d BY DEF Dropped, Conn
<1>2. r \in {"none", "stack", "app", "dropped"} /\ q \in 0..AppQueue
        /\ (r = c.rx \/ (c.rx = "app" /\ r = "dropped"))
  BY ConnFields, NetstackAssumption
<1> HIDE DEF r, q
<1>3. d \in Conn BY <1>2, Zenon DEF Conn
<1>4. d.entry = c.entry /\ d.peer = c.peer /\ d.inbound = c.inbound /\ d.rx = r /\ d.answer = "gone"
  BY DEF Conn
<1> HIDE DEF d
<1> QED BY <1>1, <1>2, <1>3, <1>4 DEF Held

LEMMA ReadHeld ==
    ASSUME NEW c \in Conn, c.queue > 0
    PROVE  Held(c, [c EXCEPT !.queue = @ - 1])
<1> DEFINE d == [c EXCEPT !.queue = @ - 1]
<1>1. c.queue - 1 \in 0..AppQueue BY ConnFields, NetstackAssumption
<1>2. d \in Conn BY <1>1, Zenon DEF Conn
<1>3. d.entry = c.entry /\ d.peer = c.peer /\ d.inbound = c.inbound /\ d.rx = c.rx
         /\ d.answer = c.answer
  BY DEF Conn
<1> HIDE DEF d
<1>4. Held(c, d) BY <1>2, <1>3 DEF Held
<1> QED BY <1>4 DEF d

(* A step of the application on one connection, with what it sends. *)
LEMMA HeldStep ==
    ASSUME ConnectInv, NEW id \in Ids, NEW d, Held(conns[id], d), conns' = [conns EXCEPT ![id] = d],
           UNCHANGED <<cmd, alive>>,
           \A i \in 1..Len(dataIn') : dataIn'[i].id \in Ids =>
              \/ \E j \in 1..Len(dataIn) : dataIn'[i] = dataIn[j]
              \/ conns[dataIn'[i].id].rx \in {"app", "dropped"}
    PROVE  /\ conns' \in [Ids -> Conn] /\ OpenedOnce'
           /\ conns'[id] = d /\ \A j \in Ids : j # id => conns'[j] = conns[j]
           /\ \A j \in Ids : Sound(conns'[j]) /\ (~alive' => conns'[j].entry = None)
           /\ \A j \in Ids : /\ Kept(conns[j], conns'[j]) /\ conns'[j].peer = conns[j].peer
                             /\ conns[j].rx \in {"app", "dropped"} => conns'[j].rx \in {"app", "dropped"}
<1>0. /\ ConnectTypeOK /\ OpenedOnce /\ conns \in [Ids -> Conn]
      /\ \A j \in Ids : Sound(conns[j]) /\ (~alive => conns[j].entry = None)
      /\ \A i \in 1..Len(dataIn) :
            dataIn[i].id \in Ids => conns[dataIn[i].id].rx \in {"app", "dropped"}
      /\ \A j \in Ids : conns[j].answer = "ok" => conns[j].rx \in {"app", "dropped"}
  BY ConnectFacts, ConnectTypes DEF OpenedOnce
<1>1. conns' \in [Ids -> Conn] /\ conns'[id] = d /\ \A j \in Ids : j # id => conns'[j] = conns[j]
  BY <1>0 DEF Held
<1>2. \A j \in Ids : Held(conns[j], conns'[j])
  <2> SUFFICES ASSUME NEW j \in Ids, j # id PROVE Held(conns[j], conns'[j]) BY <1>1
  <2> QED BY <1>0, <1>1 DEF Held
<1>3. \A j \in Ids : Sound(conns'[j]) BY <1>0, <1>2, HeldSound
<1>4. \A j \in Ids : /\ Kept(conns[j], conns'[j]) /\ Later(conns[j], conns'[j])
                     /\ conns[j].rx \in {"app", "dropped"} => conns'[j].rx \in {"app", "dropped"}
  BY <1>0, <1>2, HeldKept
<1>5. \A j \in Ids : ~alive' => conns'[j].entry = None BY <1>0, <1>2 DEF Held
<1>6. OpenedOnce'
  <2>1. \A i \in 1..Len(dataIn') :
              dataIn'[i].id \in Ids => conns'[dataIn'[i].id].rx \in {"app", "dropped"}
    BY <1>0, <1>4
  <2> QED BY <1>0, <1>4, <2>1, OpenedLater
<1>7. \A j \in Ids : conns'[j].peer = conns[j].peer BY <1>2 DEF Held
<1> QED BY <1>1, <1>3, <1>4, <1>5, <1>6, <1>7

-----------------------------------------------------------------------------
(* What is queued before the end of the upload. *)
LEMMA QueuedChunks ==
    ASSUME NEW id, NEW w, Queued(id, w, 0)
    PROVE  \A i \in 1..Len(dataIn) : i > Len(dataIn) - w =>
               dataIn[i] = Tcp(id, Chunk(id, (Pushed(id) + 0) - (Len(dataIn) - i)))
<1> SUFFICES ASSUME NEW i \in 1..Len(dataIn), i > Len(dataIn) - w
             PROVE  dataIn[i] = Tcp(id, Chunk(id, (Pushed(id) + 0) - (Len(dataIn) - i)))
  OBVIOUS
<1>1. ~(0 = 1) OBVIOUS
<1> QED BY <1>1 DEF Queued

(* The stream, as the application adds to it: a chunk, or, k, its end. *)
LEMMA PushStream ==
    ASSUME ConnectInv, NEW id \in Ids, Stream(id), ~Over, NEW k \in {0, 1}, NEW item \in Item,
           item = IF k = 1 THEN TcpClose(id) ELSE Tcp(id, Chunk(id, Pushed(id) + 1)),
           Room, Push(item), head' = head, conns' = conns,
           Pushed(id)' + k = Pushed(id) + 1, Pushed(id)' \in Int, k = 1 => Over'
    PROVE  Stream(id)'
<1> DEFINE c == conns[id]
           n == Len(dataIn)
           t == Pushed(id)
<1>0. ConnectTypeOK /\ c \in Conn /\ n \in Nat /\ t \in Int /\ (~alive => c.entry = None)
  BY ConnectFacts, ConnectTypes, PushedInt
<1>1. \A p : Chunk(id, p)' = Chunk(id, p) BY DEF Chunk
<1>2. InOrder(id, Flow(conns[id]))' BY <1>1 DEF InOrder, Stream
<1>3. Len(c.peer.got) <= Pushed(id)'
  <2>1. Len(c.peer.got) <= t /\ Len(c.peer.got) \in Nat BY <1>0, GotLen DEF Stream
  <2> DEFINE u == Pushed(id)'
             g == Len(c.peer.got)
  <2>2. u + k = t + 1 /\ u \in Int /\ g <= t /\ g \in Nat BY <2>1
  <2> HIDE DEF u, t, g
  <2>3. g <= u BY <1>0, <2>2
  <2> QED BY <2>3 DEF u, g
<1>4. ~(c.peer.gotFin /\ ~c.peer.fin /\ c.rx = "app") BY DEF Stream
<1>5. ASSUME c.entry # None
      PROVE  Drained(c) /\ \E w \in 0..Len(dataIn'), j \in {0, 1} : Queued(id, w, j)'
  <2>1. PICK w \in 0..Len(dataIn), j \in {0, 1} : Queued(id, w, j) BY <1>5 DEF Stream
  <2>a. j = 0 BY <2>1 DEF Queued
  <2>2. /\ j = 0 /\ ~c.entry.half_closed /\ w <= n
        /\ \A i \in 1..n : dataIn[i].id = id <=> i > n - w
        /\ \A i \in 1..n : i > n - w => dataIn[i] = Tcp(id, Chunk(id, (t + 0) - (n - i)))
        /\ Len(Flow(c)) + 0 + w = t + 0
    <3>1. Queued(id, w, 0) BY <2>1, <2>a
    <3>2. c.entry.half_closed <=> (0 = 1 /\ w = 0) BY <3>1 DEF Queued
    <3>3. ~(0 = 1) OBVIOUS
    <3>4. ~c.entry.half_closed BY <3>2, <3>3
    <3>5. \A i \in 1..n : i > n - w => dataIn[i] = Tcp(id, Chunk(id, (t + 0) - (n - i)))
      BY <3>1, QueuedChunks
    <3>6. Len(Flow(c)) + 0 + w = t + 0 BY <3>1, <3>4 DEF Queued
    <3>7. w <= n /\ \A i \in 1..n : dataIn[i].id = id <=> i > n - w BY <3>1 DEF Queued
    <3> QED BY <2>a, <3>4, <3>5, <3>6, <3>7
  <2>3. alive BY <1>0, <1>5
  <2>4. /\ Len(dataIn') = n + 1 /\ dataIn'[n + 1] = item
        /\ \A i \in 1..n : dataIn'[i] = dataIn[i]
    BY <1>0, <2>3, PushItem
  <2>5. item.id = id BY DEF Tcp, TcpClose
  <2>6. w \in Nat /\ w + 1 \in 0..Len(dataIn') /\ w + 1 <= n + 1 BY <1>0, <2>1, <2>4
  <2>7. Len(Flow(c)) \in Nat
    <3>1. Flow(c) \in Seq(Nat) BY <1>0, FlowSeq
    <3> QED BY <3>1
  <2> DEFINE u == Pushed(id)'
             f == Len(Flow(c))
             C(p) == Chunk(id, p)
             dd == dataIn'
  <2>8. \A i \in 1..(n + 1) : dd[i].id = id <=> i > (n + 1) - (w + 1)
    <3>1. /\ dd[n + 1].id = id /\ w \in Nat /\ n \in Nat
          /\ \A i \in 1..n : dd[i].id = id <=> i > n - w
      BY <1>0, <2>2, <2>4, <2>5, <2>6
    <3> HIDE DEF dd, n
    <3>2. (n + 1) - (w + 1) = n - w /\ n + 1 > n - w BY <3>1
    <3>3. \A i \in 1..(n + 1) : i \in 1..n \/ i = n + 1 BY <3>1
    <3> QED BY <3>1, <3>2, <3>3
  <2>9. \A i \in 1..(n + 1) : i > (n + 1) - (w + 1) =>
           dd[i] = IF k = 1 /\ i = n + 1 THEN TcpClose(id)
                   ELSE Tcp(id, C((u + k) - ((n + 1) - i)))
    <3>0. u + k = t + 1 /\ u \in Int OBVIOUS
    <3>1. dd[n + 1] = IF k = 1 THEN TcpClose(id) ELSE Tcp(id, C(t + 1)) BY <2>4
    <3>2. \A i \in 1..n : i > n - w => dd[i] = Tcp(id, C((t + 0) - (n - i))) BY <2>2, <2>4
    <3> HIDE DEF C, dd, u, t, n
    <3> SUFFICES ASSUME NEW i \in 1..(n + 1), i > (n + 1) - (w + 1)
                 PROVE  dd[i] = IF k = 1 /\ i = n + 1 THEN TcpClose(id)
                                ELSE Tcp(id, C((u + k) - ((n + 1) - i)))
      OBVIOUS
    <3>3. CASE i = n + 1
      <4>1. (u + k) - ((n + 1) - i) = t + 1 BY <1>0, <3>0, <3>3
      <4> QED BY <3>1, <3>3, <4>1
    <3>4. CASE i # n + 1
      <4>0. w \in Nat /\ n \in Nat BY <1>0, <2>6
      <4>1. i \in 1..n /\ i > n - w BY <3>4, <4>0
      <4>2. (u + k) - ((n + 1) - i) = (t + 0) - (n - i) BY <1>0, <3>0
      <4> QED BY <3>2, <3>4, <4>1, <4>2
    <3> QED BY <3>3, <3>4
  <2>10. f + 0 + (w + 1) = u + k
    <3>1. f + 0 + w = t + 0 /\ u + k = t + 1 BY <2>2
    <3> HIDE DEF f, t, u
    <3> QED BY <1>0, <2>6, <2>7, <3>1 DEF f
  <2>11. Queued(id, w + 1, k)'
    <3>1. ~(w + 1 = 0) BY <2>6
    <3> QED BY <1>1, <2>2, <2>4, <2>6, <2>8, <2>9, <2>10, <3>1 DEF Queued
  <2> QED BY <1>5, <2>6, <2>11 DEF Stream
<1> QED BY <1>2, <1>3, <1>4, <1>5 DEF Stream

(* The gateway's connection is there: the CONNECT is sent. *)
LEMMA GatewayOpenedInv ==
    ASSUME ConnectInv, GatewayOpened
    PROVE  ConnectInv'
<1> DEFINE id == "gateway"
           item == Tcp(id, 0)
<1>0. ConnectTypeOK /\ Place /\ via = None /\ OpenedOnce /\ pc = "gateway" /\ pc' = "answer"
         /\ \A j \in Ids : Sound(conns[j]) /\ (~alive => conns[j].entry = None)
  BY ConnectFacts DEF GatewayOpened, Ended
<1>1. id \in Ids /\ Ids = {"gateway", "dst"} /\ None \notin Ids /\ next \in Nat /\ Len(head) \in Nat
  BY <1>0, ConnectTypes
<1>2. Room /\ Push(item) /\ item \in Item /\ item.id = id
  BY <1>1 DEF GatewayOpened, Item, Tcp
<1> HIDE DEF item
<1>3. /\ dataIn' \in Seq(Item) /\ Len(dataIn') <= DataIn
      /\ \A i \in 1..Len(dataIn') :
            dataIn'[i] = item \/ \E j \in 1..Len(dataIn) : dataIn'[i] = dataIn[j]
  BY <1>0, <1>2, PushItem
<1>4. conns[id].rx \in {"app", "dropped"}
  BY <1>0, <1>1 DEF GatewayOpened, OpenedOnce
<1>5. UNCHANGED <<conns, cmd, udp, alive, req, client, next, head, replies, via, up, direct>>
  BY DEF GatewayOpened
<1>6. OpenedOnce' BY <1>0, <1>2, <1>3, <1>4, <1>5 DEF OpenedOnce
<1>7. ConnectTypeOK'
  <2>1. NetTypeOK' BY <1>0, <1>3, <1>5 DEF NetTypeOK, Item, ConnectTypeOK
  <2> QED BY <1>0, <1>3, <1>5, <2>1 DEF ConnectTypeOK
<1>8. Place'
  <2>1. \A i \in 1..Len(dataIn') : dataIn'[i].id # "dst"
    BY <1>0, <1>1, <1>2, <1>3 DEF Place
  <2> QED BY <1>0, <1>1, <1>4, <1>5, <2>1 DEF Place, Ended
<1>9. \A j \in Ids : Follows(j)' => Stream(j)'
  <2> SUFFICES ASSUME NEW j \in Ids, Follows(j)' PROVE Stream(j)' OBVIOUS
  <2>1. j = id BY <1>0, <1>1, <1>5 DEF Follows
  <2>2. Stream(id) BY <1>0, <1>1, ConnectFacts DEF Follows
  <2>3. next = Len(head) + 1 BY <1>0 DEF Place, Ended
  <2>4. Pushed(id) = 0 /\ Pushed(id)' = 1 BY <1>0, <1>1, <1>5, <2>3 DEF Pushed
  <2>5. item = Tcp(id, Chunk(id, 1)) BY DEF item, Chunk
  <2>6. ~Over BY <1>0 DEF Over, Ended
  <2> DEFINE k == 0
  <2>7. /\ k \in {0, 1} /\ Pushed(id)' + k = Pushed(id) + 1 /\ Pushed(id)' \in Int
        /\ item = IF k = 1 THEN TcpClose(id) ELSE Tcp(id, Chunk(id, Pushed(id) + 1))
        /\ k = 1 => Over'
    <3>1. 0 + 1 = 1 /\ 1 + 0 = 1 /\ ~(0 = 1) /\ 1 \in Int OBVIOUS
    <3> QED BY <2>4, <2>5, <3>1
  <2> HIDE DEF k, id
  <2>8. Stream(id)' BY <1>1, <1>2, <1>5, <2>2, <2>6, <2>7, PushStream
  <2> QED BY <2>1, <2>8
<1> QED BY <1>0, <1>5, <1>6, <1>7, <1>8, <1>9 DEF ConnectInv

(* The gateway did not answer in time, or not well. *)
LEMMA GatewayFailsInv ==
    ASSUME ConnectInv, GatewayFails
    PROVE  ConnectInv'
<1> DEFINE id == "gateway"
           d == Dropped(conns[id])
<1>0. ConnectTypeOK /\ Place /\ via = None /\ pc \in {"gateway", "answer"} /\ pc' = "resolve"
  BY ConnectFacts DEF GatewayFails, Ended, retire_gateway
<1>1. id \in Ids /\ Ids = {"gateway", "dst"} /\ None \notin Ids /\ req \in Request
        /\ conns \in [Ids -> Conn] /\ cmd \in Seq(Ids \cup {"udp"}) /\ dataIn \in Seq(Item)
        /\ Len(dataIn) <= DataIn /\ replies \in Seq({"ok", "refused", "error"})
  BY <1>0, ConnectTypes
<1>2. conns' = [conns EXCEPT ![id] = d] BY <1>1 DEF GatewayFails
<1>3. Held(conns[id], d) BY <1>1, DroppedHeld
<1>4. UNCHANGED <<cmd, dataIn, udp, alive, client, next, head, replies, via, up, direct>>
  BY DEF GatewayFails
<1> HIDE DEF id, d
<1>5. /\ conns' \in [Ids -> Conn] /\ OpenedOnce' /\ \A j \in Ids : j # id => conns'[j] = conns[j]
      /\ \A j \in Ids : Sound(conns'[j]) /\ (~alive' => conns'[j].entry = None)
  BY <1>1, <1>2, <1>3, <1>4, HeldStep
<1>6. req' \in Request /\ req'.up = req.up
  BY <1>1 DEF GatewayFails, retire_gateway, Request
<1>7. Len(replies') <= 1 /\ \A i \in 1..Len(dataIn') : dataIn'[i].id # "dst"
  BY <1>0, <1>1, <1>4 DEF Place, Ended
<1>8. conns'["dst"] = conns["dst"] BY <1>1, <1>5 DEF id
<1> QED BY <1>0, <1>1, <1>4, <1>5, <1>6, <1>7, <1>8, BetweenInv DEF Ended

(* It answered. *)
LEMMA GatewayAnswersInv ==
    ASSUME ConnectInv, GatewayAnswers
    PROVE  ConnectInv'
<1> DEFINE id == "gateway"
<1>0. ConnectTypeOK /\ Place /\ via = None /\ pc = "answer" /\ Readable(id)
        /\ conns[id].rx \in {"app", "dropped"} /\ next = Len(head) + 1 /\ Len(replies) <= 1
        /\ \A i \in 1..Len(dataIn) : dataIn[i].id # "dst"
  <2>1. pc = "answer" /\ Readable(id) BY DEF GatewayAnswers
  <2>2. ConnectTypeOK /\ Place /\ via = None BY <2>1, ConnectFacts DEF Ended
  <2>3. None # "dst" BY <2>2, ConnectTypes
  <2> QED BY <2>1, <2>2, <2>3 DEF Place, Ended
<1>1. id \in Ids /\ Ids = {"gateway", "dst"} /\ None \notin Ids /\ req \in Request
        /\ conns \in [Ids -> Conn] /\ conns[id] \in Conn
        /\ cmd \in Seq(Ids \cup {"udp"}) /\ dataIn \in Seq(Item)
        /\ Len(dataIn) <= DataIn /\ replies \in Seq({"ok", "refused", "error"})
  BY <1>0, ConnectTypes
<1>2. UNCHANGED <<cmd, udp, alive, client, next, head, replies, up, direct>>
  BY DEF GatewayAnswers
<1>3. CASE /\ pc' = "reply" /\ via' = id
           /\ conns' = [conns EXCEPT ![id].queue = @ - 1]
           /\ UNCHANGED <<dataIn, req>>
  <2> DEFINE d == [conns[id] EXCEPT !.queue = @ - 1]
  <2>1. conns' = [conns EXCEPT ![id] = d] BY <1>1, <1>3
  <2>2. Held(conns[id], d) BY <1>0, <1>1, ReadHeld DEF Readable
  <2> HIDE DEF d
  <2>3. /\ conns' \in [Ids -> Conn] /\ OpenedOnce' /\ \A j \in Ids : j # id => conns'[j] = conns[j]
        /\ \A j \in Ids : Sound(conns'[j]) /\ (~alive' => conns'[j].entry = None)
        /\ \A j \in Ids : /\ Kept(conns[j], conns'[j]) /\ conns'[j].peer = conns[j].peer
                          /\ conns[j].rx \in {"app", "dropped"} => conns'[j].rx \in {"app", "dropped"}
    BY <1>1, <1>2, <1>3, <2>1, <2>2, HeldStep
  <2>4. ConnectTypeOK'
    <3>1. NetTypeOK' BY <1>0, <1>1, <1>2, <1>3, <2>3, NetTypes
    <3> QED BY <1>0, <1>1, <1>2, <1>3, <3>1 DEF ConnectTypeOK
  <2>5. Len(conns'[id].peer.got) > 0
    <3> DEFINE g == conns[id].peer.got
    <3>1. Contains(g, 0) BY DEF GatewayAnswers
    <3>2. Len(g) \in Nat BY <1>1, GotLen
    <3>3. \E i \in 1..Len(g) : g[i] = 0 BY <3>1 DEF Contains
    <3> HIDE DEF g
    <3>4. Len(g) > 0 BY <3>2, <3>3
    <3> QED BY <1>1, <2>3, <3>4 DEF g
  <2>6. Place'
    BY <1>0, <1>1, <1>2, <1>3, <2>3, <2>5 DEF Place, Ended
  <2>7. \A j \in Ids : Follows(j)' => Stream(j)'
    <3> SUFFICES ASSUME NEW j \in Ids, Follows(j)' PROVE Stream(j)' OBVIOUS
    <3>1. j = id BY <1>1, <1>3 DEF Follows
    <3>2. Stream(id) BY <1>0, <1>1, ConnectFacts DEF Follows
    <3>3. Pushed(id)' = Pushed(id) BY <1>0, <1>2, <1>3 DEF Pushed
    <3>4. ~Over BY <1>0 DEF Over, Ended
    <3> HIDE DEF id
    <3>5. Stream(id)' BY <1>1, <1>2, <1>3, <2>3, <3>2, <3>3, <3>4, StreamFrame
    <3> QED BY <3>1, <3>5
  <2> QED BY <2>3, <2>4, <2>6, <2>7 DEF ConnectInv
<1>4. CASE /\ Room /\ Push(TcpClose(id)) /\ retire_gateway
           /\ conns' = [conns EXCEPT ![id] = Dropped(@)]
           /\ UNCHANGED via
  <2> DEFINE d == Dropped(conns[id])
             item == TcpClose(id)
  <2>1. conns' = [conns EXCEPT ![id] = d] BY <1>1, <1>4
  <2>2. Held(conns[id], d) BY <1>1, DroppedHeld
  <2>3. item \in Item /\ item.id = id BY <1>1 DEF Item, TcpClose
  <2>4. Room /\ Push(item) BY <1>4
  <2> HIDE DEF d, item
  <2>5. /\ dataIn' \in Seq(Item) /\ Len(dataIn') <= DataIn
        /\ \A i \in 1..Len(dataIn') :
              dataIn'[i] = item \/ \E j \in 1..Len(dataIn) : dataIn'[i] = dataIn[j]
    BY <1>0, <2>3, <2>4, PushItem
  <2>6. /\ conns' \in [Ids -> Conn] /\ OpenedOnce' /\ \A j \in Ids : j # id => conns'[j] = conns[j]
        /\ \A j \in Ids : Sound(conns'[j]) /\ (~alive' => conns'[j].entry = None)
    BY <1>0, <1>1, <1>2, <2>1, <2>2, <2>3, <2>5, HeldStep
  <2>7. req' \in Request /\ req'.up = req.up /\ pc' = "resolve"
    BY <1>1, <1>4 DEF retire_gateway, Request
  <2>8. \A i \in 1..Len(dataIn') : dataIn'[i].id # "dst" BY <1>0, <2>3, <2>5
  <2>9. conns'["dst"] = conns["dst"] BY <1>1, <2>6
  <2> QED BY <1>0, <1>1, <1>2, <1>4, <2>5, <2>6, <2>7, <2>8, <2>9, BetweenInv DEF Ended
<1> QED BY <1>3, <1>4 DEF GatewayAnswers

-----------------------------------------------------------------------------
(* The relay *)

(* The destination answers. *)
LEMMA OpenedInv ==
    ASSUME ConnectInv, Opened
    PROVE  ConnectInv'
<1>0. /\ ConnectTypeOK /\ Place /\ OpenedOnce /\ via = None /\ pc = "opening"
      /\ UNCHANGED <<netvars, req, client, next, head, up, direct>>
  BY ConnectFacts DEF Opened, Ended
<1>1. Ids = {"gateway", "dst"} /\ None \notin Ids /\ replies \in Seq({"ok", "refused", "error"})
  BY <1>0, ConnectTypes
<1>2. Len(replies) <= 1 /\ Len(replies) \in Nat BY <1>0, <1>1 DEF Place, Ended
<1>3. CASE conns["dst"].answer = "ok" /\ pc' = "reply" /\ via' = "dst" /\ UNCHANGED replies
  <2>1. conns["dst"].rx \in {"app", "dropped"} BY <1>0, <1>1, <1>3 DEF OpenedOnce
  <2>2. ConnectTypeOK' BY <1>0, <1>1, <1>3 DEF ConnectTypeOK, netvars, NetTypeOK
  <2>3. Place' BY <1>0, <1>1, <1>2, <1>3, <2>1 DEF Place, netvars, Ended
  <2>4. \A j \in Ids : Follows(j)' => Stream(j)'
    <3> DEFINE id == "dst"
    <3> SUFFICES ASSUME NEW j \in Ids, Follows(j)' PROVE Stream(j)' OBVIOUS
    <3>1. j = id BY <1>1, <1>3 DEF Follows
    <3>2. Stream(id) /\ id \in Ids BY <1>0, <1>1, ConnectFacts DEF Follows
    <3>3. Pushed(id)' = Pushed(id) BY <1>0, <1>3 DEF Pushed
    <3>4. ~Over BY <1>0 DEF Over, Ended
    <3>5. Kept(conns[id], conns'[id]) /\ dataIn' = dataIn BY <1>0 DEF Kept, netvars
    <3> HIDE DEF id
    <3>6. Stream(id)' BY <1>0, <3>2, <3>3, <3>4, <3>5, StreamFrame
    <3> QED BY <3>1, <3>6
  <2> QED BY <1>0, <2>2, <2>3, <2>4, RequestStep
<1>4. CASE pc' = Ended /\ Replied("error") /\ UNCHANGED via
  <2>1. replies' \in Seq({"ok", "refused", "error"}) /\ Len(replies') <= 2
    BY <1>1, <1>2, <1>4 DEF Replied
  <2>2. ConnectTypeOK' BY <1>0, <1>1, <1>4, <2>1 DEF ConnectTypeOK, netvars, NetTypeOK
  <2>3. Place' BY <1>0, <1>1, <1>4 DEF Place, netvars, Ended
  <2>4. \A j \in Ids : ~Follows(j)' BY <1>0, <1>1, <1>4 DEF Follows, Ended
  <2> QED BY <1>0, <2>2, <2>3, <2>4, RequestStep
<1> QED BY <1>3, <1>4 DEF Opened

(* The relay ends: its connection is dropped. *)
LEMMA EndsInv ==
    ASSUME ConnectInv, pc \in {"reply", "relay"}, pc' = Ended, up' = FALSE,
           conns' = [conns EXCEPT ![via] = Dropped(@)],
           UNCHANGED <<cmd, dataIn, udp, alive, req, client, next, head, replies, via, direct>>
    PROVE  ConnectInv'
<1> DEFINE d == Dropped(conns[via])
<1>0. ConnectTypeOK /\ Place BY ConnectFacts
<1>1. /\ Ids = {"gateway", "dst"} /\ None \notin Ids /\ conns \in [Ids -> Conn]
      /\ cmd \in Seq(Ids \cup {"udp"}) /\ dataIn \in Seq(Item) /\ Len(dataIn) <= DataIn
  BY <1>0, ConnectTypes
<1>2. via \in Ids BY <1>0 DEF Place, ConnectTypeOK
<1>3. conns' = [conns EXCEPT ![via] = d] /\ Held(conns[via], d) BY <1>1, <1>2, DroppedHeld
<1> HIDE DEF d
<1>4. /\ conns' \in [Ids -> Conn] /\ OpenedOnce'
      /\ \A j \in Ids : Sound(conns'[j]) /\ (~alive' => conns'[j].entry = None)
      /\ \A j \in Ids : /\ Kept(conns[j], conns'[j]) /\ conns'[j].peer = conns[j].peer
                        /\ conns[j].rx \in {"app", "dropped"} => conns'[j].rx \in {"app", "dropped"}
  BY <1>2, <1>3, HeldStep
<1>5. ConnectTypeOK'
  <2>1. NetTypeOK' BY <1>0, <1>1, <1>4, NetTypes
  <2> QED BY <1>0, <2>1 DEF ConnectTypeOK
<1>6. Place' BY <1>0, <1>1, <1>2, <1>4 DEF Place, Ended
<1>7. \A j \in Ids : Follows(j)' => Stream(j)'
  <2> SUFFICES ASSUME NEW j \in Ids, Follows(j)' PROVE Stream(j)' OBVIOUS
  <2>1. j = via BY DEF Follows, Ended
  <2>2. Stream(j) BY <2>1, ConnectFacts DEF Follows
  <2>3. Pushed(j)' = Pushed(j) BY DEF Pushed, Ended
  <2>4. Over => Over' BY DEF Over
  <2> QED BY <1>4, <2>2, <2>3, <2>4, StreamFrame
<1> QED BY <1>4, <1>5, <1>6, <1>7 DEF ConnectInv

(* The reply, and the relay's two pumps. *)
LEMMA ReplyInv ==
    ASSUME ConnectInv, Reply
    PROVE  ConnectInv'
<1>0. ConnectTypeOK /\ Place /\ pc = "reply"
  BY ConnectFacts DEF Reply
<1>1. /\ Ids = {"gateway", "dst"} /\ None \notin Ids /\ via \in Ids
      /\ replies \in Seq({"ok", "refused", "error"}) /\ Len(replies) <= 1 /\ ~up
  BY <1>0, ConnectTypes DEF Place, ConnectTypeOK, Ended
<1>2. CASE pc' = "relay" /\ up' = TRUE /\ Replied("ok") /\ UNCHANGED conns
  <2>0. UNCHANGED netvars /\ UNCHANGED <<req, client, next, head, via, direct>>
    BY <1>2 DEF Reply, netvars
  <2>1. replies' \in Seq({"ok", "refused", "error"}) /\ Len(replies') <= 2
    BY <1>1, <1>2 DEF Replied
  <2>2. ConnectTypeOK' BY <1>0, <1>2, <2>0, <2>1 DEF ConnectTypeOK, netvars, NetTypeOK
  <2>3. Place' BY <1>0, <1>1, <1>2, <2>0 DEF Place, netvars, Ended
  <2>4. \A j \in Ids : Follows(j)' => Stream(j)'
    <3> SUFFICES ASSUME NEW j \in Ids, Follows(j)' PROVE Stream(j)' OBVIOUS
    <3>1. Stream(j) BY <1>2, <2>0, ConnectFacts DEF Follows
    <3>2. Pushed(j)' = Pushed(j) BY <1>0, <1>2, <2>0 DEF Pushed
    <3>3. ~Over BY <1>0 DEF Over, Ended
    <3>4. Kept(conns[j], conns'[j]) /\ dataIn' = dataIn BY <2>0 DEF Kept, netvars
    <3> QED BY <2>0, <3>1, <3>2, <3>3, <3>4, StreamFrame
  <2> QED BY <2>0, <2>2, <2>3, <2>4, RequestStep
<1>3. CASE pc' = Ended /\ conns' = [conns EXCEPT ![via] = Dropped(@)] /\ UNCHANGED <<up, replies>>
  <2>1. up' = FALSE
    <3>1. up \in BOOLEAN BY <1>0 DEF ConnectTypeOK
    <3> QED BY <1>1, <1>3, <3>1
  <2> QED BY <1>0, <1>3, <2>1, EndsInv DEF Reply
<1> QED BY <1>2, <1>3 DEF Reply

LEMMA DownEndsInv ==
    ASSUME ConnectInv, DownEnds
    PROVE  ConnectInv'
BY EndsInv DEF DownEnds

LEMMA DownWritesInv ==
    ASSUME ConnectInv, DownWrites
    PROVE  ConnectInv'
<1> DEFINE d == [conns[via] EXCEPT !.queue = @ - 1]
<1>0. ConnectTypeOK /\ Place /\ OpenedOnce /\ pc = "relay" /\ Readable(via)
        /\ \A j \in Ids : Sound(conns[j])
  BY ConnectFacts DEF DownWrites
<1>1. Ids = {"gateway", "dst"} /\ via \in Ids /\ conns \in [Ids -> Conn] /\ conns[via] \in Conn
  BY <1>0, ConnectTypes DEF Place, ConnectTypeOK
<1>2. conns' = [conns EXCEPT ![via] = d] BY <1>1 DEF DownWrites
<1>3. Held(conns[via], d) /\ d.answer = conns[via].answer
  <2>1. Held(conns[via], d) BY <1>0, <1>1, ReadHeld DEF Readable
  <2> QED BY <1>1, <2>1 DEF Conn
<1> HIDE DEF d
<1>4. d \in Conn /\ Sound(d) /\ Kept(conns[via], d) /\ Later(conns[via], d)
  BY <1>0, <1>1, <1>3, HeldSound, HeldKept DEF Held, OpenedOnce
<1>5. Further(conns[via], d)
  <2>1. Len(conns[via].peer.got) \in Nat BY <1>1, GotLen
  <2> QED BY <1>3, <2>1 DEF Held, Further
<1>6. UNCHANGED svars /\ UNCHANGED <<cmd, dataIn, udp, alive>> BY DEF DownWrites, svars
<1> QED BY <1>1, <1>2, <1>4, <1>5, <1>6, OneConnection

(* The client's own doing. *)
LEMMA ClientShutsInv ==
    ASSUME ConnectInv, ClientShuts
    PROVE  ConnectInv'
<1>0. /\ ConnectTypeOK /\ Place /\ UNCHANGED netvars /\ client = "on" /\ client' \in {"eof", "gone"}
      /\ UNCHANGED <<pc, req, next, head, replies, via, up, direct>>
  BY ConnectFacts DEF ClientShuts
<1>1. ConnectTypeOK' BY <1>0 DEF ConnectTypeOK, netvars, NetTypeOK
<1>2. Place' BY <1>0 DEF Place, netvars
<1>3. \A j \in Ids : Follows(j)' => Stream(j)'
  <2> SUFFICES ASSUME NEW j \in Ids, Follows(j)' PROVE Stream(j)' OBVIOUS
  <2>1. Stream(j) BY <1>0, FollowsSame, ConnectFacts
  <2>2. Pushed(j)' = Pushed(j) BY <1>0, PushedSame
  <2>3. Over => Over' BY <1>0 DEF Over
  <2>4. Kept(conns[j], conns'[j]) /\ dataIn' = dataIn BY <1>0 DEF Kept, netvars
  <2> QED BY <1>0, <2>1, <2>2, <2>3, <2>4, StreamFrame
<1> QED BY <1>0, <1>1, <1>2, <1>3, RequestStep

(* The upload. *)
LEMMA UpSendsInv ==
    ASSUME ConnectInv, UpSends
    PROVE  ConnectInv'
<1>0. ConnectTypeOK /\ Place /\ OpenedOnce /\ up /\ pc = "relay" /\ Room
        /\ \A j \in Ids : Sound(conns[j]) /\ (~alive => conns[j].entry = None)
        /\ UNCHANGED <<conns, cmd, udp, alive, pc, req, client, head, replies, via, direct>>
  BY ConnectFacts DEF UpSends, Place
<1>a. /\ conns' = conns /\ cmd' = cmd /\ udp' = udp /\ alive' = alive /\ pc' = pc /\ req' = req
      /\ client' = client /\ head' = head /\ replies' = replies /\ via' = via /\ direct' = direct
  BY DEF UpSends
<1>1. /\ Ids = {"gateway", "dst"} /\ None \notin Ids /\ via \in Ids /\ next \in Nat \ {0}
      /\ Len(head) \in Nat /\ req.up \in Nat /\ conns[via] \in Conn /\ cmd \in Seq(Ids \cup {"udp"})
      /\ next <= req.up + 1 /\ conns \in [Ids -> Conn]
  BY <1>0, ConnectTypes DEF Place, ConnectTypeOK
<1>2. Stream(via) /\ ~Over /\ conns[via].rx \in {"app", "dropped"}
  BY <1>0, <1>1, ConnectFacts DEF Follows, Over, Place
<1>3. PICK k \in {0, 1} :
         \/ k = 0 /\ ClientData /\ Push(Tcp(via, next)) /\ next' = next + 1 /\ UNCHANGED up
         \/ k = 1 /\ ClientEof /\ Push(TcpClose(via)) /\ up' = FALSE /\ UNCHANGED next
  BY DEF UpSends
<1> DEFINE item == IF k = 1 THEN TcpClose(via) ELSE Tcp(via, next)
<1>4. Push(item) /\ item \in Item /\ item.id = via
  BY <1>1, <1>3 DEF Item, TcpClose, Tcp
<1>5. next' \in 1..req.up + 1 /\ next' = next + (1 - k) /\ up' \in BOOLEAN
  <2>1. up \in BOOLEAN BY <1>0 DEF ConnectTypeOK
  <2>2. up' \in BOOLEAN BY <1>3, <2>1
  <2>3. CASE k = 0
    <3>1. next <= req.up /\ next' = next + 1 BY <1>3, <2>3 DEF ClientData
    <3> QED BY <1>1, <2>2, <2>3, <3>1
  <2>4. CASE k = 1
    <3>1. next' = next BY <1>3, <2>4
    <3> QED BY <1>1, <2>2, <2>4, <3>1
  <2> QED BY <2>3, <2>4
<1>6. Tcp(via, next) = Tcp(via, Chunk(via, Pushed(via) + 1))
  <2>1. CASE via = "dst" BY <1>1, <2>1 DEF Pushed, Chunk
  <2>2. CASE via = "gateway"
    <3> DEFINE g == Len(conns["gateway"].peer.got)
    <3>1. g > 0 /\ g <= Pushed(via) /\ g \in Nat
      BY <1>0, <1>1, <1>2, <2>2, GotLen DEF Place, Stream
    <3>2. Pushed(via) = next - Len(head) BY <1>0, <2>2 DEF Pushed
    <3> HIDE DEF g
    <3>3. Pushed(via) + 1 # 1 /\ (Len(head) + (Pushed(via) + 1)) - 1 = next BY <1>1, <3>1, <3>2
    <3>4. Len(head) + (Pushed(via) + 1) - 1 = next BY <1>1, <3>2
    <3> QED BY <2>2, <3>3, <3>4 DEF Chunk
  <2> QED BY <1>1, <2>1, <2>2
<1>7. item = IF k = 1 THEN TcpClose(via) ELSE Tcp(via, Chunk(via, Pushed(via) + 1))
  BY <1>6
<1> HIDE DEF item
<1>8. /\ dataIn' \in Seq(Item) /\ Len(dataIn') <= DataIn
      /\ \A i \in 1..Len(dataIn') :
            dataIn'[i] = item \/ \E j \in 1..Len(dataIn) : dataIn'[i] = dataIn[j]
  BY <1>0, <1>4, PushItem
<1>9. OpenedOnce' BY <1>0, <1>2, <1>4, <1>8 DEF OpenedOnce
<1>10. ConnectTypeOK'
  <2>1. NetTypeOK' BY <1>0, <1>1, <1>8, NetTypes
  <2>3. next' \in 1..req'.up + 1 BY <1>a, <1>5
  <2>4. up' \in BOOLEAN BY <1>5
  <2> QED BY <1>0, <1>a, <1>8, <2>1, <2>3, <2>4 DEF ConnectTypeOK
<1>11. Place'
  <2>1. via # "dst" => \A i \in 1..Len(dataIn') : dataIn'[i].id # "dst"
    BY <1>0, <1>4, <1>8 DEF Place
  <2> QED BY <1>0, <1>1, <1>2, <2>1 DEF Place, Ended
<1>12. Pushed(via)' + k = Pushed(via) + 1 /\ Pushed(via)' \in Int
  <2>0. via' = via /\ pc' = "relay" /\ pc = "relay" /\ head' = head
    <3>1. pc = "relay" BY <1>0
    <3> QED BY <1>a, <3>1
  <2>1. next' = next + (1 - k) /\ next \in Int /\ k \in Int /\ Len(head) \in Int BY <1>1, <1>5
  <2>2. CASE via = "dst"
    <3>1. Pushed(via) = next - 1 - Len(head) /\ Pushed(via)' = next' - 1 - Len(head)
      BY <2>0, <2>2 DEF Pushed
    <3> QED BY <2>1, <3>1
  <2>3. CASE via # "dst"
    <3>1. Pushed(via) = next - Len(head) /\ Pushed(via)' = next' - Len(head)
      BY <2>0, <2>3 DEF Pushed
    <3> QED BY <2>1, <3>1
  <2> QED BY <2>2, <2>3
<1>13. ASSUME k = 1 PROVE Over'
  <2>1. pc = "relay" /\ ClientEof /\ up' = FALSE /\ next' = next BY <1>0, <1>3, <1>13
  <2> QED BY <1>a, <2>1 DEF Over, ClientEof
<1>14. \A j \in Ids : Follows(j)' => Stream(j)'
  <2> SUFFICES ASSUME NEW j \in Ids, Follows(j)' PROVE Stream(j)' OBVIOUS
  <2>1. j = via BY <1>0 DEF Follows
  <2>2. Stream(via)'
    <3>1. PICK id \in Ids : id = via BY <1>1
    <3>2. /\ Stream(id) /\ item = IF k = 1 THEN TcpClose(id) ELSE Tcp(id, Chunk(id, Pushed(id) + 1))
          /\ Pushed(id)' + k = Pushed(id) + 1 /\ Pushed(id)' \in Int
      <4>1. via' = via BY <1>0
      <4> QED BY <1>2, <1>7, <1>12, <3>1, <4>1 DEF Pushed
    <3>3. Stream(id)' BY <1>0, <1>2, <1>4, <1>13, <3>2, PushStream
    <3> QED BY <1>0, <3>1, <3>3
  <2> QED BY <1>0, <2>1, <2>2
<1> QED BY <1>0, <1>9, <1>10, <1>11, <1>14 DEF ConnectInv

(* A step that changes nothing. *)
LEMMA ConnectStays ==
    ASSUME ConnectInv, UNCHANGED connectVars
    PROVE  ConnectInv'
<1>0. /\ ConnectTypeOK /\ Place /\ UNCHANGED netvars
      /\ UNCHANGED <<pc, req, client, next, head, replies, via, up, direct>>
  BY ConnectFacts DEF connectVars, svars
<1>1. ConnectTypeOK' BY <1>0 DEF ConnectTypeOK, netvars, NetTypeOK
<1>2. Place' BY <1>0 DEF Place, netvars
<1>3. \A j \in Ids : Follows(j)' => Stream(j)'
  <2> SUFFICES ASSUME NEW j \in Ids, Follows(j)' PROVE Stream(j)' OBVIOUS
  <2>1. Stream(j) BY <1>0, FollowsSame, ConnectFacts
  <2>2. Pushed(j)' = Pushed(j) BY <1>0, PushedSame
  <2>3. Over => Over' BY <1>0 DEF Over
  <2>4. Kept(conns[j], conns'[j]) /\ dataIn' = dataIn BY <1>0 DEF Kept, netvars
  <2> QED BY <1>0, <2>1, <2>2, <2>3, <2>4, StreamFrame
<1> QED BY <1>0, <1>1, <1>2, <1>3, RequestStep

(* Every step keeps the invariant. *)
LEMMA ConnectStep ==
    ASSUME ConnectInv, [ConnectNext]_connectVars
    PROVE  ConnectInv'
<1>1. CASE handle_connect
  BY <1>1, BeginInv, ProxyInv, GatewayOpenedInv, GatewayAnswersInv, GatewayFailsInv, ResolveInv,
     DnsInv, OpenedInv, ReplyInv, UpSendsInv, DownWritesInv, DownEndsInv DEF handle_connect
<1>2. CASE Stack BY <1>2, StackInv
<1>3. CASE \E id \in Ids : Peer(id) BY <1>3, PeerInv
<1>4. CASE Tunnel BY <1>4, TunnelInv
<1>5. CASE ClientShuts BY <1>5, ClientShutsInv
<1>6. CASE UNCHANGED connectVars BY <1>6, ConnectStays
<1> QED BY <1>1, <1>2, <1>3, <1>4, <1>5, <1>6 DEF ConnectNext

(* The invariant of a CONNECT: types, what a connection's fields say of     *)
(* each other, and where each chunk of the upload is on its way through     *)
(* data_in, the pending buffer and the socket.                              *)
THEOREM ConnectInvariant == ConnectSpec => []ConnectInv
<1>1. ConnectInit => ConnectInv BY InitConnect
<1>2. ConnectInv /\ [ConnectNext]_connectVars => ConnectInv' BY ConnectStep
<1> QED BY <1>1, <1>2, PTL DEF ConnectSpec

-----------------------------------------------------------------------------
(* What the far end has got is the beginning of the stream. *)
LEMMA GotInOrder ==
    ASSUME ConnectInv, via # None
    PROVE  /\ conns[via].peer.got \in Seq(Nat) /\ Len(conns[via].peer.got) \in Nat
           /\ \A i \in 1..Len(conns[via].peer.got) : conns[via].peer.got[i] = Chunk(via, i)
<1>0. via \in Ids /\ conns[via] \in Conn /\ Stream(via)
  BY ConnectFacts DEF ConnectTypeOK, Follows
<1> DEFINE g == conns[via].peer.got
           q == Flow(conns[via])
           C(i) == Chunk(via, i)
<1>1. /\ g \in Seq(Nat) /\ q \in Seq(Nat) /\ Len(g) <= Len(q) /\ \A i \in 1..Len(g) : g[i] = q[i]
  BY <1>0, FlowSeq, ConnFields
<1>2. \A i \in 1..Len(q) : q[i] = C(i) BY <1>0 DEF Stream, InOrder
<1> HIDE DEF g, q, C
<1>3. Len(g) \in Nat /\ Len(q) \in Nat BY <1>1
<1>4. \A i \in 1..Len(g) : g[i] = C(i)
  <2> SUFFICES ASSUME NEW i \in 1..Len(g) PROVE g[i] = C(i) OBVIOUS
  <2>1. i \in 1..Len(q) BY <1>1, <1>3
  <2> QED BY <1>1, <1>2, <2>1
<1> QED BY <1>1, <1>3, <1>4 DEF g, C

(* From the order of the stream to the properties. *)
LEMMA UploadNoGap ==
    ASSUME ConnectInv
    PROVE  NoGap
<1>0. ConnectTypeOK /\ Place BY ConnectFacts
<1>1. Ids = {"gateway", "dst"} /\ Len(head) \in Nat /\ direct \in Seq(Nat) BY <1>0, ConnectTypes
<1>2. direct = [i \in DOMAIN direct |-> i]
  <2>1. \A i \in 1..Len(direct) : direct[i] = i BY <1>0 DEF Place
  <2>2. direct = [i \in 1..Len(direct) |-> direct[i]] /\ DOMAIN direct = 1..Len(direct) BY <1>1
  <2> QED BY <2>1, <2>2
<1>3. ASSUME via # None PROVE Uploaded = [i \in DOMAIN Uploaded |-> Len(head) + i]
  <2> DEFINE g == conns[via].peer.got
             h == Len(head)
  <2>1. /\ g \in Seq(Nat) /\ Len(g) \in Nat /\ \A i \in 1..Len(g) : g[i] = Chunk(via, i)
    BY <1>3, GotInOrder
  <2>2. via = "dst" \/ via = "gateway" BY <1>0, <1>1, <1>3 DEF ConnectTypeOK
  <2>3. CASE via = "dst"
    <3>1. Uploaded = g BY <2>3 DEF Uploaded
    <3>2. \A i \in 1..Len(g) : g[i] = h + i BY <2>1, <2>3 DEF Chunk
    <3> HIDE DEF g, h
    <3>3. g = [i \in 1..Len(g) |-> g[i]] /\ DOMAIN g = 1..Len(g) BY <2>1
    <3>4. g = [i \in DOMAIN g |-> h + i] BY <3>2, <3>3
    <3> QED BY <3>1, <3>4 DEF h
  <2>4. CASE via = "gateway"
    <3>1. Uploaded = Tail(g) BY <2>4 DEF Uploaded
    <3>2. Len(g) > 0 BY <1>0, <2>4 DEF Place
    <3>3. h \in Nat /\ \A i \in 1..Len(g) : i # 1 => g[i] = h + i - 1 BY <1>1, <2>1, <2>4 DEF Chunk
    <3> HIDE DEF g, h
    <3> DEFINE t == Tail(g)
    <3>4. t \in Seq(Nat) /\ Len(t) = Len(g) - 1 /\ \A i \in 1..Len(t) : t[i] = g[i + 1]
      BY <2>1, <3>2
    <3>5. \A i \in 1..Len(t) : i + 1 \in 1..Len(g) /\ i + 1 # 1 /\ h + (i + 1) - 1 = h + i
      BY <2>1, <3>3, <3>4
    <3>6. \A i \in 1..Len(t) : t[i] = h + i BY <3>3, <3>4, <3>5
    <3> HIDE DEF t
    <3>7. t = [i \in 1..Len(t) |-> t[i]] /\ DOMAIN t = 1..Len(t) BY <3>4
    <3>8. t = [i \in DOMAIN t |-> h + i] BY <3>6, <3>7
    <3> QED BY <3>1, <3>8 DEF h, t
  <2> QED BY <2>2, <2>3, <2>4
<1> QED BY <1>2, <1>3 DEF NoGap

LEMMA UploadWhole ==
    ASSUME ConnectInv
    PROVE  EofAfterData
<1> SUFFICES ASSUME via # None, conns[via].peer.gotFin, ~conns[via].peer.fin, client # "gone",
                    conns[via].rx = "app"
             PROVE  Len(head) + Len(Uploaded) = req.up
  BY DEF EofAfterData
<1>0. ConnectTypeOK /\ Place /\ via \in Ids /\ Stream(via)
  BY ConnectFacts DEF ConnectTypeOK, Follows
<1>1. /\ Ids = {"gateway", "dst"} /\ Len(head) \in Nat /\ next \in Nat /\ req.up \in Nat
      /\ next <= req.up + 1
  BY <1>0, ConnectTypes
<1> DEFINE g == conns[via].peer.got
<1>2. Over /\ Len(g) = Pushed(via) BY <1>0 DEF Stream
<1>3. next = req.up + 1 /\ pc \in {"relay", Ended} BY <1>1, <1>2 DEF Over
<1>4. g \in Seq(Nat) /\ Len(g) \in Nat BY GotInOrder
<1>5. CASE via = "dst"
  <2>1. Uploaded = g /\ Len(g) = next - 1 - Len(head) BY <1>2, <1>5 DEF Uploaded, Pushed
  <2> HIDE DEF g
  <2> QED BY <1>1, <1>3, <2>1
<1>6. CASE via = "gateway"
  <2>1. Uploaded = Tail(g) /\ Len(g) = next - Len(head) BY <1>2, <1>3, <1>6 DEF Uploaded, Pushed, Ended
  <2>2. Len(g) > 0 BY <1>0, <1>6 DEF Place
  <2> HIDE DEF g
  <2>3. Len(Tail(g)) = Len(g) - 1 BY <1>4, <2>2
  <2> QED BY <1>1, <1>3, <2>1, <2>3
<1> QED BY <1>0, <1>1, <1>5, <1>6

(* What the client uploads through handle_connect reaches the far end       *)
(* intact: in order, without a gap, whole when the far end is told that it  *)
(* ends, through queues that keep to their capacities, whatever those are   *)
(* and however many chunks are sent.                                        *)
THEOREM ConnectUploadIntact == ConnectSpec => []UploadIntact
<1>1. ConnectInv => UploadIntact
  BY ConnectFacts, UploadNoGap, UploadWhole DEF UploadIntact
<1> QED BY <1>1, ConnectInvariant, PTL

-----------------------------------------------------------------------------
(* The download *)

LossOf(c, d) ==
    c.entry # None /\ d.entry = None /\ c.rx = "app"
        => c.queue + c.entry.rxbuf + InFlight(c) = d.queue \/ d.queue = AppQueue

LEMMA IterateOne ==
    ASSUME NEW cs, NEW carried, NEW expired, Iterate(cs, carried, expired), NEW id \in Ids
    PROVE  conns'[id] = Serve(cs[id], carried, expired)
BY DEF Iterate, Serve, SendStage

(* An iteration that removes an entry has delivered what it held. *)
LEMMA StackLoss ==
    ASSUME ConnectInv, Stack, NEW id \in Ids, conns[id].entry # None
    PROVE  LossOf(conns[id], conns'[id])
<1> DEFINE c == conns[id]
<1>0. c \in Conn /\ Sound(c) /\ OpenedOnce /\ ConnectTypeOK BY ConnectFacts
<1>1. PICK carried \in BOOLEAN, expired \in BOOLEAN : Tick(carried, expired) BY DEF Stack
<1>2. ASSUME NEW cs, Iterate(cs, carried, expired), SameButUpload(c, cs[id]), Sound(cs[id])
      PROVE  LossOf(c, conns'[id])
  <2>1. Served(cs[id], conns'[id])
    BY <1>2, IterateOne, ServeConn DEF SameButUpload
  <2>2. InFlight(cs[id]) = InFlight(c) BY <1>2 DEF SameButUpload, InFlight
  <2> QED BY <1>2, <2>1, <2>2 DEF Served, SameButUpload, LossOf
<1>3. SameButUpload(c, c) BY <1>0 DEF SameButUpload
<1>4. CASE Iterate(conns, carried, expired) BY <1>0, <1>2, <1>3, <1>4
<1>5. ASSUME cmd # << >>, NEW connects \in BOOLEAN, NEW cs,
             cs = [x \in Ids |-> IF x # Head(cmd) THEN conns[x]
                                 ELSE IF connects THEN OpenTcp(conns[x])
                                 ELSE Unconnected(conns[x])],
             Iterate(cs, carried, expired)
      PROVE  LossOf(c, conns'[id])
  <2>1. id # Head(cmd)
    <3>1. cmd \in Seq(Ids \cup {"udp"}) BY <1>0, ConnectTypes
    <3>2. Head(cmd) = cmd[1] /\ 1 \in 1..Len(cmd) BY <1>5, <3>1
    <3> QED BY <1>0, <3>2 DEF OpenedOnce, Blank
  <2>2. cs[id] = c BY <1>5, <2>1
  <2> QED BY <1>0, <1>2, <1>3, <1>5, <2>2
<1>6. CASE Iterate(Handled(conns), carried, expired)
  <2>1. Handled(conns)[id] = Handling(id, c, dataIn)[Len(dataIn)] BY DEF Handled
  <2>2. dataIn \in Seq(Item) BY <1>0, ConnectTypes
  <2>3. (\E j \in 1..Len(dataIn) : dataIn[j].id = id) => c.rx \in {"app", "dropped"}
    BY <1>0 DEF OpenedOnce
  <2>4. Sound(Handled(conns)[id]) /\ SameButUpload(c, Handled(conns)[id])
    BY <1>0, <2>1, <2>2, <2>3, HandledSound, Zenon
  <2> QED BY <1>2, <1>6, <2>4
<1> QED BY <1>1, <1>4, <1>5, <1>6 DEF Tick

(* No other step removes an entry. *)
LEMMA EntryStays ==
    ASSUME ConnectInv, NEW id \in Ids,
           handle_connect \/ (\E j \in Ids : Peer(j)) \/ ClientShuts \/ UNCHANGED connectVars
    PROVE  conns'[id].entry = conns[id].entry
<1>0. ConnectTypeOK /\ Place /\ conns \in [Ids -> Conn] /\ Ids = {"gateway", "dst"}
  BY ConnectFacts, ConnectTypes
<1>1. ASSUME NEW j \in Ids, NEW d, d.entry = conns[j].entry, conns' = [conns EXCEPT ![j] = d]
      PROVE  conns'[id].entry = conns[id].entry
  BY <1>0, <1>1
<1>2. CASE UNCHANGED conns BY <1>2
<1>3. ASSUME NEW j \in Ids, open_tcp(j) PROVE conns'[id].entry = conns[id].entry
  BY <1>0, <1>3 DEF open_tcp, Conn
<1>4. ASSUME NEW j \in Ids, conns' = [conns EXCEPT ![j] = Dropped(@)]
      PROVE  conns'[id].entry = conns[id].entry
  <2>1. Dropped(conns[j]).entry = conns[j].entry BY <1>0, DroppedHeld DEF Held
  <2>2. conns' = [conns EXCEPT ![j] = Dropped(conns[j])] BY <1>0, <1>4
  <2> QED BY <1>1, <2>1, <2>2
<1>5. ASSUME NEW j \in Ids, conns' = [conns EXCEPT ![j].queue = @ - 1]
      PROVE  conns'[id].entry = conns[id].entry
  BY <1>0, <1>5 DEF Conn
<1>6. "gateway" \in Ids /\ "dst" \in Ids /\ (pc \in {"reply", "relay"} => via \in Ids)
  BY <1>0 DEF Place, ConnectTypeOK
<1>7. CASE handle_connect
  <2>1. CASE Begin \/ read_sniff_head \/ Block \/ handle_direct \/ DirectCopy \/ Opened
               \/ GatewayOpened \/ UpSends
    BY <1>2, <2>1 DEF Begin, read_sniff_head, Block, handle_direct, DirectCopy, Opened,
                      GatewayOpened, UpSends, netvars
  <2>2. CASE Proxy BY <1>2, <1>3, <1>6, <2>2 DEF Proxy
  <2>3. CASE Resolve BY <1>2, <1>3, <1>6, <2>3 DEF Resolve
  <2>4. CASE dns_resolve BY <1>2, <1>3, <1>6, <2>4 DEF dns_resolve
  <2>5. CASE GatewayFails BY <1>4, <1>6, <2>5 DEF GatewayFails
  <2>6. CASE GatewayAnswers BY <1>4, <1>5, <1>6, <2>6 DEF GatewayAnswers
  <2>7. CASE Reply BY <1>2, <1>4, <1>6, <2>7 DEF Reply
  <2>8. CASE DownWrites BY <1>5, <1>6, <2>8 DEF DownWrites
  <2>9. CASE DownEnds BY <1>4, <1>6, <2>9 DEF DownEnds
  <2> QED BY <1>7, <2>1, <2>2, <2>3, <2>4, <2>5, <2>6, <2>7, <2>8, <2>9 DEF handle_connect
<1>8. ASSUME NEW j \in Ids, Peer(j) PROVE conns'[id].entry = conns[id].entry
  <2>1. EntriesKept BY <1>8, PeerInv
  <2> QED BY <2>1 DEF EntriesKept
<1>9. CASE ClientShuts \/ UNCHANGED connectVars
  BY <1>2, <1>9 DEF ClientShuts, connectVars, netvars
<1> QED BY <1>7, <1>8, <1>9

(* What the far end sent and the stack acknowledged is not lost with the    *)
(* entry that service_tcp removes: it is in the application's queue, unless *)
(* that queue is full.                                                      *)
THEOREM ConnectLossMeansBacklog == ConnectSpec => LossMeansBacklog
<1> DEFINE Loss(id) ==
             LET c == conns[id] d == conns'[id] IN
             c.entry # None /\ d.entry = None /\ alive' /\ c.rx = "app" /\ d.rx = "app"
                 => c.queue + c.entry.rxbuf + InFlight(c) = d.queue \/ d.queue = AppQueue
<1>1. ASSUME ConnectInv, [ConnectNext]_connectVars, NEW id \in Ids PROVE Loss(id)
  <2> SUFFICES ASSUME conns[id].entry # None, conns'[id].entry = None, alive' PROVE Loss(id)
    OBVIOUS
  <2>1. CASE Stack
    <3>1. LossOf(conns[id], conns'[id]) BY <1>1, <2>1, StackLoss
    <3> QED BY <3>1 DEF LossOf
  <2>2. CASE Tunnel BY <2>2 DEF Tunnel, StackEnds
  <2>3. CASE handle_connect \/ (\E j \in Ids : Peer(j)) \/ ClientShuts \/ UNCHANGED connectVars
    BY <1>1, <2>3, EntryStays
  <2> QED BY <1>1, <2>1, <2>2, <2>3 DEF ConnectNext
<1>2. ConnectInv /\ [ConnectNext]_connectVars => [\A id \in Ids : Loss(id)]_connectVars
  BY <1>1
<1>3. ConnectSpec => []ConnectInv BY ConnectInvariant
<1> QED BY <1>2, <1>3, PTL DEF ConnectSpec, LossMeansBacklog

-----------------------------------------------------------------------------
(* The DNS split *)

CONSTANTS AntiSanction, Default, Plain, Encrypted, Gemini, QTypes, QueryIds
VARIABLES session, engine, user_resolvers, cache, query, round, arrived, heard, reply

Dns == INSTANCE SmartDns WITH Ids <- QueryIds

(* The type that response_matches reads, one byte late, in an answer to a   *)
(* question of type t is never t; 0 is no type.                             *)
LEMMA TypeIsReadLate ==
    ASSUME NEW t \in Nat \ {0}
    PROVE  (t % 256) * 256 + 0 # t
<1> DEFINE h == t \div 256 l == t % 256
<1>1. h \in Nat /\ l \in 0..255 /\ t = 256 * h + l OBVIOUS
<1> HIDE DEF h, l
<1>2. SUFFICES ASSUME l * 256 + 0 = t PROVE FALSE BY DEF l
<1>3. l - h \in Int /\ l = 256 * (l - h) BY <1>1, <1>2
<1>4. l - h = 0
  <2> DEFINE m == l - h
  <2>1. m \in Int /\ l = 256 * m /\ l \in 0..255 BY <1>1, <1>3
  <2> HIDE DEF m
  <2>2. m = 0 BY <2>1
  <2> QED BY <2>2 DEF m
<1>5. l = 0 /\ h = 0 BY <1>1, <1>3, <1>4
<1> QED BY <1>1, <1>5

(* No answer has been taken: nothing is cached, and the bridge has written  *)
(* errors only.                                                             *)
NoAnswer == cache = {} /\ (reply # None => reply.code = "SERVFAIL")

(* The query under way asks for one of the types. *)
SplitInv == NoAnswer /\ (query # None => query.qtype \in QTypes)

(* However many servers are asked for however many names and types, and     *)
(* whatever they answer, process_query takes none of their answers: the     *)
(* cache stays empty and all that the bridge ever writes back is SERVFAIL.  *)
THEOREM DnsNoAnswerTaken ==
    ASSUME QTypes \subseteq Nat \ {0}
    PROVE  Dns!Spec => []NoAnswer
<1>0. \A t \in QTypes : t \in Nat \ {0} OBVIOUS
<1>1. Dns!Init => SplitInv BY DEF Dns!Init, SplitInv, NoAnswer
<1>2. ASSUME SplitInv, [Dns!Next]_(Dns!vars) PROVE SplitInv'
  <2> USE <1>2 DEF SplitInv, NoAnswer
  <2>1. CASE \E o \in Dns!Options : Dns!SessionStarts(o)
    BY <2>1 DEF Dns!SessionStarts, Dns!queryState
  <2>2. CASE Dns!SessionEnds BY <2>2 DEF Dns!SessionEnds
  <2>3. CASE Dns!BridgeReads
    <3>1. PICK id \in QueryIds, new_id \in QueryIds, name \in Gemini, qtype \in QTypes :
            IF <<name, qtype>> \in cache
            THEN /\ reply' = [code |-> "answer", id |-> id]
                 /\ UNCHANGED <<query, round, arrived, heard>>
            ELSE /\ query' = [id |-> id, new_id |-> new_id, name |-> name, qtype |-> qtype]
                 /\ round' = Dns!FirstRound /\ arrived' = {} /\ heard' = FALSE /\ reply' = None
      BY <2>3 DEF Dns!BridgeReads
    <3>2. cache' = cache BY <2>3 DEF Dns!BridgeReads, Dns!engineState
    <3> QED BY <3>1, <3>2
  <2>4. CASE Dns!Arrives BY <2>4 DEF Dns!Arrives, Dns!engineState
  <2>5. CASE Dns!RoundWon
    <3>0. query # None /\ Dns!Matching # {} BY <2>5 DEF Dns!RoundWon
    <3>1. query.qtype \in Nat \ {0}
      <4>1. query.qtype \in QTypes BY <3>0
      <4> QED BY <1>0, <4>1
    <3>2. Dns!response_matches(Dns!Answer(query), query)
      BY <3>0 DEF Dns!Matching
    <3>3. (query.qtype % 256) * 256 + 0 = query.qtype
      BY <3>2 DEF Dns!response_matches, Dns!Answer, Dns!QuestionEnd
    <3> QED BY <3>1, <3>3, TypeIsReadLate
  <2>6. CASE Dns!RoundLost
    <3>1. cache' = cache BY <2>6 DEF Dns!RoundLost, Dns!engineState
    <3>2. \/ query' = query /\ reply' = reply
          \/ query' = None /\ reply' = [code |-> "SERVFAIL", id |-> query.new_id]
      BY <2>6 DEF Dns!RoundLost
    <3> QED BY <3>1, <3>2
  <2>7. CASE Dns!CacheExpires BY <2>7 DEF Dns!CacheExpires, Dns!queryState
  <2>8. CASE UNCHANGED Dns!vars BY <2>8 DEF Dns!vars, Dns!engineState, Dns!queryState
  <2> QED BY <1>2, <2>1, <2>2, <2>3, <2>4, <2>5, <2>6, <2>7, <2>8 DEF Dns!Next
<1>3. SplitInv => NoAnswer BY DEF SplitInv
<1> QED BY <1>1, <1>2, <1>3, PTL DEF Dns!Spec
=============================================================================
