------------------------- MODULE MasqueTunnelProofs -------------------------
(***************************************************************************)
(* One MASQUE tunnel over either carrier, proved for every number of        *)
(* replies required and every length of the outbound channel: nothing of    *)
(* the device's reaches an edge that has not accepted the request, and the  *)
(* tunnel is announced on the edge's word only.                             *)
(*                                                                          *)
(* Neither property is inductive.  That a status or data mean acceptance    *)
(* has to be known while they are still under way; that a second handshake  *)
(* (the ECH retry) cannot take an acceptance back rests on its being made   *)
(* only before the first hello; that enough replies were heard rests on a   *)
(* comparison of what the loop counts with what arrived.                    *)
(***************************************************************************)
EXTENDS MasqueTunnel, TLAPS

TunType == [at: {"dial", "await", "loop", "send", "probe", "done"}, ready: BOOLEAN,
            req: BOOLEAN, successes: 0..RequiredSuccesses, established: BOOLEAN,
            rejected: BOOLEAN, ech_retried: BOOLEAN, ctrl_open: BOOLEAN,
            outbound_open: BOOLEAN]

(* Before the edge's hello nothing was asked, and nothing else is heard; it  *)
(* comes once, an ECH retry included.                                        *)
NothingBeforeHello ==
    /\ ~tun.established =>
         /\ edge = "idle" /\ ~tun.req /\ ~tun.ready /\ tun.successes = 0
         /\ wire \subseteq {"hello", "ech", "bye"}
    /\ conn = "handshake" => ~tun.established
    /\ "hello" \in wire => ~tun.established

(* A good status and data are on their way only from an edge that accepted. *)
EdgesWord == wire \cap {"status", "dgram"} # {} => edge \in Accepted

(* HTTP/3 asks from inside its loop; HTTP/2 enters its loop with the edge's  *)
(* acceptance.                                                               *)
PlacesOf ==
    IF H3 THEN tun.at \in {"loop", "done"}
    ELSE tun.at \in {"loop", "send", "probe"} => edge \in Accepted

(* Replies are counted until they are enough, and none that was not heard. *)
Counted ==
    /\ tun.successes <= heard
    /\ ~tun.ready => tun.successes < RequiredSuccesses

TunnelInv ==
    /\ TypeOK /\ NothingBeforeHello /\ EdgesWord /\ PlacesOf /\ Counted
    /\ CarriedOnceAccepted /\ ReadyIsEarned

-----------------------------------------------------------------------------
(* The numbers are positive, and a setting names its carrier. *)
LEMMA Bounds ==
    /\ RequiredSuccesses \in Nat /\ RequiredSuccesses > 0
    /\ MaxQueued \in Nat /\ MaxQueued > 0
    /\ \A s \in Settings : s \in Setting
  BY MasqueTunnelAssumption

(* An ended loop keeps the rest of its variables. *)
LEMMA DoneType ==
    ASSUME tun \in TunType
    PROVE  /\ Done(tun) \in TunType /\ Done(tun).at = "done"
           /\ Done(tun).ready = tun.ready /\ Done(tun).req = tun.req
           /\ Done(tun).successes = tun.successes /\ Done(tun).established = tun.established
  BY DEF Done, TunType

(* Steps that hear nothing: the account of the tunnel stays as it is, the     *)
(* wire only loses, and what is sent goes to an edge that accepted.           *)
Quiet ==
    /\ TypeOK'
    /\ cfg' = cfg /\ edge' = edge /\ heard' = heard /\ wire' \subseteq wire
    /\ tun'.established = tun.established /\ tun'.req = tun.req
    /\ tun'.ready = tun.ready /\ tun'.successes = tun.successes
    /\ conn' = "handshake" => ~tun.established
    /\ \/ tun'.at \in {tun.at, "done"}
       \/ /\ ~H3 /\ tun.at \in {"loop", "send", "probe"}
          /\ tun'.at \in {"loop", "send", "probe"}
    /\ sent' \subseteq sent \cup Accepted

LEMMA QuietSound ==
    ASSUME TunnelInv, Quiet
    PROVE  TunnelInv'
<1> USE DEF TunnelInv, Quiet
<1>1. NothingBeforeHello'
  BY DEF NothingBeforeHello
<1>2. EdgesWord'
  BY DEF EdgesWord, Accepted
<1>3. PlacesOf'
  BY DEF PlacesOf, H3, Accepted
<1>4. Counted'
  BY DEF Counted
<1>5. CarriedOnceAccepted'
  BY DEF CarriedOnceAccepted, Accepted
<1>6. ReadyIsEarned'
  BY DEF ReadyIsEarned, Accepted
<1> QED
  BY <1>1, <1>2, <1>3, <1>4, <1>5, <1>6

(* The types, as the lemmas use them. *)
LEMMA Typed ==
    ASSUME TunnelInv
    PROVE  /\ cfg \in Settings /\ cfg \in Setting /\ tun \in TunType
           /\ local \in [up: BOOLEAN, queued: 0..MaxQueued]
           /\ edge \in {"idle", "asked", "accepted", "refused", "ended"}
           /\ sent \subseteq {"idle", "asked", "accepted", "refused", "ended"}
           /\ wire \subseteq {"hello", "ech", "status", "denied", "dgram", "fin", "bye"}
           /\ heard \in 0..RequiredSuccesses
           /\ (conn = "handshake" => ~tun.established)
  BY Bounds DEF TunnelInv, TypeOK, TunType, NothingBeforeHello

-----------------------------------------------------------------------------
(* What ends the loop, whatever ends it. *)
LEMMA EndsSound ==
    ASSUME TunnelInv,
           \/ H2Closed \/ H2End \/ ValidationTimeout \/ Fails \/ StartupTimeout
           \/ (H2Fails /\ tun.at # "probe")
           \/ (OnTimeout /\ ~Retry)
    PROVE  TunnelInv'
<1>1. /\ tun' = Done(tun) /\ conn' = "closed"
      /\ UNCHANGED <<cfg, wire, world, sent, heard>>
      /\ local' \in {local, [local EXCEPT !.up = FALSE]}
      /\ caller' \in {caller, "returned"}
  BY DEF H2Closed, H2End, ValidationTimeout, Fails, StartupTimeout, H2Fails, OnTimeout
<1>2. local' \in [up: BOOLEAN, queued: 0..MaxQueued]
  BY <1>1, Typed
<1>3. TypeOK'
  BY <1>1, <1>2, Typed, DoneType DEF world, TunnelInv, TypeOK, TunType
<1>4. Quiet
  BY <1>1, <1>3, Typed, DoneType DEF world, Quiet
<1> QED
  BY <1>4, QuietSound

(* The device's packets, on HTTP/3. *)
LEMMA OutboundSound ==
    ASSUME TunnelInv, Outbound
    PROVE  TunnelInv'
<1>1. /\ UNCHANGED <<cfg, tun, conn, wire, world, caller, heard>>
      /\ sent' \in {sent, sent \cup {edge}} /\ (sent' # sent => tun.ready)
      /\ \E left \in 0..(local.queued - 1) : local' = [local EXCEPT !.queued = left]
  BY DEF Outbound
<1>2. local' \in [up: BOOLEAN, queued: 0..MaxQueued]
  BY <1>1, Typed, Bounds
<1>3. sent' \subseteq sent \cup Accepted
  BY <1>1 DEF TunnelInv, ReadyIsEarned
<1>4. TypeOK'
  BY <1>1, <1>2, Typed DEF world, TunnelInv, TypeOK
<1>5. Quiet
  BY <1>1, <1>3, <1>4, Typed DEF world, Quiet
<1> QED
  BY <1>5, QuietSound

(* The ends of the channels. *)
LEMMA EofSound ==
    ASSUME TunnelInv, OutboundEof \/ CtrlEof
    PROVE  TunnelInv'
<1>1. /\ tun' \in {[tun EXCEPT !.outbound_open = FALSE], [tun EXCEPT !.ctrl_open = FALSE]}
      /\ conn' = Closing
      /\ UNCHANGED <<cfg, wire, world, local, caller, sent, heard>>
  BY DEF OutboundEof, CtrlEof
<1>2. /\ tun' \in TunType /\ tun'.at = tun.at /\ tun'.established = tun.established
      /\ tun'.req = tun.req /\ tun'.ready = tun.ready /\ tun'.successes = tun.successes
  BY <1>1, Typed DEF TunType
<1>3. conn' \in {"handshake", "up", "closing", "closed"} /\ conn' # "handshake"
  BY <1>1 DEF Closing, TunnelInv, TypeOK
<1>4. TypeOK'
  BY <1>1, <1>2, <1>3 DEF world, TunnelInv, TypeOK, TunType
<1>5. Quiet
  BY <1>1, <1>2, <1>3, <1>4, Typed DEF world, Quiet
<1> QED
  BY <1>5, QuietSound

(* The ECH retry begins again where nothing had been asked. *)
LEMMA RetrySound ==
    ASSUME TunnelInv, OnTimeout, Retry
    PROVE  TunnelInv'
<1>1. /\ tun' = [tun EXCEPT !.ech_retried = TRUE, !.rejected = FALSE, !.req = FALSE]
      /\ conn' = "handshake" /\ wire' = {} /\ ~tun.established
      /\ UNCHANGED <<cfg, world, local, caller, sent, heard>>
  BY DEF OnTimeout, Retry
<1>2. tun.req = FALSE
  BY <1>1, Typed DEF TunnelInv, NothingBeforeHello, TunType
<1>3. /\ tun' \in TunType /\ tun'.at = tun.at /\ tun'.established = tun.established
      /\ tun'.req = tun.req /\ tun'.ready = tun.ready /\ tun'.successes = tun.successes
  BY <1>1, <1>2, Typed DEF TunType
<1>4. TypeOK'
  BY <1>1, <1>3 DEF world, TunnelInv, TypeOK, TunType
<1>5. Quiet
  BY <1>1, <1>3, <1>4, Typed DEF world, Quiet
<1> QED
  BY <1>5, QuietSound

(* HTTP/2's way through send_capsule and back. *)
LEMMA CapsuleSound ==
    ASSUME TunnelInv, H2Outbound \/ SendCapsule \/ (H2Fails /\ tun.at = "probe")
    PROVE  TunnelInv'
<1>1. /\ tun' \in {[tun EXCEPT !.at = "send"], [tun EXCEPT !.at = "loop"]}
      /\ tun.at \in {"loop", "send", "probe"} /\ tun.at # tun'.at
      /\ UNCHANGED <<cfg, conn, wire, edge, path, caller, heard>>
      /\ local' \in {local, [local EXCEPT !.queued = @ - 1]} /\ (local' # local => local.queued > 0)
      /\ window' \in {window, path}
      /\ sent' \in {sent, sent \cup {edge}} /\ (sent' # sent => tun.at = "send")
  BY Typed DEF H2Outbound, SendCapsule, H2Fails, world, TunType
<1>2. ~H3
  BY <1>1 DEF H2Outbound, SendCapsule, H2Fails, TunnelInv, PlacesOf
<1>3. /\ tun' \in TunType /\ tun'.at \in {"loop", "send"} /\ tun'.established = tun.established
      /\ tun'.req = tun.req /\ tun'.ready = tun.ready /\ tun'.successes = tun.successes
  BY <1>1, Typed DEF TunType
<1>4. local' \in [up: BOOLEAN, queued: 0..MaxQueued]
  BY <1>1, Typed, Bounds
<1>5. sent' \subseteq sent \cup Accepted
  BY <1>1, <1>2 DEF TunnelInv, PlacesOf
<1>6. TypeOK'
  BY <1>1, <1>3, <1>4, Typed DEF TunnelInv, TypeOK, TunType
<1>7. Quiet
  BY <1>1, <1>2, <1>3, <1>5, <1>6, Typed DEF Quiet
<1> QED
  BY <1>7, QuietSound

(* The caller, the local side and the path. *)
LEMMA AroundSound ==
    ASSUME TunnelInv,
           \/ Told \/ TunnelEnded \/ Abandoned \/ DevicePacket \/ LocalEnds \/ EdgeWindow
           \/ Lost \/ PathDies
    PROVE  TunnelInv'
<1>1. /\ UNCHANGED <<cfg, tun, conn, edge, sent, heard>> /\ wire' \subseteq wire
      /\ caller' \in {caller, "running", "returned", "gone"}
      /\ window' \in {window, ~window} /\ path' \in {path, FALSE}
      /\ \/ local' \in {local, [local EXCEPT !.up = FALSE]}
         \/ local.queued < MaxQueued /\ local' = [local EXCEPT !.queued = @ + 1]
  BY DEF Told, TunnelEnded, Abandoned, DevicePacket, LocalEnds, EdgeWindow, EdgeKeeps, Lost,
     PathDies, world
<1>2. local' \in [up: BOOLEAN, queued: 0..MaxQueued]
  <2>1. CASE local' \in {local, [local EXCEPT !.up = FALSE]}
    BY <2>1, Typed
  <2>2. CASE local.queued < MaxQueued /\ local' = [local EXCEPT !.queued = @ + 1]
    <3>1. local.queued + 1 \in 0..MaxQueued
      BY <2>2, Typed, Bounds
    <3> QED
      BY <2>2, <3>1, Typed
  <2> QED
    BY <1>1, <2>1, <2>2
<1>3. window' \in BOOLEAN /\ path' \in BOOLEAN
  BY <1>1 DEF TunnelInv, TypeOK
<1>4. TypeOK'
  BY <1>1, <1>2, <1>3, Typed DEF TunnelInv, TypeOK
<1>5. Quiet
  BY <1>1, <1>4, Typed DEF Quiet
<1> QED
  BY <1>5, QuietSound

-----------------------------------------------------------------------------
(* The edge: it says hello before it was asked, and data and a status follow  *)
(* its acceptance.                                                            *)
LEMMA EdgeSound ==
    ASSUME TunnelInv, EdgeHello \/ EdgeAnswers \/ EdgeSends \/ EdgeEnds \/ EdgeCloses
    PROVE  TunnelInv'
<1>1. /\ UNCHANGED <<cfg, tun, conn, path, window, local, caller, sent, heard>>
      /\ \/ /\ edge' = edge /\ wire = {} /\ conn = "handshake"
            /\ wire' \in {{"hello"}, {"bye"}, {"ech"}}
         \/ edge = "asked" /\ edge' = "accepted" /\ wire' = wire \cup {"status"}
         \/ edge = "asked" /\ edge' = "refused" /\ wire' = wire \cup {"denied"}
         \/ edge = "accepted" /\ edge' = edge /\ wire' = wire \cup {"dgram"}
         \/ edge = "accepted" /\ edge' = "ended" /\ wire' = wire \cup {"fin"}
         \/ edge # "idle" /\ edge' = edge /\ wire' = wire \cup {"bye"}
  BY DEF EdgeHello, EdgeAnswers, EdgeSends, EdgeEnds, EdgeCloses, EdgeKeeps, Arrives
<1>2. TypeOK'
  <2>1. /\ edge' \in {"idle", "asked", "accepted", "refused", "ended"}
        /\ wire' \subseteq {"hello", "ech", "status", "denied", "dgram", "fin", "bye"}
    BY <1>1, Typed
  <2> QED
    BY <1>1, <2>1 DEF TunnelInv, TypeOK
<1>3. NothingBeforeHello'
  BY <1>1, Typed DEF TunnelInv, NothingBeforeHello
<1>4. EdgesWord'
  BY <1>1 DEF TunnelInv, EdgesWord, Accepted
<1>5. PlacesOf' /\ ReadyIsEarned'
  BY <1>1 DEF TunnelInv, PlacesOf, ReadyIsEarned, H3, Accepted
<1>6. Counted' /\ CarriedOnceAccepted'
  BY <1>1 DEF TunnelInv, Counted, CarriedOnceAccepted, Accepted
<1> QED
  BY <1>2, <1>3, <1>4, <1>5, <1>6 DEF TunnelInv

-----------------------------------------------------------------------------
(* A reply is counted until there are enough of them. *)
LEMMA ValidatedIs ==
    ASSUME NEW t \in TunType, NEW data \in BOOLEAN,
           ~t.ready => t.successes < RequiredSuccesses
    PROVE  /\ Validated(t, data) \in TunType
           /\ Validated(t, data).at = t.at /\ Validated(t, data).req = t.req
           /\ Validated(t, data).established = t.established
           /\ \/ /\ Validated(t, data).ready = t.ready
                 /\ Validated(t, data).successes = t.successes
              \/ /\ data /\ ~t.ready /\ Validated(t, data).successes = t.successes + 1
                 /\ Validated(t, data).ready = (t.successes + 1 >= RequiredSuccesses)
<1>1. CASE ~data \/ t.ready
  BY <1>1 DEF Validated
<1>2. CASE data /\ ~t.ready
  <2> DEFINE enough == t.successes + 1 >= RequiredSuccesses
             count == t.successes + 1
  <2>1. Validated(t, data) = [t EXCEPT !.successes = count, !.ready = enough]
    BY <1>2 DEF Validated
  <2>2. count \in 0..RequiredSuccesses
    BY <1>2, Bounds DEF TunType
  <2>3. enough \in BOOLEAN
    OBVIOUS
  <2> HIDE DEF enough, count
  <2>4. /\ Validated(t, data) \in TunType
        /\ Validated(t, data).at = t.at /\ Validated(t, data).req = t.req
        /\ Validated(t, data).established = t.established
        /\ Validated(t, data).successes = count /\ Validated(t, data).ready = enough
    BY <2>1, <2>2, <2>3 DEF TunType
  <2> QED
    BY <1>2, <2>4 DEF enough, count
<1> QED
  BY <1>1, <1>2

(* One iteration of quic::run: the request is sent on the hello, and the      *)
(* tunnel becomes ready on a status where nothing is checked, or on data.     *)
LEMMA PollIs ==
    ASSUME tun \in TunType, NEW got, ~tun.ready => tun.successes < RequiredSuccesses,
           tun' = Poll(tun, got)
    PROVE  /\ tun' \in TunType /\ tun'.at \in {tun.at, "done"}
           /\ "hello" \in got => tun'.established = TRUE /\ tun'.req = TRUE
           /\ "hello" \notin got => tun'.established = tun.established /\ tun'.req = tun.req
           /\ \/ tun'.ready = tun.ready /\ tun'.successes = tun.successes
              \/ /\ tun'.ready = TRUE /\ tun'.successes = tun.successes
                 /\ "status" \in got /\ ~cfg.check
              \/ /\ "dgram" \in got /\ ~tun.ready /\ tun'.successes = tun.successes + 1
                 /\ tun'.ready = (tun.successes + 1 >= RequiredSuccesses)
<1> DEFINE asked == IF "hello" \in got THEN [tun EXCEPT !.established = TRUE, !.req = TRUE]
                    ELSE tun
           good == "status" \in got /\ ~cfg.check
           turned == asked.ready \/ good
           accepted == [asked EXCEPT !.ready = turned]
           data == asked.req /\ "dgram" \in got
<1>1. /\ asked \in TunType /\ asked.at = tun.at
      /\ "hello" \in got => asked.established = TRUE /\ asked.req = TRUE
      /\ "hello" \notin got => asked.established = tun.established /\ asked.req = tun.req
      /\ asked.ready = tun.ready /\ asked.successes = tun.successes
  BY DEF TunType
<1>2. tun' = IF "ech" \in got THEN [asked EXCEPT !.rejected = TRUE]
             ELSE IF asked.req /\ "denied" \in got THEN Done(asked)
             ELSE Validated(accepted, data)
  BY DEF Poll
<1>3. turned \in BOOLEAN /\ data \in BOOLEAN /\ (data => "dgram" \in got)
      /\ (turned = asked.ready \/ (turned = TRUE /\ good))
  BY <1>1 DEF TunType
<1> HIDE DEF asked, turned, data
<1>4. /\ accepted \in TunType /\ accepted.at = asked.at
      /\ accepted.established = asked.established /\ accepted.req = asked.req
      /\ accepted.successes = asked.successes /\ accepted.ready = turned
  BY <1>1, <1>3 DEF TunType
<1> HIDE DEF accepted
<1>5. CASE "ech" \in got
  <2>1. tun' = [asked EXCEPT !.rejected = TRUE]
    BY <1>2, <1>5
  <2>2. /\ tun' \in TunType /\ tun'.at = asked.at /\ tun'.established = asked.established
        /\ tun'.req = asked.req /\ tun'.ready = asked.ready /\ tun'.successes = asked.successes
    BY <1>1, <2>1 DEF TunType
  <2> QED
    BY <1>1, <2>2
<1>6. CASE "ech" \notin got /\ asked.req /\ "denied" \in got
  <2>1. tun' = Done(asked)
    BY <1>2, <1>6
  <2>2. /\ tun' \in TunType /\ tun'.at = "done" /\ tun'.established = asked.established
        /\ tun'.req = asked.req /\ tun'.ready = asked.ready /\ tun'.successes = asked.successes
    BY <1>1, <2>1 DEF Done, TunType
  <2> QED
    BY <1>1, <2>2
<1>7. CASE "ech" \notin got /\ ~(asked.req /\ "denied" \in got)
  <2>1. tun' = Validated(accepted, data)
    BY <1>2, <1>7
  <2>2. ~accepted.ready => accepted.successes < RequiredSuccesses
    BY <1>1, <1>3, <1>4
  <2>3. /\ tun' \in TunType /\ tun'.at = accepted.at /\ tun'.req = accepted.req
        /\ tun'.established = accepted.established
        /\ \/ tun'.ready = accepted.ready /\ tun'.successes = accepted.successes
           \/ /\ data /\ ~accepted.ready /\ tun'.successes = accepted.successes + 1
              /\ tun'.ready = (accepted.successes + 1 >= RequiredSuccesses)
    BY <1>3, <1>4, <2>1, <2>2, ValidatedIs
  <2>4. CASE tun'.ready = accepted.ready /\ tun'.successes = accepted.successes
    BY <1>1, <1>3, <1>4, <2>3, <2>4
  <2>5. CASE /\ data /\ ~accepted.ready /\ tun'.successes = accepted.successes + 1
             /\ tun'.ready = (accepted.successes + 1 >= RequiredSuccesses)
    <3>1. ~tun.ready
      BY <1>1, <1>3, <1>4, <2>5
    <3> QED
      BY <1>1, <1>3, <1>4, <2>3, <2>5, <3>1
  <2> QED
    BY <2>3, <2>4, <2>5
<1> QED
  BY <1>5, <1>6, <1>7

(* An iteration that hears the edge, on either carrier: what makes the tunnel *)
(* ready was on its way, and so was said by an edge that had accepted.        *)
LEMMA HearingSound ==
    ASSUME TunnelInv, cfg' = cfg, tun' \in TunType, NEW got \in SUBSET wire, wire' = wire \ got,
           \A m \in got \cap {"hello"} : edge' = "asked" /\ tun'.established = TRUE /\ tun'.req = TRUE,
           "hello" \notin got => edge' = edge /\ tun'.established = tun.established
                                 /\ tun'.req = tun.req,
           UNCHANGED <<window, path, local, caller, sent>>,
           conn' \in {"handshake", "up", "closing", "closed"},
           conn' = "handshake" => conn = "handshake" /\ "hello" \notin got,
           heard' = Heard("dgram" \in got),
           \/ tun'.ready = tun.ready /\ tun'.successes = tun.successes
           \/ /\ tun'.ready = TRUE /\ tun'.successes = tun.successes
              /\ "status" \in got /\ ~cfg.check
           \/ /\ "dgram" \in got /\ ~tun.ready /\ tun'.successes = tun.successes + 1
              /\ tun'.ready = (tun.successes + 1 >= RequiredSuccesses),
           PlacesOf'
    PROVE  TunnelInv'
<1>1. /\ heard' \in 0..RequiredSuccesses /\ heard' >= heard
      /\ "dgram" \in got => heard' = RequiredSuccesses \/ heard' = heard + 1
  <2>1. heard' = IF "dgram" \in got /\ heard < RequiredSuccesses THEN heard + 1 ELSE heard
    BY DEF Heard
  <2> QED
    BY <2>1, Typed, Bounds
<1>2. edge' \in {"idle", "asked", "accepted", "refused", "ended"}
  BY Typed
<1>3. TypeOK'
  BY <1>1, <1>2, Typed DEF TunnelInv, TypeOK, TunType
<1>4. CASE "hello" \in got
  <2>1. /\ ~tun.established /\ edge = "idle" /\ ~tun.ready /\ tun.successes = 0
        /\ wire \subseteq {"hello", "ech", "bye"}
    BY <1>4 DEF TunnelInv, NothingBeforeHello
  <2>2. /\ edge' = "asked" /\ tun'.established = TRUE /\ conn' # "handshake"
        /\ tun'.ready = tun.ready /\ tun'.successes = 0
        /\ wire' \cap {"hello", "status", "dgram"} = {}
    BY <1>4, <2>1
  <2>3. NothingBeforeHello' /\ EdgesWord'
    BY <2>2 DEF NothingBeforeHello, EdgesWord
  <2>4. Counted' /\ ReadyIsEarned' /\ CarriedOnceAccepted'
    BY <1>1, <2>1, <2>2, Typed, Bounds DEF TunnelInv, Counted, ReadyIsEarned, CarriedOnceAccepted,
       Accepted
  <2> QED
    BY <1>3, <2>3, <2>4 DEF TunnelInv
<1>5. CASE "hello" \notin got
  <2>1. edge' = edge /\ tun'.established = tun.established /\ tun'.req = tun.req
    BY <1>5
  <2>2. tun'.ready # tun.ready \/ tun'.successes # tun.successes => edge \in Accepted
    BY DEF TunnelInv, EdgesWord
  <2>3. NothingBeforeHello'
    <3>1. ~tun.established => tun'.ready = tun.ready /\ tun'.successes = tun.successes
      BY DEF TunnelInv, NothingBeforeHello
    <3> QED
      BY <2>1, <3>1, Typed DEF TunnelInv, NothingBeforeHello
  <2>4. EdgesWord' /\ CarriedOnceAccepted'
    BY <2>1 DEF TunnelInv, EdgesWord, CarriedOnceAccepted, Accepted
  <2>5. Counted'
    <3>1. tun.successes \in Nat /\ heard \in Nat /\ tun.successes <= heard
      BY Typed, Bounds DEF TunType, TunnelInv, Counted
    <3>2. tun'.successes \in 0..RequiredSuccesses
      BY DEF TunType
    <3>3. CASE tun'.successes = tun.successes
      BY <1>1, <3>1, <3>3, Bounds DEF TunnelInv, Counted
    <3>4. CASE /\ "dgram" \in got /\ ~tun.ready /\ tun'.successes = tun.successes + 1
               /\ tun'.ready = (tun.successes + 1 >= RequiredSuccesses)
      <4>1. tun'.successes <= heard'
        BY <1>1, <3>1, <3>2, <3>4, Bounds
      <4>2. ~tun'.ready => tun'.successes < RequiredSuccesses
        <5>1. tun'.ready \/ ~(tun.successes + 1 >= RequiredSuccesses)
          BY <3>4
        <5>2. tun'.successes = tun.successes + 1
          BY <3>4
        <5> QED
          BY <3>1, <5>1, <5>2, Bounds
      <4> QED
        BY <4>1, <4>2 DEF Counted
    <3> QED
      BY <3>3, <3>4
  <2>6. ReadyIsEarned'
    <3>1. tun.successes \in Nat /\ heard \in Nat /\ tun.successes <= heard
      BY Typed, Bounds DEF TunType, TunnelInv, Counted
    <3>2. tun'.ready => edge \in Accepted
      BY <2>2 DEF TunnelInv, ReadyIsEarned
    <3>3. ASSUME tun'.ready, cfg.check PROVE heard' >= RequiredSuccesses
      <4>1. CASE tun'.ready = tun.ready
        BY <1>1, <3>1, <3>3, <4>1, Bounds DEF TunnelInv, ReadyIsEarned
      <4>2. CASE tun'.ready # tun.ready
        <5>1. "dgram" \in got /\ tun.successes + 1 >= RequiredSuccesses
          BY <3>3, <4>2
        <5> QED
          BY <1>1, <3>1, <5>1, Bounds
      <4> QED
        BY <4>1, <4>2
    <3> QED
      BY <2>1, <3>2, <3>3 DEF ReadyIsEarned, Accepted
  <2> QED
    BY <1>3, <2>3, <2>4, <2>5, <2>6 DEF TunnelInv
<1> QED
  BY <1>4, <1>5

LEMMA ReceiveSound ==
    ASSUME TunnelInv, Receive
    PROVE  TunnelInv'
<1>1. PICK got \in SUBSET wire \ {{}} :
         /\ tun' = Poll(tun, got)
         /\ conn' = IF got \cap {"ech", "bye"} # {} THEN "closing"
                    ELSE IF "hello" \in got THEN "up" ELSE conn
         /\ edge' = IF "hello" \in got THEN "asked" ELSE edge
         /\ wire' = wire \ got
         /\ heard' = Heard("dgram" \in got)
  BY DEF Receive
<1>2. H3 /\ UNCHANGED <<cfg, window, path, local, caller, sent>>
  BY DEF Receive
<1>3. ~tun.ready => tun.successes < RequiredSuccesses
  BY DEF TunnelInv, Counted
<1>4. /\ tun' \in TunType /\ tun'.at \in {tun.at, "done"}
      /\ "hello" \in got => tun'.established = TRUE /\ tun'.req = TRUE
      /\ "hello" \notin got => tun'.established = tun.established /\ tun'.req = tun.req
      /\ \/ tun'.ready = tun.ready /\ tun'.successes = tun.successes
         \/ /\ tun'.ready = TRUE /\ tun'.successes = tun.successes
            /\ "status" \in got /\ ~cfg.check
         \/ /\ "dgram" \in got /\ ~tun.ready /\ tun'.successes = tun.successes + 1
            /\ tun'.ready = (tun.successes + 1 >= RequiredSuccesses)
  BY <1>1, <1>3, Typed, PollIs
<1>6. PlacesOf'
  BY <1>2, <1>4 DEF TunnelInv, PlacesOf, H3
<1>7. /\ conn' \in {"handshake", "up", "closing", "closed"}
      /\ conn' = "handshake" => conn = "handshake" /\ "hello" \notin got
  BY <1>1 DEF TunnelInv, TypeOK
<1> QED
  BY <1>1, <1>2, <1>4, <1>6, <1>7, HearingSound

(* HTTP/2 *)
LEMMA ConnectSound ==
    ASSUME TunnelInv, Connect
    PROVE  TunnelInv'
<1>1. /\ ~H3 /\ "hello" \in wire /\ conn' = "up" /\ edge' = "asked" /\ wire' = wire \ {"hello"}
      /\ tun' = [tun EXCEPT !.at = "await", !.req = TRUE, !.established = TRUE]
      /\ UNCHANGED <<cfg, window, path, local, caller, sent, heard>>
  BY DEF Connect
<1>2. /\ tun' \in TunType /\ tun'.at = "await" /\ tun'.req = TRUE /\ tun'.established = TRUE
      /\ tun'.ready = tun.ready /\ tun'.successes = tun.successes
  BY <1>1, Typed DEF TunType
<1>3. PlacesOf'
  BY <1>1, <1>2 DEF PlacesOf, H3
<1>4. heard' = Heard("dgram" \in {"hello"})
  BY <1>1 DEF Heard
<1>5. {"hello"} \in SUBSET wire
  BY <1>1
<1> QED
  BY <1>1, <1>2, <1>3, <1>4, <1>5, HearingSound

LEMMA ResponseSound ==
    ASSUME TunnelInv, Response
    PROVE  TunnelInv'
<1> DEFINE got == wire \cap {"status", "denied"}
<1>1. /\ ~H3 /\ tun.at = "await" /\ got # {} /\ wire' = wire \ got
      /\ UNCHANGED <<cfg, conn, window, path, edge, local, caller, sent, heard>>
      /\ tun' = IF "denied" \in wire THEN Done(tun)
                ELSE IF cfg.check THEN [tun EXCEPT !.at = "probe"]
                ELSE [tun EXCEPT !.at = "loop", !.ready = TRUE]
  BY DEF Response, world
<1>2. /\ tun' \in TunType
      /\ tun'.req = tun.req /\ tun'.established = tun.established /\ tun'.successes = tun.successes
      /\ \/ tun'.at = "done" /\ tun'.ready = tun.ready
         \/ "status" \in got /\ tun'.at = "probe" /\ tun'.ready = tun.ready
         \/ "status" \in got /\ tun'.at = "loop" /\ tun'.ready = TRUE /\ ~cfg.check
  <2>1. CASE "denied" \in wire
    BY <1>1, <2>1, Typed, DoneType
  <2>2. CASE "denied" \notin wire
    BY <1>1, <2>2, Typed DEF TunType
  <2> QED
    BY <2>1, <2>2
<1>3. PlacesOf'
  BY <1>1, <1>2 DEF TunnelInv, PlacesOf, EdgesWord, H3, Accepted
<1>4. heard' = Heard("dgram" \in got)
  BY <1>1 DEF Heard
<1>5. got \in SUBSET wire /\ "hello" \notin got
  OBVIOUS
<1>6. conn' \in {"handshake", "up", "closing", "closed"}
  BY <1>1 DEF TunnelInv, TypeOK
<1> HIDE DEF got
<1> QED
  BY <1>1, <1>2, <1>3, <1>4, <1>5, <1>6, HearingSound

LEMMA H2DataSound ==
    ASSUME TunnelInv, H2Data
    PROVE  TunnelInv'
<1> DEFINE t == Validated(tun, TRUE)
<1>1. /\ ~H3 /\ "dgram" \in wire /\ wire' = wire \ {"dgram"} /\ heard' = Heard(TRUE)
      /\ tun' = IF t.ready THEN t ELSE [t EXCEPT !.at = "probe"]
      /\ UNCHANGED <<cfg, conn, window, path, edge, local, caller, sent>>
  BY DEF H2Data, world
<1>2. ~tun.ready => tun.successes < RequiredSuccesses
  BY DEF TunnelInv, Counted
<1>3. /\ t \in TunType /\ t.req = tun.req /\ t.established = tun.established
      /\ \/ t.ready = tun.ready /\ t.successes = tun.successes
         \/ /\ ~tun.ready /\ t.successes = tun.successes + 1
            /\ t.ready = (tun.successes + 1 >= RequiredSuccesses)
  BY <1>2, Typed, ValidatedIs
<1> HIDE DEF t
<1>4. /\ tun' \in TunType /\ tun'.req = t.req /\ tun'.established = t.established
      /\ tun'.ready = t.ready /\ tun'.successes = t.successes
  BY <1>1, <1>3 DEF TunType
<1>5. edge \in Accepted
  BY <1>1 DEF TunnelInv, EdgesWord
<1>6. PlacesOf'
  BY <1>1, <1>5 DEF PlacesOf, H3, Accepted
<1>7. heard' = Heard("dgram" \in {"dgram"}) /\ {"dgram"} \in SUBSET wire
  BY <1>1 DEF Heard
<1>8. conn' \in {"handshake", "up", "closing", "closed"}
  BY <1>1 DEF TunnelInv, TypeOK
<1> QED
  BY <1>1, <1>3, <1>4, <1>6, <1>7, <1>8, HearingSound

-----------------------------------------------------------------------------
(* A tunnel starts with nothing asked and nothing heard. *)
LEMMA TunnelInitInv ==
    ASSUME Init
    PROVE  TunnelInv
<1>1. /\ cfg \in Settings /\ tun = Starting /\ conn = "handshake" /\ edge = "idle" /\ wire = {}
      /\ window = TRUE /\ path = TRUE /\ local = [up |-> TRUE, queued |-> 0]
      /\ caller = "waiting" /\ sent = {} /\ heard = 0
  BY DEF Init
<1>2. cfg.carrier \in {"h3", "h2"}
  BY <1>1, Bounds DEF Setting
<1>3. /\ tun \in TunType /\ tun.at = (IF H3 THEN "loop" ELSE "dial") /\ tun.successes = 0
      /\ tun.ready = FALSE /\ tun.req = FALSE /\ tun.established = FALSE
  BY <1>1, Bounds DEF Starting, TunType, H3
<1>4. local \in [up: BOOLEAN, queued: 0..MaxQueued] /\ heard \in 0..RequiredSuccesses
  BY <1>1, Bounds
<1>5. TypeOK
  BY <1>1, <1>3, <1>4 DEF TypeOK, TunType
<1>6. NothingBeforeHello /\ EdgesWord /\ PlacesOf
  BY <1>1, <1>3 DEF NothingBeforeHello, EdgesWord, PlacesOf
<1>7. Counted /\ CarriedOnceAccepted /\ ReadyIsEarned
  BY <1>1, <1>3, Bounds DEF Counted, CarriedOnceAccepted, ReadyIsEarned
<1> QED
  BY <1>5, <1>6, <1>7 DEF TunnelInv

(* The invariant is kept by every step. *)
LEMMA TunnelStep ==
    ASSUME TunnelInv, [Next]_vars
    PROVE  TunnelInv'
<1>1. CASE UNCHANGED vars
  <2>1. TypeOK'
    BY <1>1 DEF vars, world, TunnelInv, TypeOK
  <2> QED
    BY <1>1, <2>1, Typed, QuietSound DEF vars, world, Quiet
<1>2. CASE Next
  BY <1>2, EndsSound, OutboundSound, EofSound, RetrySound, CapsuleSound, AroundSound, EdgeSound,
     ReceiveSound, ConnectSound, ResponseSound, H2DataSound
  DEF Next, quic_run, h2_run, run_masque_tunnel, Edge
<1> QED
  BY <1>1, <1>2

(* The invariant holds in every state of every tunnel. *)
THEOREM TunnelInvariant == Spec => []TunnelInv
<1>1. Init => TunnelInv
  BY TunnelInitInv
<1>2. TunnelInv /\ [Next]_vars => TunnelInv'
  BY TunnelStep
<1> QED
  BY <1>1, <1>2, PTL DEF Spec

(* Over either carrier nothing the device queued reaches an edge that has not  *)
(* accepted the CONNECT-IP request, and replies are counted no further than    *)
(* DATA_PROBE_REQUIRED_SUCCESSES.                                              *)
THEOREM TunnelCarrierSafety == Spec => []CarrierSafety
<1>1. TunnelInv => CarrierSafety
  BY DEF TunnelInv, CarrierSafety
<1> QED
  BY <1>1, TunnelInvariant, PTL

(* run_masque_tunnel is told "ready" only of a request the edge accepted and,  *)
(* where the data plane is checked, of an edge heard as often as required,     *)
(* whatever was lost or overtaken and though the handshake was made twice.     *)
THEOREM TunnelReadyIsEarned == Spec => []ReadyIsEarned
<1>1. TunnelInv => ReadyIsEarned
  BY DEF TunnelInv
<1> QED
  BY <1>1, TunnelInvariant, PTL

=============================================================================
