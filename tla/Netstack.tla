------------------------------ MODULE Netstack ------------------------------
(***************************************************************************)
(* The user-space TCP/IP stack of netstack.rs: its table of connections,    *)
(* the loop that polls smoltcp and moves bytes between sockets and the      *)
(* application's bounded queues, and the far ends of its connections.       *)
(*                                                                          *)
(* Connections share the loop and the data_in queue and nothing else, so a  *)
(* connection is a record of its own.  What an application uploads keeps    *)
(* its order and identity (chunks in sequences); what it downloads is       *)
(* counted.  smoltcp's sockets are modelled from how the loop uses them: a  *)
(* state, a receive buffer, a send buffer.  Lost packets are sent again, so *)
(* losing one only delays what the poll carries out.  Transparent accept    *)
(* mode is not here: nothing in the program turns it on.                    *)
(***************************************************************************)
EXTENDS Naturals, Sequences, SequencesExt, FiniteSets

CONSTANTS Ids,        \* connections, in the order they may be opened
          RxBuf,      \* tcp_rx_buf(), in chunks
          TxBuf,      \* tcp_tx_buf(), in chunks
          AppQueue,   \* app_queue(), in chunks
          None

ASSUME NetstackAssumption ==
    /\ IsFiniteSet(Ids) /\ "udp" \notin Ids
    /\ {RxBuf, TxBuf, AppQueue} \subseteq Nat \ {0}

VARIABLES conns,    \* by id: the stack's side, the application's, the far end's
          cmd,      \* cmd_rx: ids to open, or "udp"
          dataIn,   \* data_in_rx: DataIn's Tcp, TcpClose and UdpClose
          udp,      \* is there an entry in udp_conns
          alive     \* does the loop run

netvars == <<conns, cmd, dataIn, udp, alive>>

(* entry: the TcpState, None when tcp_conns has none.  answer: the oneshot  *)
(* of open_tcp.  rx: who has the receiving end of the queue to the          *)
(* application; queue: what is in it.  peer: has it seen our SYN; is it up; *)
(* what it has left to send; did it send FIN, get ours, acknowledge ours;   *)
(* what it got.                                                             *)
Unopened(down) ==
    [ entry |-> None, answer |-> "none", rx |-> "none", queue |-> 0, inbound |-> << >>,
      peer |-> [syn |-> FALSE, up |-> FALSE, left |-> down, fin |-> FALSE, gotFin |-> FALSE,
                acked |-> FALSE, got |-> << >>] ]

NetInit(down) ==
    /\ conns = [id \in Ids |-> Unopened(down[id])]
    /\ cmd = << >> /\ dataIn = << >> /\ udp = FALSE /\ alive = TRUE

-----------------------------------------------------------------------------
(* smoltcp's socket *)

SocketStates == {"SynSent", "Established", "CloseWait", "FinWait1", "FinWait2", "Closing",
                 "TimeWait", "LastAck", "Closed"}

close(state) ==
    CASE state = "SynSent" -> "Closed"
      [] state = "Established" -> "FinWait1"
      [] state = "CloseWait" -> "LastAck"
      [] OTHER -> state

may_send(state) == state \in {"Established", "CloseWait"}

Segments == {"synack", "data", "fin", "ackfin", "rst"}

(* What a segment of the far end does to the socket. *)
Received(e, segment) ==
    CASE segment = "rst" -> [e EXCEPT !.state = "Closed"]
      [] segment = "synack" /\ e.state = "SynSent" -> [e EXCEPT !.state = "Established"]
      [] segment = "data" /\ e.state \in {"Established", "FinWait1", "FinWait2"} ->
             [e EXCEPT !.rxbuf = @ + 1]
      [] segment = "fin" /\ e.state = "Established" -> [e EXCEPT !.state = "CloseWait"]
      [] segment = "fin" /\ e.state = "FinWait1" -> [e EXCEPT !.state = "Closing"]
      [] segment = "fin" /\ e.state = "FinWait2" -> [e EXCEPT !.state = "TimeWait"]
      [] segment = "ackfin" /\ e.state = "FinWait1" -> [e EXCEPT !.state = "FinWait2"]
      [] segment = "ackfin" /\ e.state = "Closing" -> [e EXCEPT !.state = "TimeWait"]
      [] segment = "ackfin" /\ e.state = "LastAck" -> [e EXCEPT !.state = "Closed"]
      [] OTHER -> e

(* The socket after each of the segments, in their order. *)
Seen(e, segments) ==
    LET seen[i \in 0..Len(segments)] ==
            IF i = 0 THEN e ELSE Received(seen[i - 1], segments[i])
    IN  seen

(* iface.poll: the segments that came in, the TIME-WAIT timer, and, if the  *)
(* outbound packets get through, our SYN, the send buffer and our FIN.      *)
Poll(c, carried, expired) ==
    IF c.entry = None THEN [c EXCEPT !.inbound = << >>] ELSE
    LET in   == Seen(c.entry, c.inbound)[Len(c.inbound)]
        aged == IF expired /\ in.state = "TimeWait" THEN [in EXCEPT !.state = "Closed"] ELSE in
        out  == carried /\ aged.state # "Closed"
    IN  [c EXCEPT
           !.inbound = << >>,
           !.entry = IF out THEN [aged EXCEPT !.txbuf = << >>] ELSE aged,
           !.peer.syn = @ \/ out,
           !.peer.got = IF out THEN @ \o aged.txbuf ELSE @,
           !.peer.gotFin = @ \/ (out /\ aged.state \in {"FinWait1", "Closing", "LastAck"})]

-----------------------------------------------------------------------------
(* handle_cmd, handle_data, service_tcp *)

Tcp(id, chunk) == [kind |-> "Tcp", id |-> id, chunk |-> chunk]
TcpClose(id) == [kind |-> "TcpClose", id |-> id]
UdpClose == [kind |-> "UdpClose", id |-> None]

TcpState == [state |-> "SynSent", rxbuf |-> 0, txbuf |-> << >>, pending |-> << >>,
             established |-> FALSE, half_closed |-> FALSE]

OpenTcp(c) == [c EXCEPT !.entry = TcpState, !.rx = "stack"]

(* socket.connect refuses: there is no address to connect from or to. *)
Unconnected(c) == [c EXCEPT !.answer = IF @ = "wait" THEN "err" ELSE @]

(* What an item does to the connection id, c: ids are looked up. *)
handle_data(id, c, d) ==
    IF c.entry = None \/ d.id # id THEN c
    ELSE IF d.kind = "TcpClose" THEN [c EXCEPT !.entry.half_closed = TRUE]
    ELSE [c EXCEPT !.entry.pending = Append(@, d.chunk)]

(* The connection after each of the items. *)
Handling(id, c, items) ==
    LET seen[i \in 0..Len(items)] ==
            IF i = 0 THEN c ELSE handle_data(id, seen[i - 1], items[i])
    IN  seen

(* service_tcp, stage by stage.  An established connection is handed to     *)
(* whoever asked; if nobody waits any more it is dropped on the spot.       *)
HandOver(c) ==
    [c EXCEPT !.entry.established = TRUE,
              !.answer = IF @ = "wait" THEN "ok" ELSE @,
              !.rx = IF c.answer = "wait" THEN "app" ELSE "dropped"]

(* Mutant: a refused connection stays in the table, its caller unanswered. *)
Refused_Silent(c) == c

(* It closed before it was established: "connection refused". *)
Refused(c) == [c EXCEPT !.entry = None, !.rx = "none",
                        !.answer = IF @ = "wait" THEN "err" ELSE @]

Establish(c) ==
    IF c.entry = None \/ c.entry.established THEN c
    ELSE CASE c.entry.state = "Established" -> HandOver(c)
           [] c.entry.state \in {"Closed", "TimeWait"} -> Refused(c)
           [] OTHER -> c

(* Mutant: what the socket took is not drained. *)
Send_Again(e) ==
    IF ~may_send(e.state) THEN e
    ELSE LET n == Min({Len(e.pending), TxBuf - Len(e.txbuf)}) IN
         [e EXCEPT !.txbuf = @ \o SubSeq(e.pending, 1, n)]

(* send_slice takes of the pending bytes what the socket has room for. *)
Send(e) ==
    IF ~may_send(e.state) THEN e
    ELSE LET n == Min({Len(e.pending), TxBuf - Len(e.txbuf)}) IN
         [e EXCEPT !.txbuf = @ \o SubSeq(e.pending, 1, n),
                   !.pending = SubSeq(@, n + 1, Len(@))]

(* Mutant: the application's close does not wait for its data. *)
HalfClose_AtOnce(e) == IF e.half_closed THEN [e EXCEPT !.state = close(@)] ELSE e

HalfClose(e) ==
    IF e.half_closed /\ e.pending = << >> THEN [e EXCEPT !.state = close(@)] ELSE e

(* Mutant: the queue's bound is not looked at. *)
Deliver_Unbounded(c) ==
    CASE c.entry = None -> c
      [] c.entry # None /\ c.rx = "dropped" -> [c EXCEPT !.entry.state = close(@)]
      [] c.entry # None /\ c.rx # "dropped" ->
             [c EXCEPT !.entry.rxbuf = 0, !.queue = @ + c.entry.rxbuf]

(* Mutant: what came with the end of the stream is not handed over. *)
Deliver_WhileOpen(c) ==
    CASE c.entry = None -> c
      [] c.entry # None /\ c.rx = "dropped" -> [c EXCEPT !.entry.state = close(@)]
      [] c.entry # None /\ c.rx # "dropped" ->
             LET n == IF c.entry.state = "Closed" THEN 0
                      ELSE Min({c.entry.rxbuf, AppQueue - c.queue}) IN
             [c EXCEPT !.entry.rxbuf = @ - n, !.queue = @ + n]

(* Received chunks go to the application while its queue has room; an       *)
(* application that is gone closes the socket instead.                      *)
Deliver(c) ==
    CASE c.entry = None -> c
      [] c.entry # None /\ c.rx = "dropped" -> [c EXCEPT !.entry.state = close(@)]
      [] c.entry # None /\ c.rx # "dropped" ->
             LET n == Min({c.entry.rxbuf, AppQueue - c.queue}) IN
             [c EXCEPT !.entry.rxbuf = @ - n, !.queue = @ + n]

(* Mutant: a far end that has finished is left half open. *)
Finish_HalfOpen(c) ==
    IF c.entry # None /\ c.entry.established /\ c.entry.state = "Closed"
        THEN [c EXCEPT !.entry = None] ELSE c

(* The far end's FIN is answered with ours, a closed socket is removed. *)
Finish(c) ==
    CASE c.entry # None /\ c.entry.state = "CloseWait" -> [c EXCEPT !.entry.state = close(@)]
      [] c.entry # None /\ c.entry.established /\ c.entry.state = "Closed" ->
             [c EXCEPT !.entry = None]
      [] OTHER -> c

-----------------------------------------------------------------------------
(* The loop.  The select is biased: packets first, then one command, then   *)
(* all the data; with nothing to do it ticks while there are connections.   *)

Inbound == \E id \in Ids : conns[id].inbound # << >>

(* One iteration: poll, then serve every connection. *)
Iterate(cs, carried, expired) ==
    \E polled \in {[id \in Ids |-> Poll(cs[id], carried, expired)]} :
    \E handed \in {[id \in Ids |-> Establish(polled[id])]} :
    \E sent \in {[id \in Ids |->
                    IF handed[id].entry = None THEN handed[id]
                    ELSE [handed[id] EXCEPT !.entry = HalfClose(Send(@))]]} :
    \E read \in {[id \in Ids |-> Deliver(sent[id])]} :
        conns' = [id \in Ids |-> Finish(read[id])]

Handled(cs) == [id \in Ids |-> Handling(id, cs[id], dataIn)[Len(dataIn)]]

Tick(carried, expired) ==
    /\ alive
    /\ \/ /\ Inbound
          /\ Iterate(conns, carried, expired)
          /\ UNCHANGED <<cmd, dataIn, udp>>
       \/ /\ ~Inbound /\ cmd # << >>
          /\ \E connects \in BOOLEAN :
               Iterate([id \in Ids |-> IF id # Head(cmd) THEN conns[id]
                                       ELSE IF connects THEN OpenTcp(conns[id])
                                       ELSE Unconnected(conns[id])], carried, expired)
          /\ udp' = (udp \/ Head(cmd) = "udp")
          /\ cmd' = Tail(cmd) /\ UNCHANGED dataIn
       \/ /\ ~Inbound /\ cmd = << >> /\ dataIn # << >>
          /\ Iterate(Handled(conns), carried, expired)
          /\ udp' = (udp /\ \A i \in DOMAIN dataIn : dataIn[i].kind # "UdpClose")
          /\ dataIn' = << >> /\ UNCHANGED cmd
       \/ /\ ~Inbound /\ cmd = << >> /\ dataIn = << >>
          /\ \E id \in Ids : conns[id].entry # None
          /\ Iterate(conns, carried, expired)
          /\ UNCHANGED <<cmd, dataIn, udp>>
    /\ UNCHANGED alive

(* The tunnel under the stack is gone: the loop returns and everything it   *)
(* holds is dropped.                                                        *)
StackEnds ==
    /\ alive /\ alive' = FALSE
    /\ conns' = [id \in Ids |->
                   [conns[id] EXCEPT !.entry = None, !.inbound = << >>,
                                     !.rx = IF @ = "stack" THEN "none" ELSE @,
                                     !.answer = IF @ = "wait" THEN "err" ELSE @]]
    /\ cmd' = << >> /\ dataIn' = << >> /\ udp' = FALSE

-----------------------------------------------------------------------------
(* The far end of a connection *)

InFlight(c) == Cardinality({i \in DOMAIN c.inbound : c.inbound[i] = "data"})

Say(id, segment) == conns' = [conns EXCEPT ![id].inbound = Append(@, segment)]

PeerAccepts(id) ==
    /\ conns[id].peer.syn /\ conns[id].entry # None
    /\ conns[id].entry.state = "SynSent" /\ conns[id].inbound = << >>
    /\ \/ conns' = [conns EXCEPT ![id].inbound = Append(@, "synack"), ![id].peer.up = TRUE]
       \/ Say(id, "rst")
    /\ UNCHANGED <<cmd, dataIn, udp, alive>>

(* It sends what our window allows. *)
PeerSends(id) ==
    /\ conns[id].entry # None /\ conns[id].peer.up /\ ~conns[id].peer.fin
    /\ conns[id].peer.left > 0
    /\ conns[id].entry.rxbuf + InFlight(conns[id]) < RxBuf
    /\ conns' = [conns EXCEPT ![id].inbound = Append(@, "data"), ![id].peer.left = @ - 1]
    /\ UNCHANGED <<cmd, dataIn, udp, alive>>

PeerFinishes(id) ==
    /\ conns[id].entry # None /\ conns[id].peer.up /\ ~conns[id].peer.fin
    /\ conns' = [conns EXCEPT ![id].inbound = Append(@, "fin"), ![id].peer.fin = TRUE]
    /\ UNCHANGED <<cmd, dataIn, udp, alive>>

PeerAcknowledges(id) ==
    /\ conns[id].entry # None /\ conns[id].peer.gotFin /\ ~conns[id].peer.acked
    /\ conns' = [conns EXCEPT ![id].inbound = Append(@, "ackfin"), ![id].peer.acked = TRUE]
    /\ UNCHANGED <<cmd, dataIn, udp, alive>>

PeerResets(id) ==
    /\ conns[id].entry # None /\ conns[id].peer.up
    /\ conns' = [conns EXCEPT ![id].inbound = Append(@, "rst"), ![id].peer.up = FALSE]
    /\ UNCHANGED <<cmd, dataIn, udp, alive>>

-----------------------------------------------------------------------------
Entry == [state: SocketStates, rxbuf: 0..RxBuf, txbuf: Seq(Nat), pending: Seq(Nat),
          established: BOOLEAN, half_closed: BOOLEAN]

ASSUME NoneAssumption == None \notin Entry \cup Ids

Conn == [entry: Entry \cup {None}, answer: {"none", "wait", "ok", "err", "gone"},
         rx: {"none", "stack", "app", "dropped"}, queue: 0..AppQueue, inbound: Seq(Segments),
         peer: [syn: BOOLEAN, up: BOOLEAN, left: Nat, fin: BOOLEAN, gotFin: BOOLEAN,
                acked: BOOLEAN, got: Seq(Nat)]]

NetTypeOK ==
    /\ conns \in [Ids -> Conn]
    /\ \A id \in Ids : conns[id].entry # None => Len(conns[id].entry.txbuf) <= TxBuf
    /\ cmd \in Seq(Ids \cup {"udp"})
    /\ dataIn \in Seq([kind: {"Tcp"}, id: Ids, chunk: Nat] \cup [kind: {"TcpClose"}, id: Ids]
                       \cup {UdpClose})
    /\ udp \in BOOLEAN /\ alive \in BOOLEAN
=============================================================================
