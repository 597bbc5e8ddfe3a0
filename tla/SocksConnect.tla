---------------------------- MODULE SocksConnect ----------------------------
(***************************************************************************)
(* One SOCKS CONNECT from the client's request to the end of the relay      *)
(* (handle_connect in socks.rs), over the netstack: the peek at the         *)
(* client's first bytes, the routing decision, the organisation's gateway   *)
(* with its timeouts and the fall back to a plain connection, the name      *)
(* resolution, and the two pumps.                                           *)
(*                                                                          *)
(* The client sends the chunks 1..req.up; chunk 0 is the CONNECT request the    *)
(* program itself writes to the gateway.                                    *)
(***************************************************************************)
EXTENDS Netstack

CONSTANTS Requests,     \* the requests of the instance
          DataIn        \* capacity of data_in

(* A request: its target, ROUTES.has_domain_rules(), is a gateway set that   *)
(* takes this port, and, as bounds, the chunks the client and the two far   *)
(* ends send and the far ends that may reset a connection.                  *)
Request == [target: {"ip", "domain"}, rules: BOOLEAN, gateway: BOOLEAN,
            up: Nat, down: [Ids -> Nat], resets: SUBSET Ids]

ASSUME SocksAssumption ==
    /\ Ids = {"gateway", "dst"} /\ DataIn \in Nat \ {0}
    /\ Requests \subseteq Request

VARIABLES pc,
          req,      \* the request; its gateway field is GATEWAY_HEALTHY too
          client,   \* "on", "eof" (it has shut down its sending side) or "gone"
          next,     \* the next chunk to read off the client's socket
          head,     \* what the peek read
          replies,  \* SOCKS replies written
          via,      \* the connection that is relayed
          up,       \* does the upload task run
          direct    \* what a connection outside the tunnel was given

svars == <<pc, req, client, next, head, replies, via, up, direct>>
connectVars == <<netvars, svars>>

ConnectInit ==
    /\ req \in Requests /\ NetInit(req.down)
    /\ pc = "request" /\ client = "on" /\ next = 1 /\ head = << >> /\ replies = << >>
    /\ via = None /\ up = FALSE /\ direct = << >>

Ended == "ended"
Replied(code) == replies' = Append(replies, code)

(* The client's socket as the program reads it. *)
ClientData == next <= req.up /\ client # "gone"
ClientEof == (next > req.up /\ client = "eof") \/ client = "gone"

-----------------------------------------------------------------------------
(* Calls into the netstack *)

open_tcp(id) ==
    /\ cmd' = IF alive THEN Append(cmd, id) ELSE cmd
    /\ conns' = [conns EXCEPT ![id].answer = IF alive THEN "wait" ELSE "err"]

(* Whatever the caller holds of a connection, it drops: the queue's end     *)
(* and, if it is still waiting, its interest in the answer.                 *)
Dropped(c) == [c EXCEPT !.answer = "gone", !.rx = IF @ = "app" THEN "dropped" ELSE @,
                        !.queue = IF c.rx = "app" THEN 0 ELSE @]

Room == ~alive \/ Len(dataIn) < DataIn
Push(item) == dataIn' = IF alive THEN Append(dataIn, item) ELSE dataIn

(* from_stack.recv(): None once the queue is empty and its other end gone.  *)
Readable(id) == conns[id].queue > 0
AtEnd(id) == conns[id].queue = 0 /\ conns[id].entry = None

-----------------------------------------------------------------------------
(* The peek and the route *)

Begin ==
    /\ pc = "request"
    /\ IF req.target = "ip" /\ req.rules
       THEN Replied("ok") /\ pc' = "peek"
       ELSE UNCHANGED replies /\ pc' = "route"
    /\ UNCHANGED <<netvars, req, client, next, head, via, up, direct>>

read_sniff_head ==
    /\ pc = "peek"
    /\ \/ ClientData /\ head' = <<next>> /\ next' = next + 1 /\ pc' = "route"
       \/ pc' = "route" /\ UNCHANGED <<head, next>>                \* the window is over
       \/ ClientEof /\ pc' = Ended /\ UNCHANGED <<head, next>>
    /\ UNCHANGED <<netvars, req, client, replies, via, up, direct>>

Block ==
    /\ pc = "route" /\ pc' = Ended
    /\ IF replies = << >> THEN Replied("refused") ELSE UNCHANGED replies
    /\ UNCHANGED <<netvars, req, client, next, head, via, up, direct>>

Proxy ==
    /\ pc = "route"
    /\ IF req.gateway THEN pc' = "gateway" /\ open_tcp("gateway")
                      ELSE pc' = "resolve" /\ UNCHANGED <<cmd, conns>>
    /\ UNCHANGED <<dataIn, udp, alive, req, client, next, head, replies, via, up, direct>>

(* handle_direct: connect outside the tunnel, write the head, copy. *)
handle_direct ==
    /\ pc = "route"
    /\ \/ /\ pc' = "direct" /\ direct' = head
          /\ IF replies = << >> THEN Replied("ok") ELSE UNCHANGED replies
       \/ /\ pc' = Ended /\ UNCHANGED direct
          /\ IF replies = << >> THEN Replied("error") ELSE UNCHANGED replies
    /\ UNCHANGED <<netvars, req, client, next, head, via, up>>

DirectCopy ==
    /\ pc = "direct"
    /\ \/ ClientData /\ direct' = Append(direct, next) /\ next' = next + 1 /\ UNCHANGED pc
       \/ pc' = Ended /\ UNCHANGED <<direct, next>>
    /\ UNCHANGED <<netvars, req, client, head, replies, via, up>>

-----------------------------------------------------------------------------
(* open_through_gateway: every wait has a timeout, and any failure retires  *)
(* the gateway for good and goes on without it.                             *)

retire_gateway == req' = [req EXCEPT !.gateway = FALSE] /\ pc' = "resolve"

GatewayOpened ==
    /\ pc = "gateway" /\ conns["gateway"].answer = "ok"
    /\ Room /\ Push(Tcp("gateway", 0)) /\ pc' = "answer"
    /\ UNCHANGED <<conns, cmd, udp, alive, req, client, next, head, replies, via, up, direct>>

(* A refusal, a closed connection or a timeout. *)
GatewayFails ==
    /\ pc \in {"gateway", "answer"} /\ retire_gateway
    /\ conns' = [conns EXCEPT !["gateway"] = Dropped(@)]
    /\ UNCHANGED <<cmd, dataIn, udp, alive, client, next, head, replies, via, up, direct>>

(* The answer's head is in: the gateway accepted, or it refused and the     *)
(* connection is closed in order.                                           *)
GatewayAnswers ==
    /\ pc = "answer" /\ Readable("gateway") /\ Contains(conns["gateway"].peer.got, 0)
    /\ \/ /\ pc' = "reply" /\ via' = "gateway"
          /\ conns' = [conns EXCEPT !["gateway"].queue = @ - 1]
          /\ UNCHANGED <<dataIn, req>>
       \/ /\ Room /\ Push(TcpClose("gateway")) /\ retire_gateway
          /\ conns' = [conns EXCEPT !["gateway"] = Dropped(@)]
          /\ UNCHANGED via
    /\ UNCHANGED <<cmd, udp, alive, client, next, head, replies, up, direct>>

-----------------------------------------------------------------------------
(* resolve and the plain connection *)

Resolve ==
    /\ pc = "resolve"
    /\ IF req.target = "domain"
       THEN /\ pc' = "asking" /\ cmd' = (IF alive THEN Append(cmd, "udp") ELSE cmd)
            /\ UNCHANGED conns
       ELSE pc' = "opening" /\ open_tcp("dst")
    /\ UNCHANGED <<dataIn, udp, alive, req, client, next, head, replies, via, up, direct>>

(* Mutant: the DNS socket of a failed lookup is left open. *)
dns_resolve_Leaks ==
    /\ pc = "asking" /\ (udp \/ ~alive)
    /\ \/ /\ Room /\ Push(UdpClose) /\ pc' = "opening" /\ open_tcp("dst")
          /\ UNCHANGED replies
       \/ /\ Replied("error") /\ pc' = Ended /\ UNCHANGED <<dataIn, cmd, conns>>
    /\ UNCHANGED <<udp, alive, req, client, next, head, via, up, direct>>

(* dns_resolve closes its socket whether a resolver answered or not. *)
dns_resolve ==
    /\ pc = "asking" /\ (udp \/ ~alive)
    /\ Room /\ Push(UdpClose)
    /\ \/ pc' = "opening" /\ open_tcp("dst") /\ UNCHANGED replies
       \/ Replied("error") /\ pc' = Ended /\ UNCHANGED <<cmd, conns>>
    /\ UNCHANGED <<udp, alive, req, client, next, head, via, up, direct>>

Opened ==
    /\ pc = "opening"
    /\ \/ conns["dst"].answer = "ok" /\ pc' = "reply" /\ via' = "dst" /\ UNCHANGED replies
       \/ conns["dst"].answer = "err" /\ pc' = Ended /\ Replied("error") /\ UNCHANGED via
    /\ UNCHANGED <<netvars, req, client, next, head, up, direct>>

-----------------------------------------------------------------------------
(* The relay *)

(* reply_bound; a client that is gone by now ends it here. *)
Reply ==
    /\ pc = "reply"
    /\ \/ pc' = "relay" /\ up' = TRUE /\ Replied("ok") /\ UNCHANGED conns
       \/ /\ client = "gone" /\ pc' = Ended
          /\ conns' = [conns EXCEPT ![via] = Dropped(@)] /\ UNCHANGED <<up, replies>>
    /\ UNCHANGED <<cmd, dataIn, udp, alive, req, client, next, head, via, direct>>

UpSends ==
    /\ up /\ Room
    /\ \/ ClientData /\ Push(Tcp(via, next)) /\ next' = next + 1 /\ UNCHANGED up
       \/ ClientEof /\ Push(TcpClose(via)) /\ up' = FALSE /\ UNCHANGED next
    /\ UNCHANGED <<conns, cmd, udp, alive, pc, req, client, head, replies, via, direct>>

(* The download pump, and the end of the relay: the client's socket is shut *)
(* down, the upload aborted, the connection dropped.                        *)
DownWrites ==
    /\ pc = "relay" /\ Readable(via) /\ client # "gone"
    /\ conns' = [conns EXCEPT ![via].queue = @ - 1]
    /\ UNCHANGED <<cmd, dataIn, udp, alive, pc, req, client, next, head, replies, via, up, direct>>

DownEnds ==
    /\ pc = "relay" /\ (AtEnd(via) \/ (Readable(via) /\ client = "gone"))
    /\ pc' = Ended /\ up' = FALSE
    /\ conns' = [conns EXCEPT ![via] = Dropped(@)]
    /\ UNCHANGED <<cmd, dataIn, udp, alive, req, client, next, head, replies, via, direct>>

ClientShuts ==
    /\ client = "on" /\ client' \in {"eof", "gone"}
    /\ UNCHANGED <<netvars, pc, req, next, head, replies, via, up, direct>>

-----------------------------------------------------------------------------
handle_connect ==
    \/ Begin \/ read_sniff_head \/ Block \/ Proxy \/ handle_direct \/ DirectCopy
    \/ GatewayOpened \/ GatewayAnswers \/ GatewayFails
    \/ Resolve \/ dns_resolve \/ Opened \/ Reply \/ UpSends \/ DownWrites \/ DownEnds

Stack == \E carried, expired \in BOOLEAN : Tick(carried, expired) /\ UNCHANGED svars

Peer(id) == /\ UNCHANGED svars
            /\ \/ PeerAccepts(id) \/ PeerSends(id) \/ PeerFinishes(id)
               \/ PeerAcknowledges(id) \/ (id \in req.resets /\ PeerResets(id))

Tunnel == StackEnds /\ UNCHANGED svars

ConnectNext == handle_connect \/ Stack \/ (\E id \in Ids : Peer(id)) \/ Tunnel \/ ClientShuts

(* The tasks and the stack's loop run; what smoltcp sends again gets        *)
(* through in the end, and TIME-WAIT ends.  A far end answers a SYN, takes  *)
(* note of our FIN and follows it with its own; it need not send or finish  *)
(* by itself.  Nothing obliges the client.                                  *)
ConnectFairness ==
    /\ WF_connectVars(handle_connect)
    /\ WF_connectVars(Tick(TRUE, TRUE) /\ UNCHANGED svars)
    /\ \A id \in Ids :
         /\ WF_connectVars(PeerAccepts(id) /\ UNCHANGED svars)
         /\ WF_connectVars(PeerAcknowledges(id) /\ UNCHANGED svars)
         /\ WF_connectVars(conns[id].peer.gotFin /\ PeerFinishes(id) /\ UNCHANGED svars)

ConnectSpec == ConnectInit /\ [][ConnectNext]_connectVars /\ ConnectFairness

-----------------------------------------------------------------------------
ConnectTypeOK ==
    /\ NetTypeOK
    /\ pc \in {"request", "peek", "route", "direct", "gateway", "answer", "resolve", "asking",
               "opening", "reply", "relay", Ended}
    /\ req \in Request
    /\ client \in {"on", "eof", "gone"} /\ next \in 1..req.up + 1
    /\ head \in Seq(Nat) /\ Len(head) <= 1 /\ direct \in Seq(Nat)
    /\ replies \in Seq({"ok", "refused", "error"}) /\ Len(replies) <= 2
    /\ via \in Ids \cup {None} /\ up \in BOOLEAN
    /\ Len(dataIn) <= DataIn

(* What the far end has got, without the program's own CONNECT. *)
Uploaded ==
    IF via = "gateway" THEN Tail(conns[via].peer.got) ELSE conns[via].peer.got

(* Once the peek is over the client's stream reaches its far end without a  *)
(* gap, a repetition or a swap, through the queue, the pending buffer and   *)
(* the socket's, outside the tunnel too, where the peeked bytes lead.       *)
NoGap ==
    /\ via # None => Uploaded = [i \in DOMAIN Uploaded |-> Len(head) + i]
    /\ direct = [i \in DOMAIN direct |-> i]

(* A client that shuts down its sending side has all it sent delivered      *)
(* before the far end sees the end of the stream, unless the far end        *)
(* finished first, the client or the tunnel went away.                      *)
EofAfterData ==
    (via # None /\ conns[via].peer.gotFin /\ ~conns[via].peer.fin
        /\ client # "gone" /\ conns[via].rx = "app")
    => Len(head) + Len(Uploaded) = req.up

(* The upload arrives intact, in order and whole, and the queues that carry  *)
(* it keep to their capacities.                                             *)
UploadIntact == ConnectTypeOK /\ NoGap /\ EofAfterData

(* What the far end sent and the stack acknowledged is thrown away only     *)
(* when the application has left its queue full, or left altogether, or the *)
(* tunnel went.                                                             *)
LossMeansBacklog ==
    [][\A id \in Ids :
         LET c == conns[id] d == conns'[id] IN
         c.entry # None /\ d.entry = None /\ alive' /\ c.rx = "app" /\ d.rx = "app"
             => c.queue + c.entry.rxbuf + InFlight(c) = d.queue \/ d.queue = AppQueue]_connectVars

(* The far end's end of stream reaches the client: once it has finished or  *)
(* the tunnel is gone, a relay whose client still reads comes to an end.    *)
EndReachesClient ==
    (pc = "relay" /\ (~alive \/ conns[via].peer.fin)) ~> (pc = Ended \/ client = "gone")

(* Nothing is left behind: once the request has ended, and whichever answer *)
(* came too late for its timeout, the stack's tables are empty again.       *)
NothingLeft == (pc = Ended) ~> (~udp /\ \A id \in Ids : conns[id].entry = None)

(* A request is always answered: nobody waits for ever for a connection     *)
(* that was refused, lost with the tunnel or timed out.                     *)
Answered == (pc = "route") ~> (replies # << >> \/ client = "gone")

(* A client is never left waiting, for its reply or for the end.            *)
NobodyWaits == Answered /\ EndReachesClient

-----------------------------------------------------------------------------
(* "Nothing is consumed and discarded": the bytes inspected to learn the    *)
(* hostname are delivered at the head of the stream.                        *)
NothingDiscarded ==
    via # None => Uploaded = [i \in DOMAIN Uploaded |-> i]
=============================================================================
