------------------------------ MODULE MCMasque ------------------------------
(* A small instance of MasqueSession: two gateways, both in the pool on      *)
(* HTTP/3, one of them on HTTP/2.  Two refusals are the limit.               *)
EXTENDS MasqueSession

MCGatewayPeers == <<"g1", "g2">>
MCH2GatewayPeers == <<"g1">>
MCCachedPeers == <<"g2">>
Plain == [h2 |-> FALSE, forced |-> NoPeer, cache |-> TRUE, quick |-> TRUE, ironclad |-> FALSE]
MCUsers == {Plain, [Plain EXCEPT !.quick = FALSE],
            [Plain EXCEPT !.h2 = TRUE, !.cache = FALSE, !.ironclad = TRUE],
            [Plain EXCEPT !.forced = "g2"]}

(* Teams, kept identities and the identity of the WireGuard protocols come    *)
(* with the user whose session is the shortest.                               *)
MCInit == /\ Init
          /\ (team \/ ~reprovision \/ proto = "warp") => user.forced # NoPeer
MCSpec == MCInit /\ [][Next]_vars /\ Fairness

(* Networks: everything works; both gateways refuse everyone; HTTP/2 only;    *)
(* only g2 is there; nothing works.                                          *)
Net(r, h) == [reach |-> r, hiccup |-> h]
Everywhere(ts) == [p \in Peers |-> ts]
MCNetworks ==
    {Net(Everywhere(Transports), h) : h \in {{}, {"g1", "g2"}}}
    \cup {Net(Everywhere({"h2"}), {}), Net(Everywhere({}), {}),
          Net([Everywhere({}) EXCEPT !["g2"] = Transports], {})}
=============================================================================
