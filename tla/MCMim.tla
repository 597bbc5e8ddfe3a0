-------------------------------- MODULE MCMim --------------------------------
(* A small instance of MimSession: three edges, two of them in the pool.      *)
EXTENDS MimSession

MCGatewayPeers == <<"e1", "e2">>
Plain == [h2 |-> FALSE, forced |-> NoEdge, quick |-> TRUE, cache |-> TRUE]
MCUsers == {Plain, [Plain EXCEPT !.h2 = TRUE, !.cache = FALSE], [Plain EXCEPT !.forced = "e1"]}

(* Networks: all edges work; e1 is gone; only HTTP/2; e1 carries nothing;     *)
(* nothing works.                                                             *)
All(x) == [e \in Edges |-> x]
Net(r, c) == [reach |-> r, carries |-> c]
Both == {"h2", "h3"}
MCNetworks == {Net(All(Both), All(Edges)),
               Net([All(Both) EXCEPT !["e1"] = {}], All(Edges)),
               Net(All({"h2"}), All(Edges)),
               Net(All(Both), [All(Edges) EXCEPT !["e1"] = {}]),
               Net(All({}), All({}))}
=============================================================================
