------------------------------ MODULE MCSocks ------------------------------
(* A small instance of SocksConnect: buffers and queues of one chunk; two    *)
(* chunks each way on a plain connection, fewer where the gateway comes      *)
(* first and both connections may be alive.                                  *)
EXTENDS SocksConnect

Plain(rules) == [target |-> "ip", rules |-> rules, gateway |-> FALSE, up |-> 2, resets |-> {"dst"},
                 down |-> [id \in Ids |-> IF id = "dst" THEN 2 ELSE 0]]
Named == [Plain(FALSE) EXCEPT !.target = "domain", !.up = 1, !.down["dst"] = 1]
Filtered == [Named EXCEPT !.target = "ip", !.gateway = TRUE, !.down["gateway"] = 1, !.down["dst"] = 0, !.resets = {}]

MCRequests == {Plain(FALSE), Plain(TRUE), Named, Filtered}

(* A request for an address while there are domain rules. *)
MCSniffed == {Plain(TRUE)}
=============================================================================
