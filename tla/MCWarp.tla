------------------------------- MODULE MCWarp -------------------------------
(* A small instance of WarpSession: two addresses, two profiles of which the *)
(* second is GOOL's.                                                         *)
EXTENDS WarpSession

MCCandidates == <<"light", "balanced">>
Plain == [gool |-> FALSE, forced |-> NoTarget, quick |-> TRUE, manual |-> FALSE,
          dataCheck |-> TRUE]
MCUsers == {Plain, [Plain EXCEPT !.forced = "a1"], [Plain EXCEPT !.gool = TRUE],
            [Plain EXCEPT !.gool = TRUE, !.forced = "a2"],
            [Plain EXCEPT !.manual = TRUE, !.dataCheck = FALSE]}

(* Networks: all targets carry data; one address only; the second profile    *)
(* only, and no inner leg; handshakes only; nothing.                         *)
Net(d, s, i) == [data |-> d, shake |-> s, inner |-> i]
MCNetworks == {Net(Targets, {}, TRUE), Net({"a2"} \X ToSet(Candidates), {}, TRUE),
               Net(Addrs \X {"balanced"}, {}, FALSE), Net({}, Targets, FALSE)}
=============================================================================
