-------------------------- MODULE MCMasqueTunnel --------------------------
(* Small instances of MasqueTunnel: every carrier, check and ECH setting;  *)
(* ECH is QUIC's alone.                                                    *)
EXTENDS MasqueTunnel

MCSettings == {s \in Setting : s.ech => s.carrier = "h3"}
=============================================================================
