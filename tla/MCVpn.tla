------------------------------- MODULE MCVpn -------------------------------
(* Small instances of VpnService and PsiphonLadder.  A behaviour keeps to    *)
(* one profile: a core session on a TUN, the same in proxy mode, or SHARD    *)
(* and Tor, asked for in proxy mode too, under a kill switch whose blocking  *)
(* TUN the system may refuse.                                                *)
EXTENDS PsiphonLadder

Profiled(transports, kill, blocking) ==
    [transports |-> transports, kill |-> kill, blocking |-> blocking]

MCNative == {Profiled({"NATIVE"}, FALSE, "granted")}
MCProfiles == {Profiled({"NATIVE"}, kill, "granted") : kill \in BOOLEAN}
                 \cup {Profiled({"SOCKS"}, FALSE, "granted")}
                 \cup {Profiled({"FRONT", "REFUSED"}, TRUE, b) : b \in {"granted", "null", "throws"}}
MCPsiphon == {Profiled({"PSIPHON"}, FALSE, "granted")}
=============================================================================
