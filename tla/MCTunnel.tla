------------------------------ MODULE MCTunnel ------------------------------
(* A small instance of WireGuardTunnel: the real ladder, channels of two.     *)
EXTENDS WireGuardTunnel

MCLadder == <<1200, 1000, 800, 576>>
=============================================================================
