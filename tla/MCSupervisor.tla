---------------------------- MODULE MCSupervisor ----------------------------
(* The small instances of Supervisor that TLC checks. *)
EXTENDS Supervisor

MCPnl   == {-1}
MCScore == {60, 70}
=============================================================================
