--------------------------- MODULE MCRiskSession ---------------------------
(* The small instance of RiskSession that TLC checks. *)
EXTENDS RiskSession

MCPnl   == {-2, 1}
MCScore == {60, 70}
=============================================================================
