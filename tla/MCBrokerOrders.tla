--------------------------- MODULE MCBrokerOrders ---------------------------
(* The small instance of BrokerOrders that TLC checks. *)
EXTENDS BrokerOrders

MCPrice == {-1, 1}
=============================================================================
