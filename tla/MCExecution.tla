---------------------------- MODULE MCExecution ----------------------------
(* The small instances of Execution that TLC checks. *)
EXTENDS Execution, TLC

MCQuote    == {-1, 0, 2}
MCRounding == {0}

\* Orders and positions are told apart by nothing but their identifiers.
MCSymmetry == Permutations(OrderId) \cup Permutations(PositionId)
=============================================================================
