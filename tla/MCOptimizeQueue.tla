--------------------------- MODULE MCOptimizeQueue ---------------------------
(* Days of two hours, weeks of two days: a schedule comes due twice. *)
EXTENDS OptimizeQueue
=============================================================================
