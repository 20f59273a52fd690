----------------------------- MODULE MCAppState -----------------------------
(* The HTTP application with interchangeable threads and positions. *)
EXTENDS AppState, TLC

Symmetry == Permutations(Thread) \cup Permutations(Pos)
=============================================================================
