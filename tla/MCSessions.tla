----------------------------- MODULE MCSessions -----------------------------
(* Sessions with interchangeable tokens and handlers.  The symmetry is used  *)
(* by the runs that check safety only.                                       *)
EXTENDS Sessions, TLC

Symmetry == Permutations(Tokens) \cup Permutations(Requests) \cup Permutations(Users)

=============================================================================
