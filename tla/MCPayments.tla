----------------------------- MODULE MCPayments -----------------------------
(* The rows of a table are interchangeable. *)
EXTENDS Payments, TLC

Symmetry == Permutations(Payments) \cup Permutations(Carts)
=============================================================================
