----------------------------- MODULE MCPayments ------------------------------
(* Small instances of Payments for TLC. *)
EXTENDS Payments, TLC

CONSTANTS c1, c2, c3

Symmetry == Permutations(Checkouts)
=============================================================================
