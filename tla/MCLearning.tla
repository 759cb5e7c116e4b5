----------------------------- MODULE MCLearning ------------------------------
(* Small instances of Learning for TLC. *)
EXTENDS Learning, TLC

CONSTANTS c1, c2, price, tone
=============================================================================
