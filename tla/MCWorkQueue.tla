----------------------------- MODULE MCWorkQueue ------------------------------
(* Small instances of WorkQueue for TLC. *)
EXTENDS WorkQueue, TLC

CONSTANTS w1, w2, a1, a2, p, d, ann, pay, owner

\* ann writes twice, is told of a payment and is passed the owner's decision.
FromMap == [j \in Jobs |-> CASE j = p -> pay [] j = d -> owner [] OTHER -> ann]
ToAnn == [j \in Jobs |-> ann]

Symmetry == Permutations(Workers)
===============================================================================
