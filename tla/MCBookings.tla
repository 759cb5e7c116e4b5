------------------------------ MODULE MCBookings ------------------------------
(* Small instances of Bookings for TLC. *)
EXTENDS Bookings, TLC

CONSTANTS t1, t2, desk, ann, v1, v2

\* One turn at a time per customer, as the durable queue's lanes have it: a
\* turn stands for its customer.
OwnTurns == [s \in Sessions |-> s]

\* Two turns of one customer side by side: background tasks, no lanes.
SameCustomer == [s \in Sessions |-> ann]

Symmetry == Permutations(Turns) \cup Permutations(Refs) \cup Permutations(QuoteIds)
==============================================================================
