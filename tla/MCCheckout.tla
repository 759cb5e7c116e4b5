----------------------------- MODULE MCCheckout ------------------------------
(* Small instances of Checkout for TLC. *)
EXTENDS Checkout, TLC

CONSTANTS monday, friday, marina, airport, p1, p2, d1, d2, ann, bob

Alike == Permutations(Slots) \cup Permutations(Policies) \cup Permutations(Documents)

\* The last quote is that of a change, and one quote at a time runs out, before
\* anything is booked of it; of what follows a planned delivery, only a change.
Focus == /\ quote[MaxQuotes] # Nothing =>
               \E b \in Quotes : booking[b] # Nothing /\ booking[b].quote = MaxQuotes
         /\ Cardinality({q \in Quotes : quote[q] # Nothing /\ quote[q].expired}) <= 1
         /\ \A q, b \in Quotes :
               booking[b] # Nothing /\ q \in {b, booking[b].quote} => ~quote[q].expired
         /\ \A b \in Quotes : booking[b] # Nothing /\ booking[b].delivery # Unsaid =>
               /\ booking[b].status = "confirmed"
               /\ booking[b].version = MaxVersion => booking[b].slot # quote[b].slot
=============================================================================
