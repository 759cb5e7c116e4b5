------------------------------- MODULE Enquiry -------------------------------
(***************************************************************************)
(* What becomes of a request for a car that a person has to confirm, as    *)
(* its customer may rely on it (services/booking.py): it waits, the clock  *)
(* may run out on it, and it ends once.  A car that is wanted twice goes   *)
(* to one; what was declined, withdrawn or cancelled stays so; and of what *)
(* she was told is over she hears no other end.  No cases, no messages, no *)
(* sessions.                                                               *)
(***************************************************************************)
CONSTANTS
    Requests,
    Rivals      \* pairs of requests for one car at overlapping times

VARIABLES
    stage,      \* where each request is
    over        \* the requests whose customer was told that they are over

vars == <<stage, over>>

\* A request the clock has run out on is "lapsed": the owner may still answer it.
Undecided == {"waiting", "lapsed"}

Ends == {"declined", "withdrawn", "cancelled"}

Init == stage = [r \in Requests |-> "none"] /\ over = {}

\* A request keeps nobody else from the car: only a booking does.
Free(r) == \A q \in Requests : <<r, q>> \in Rivals => stage[q] # "booked"

Take(r) ==
    /\ stage[r] = "none" /\ Free(r)
    /\ stage' = [stage EXCEPT ![r] = "waiting"]
    /\ UNCHANGED over

\* The clock runs out on whatever has waited too long by now.
Lapse(rs) ==
    /\ rs # {} /\ \A r \in rs : stage[r] = "waiting"
    /\ stage' = [r \in Requests |-> IF r \in rs THEN "lapsed" ELSE stage[r]]
    /\ UNCHANGED over

Book(r) ==
    /\ stage[r] \in Undecided /\ r \notin over /\ Free(r)
    /\ stage' = [stage EXCEPT ![r] = "booked"]
    /\ UNCHANGED over

Decline(r) ==
    /\ stage[r] \in Undecided /\ r \notin over
    /\ stage' = [stage EXCEPT ![r] = "declined"]
    /\ UNCHANGED over

Withdraw(r) ==
    /\ stage[r] = "waiting"
    /\ stage' = [stage EXCEPT ![r] = "withdrawn"]
    /\ over' = over \cup {r}

Cancel(r) ==
    /\ stage[r] = "booked"
    /\ stage' = [stage EXCEPT ![r] = "cancelled"]
    /\ over' = over \cup {r}

\* Asked to cancel what is over already, by the clock or by anybody, the agent says so.
SayOver(r) ==
    /\ stage[r] \in Ends \cup {"lapsed"}
    /\ over' = over \cup {r}
    /\ UNCHANGED stage

Next ==
    \/ \E r \in Requests : \/ Take(r) \/ Book(r) \/ Decline(r)
                           \/ Withdraw(r) \/ Cancel(r) \/ SayOver(r)
    \/ \E rs \in SUBSET Requests : Lapse(rs)

Spec == Init /\ [][Next]_vars
===============================================================================
