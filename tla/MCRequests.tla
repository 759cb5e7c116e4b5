----------------------------- MODULE MCRequests ------------------------------
(* Small instances of Requests for TLC. *)
EXTENDS Requests, TLC

CONSTANTS ann, bob, r1, r2

OneEach == r1 :> ann @@ r2 :> bob

BothAnn == r1 :> ann @@ r2 :> ann

\* Two customers who want one car at overlapping times, or one who does.
OneCar == {<<r1, r2>>, <<r2, r1>>}

Alike == Permutations(Tasks)

\* Bob only wants the car.
CarOnly == \A k \in CasesOf(case, bob) : case[k].reason = "booking_hold"

\* While two messages are answered side by side nothing falls due, and what comes after
\* an answer that was relayed is as without it.
Racing == /\ \A k \in CaseIds : case[k] # NoCase => /\ case[k].clock \in {"unasked", "asked"}
                                                   /\ case[k].status # "relayed"
          /\ \A r \in Requests : request[r].age = "young"
          /\ \A c \in Customers : conv[c].sales # "dropped"
=============================================================================
