------------------------------- MODULE Dialogue -------------------------------
(***************************************************************************)
(* What a sender of the durable queue may rely on (whatsapp/jobs.py,       *)
(* docs/pilot-deployment.md): what they say is answered in the order they  *)
(* said it and answered once.  No workers, no retries, no crashes.         *)
(***************************************************************************)
CONSTANTS
    Jobs,       \* everything that can be said
    From        \* who says it

VARIABLES
    said,       \* what has been taken in
    before,     \* what its sender had said when it was
    answered    \* what has an answer on its way

vars == <<said, before, answered>>

Init == said = {} /\ before = [j \in Jobs |-> {}] /\ answered = {}

Say(j) ==
    /\ j \notin said
    /\ said' = said \cup {j}
    /\ before' = [before EXCEPT ![j] = {i \in said : From[i] = From[j]}]
    /\ UNCHANGED answered

Answer(j) ==
    /\ j \in said \ answered
    /\ before[j] \subseteq answered
    /\ answered' = answered \cup {j}
    /\ UNCHANGED <<said, before>>

Next == \E j \in Jobs : Say(j) \/ Answer(j)

Spec == Init /\ [][Next]_vars
===============================================================================
