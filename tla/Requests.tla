------------------------------ MODULE Requests -------------------------------
(***************************************************************************)
(* Bookings that wait for a person, and the questions put to that person.  *)
(* A customer's turn takes a request and raises a case (services/booking,  *)
(* services/escalation); the webhook asks the owner about the newest case  *)
(* of the conversation, chases the owner, applies the answer and has the   *)
(* agent relay it (services/handover, whatsapp/webhook).                   *)
(*                                                                         *)
(* A task is one message, or one run of the maintenance job, in a session  *)
(* of its own.  A session keeps the rows it has loaded as it first saw     *)
(* them and writes back the columns it sets.  With Serial there is one     *)
(* durable worker and one task at a time; without, each message is a       *)
(* background task.                                                        *)
(***************************************************************************)
EXTENDS Naturals, FiniteSets

CONSTANTS
    Customers,
    Requests,       \* reservation references
    OwnerOf,        \* whose request it would be
    Rivals,         \* pairs of requests for one car at overlapping times
    MaxCases,       \* bound on the cases ever raised
    Tasks,
    Serial,
    Outages,        \* whether the model may be out of reach
    Nobody, NoRequest, NoCase, NoView

ASSUME RequestsAssumption ==
    /\ OwnerOf \in [Requests -> Customers]
    /\ Rivals \subseteq Requests \X Requests
    /\ \A r, q \in Requests : <<r, q>> \in Rivals => <<q, r>> \in Rivals /\ r # q
    /\ MaxCases \in Nat
    /\ Serial \in BOOLEAN /\ Outages \in BOOLEAN
    /\ NoRequest \notin Requests
    /\ Nobody \notin Customers

VARIABLES
    request,    \* the reservation rows
    case,       \* the escalation rows, by id
    conv,       \* one conversation a customer
    strict,     \* booking.enforce_checkout_flow
    pc,         \* what each task does next
    of,         \* the customer a task is about
    msg,        \* what the customer's message is about
    view,       \* the rows as the task's session loaded them
    item,       \* the case a task relays or decides
    answer,     \* the owner's answer
    late,       \* cases the sweep still has to look at
    told,       \* cases whose answer the customer has been sent
    gone        \* requests whose owner was told they are cancelled

tables == <<request, case, conv, strict>>
task   == <<pc, of, msg, view, item, answer, late>>
vars   == <<tables, task, told, gone>>

CaseIds == 1 .. MaxCases

\* Terminal events of the history, the last of which counts, whether a change was
\* asked for since, and the age of a request that is held: inside its window,
\* exactly as old as it, or older.
Events == {"none", "confirmed", "released", "expired", "withdrawn"}

Request == [status: {"none", "held", "confirmed", "cancelled"},
            last: Events, change: BOOLEAN, age: {"young", "edge", "old"}]

\* `clock` is what is due of a case that awaits its answer, by notified_at:
\* nothing, a reminder, the timeout.
Reasons == {"booking_hold", "urgent", "question", "figure", "advisory"}

Answers == {"approved", "declined", "owner_calling", "answered"}

Case == [of: Customers, about: Requests \cup {NoRequest}, reason: Reasons,
         status: {"open", "awaiting", "timed_out", "decided", "relayed", "withdrawn"},
         clock: {"unasked", "asked", "reminder", "timeout"}, reminded: BOOLEAN]

ASSUME SentinelAssumption == NoCase \notin Case

\* `frozen` and `reason` are the state's escalated and escalation_reason, `figure`
\* its awaiting_figure; `window` is Meta's 24 hours, `sales` the outcome tagged.
Conversation == [frozen: BOOLEAN, reason: Reasons \cup {"none"}, figure: BOOLEAN,
                 window: BOOLEAN, sales: {"none", "dropped", "escalated", "booked"}]

Unanswered == {"awaiting", "timed_out"}
OpenStatuses == Unanswered \cup {"open", "decided"}

CasesOf(cs, c) == {k \in CaseIds : cs[k] # NoCase /\ cs[k].of = c}

Newest(ks) == CHOOSE k \in ks : \A j \in ks : j <= k

Spare(cs) == {k \in CaseIds : cs[k] = NoCase}

-----------------------------------------------------------------------------
TypeOK ==
    /\ request \in [Requests -> Request]
    /\ case \in [CaseIds -> Case \cup {NoCase}]
    /\ \A k \in CaseIds : case[k] # NoCase =>
          (case[k].reason = "booking_hold" <=> case[k].about \in Requests)
    /\ conv \in [Customers -> Conversation]
    /\ strict \in BOOLEAN
    /\ pc \in [Tasks -> {"idle", "sweeping", "routing", "turning", "asking", "overdue", "chasing",
                         "deciding", "relaying", "telling"}]
    /\ of \in [Tasks -> Customers \cup {Nobody}]
    /\ msg \in [Tasks -> {"business", "urgent"}]
    /\ item \in [Tasks -> CaseIds \cup {0}]
    /\ answer \in [Tasks -> Answers \cup {"none"}]
    /\ late \in [Tasks -> SUBSET CaseIds]
    /\ told \subseteq CaseIds
    /\ gone \subseteq Requests

NewRequest == [status |-> "none", last |-> "none", change |-> FALSE, age |-> "young"]

\* A request in a terminal state, and a case in another status.
Settled(status, last) == [status |-> status, last |-> last, change |-> FALSE, age |-> "young"]

Moved(k, status) ==
    [k EXCEPT !.status = status, !.clock = IF @ = "unasked" THEN @ ELSE "asked"]

Snapshot == [request |-> request, case |-> case, conv |-> conv]

Init ==
    /\ request = [r \in Requests |-> NewRequest]
    /\ case = [k \in CaseIds |-> NoCase]
    /\ conv = [c \in Customers |-> [frozen |-> FALSE, reason |-> "none", figure |-> FALSE,
                                    window |-> FALSE, sales |-> "none"]]
    /\ strict \in BOOLEAN
    /\ pc = [t \in Tasks |-> "idle"]
    /\ of = [t \in Tasks |-> Nobody]
    /\ msg = [t \in Tasks |-> "business"]
    /\ view = [t \in Tasks |-> NoView]
    /\ item = [t \in Tasks |-> 0]
    /\ answer = [t \in Tasks |-> "none"]
    /\ late = [t \in Tasks |-> {}]
    /\ told = {}
    /\ gone = {}

\* A request holds nothing off the market: only bookings are in its way.
Available(r) == \A q \in Requests : <<r, q>> \in Rivals => request[q].status # "confirmed"

-----------------------------------------------------------------------------
(* Tasks *)

Idle == \A t \in Tasks : pc[t] = "idle"

\* Task t may take up a message: the one worker, or a background task of its own.
Takes(t) == pc[t] = "idle" /\ (Serial => Idle)

Goto(t, label) == pc' = [pc EXCEPT ![t] = label]

Load(t) == view' = [view EXCEPT ![t] = Snapshot]

End(t) ==
    /\ Goto(t, "idle")
    /\ of' = [of EXCEPT ![t] = Nobody]
    /\ msg' = [msg EXCEPT ![t] = "business"]
    /\ view' = [view EXCEPT ![t] = NoView]
    /\ item' = [item EXCEPT ![t] = 0]
    /\ answer' = [answer EXCEPT ![t] = "none"]
    /\ late' = [late EXCEPT ![t] = {}]

\* One inbound message of a customer.
Arrive(t, c, m) ==
    /\ Takes(t)
    /\ m = "urgent" => Spare(case) # {}
    /\ of' = [of EXCEPT ![t] = c]
    /\ msg' = [msg EXCEPT ![t] = m]
    /\ Load(t)
    /\ Goto(t, "sweeping")
    /\ UNCHANGED <<tables, item, answer, late, told, gone>>

\* The maintenance job of a minute; only the durable worker has one.
Maintain(t) ==
    /\ Serial
    /\ Takes(t)
    /\ Load(t)
    /\ Goto(t, "sweeping")
    /\ UNCHANGED <<tables, of, msg, item, answer, late, told, gone>>

-----------------------------------------------------------------------------
(* Sweeps *)

\* holds_taken_before is strict and held_for_customer is not, so a request
\* exactly as old as its window is neither swept nor withdrawable.
Expired(q)  == q.status = "held" /\ q.age = "old"

\* expire_holds: the clock releases a request, and leaves what the owner may say.
Released == Settled("cancelled", "expired")

\* Mutant: a change to a booking is kept for the owner too.
AwaitingOrConfirmed(q) == q.status \in {"held", "confirmed"}

Awaiting(q) == q.status = "held" /\ q.age = "young"

\* A request that waits is no booking yet.
Live(q) == q.status = "confirmed"

Rank(outcome) == CASE outcome = "booked" -> 2 [] outcome = "escalated" -> 1
                   [] outcome = "dropped" -> 0

\* outcomes.record: a tag gives way to a stronger one only.
Tagged(cv, outcome) ==
    IF cv.sales # "none" /\ Rank(cv.sales) >= Rank(outcome) THEN cv
    ELSE [cv EXCEPT !.sales = outcome]

\* Mutant: that the owner was reminded is forgotten.
NeedsReminderAgain(k, seen) ==
    seen.status = "awaiting" /\ case[k].clock \in {"reminder", "timeout"}

NeedsReminder(k, seen) == /\ seen.status = "awaiting"
                          /\ ~seen.reminded
                          /\ case[k].clock \in {"reminder", "timeout"}

HasTimedOut(k, seen) == seen.status = "awaiting" /\ case[k].clock = "timeout"

Overdue == {k \in CaseIds : case[k] # NoCase /\ (\/ NeedsReminder(k, case[k])
                                                \/ HasTimedOut(k, case[k]))}

\* _tell_owner_about_changes reads the overdue cases once, then handles each.
LoadOverdue(t) ==
    /\ pc[t] = "overdue"
    /\ IF Overdue = {} THEN End(t)
       ELSE /\ Goto(t, "chasing")
            /\ Load(t)
            /\ late' = [late EXCEPT ![t] = Overdue]
            /\ UNCHANGED <<of, msg, item, answer>>
    /\ UNCHANGED <<tables, told, gone>>

\* sweep_dropped: what a conversation that has fallen silent is counted as.
Silent(c) == ~conv[c].window /\ conv[c].sales = "none"

FellSilentAs(c) ==
    IF \E r \in Requests : OwnerOf[r] = c /\ request[r].status \in {"held", "confirmed"}
    THEN "booked"
    ELSE IF conv[c].frozen THEN "escalated" ELSE "dropped"

\* Quiet conversations that were quoted are tagged; requests nobody answered in
\* time are released.
Sweep(t) ==
    /\ pc[t] = "sweeping"
    /\ \E quiet \in SUBSET {c \in Customers : Silent(c)} :
          conv' = [c \in Customers |->
                     IF c \in quiet THEN [conv[c] EXCEPT !.sales = FellSilentAs(c)] ELSE conv[c]]
    /\ request' = [r \in Requests |->
                     IF Expired(view[t].request[r]) THEN Released ELSE request[r]]
    /\ Goto(t, IF of[t] = Nobody THEN "overdue" ELSE "routing")
    /\ UNCHANGED <<case, strict, of, msg, view, item, answer, late, told, gone>>

\* One reminder each, then the timeout, which leaves the case answerable.
ChaseOne(t) ==
    /\ pc[t] = "chasing"
    /\ late[t] # {}
    /\ LET k == Newest(late[t])
           seen == view[t].case[k]
       IN /\ case' = [case EXCEPT ![k] =
                        IF NeedsReminder(k, seen) THEN [@ EXCEPT !.reminded = TRUE]
                        ELSE IF HasTimedOut(k, seen) THEN Moved(@, "timed_out")
                        ELSE @]
          /\ late' = [late EXCEPT ![t] = @ \ {k}]
    /\ UNCHANGED <<request, conv, strict, pc, of, msg, view, item, answer, told, gone>>

ChaseDone(t) ==
    /\ pc[t] = "chasing"
    /\ late[t] = {}
    /\ End(t)
    /\ UNCHANGED <<tables, told, gone>>

-----------------------------------------------------------------------------
(* A customer's message *)

Owed(c)    == {k \in CasesOf(case, c) : case[k].status = "decided"}
\* Mutant: a case that has timed out is nobody's any more.
PendingInTime(c) == {k \in CasesOf(case, c) : case[k].status = "awaiting"}

Pending(c) == {k \in CasesOf(case, c) : case[k].status \in Unanswered}

OpensWindow(c) == conv' = [conv EXCEPT ![c].window = TRUE]

\* An answer that could not reach the customer is relayed first.
RouteOwed(t) ==
    /\ pc[t] = "routing"
    /\ \E k \in Owed(of[t]) : item' = [item EXCEPT ![t] = k]
    /\ OpensWindow(of[t])
    /\ Load(t)
    /\ Goto(t, "telling")
    /\ UNCHANGED <<request, case, strict, of, msg, answer, late, told, gone>>

\* While the owner is being asked, the customer is told to wait and no turn runs.
PutOff(t) ==
    /\ pc[t] = "routing"
    /\ Owed(of[t]) = {}
    /\ Pending(of[t]) # {}
    /\ OpensWindow(of[t])
    /\ End(t)
    /\ UNCHANGED <<request, case, strict, told, gone>>

BeginTurn(t) ==
    /\ pc[t] = "routing"
    /\ Owed(of[t]) = {}
    /\ Pending(of[t]) = {}
    /\ Load(t)
    /\ Goto(t, "turning")
    /\ UNCHANGED <<tables, of, msg, item, answer, late, told, gone>>

\* A new case of customer c, and the state it leaves: a figure that is asked for
\* does not freeze the conversation, and an advisory case changes nothing.
Raised(cs, c, reason, r) ==
    LET k == CHOOSE j \in Spare(cs) : \A i \in Spare(cs) : j <= i
    IN [cs EXCEPT ![k] = [of |-> c, about |-> r, reason |-> reason, status |-> "open",
                          clock |-> "unasked", reminded |-> FALSE]]

\* Mutant: the first reason stays.
ClassifiedOnce(cv, reason) == IF cv.reason # "none" THEN cv.reason ELSE reason

Classified(cv, reason) == IF cv.reason = "urgent" THEN "urgent" ELSE reason

Escalated(cv, reason) ==
    LET why == Classified(cv, reason)
        tagged == [Tagged(cv, "escalated") EXCEPT !.reason = why]
    IN IF why = "figure" THEN [tagged EXCEPT !.figure = TRUE]
       ELSE [tagged EXCEPT !.frozen = TRUE]

\* What a turn commits: rows q of the request, cs of the cases, cv of the
\* conversation, whose state is written as a whole and whose outcome only if
\* it was set.
Write(t, r, q, cs, cv) ==
    LET c == of[t] IN
    /\ request' = IF r = NoRequest THEN request ELSE [request EXCEPT ![r] = q]
    /\ case' = cs
    /\ conv' = [conv EXCEPT ![c] =
                  [cv EXCEPT !.window = TRUE,
                             !.sales = IF @ = view[t].conv[c].sales THEN conv[c].sales ELSE @]]

\* What the guard on the reply may add to a turn: a figure to ask for.
Guarded(cs, cv, c) ==
    {<<cs, cv>>} \cup
    (IF cv.figure \/ Spare(cs) = {} THEN {}
     ELSE {<<Raised(cs, c, Classified(cv, "figure"), NoRequest), Escalated(cv, "figure")>>})

\* Mutant: the owner is asked only by the turn that escalates.
EndTurnEscalating(t, r, q, cs, cv) ==
    /\ \E g \in Guarded(cs, cv, of[t]) :
          /\ Write(t, r, q, g[1], g[2])
          /\ IF g[1] # cs THEN Goto(t, "asking") ELSE Goto(t, "overdue")
    /\ UNCHANGED <<strict, of, msg, view, item, answer, late, told>>

\* The end of a turn: the owner is asked if the conversation is frozen or the turn
\* escalated, and the sweep follows otherwise.
EndTurn(t, r, q, cs, cv) ==
    /\ \E g \in Guarded(cs, cv, of[t]) :
          /\ Write(t, r, q, g[1], g[2])
          /\ IF g[2].frozen \/ g[1] # cs THEN Goto(t, "asking") ELSE Goto(t, "overdue")
    /\ UNCHANGED <<strict, of, msg, view, item, answer, late, told>>

Turning(t) == pc[t] = "turning"

\* An emergency is escalated before any model is asked.
UrgentTurn(t) ==
    /\ Turning(t)
    /\ msg[t] = "urgent"
    /\ Spare(case) # {}
    /\ Write(t, NoRequest, NewRequest, Raised(case, of[t], "urgent", NoRequest),
             Escalated(view[t].conv[of[t]], "urgent"))
    /\ Goto(t, "asking")
    /\ UNCHANGED <<strict, of, msg, view, item, answer, late, told, gone>>

\* With an urgent case the customer only gets the emergency numbers.
GuidanceTurn(t) ==
    /\ Turning(t)
    /\ msg[t] = "business"
    /\ view[t].conv[of[t]].frozen
    /\ view[t].conv[of[t]].reason = "urgent"
    /\ Write(t, NoRequest, NewRequest, case, view[t].conv[of[t]])
    /\ Goto(t, "overdue")
    /\ UNCHANGED <<strict, of, msg, view, item, answer, late, told, gone>>

\* The model is asked and may call tools.
Business(t) ==
    /\ Turning(t)
    /\ msg[t] = "business"
    /\ ~(view[t].conv[of[t]].frozen /\ view[t].conv[of[t]].reason = "urgent")

\* A turn that calls no tool that changes a request, or one that is refused.
TalkTurn(t) ==
    /\ Business(t)
    /\ EndTurn(t, NoRequest, NewRequest, case, view[t].conv[of[t]])
    /\ UNCHANGED gone

\* create_demo_reservation with a person to confirm it.
TakeRequest(t, r) ==
    /\ Business(t)
    /\ OwnerOf[r] = of[t]
    /\ request[r].status = "none"
    /\ Spare(case) # {}
    /\ Available(r)
    /\ LET cv == view[t].conv[of[t]]
       IN EndTurn(t, r, [NewRequest EXCEPT !.status = "held"],
                  Raised(case, of[t], Classified(cv, "booking_hold"), r),
                  Escalated(cv, "booking_hold"))
    /\ UNCHANGED gone

\* A change to a request is written to its history and not applied.
AskChange(t, r) ==
    /\ Business(t)
    /\ OwnerOf[r] = of[t]
    /\ Awaiting(view[t].request[r])
    /\ EndTurn(t, r, [request[r] EXCEPT !.last = view[t].request[r].last, !.change = TRUE],
               case, view[t].conv[of[t]])
    /\ UNCHANGED gone

\* The customer withdraws a request: the newest case is closed if it asks about
\* a request and is still open.
Withdraw(t, r) ==
    /\ Business(t)
    /\ OwnerOf[r] = of[t]
    /\ Awaiting(view[t].request[r])
    /\ LET k == Newest(CasesOf(case, of[t]))
           closes == CasesOf(case, of[t]) # {} /\ case[k].reason = "booking_hold"
                                              /\ case[k].status \in OpenStatuses
       IN EndTurn(t, r, Settled("cancelled", "withdrawn"),
                  IF closes THEN [case EXCEPT ![k] = Moved(@, "withdrawn")] ELSE case,
                  view[t].conv[of[t]])
    /\ gone' = gone \cup {r}

\* A confirmed booking is cancelled, and one that is cancelled already is said
\* to be, the clock's doing or not.
Cancel(t, r) ==
    /\ Business(t)
    /\ OwnerOf[r] = of[t]
    /\ Live(view[t].request[r]) \/ view[t].request[r].status = "cancelled"
    /\ EndTurn(t, IF Live(view[t].request[r]) THEN r ELSE NoRequest,
               Settled("cancelled", view[t].request[r].last),
               case, view[t].conv[of[t]])
    /\ gone' = gone \cup {r}

\* The agent escalates a question of its own accord.
Question(t) ==
    /\ Business(t)
    /\ Spare(case) # {}
    /\ LET cv == view[t].conv[of[t]]
       IN EndTurn(t, NoRequest, NewRequest, Raised(case, of[t], Classified(cv, "question"), NoRequest),
                  Escalated(cv, "question"))
    /\ UNCHANGED gone

\* A question about incidents is recorded and nobody is paged, unless a tool call
\* of the conversation has escalated before: then the turn counts as escalated.
Advise(t) ==
    /\ Business(t)
    /\ Spare(case) # {}
    /\ LET cs == Raised(case, of[t], "advisory", NoRequest)
           cv == view[t].conv[of[t]]
           before == \E k \in CasesOf(case, of[t]) : case[k].reason \in {"urgent", "question", "figure"}
       IN /\ Write(t, NoRequest, NewRequest, cs, cv)
          /\ Goto(t, IF cv.frozen \/ before THEN "asking" ELSE "overdue")
    /\ UNCHANGED <<strict, of, msg, view, item, answer, late, told, gone>>

\* _notify_staff opens the newest case of the conversation, whatever it is about
\* and whatever became of it.
Ask(t) ==
    /\ pc[t] = "asking"
    /\ LET k == Newest(CasesOf(case, of[t]))
       IN case' = [case EXCEPT ![k].status = "awaiting", ![k].clock = "asked"]
    /\ Goto(t, "overdue")
    /\ UNCHANGED <<request, conv, strict, of, msg, view, item, answer, late, told, gone>>

-----------------------------------------------------------------------------
(* The owner's answer *)

Options(reason) == CASE reason = "booking_hold" -> {"approved", "declined", "owner_calling"}
                     [] reason = "figure" -> {"answered", "owner_calling"}
                     [] OTHER -> {"approved", "declined"}

OwnerAnswers(t, k, a) ==
    /\ Takes(t)
    /\ case[k] # NoCase
    /\ case[k].status \in Unanswered
    /\ a \in Options(case[k].reason)
    /\ item' = [item EXCEPT ![t] = k]
    /\ answer' = [answer EXCEPT ![t] = a]
    /\ Load(t)
    /\ Goto(t, "deciding")
    /\ UNCHANGED <<tables, of, msg, late, told, gone>>

\* The request a case is about, as the owner's session loaded it.
Asked(t) == view[t].case[item[t]].about

AboutRequest(t) == view[t].case[item[t]].reason = "booking_hold"

Withdrawn(q) == q.last = "withdrawn"

\* A request the clock released can still be answered.
Decidable(q) == q.status = "held" \/ (q.status = "cancelled" /\ q.last = "expired")

RecordDecision(t) ==
    /\ case' = [case EXCEPT ![item[t]] = Moved(@, "decided")]
    /\ Goto(t, "relaying")
    /\ UNCHANGED <<strict, of, msg, view, item, answer, late, told, gone>>

Deciding(t) == pc[t] = "deciding"

\* The owner's answer comes after the customer has withdrawn the request.
FindWithdrawn(t) ==
    /\ Deciding(t)
    /\ AboutRequest(t)
    /\ Withdrawn(view[t].request[Asked(t)])
    /\ case' = [case EXCEPT ![item[t]] = Moved(@, "withdrawn")]
    /\ End(t)
    /\ UNCHANGED <<request, conv, strict, told, gone>>

\* Nothing to decide about a car: another kind of case, "I'll call them", or a
\* request that is settled.
JustRecord(t) ==
    /\ Deciding(t)
    /\ AboutRequest(t) => /\ ~Withdrawn(view[t].request[Asked(t)])
                          /\ \/ ~Decidable(view[t].request[Asked(t)])
                             \/ answer[t] = "owner_calling"
    /\ RecordDecision(t)
    /\ UNCHANGED <<request, conv>>

Decides(t, a) ==
    /\ Deciding(t)
    /\ AboutRequest(t)
    /\ answer[t] = a
    /\ ~Withdrawn(view[t].request[Asked(t)])
    /\ Decidable(view[t].request[Asked(t)])

Decline(t) ==
    /\ Decides(t, "declined")
    /\ request' = [request EXCEPT ![Asked(t)] = Settled("cancelled", "released")]
    /\ RecordDecision(t)
    /\ UNCHANGED conv

\* Mutant: that the car was free when the request was taken is enough.
ConfirmsAsTaken(caller, q, r, reachable) ==
    /\ strict => caller = OwnerOf[r] /\ ~q.change
    /\ reachable

\* confirm_hold: with the checkout enforced, the session's customer has to be the
\* request's and no change may be pending; the car has to be free as committed,
\* read under the quote counter's lock; the provider has to answer.
Confirms(caller, q, r, reachable) ==
    /\ strict => caller = OwnerOf[r] /\ ~q.change
    /\ reachable
    /\ Available(r)

\* The owner's session is no customer's.
Approve(t, reachable) ==
    /\ Decides(t, "approved")
    /\ LET r == Asked(t)
           c == OwnerOf[r]
           cv == Tagged(conv[c], "booked")
       IN IF Confirms(Nobody, view[t].request[r], r, reachable)
          THEN /\ request' = [request EXCEPT ![r] = Settled("confirmed", "confirmed")]
               /\ conv' = [conv EXCEPT ![c] = cv]
               /\ RecordDecision(t)
          ELSE /\ UNCHANGED <<request, conv>>
               /\ RecordDecision(t)

\* _relay_to_customer
Relay(t) ==
    /\ pc[t] = "relaying"
    /\ conv[case[item[t]].of].window
    /\ Load(t)
    /\ Goto(t, "telling")
    /\ UNCHANGED <<tables, of, msg, item, answer, late, told, gone>>

\* _request_reopen: a template asks the customer back, and the answer stays owed.
RequestReopen(t) ==
    /\ pc[t] = "relaying"
    /\ ~conv[case[item[t]].of].window
    /\ End(t)
    /\ UNCHANGED <<tables, told, gone>>

\* Agent.relay: the model words the answer, or it cannot be reached and what the
\* customer gets is an apology.
AgentRelays(worded) == worded \/ Outages

\* The message is sent, whatever comes of it, and the conversation goes back to the
\* agent.
Tell(t, worded, sent) ==
    /\ pc[t] = "telling"
    /\ AgentRelays(worded)
    /\ sent \/ ~Serial
    /\ LET k == item[t]
           c == case[k].of
       IN /\ case' = [case EXCEPT ![k] = Moved(@, "relayed")]
          /\ conv' = [conv EXCEPT ![c].frozen = FALSE, ![c].reason = "none", ![c].figure = FALSE]
          /\ told' = IF worded /\ sent THEN told \cup {k} ELSE told
    /\ End(t)
    /\ UNCHANGED <<request, strict, gone>>

-----------------------------------------------------------------------------
(* Time *)

\* A request is taken before its case is asked about, and its window is longer
\* than the case's timeout.
Ripen(r) ==
    /\ request[r].status = "held"
    /\ request[r].age # "old"
    /\ \A k \in CaseIds : case[k] # NoCase /\ case[k].about = r /\ case[k].status = "awaiting"
                              => case[k].clock = "timeout"
    /\ request' = [request EXCEPT ![r].age = IF @ = "young" THEN "edge" ELSE "old"]
    /\ UNCHANGED <<case, conv, strict, task, told, gone>>

Elapse(k) ==
    /\ case[k] # NoCase
    /\ case[k].status = "awaiting"
    /\ case[k].clock \in {"asked", "reminder"}
    /\ case' = [case EXCEPT ![k].clock = IF @ = "asked" THEN "reminder" ELSE "timeout"]
    /\ UNCHANGED <<request, conv, strict, task, told, gone>>

\* A day is longer than any of these windows.
WindowShuts(c) ==
    /\ conv[c].window
    /\ \A r \in Requests : OwnerOf[r] = c => ~Awaiting(request[r])
    /\ \A k \in CasesOf(case, c) : case[k].status = "awaiting" => case[k].clock = "timeout"
    /\ conv' = [conv EXCEPT ![c].window = FALSE]
    /\ UNCHANGED <<request, case, strict, task, told, gone>>

-----------------------------------------------------------------------------
Turn(t) ==
    \/ UrgentTurn(t) \/ GuidanceTurn(t) \/ TalkTurn(t) \/ Question(t) \/ Advise(t)
    \/ \E r \in Requests : TakeRequest(t, r) \/ AskChange(t, r) \/ Withdraw(t, r) \/ Cancel(t, r)

\* What a task that was taken up does next.
Work(t) ==
    \/ Sweep(t) \/ LoadOverdue(t) \/ ChaseOne(t) \/ ChaseDone(t)
    \/ RouteOwed(t) \/ PutOff(t) \/ BeginTurn(t) \/ Turn(t) \/ Ask(t)
    \/ FindWithdrawn(t) \/ JustRecord(t) \/ Decline(t) \/ Relay(t) \/ RequestReopen(t)
    \/ \E reachable \in BOOLEAN : Approve(t, reachable)
    \/ \E worded, sent \in BOOLEAN : Tell(t, worded, sent)

\* The windows are minutes and hours: to the one worker they end between tasks.
Time ==
    /\ Serial => Idle
    /\ \/ \E r \in Requests : Ripen(r)
       \/ \E k \in CaseIds : Elapse(k)
       \/ \E c \in Customers : WindowShuts(c)

Next ==
    \/ \E t \in Tasks :
          \/ Work(t) \/ Maintain(t)
          \/ \E c \in Customers, m \in {"business", "urgent"} : Arrive(t, c, m)
          \/ \E k \in CaseIds, a \in Answers : OwnerAnswers(t, k, a)
    \/ Time

Spec == Init /\ [][Next]_vars

\* The worker takes up its jobs in order, so the maintenance of a minute has its
\* turn however many messages there are, and finishes what it takes up.
FairSpec == /\ Spec
            /\ \A t \in Tasks : WF_vars(Work(t)) /\ SF_vars(Maintain(t))
            /\ \A k \in CaseIds : WF_vars(Elapse(k))

-----------------------------------------------------------------------------
(* Properties *)

\* A case whose answer has not reached the customer.
Unsettled(c) == {k \in CasesOf(case, c) : case[k].status \in {"awaiting", "timed_out", "decided"}}

\* A conversation waits on one question at a time, as the webhook runs no turn that
\* could ask another before the customer has the last answer; and one the agent has
\* stopped serving waits on one, so that there is somebody to give it back (the
\* routing of _handle, escalate_conversation, _notify_staff, mark_relayed).
AskedOnce ==
    \A c \in Customers :
        /\ Cardinality(Unsettled(c)) <= 1
        /\ Idle /\ conv[c].frozen => Unsettled(c) # {}

\* Two approvals never put two customers into one car at overlapping times, though a
\* request holds nothing off the market and they may be given side by side
\* (confirm_hold, _conflicting).
NeverBothBooked == \A p \in Rivals : \E i \in 1 .. 2 : request[p[i]].status # "confirmed"

\* What is confirmed is what the customer last asked for, no change left pending; and
\* her conversation is counted as booked from then on, whatever escalates or falls
\* silent afterwards (confirm_hold, _hold_change_request, outcomes.record).
ConfirmedAsAsked ==
    \A r \in Requests :
        /\ request[r].status = "confirmed" => ~request[r].change
        /\ request[r].last = "confirmed" => conv[OwnerOf[r]].sales = "booked"

\* A customer who was told that a request is cancelled is never booked on it, not
\* by an approval that comes late (withdraw_hold, apply_hold_decision).
CancelledStays == \A r \in gone : request[r].status # "confirmed"

\* A question to the owner is answered or, in the end, times out: no customer
\* waits for ever without being told (overdue_cases, mark_timed_out).
NoSilence == \A k \in CaseIds :
    (case[k] # NoCase /\ case[k].status = "awaiting") ~>
        (case[k] # NoCase /\ case[k].status # "awaiting")

\* A request as its customer sees it: what is cancelled is so by the clock, by the owner,
\* by her before it was booked, or by her after.
StageOf(q) ==
    CASE q.status = "none"      -> "none"
      [] q.status = "held"      -> "waiting"
      [] q.status = "confirmed" -> "booked"
      [] q.status = "cancelled" -> CASE q.last = "expired"   -> "lapsed"
                                     [] q.last = "released"  -> "declined"
                                     [] q.last = "withdrawn" -> "withdrawn"
                                     [] OTHER                -> "cancelled"

Stage == [r \in Requests |-> StageOf(request[r])]

Life == INSTANCE Enquiry WITH stage <- Stage, over <- gone

\* Whatever turns, sweeps, reminders and answers do to it, each request has the one life
\* Enquiry describes: a case that is asked again, an answer that comes after the clock,
\* or a late message about an old request never gives it a second end (apply_hold_decision,
\* expire_holds, withdraw_hold, cancel_demo_reservation).
ImplementsEnquiry == Life!Spec

\* The promises the code breaks.

\* A request the customer was told is being confirmed is put to the owner.
HeldIsAsked == Idle => \A r \in Requests : request[r].status = "held" =>
    \E k \in CaseIds : case[k] # NoCase /\ case[k].about = r /\ case[k].clock # "unasked"

\* A case is closed as relayed once its answer was delivered.
RelayedIsTold == \A k \in CaseIds : (case[k] # NoCase /\ case[k].status = "relayed") => k \in told

\* The owner's approval of a free car, with no change pending and the provider
\* reachable, confirms the request.
ApprovalConfirms == [][\A t \in Tasks :
    Approve(t, TRUE) /\ Available(Asked(t)) /\ ~view[t].request[Asked(t)].change
        => request'[Asked(t)].status = "confirmed"]_vars

\* A conversation the webhook holds up is one a person was given: asking the owner
\* for a figure does not stop the sale.
OnlyFrozenWaits == Idle => \A c \in Customers : Unsettled(c) # {} => conv[c].frozen

\* An emergency that is reported reaches a person.
EmergencyIsRaised == [][\A t \in Tasks : PutOff(t) => msg[t] # "urgent"]_vars
=============================================================================
