------------------------------- MODULE Agent -------------------------------
(***************************************************************************)
(* One turn of the agent (agent/loop.py) with everything it consults: the  *)
(* conversation's rows in the database, the message being answered, the    *)
(* provider's sweep over its models (agent/providers/gemini.py), the       *)
(* extraction that runs beside the first call, the tool loop, and the      *)
(* guard that no reply to a message leaves without passing (figures.py,    *)
(* availability.py, holds.py, facts.py, actions.py).  The owner's decision *)
(* is put into words by the same loop: without an extraction, without the  *)
(* turn's deadline and past the guard.                                     *)
(*                                                                         *)
(* What the model writes is any member of Drafts: a reply is the record of *)
(* what it claims, never its words.  The checkout flows that may answer    *)
(* before or after the model are module Checkout's; here they are off, and *)
(* with them the routine replies, and a car is never named ambiguously.    *)
(* A redelivered message returns before it touches anything, a stutter.    *)
(* Time is counted in ticks of five seconds.                               *)
(***************************************************************************)
EXTENDS Naturals, Sequences, SequencesExt, FiniteSets, FiniteSetsExt

CONSTANTS Refs,          \* reservations the conversation may come to have
          Cars, Prices,  \* the fleet and the figures it may be let for
          Dates,         \* rental windows the customer may mean
          Messages,      \* what a customer may write
          Drafts,        \* what the model may write
          Candidates,    \* the models a call may fall back to, in order
          Budget,        \* ticks a turn may take: max_turn_seconds
          MaxRetries,    \* further sweeps of one call
          Durations,     \* bound: ticks a request is followed for, before its timeout
          RetryDelay,    \* the delay a rate limit asks for, in ticks
          MaxIterations, \* calls of one tool loop
          MaxTurns,      \* bound: messages of the conversation
          MaxTries       \* bound: runs of a durable job

ASSUME BudgetAssumption ==
    /\ Budget \in Nat /\ MaxRetries \in Nat /\ RetryDelay \in Nat /\ Durations \subseteq Nat
    /\ MaxIterations \in Nat \ {0} /\ MaxTurns \in Nat /\ MaxTries \in Nat
    /\ Candidates \in Seq(STRING)

\* A message is what the code recognises in it, a draft what it claims.
ASSUME ClaimsAssumption ==
    /\ Messages \subseteq [text : STRING, reports : BOOLEAN, asks : BOOLEAN,
                           figure : BOOLEAN, pays : BOOLEAN]
    /\ Drafts \subseteq [kind : {"text"}, done : {"no", "generic", "explicit"},
                         refs : SUBSET Refs, offers : BOOLEAN, car : Cars \cup {"none"},
                         amount : Nat, staff : BOOLEAN, later : BOOLEAN]

VARIABLES db,      \* the conversation's rows, all that a rollback undoes
          before,  \* db as last committed, which a rollback returns to
          price,   \* the day's rate of each car
          durable, \* whether the durable worker runs the turn
          turn, call,
          said,    \* the last reply of a turn
          relayed, \* whether a decision was passed on after it, or only an apology
          taken

vars == <<db, before, price, durable, turn, call, said, relayed, taken>>

Urgent == {"accident"}
Signals == Urgent \cup {"legal_threat"}
Reasons == Signals \cup {"repeated_agent_failure", "unconfirmed_figure"}

Cap == 3      \* one request: fifteen seconds
Floor == 2    \* a request is not started with less than ten seconds
BeforeHandover == 2

Says(kind) == [kind |-> kind, done |-> "no", refs |-> {}, offers |-> FALSE,
               car |-> "none", amount |-> 0, staff |-> FALSE, later |-> FALSE]

Silent == [n |-> 0, reply |-> Says("none")]

Idle == [msg |-> "none", at |-> "idle", pass |-> 0, round |-> 0, spent |-> 0,
         heard |-> TRUE, tools |-> {}, search |-> "none", tries |-> 0, reply |-> Says("none"),
         relay |-> "none"]

NoCall == [sweep |-> 0, next |-> 1, exhausted |-> {}, until |-> [i \in DOMAIN Candidates |-> 0]]

Init ==
    /\ db = [status |-> [r \in Refs |-> "none"], calls |-> {}, links |-> <<>>, ledger |-> {},
             wanted |-> "none", escalated |-> FALSE, reason |-> "none",
             awaiting |-> FALSE, failures |-> 0, owed |-> {}]
    /\ before = db
    /\ price \in [Cars -> Prices]
    /\ durable \in BOOLEAN
    /\ turn = Idle /\ call = NoCall /\ said = Silent /\ relayed = "none" /\ taken = 0

-----------------------------------------------------------------------------
(* Raising a case: services/escalation.py behind the idempotency ledger.    *)

Key(reason, detail) == <<reason, detail>>

\* An urgent case keeps its reason whatever is raised after it.
Classified(d, reason) == IF d.reason \in Urgent /\ reason \notin Urgent THEN d.reason ELSE reason

\* A question about an incident is noted and nobody is called.
Advisory(d, reason, m) == Classified(d, reason) \in Urgent /\ m.asks

WantsValue(d, reason) == Classified(d, reason) = "unconfirmed_figure"

\* Whether the call's answer says "escalated": a replay repeats the old one.
Raises(d, reason, detail, m) ==
    IF \E e \in d.ledger : e[1] = Key(reason, detail)
    THEN <<Key(reason, detail), TRUE>> \in d.ledger
    ELSE ~ Advisory(d, reason, m)

Escalate(d, reason, detail, m) ==
    LET raised == ~ Advisory(d, reason, m)
        noted == [d EXCEPT !.ledger = @ \cup {<<Key(reason, detail), raised>>},
                           !.calls = @ \cup (IF raised THEN {<<"escalate">>} ELSE {})]
    IN  CASE \E e \in d.ledger : e[1] = Key(reason, detail) -> d
          [] OTHER -> IF ~ raised THEN noted
                      ELSE IF WantsValue(d, reason)
                      THEN [noted EXCEPT !.awaiting = TRUE, !.reason = Classified(d, reason)]
                      ELSE [noted EXCEPT !.escalated = TRUE, !.reason = Classified(d, reason)]

-----------------------------------------------------------------------------
(* The guard's questions.                                                   *)

Holding(d) == \E r \in Refs : d.status[r] = "held"
Confirmed(d) == \E r \in Refs : d.status[r] = "confirmed"

\* What supports saying that a booking is done.
Backing(d, refs) ==
    LET named == {r \in refs : d.status[r] # "none"}
    IN  IF named # {}
        THEN CASE \A r \in named : d.status[r] = "confirmed" -> "confirmed"
               [] OTHER -> IF \E r \in named : d.status[r] = "held" THEN "awaiting" ELSE "nothing"
        ELSE CASE Holding(d) -> "awaiting"
               [] OTHER -> IF Confirmed(d) THEN "confirmed" ELSE "nothing"

Unbacked(d, r) ==
    LET backing == Backing(d, r.refs)
    IN  /\ r.done # "no" /\ backing # "confirmed"
        /\ r.done = "explicit" \/ backing = "awaiting"

Checked(d, date) ==
    \E c \in d.calls : c[1] \in {"search", "quote"} /\ (date = "none" \/ c[2] = date)

Unchecked(d, r) == r.offers /\ ~ Checked(d, d.wanted)

\* Any call may support an amount; one that names a car needs that car's.
Supported(d, car) ==
    {c[4] : c \in {q \in d.calls : q[1] = "quote" /\ (car = "none" \/ q[3] = car)}}

Invented(d, r) == r.amount # 0 /\ r.amount \notin Supported(d, r.car)

Unrecorded(d, r) == r.staff /\ <<"escalate">> \notin d.calls

Issues(d, r) == r.later \/ Invented(d, r) \/ Unchecked(d, r) \/ Unbacked(d, r) \/ Unrecorded(d, r)

\* The customer asks for a figure that the operator never published.
NeedsAnswer(d, m) == m.figure /\ ~ d.awaiting

\* Whether the newest payment link still stands.
CurrentLink(d) == d.links # <<>> /\ d.status[Last(d.links)] = "confirmed"

\* The receipts of what the tools did replace what the model wrote of it.
Receipted(d, r, tools) ==
    LET paid == IF CurrentLink(d) THEN [Says("receipt") EXCEPT !.refs = {Last(d.links)}]
                ELSE Says("changed")
    IN  CASE "link" \in tools /\ (CurrentLink(d) \/ "cancel" \notin tools) -> paid
          [] OTHER -> IF "cancel" \in tools THEN Says("cancelled") ELSE r

-----------------------------------------------------------------------------
(* Ending a turn.                                                           *)

Send(d, r) ==
    /\ db' = d /\ before' = d
    /\ said' = [n |-> taken', reply |-> r] /\ relayed' = "none"
    /\ turn' = Idle /\ call' = NoCall
    /\ UNCHANGED <<price, durable>>

Finish(d, r) == UNCHANGED taken /\ Send(d, Receipted(d, r, turn.tools))

\* The reply goes to the guard; the turn got through, or its failure counted.
Guarded(d, r) ==
    /\ db' = d
    /\ turn' = [turn EXCEPT !.at = "guard", !.reply = r]
    /\ call' = NoCall
    /\ UNCHANGED <<before, price, durable, said, relayed, taken>>

\* The first writing of a reply clears the count of failures.
Through(d) == IF turn.pass = 0 THEN [d EXCEPT !.failures = 0] ELSE d

\* Somebody has been told: the conversation is the agent's again, whatever case was
\* raised while the words were looked for.
Marked(d, c) == [d EXCEPT !.owed = @ \ {c}, !.escalated = FALSE, !.reason = "none",
                          !.awaiting = FALSE]

\* The words that pass a decision on leave as they are.
PassOn(d, r) ==
    /\ db' = Marked(d, turn.relay) /\ before' = db'
    /\ relayed' = (IF r.kind = "busy" THEN "busy" ELSE "told")
    /\ turn' = Idle /\ call' = NoCall
    /\ UNCHANGED <<price, durable, said, taken>>

\* The loop is through: a reply goes to the guard, a decision to the customer.
Written(d, r) ==
    \/ turn.relay = "none" /\ Guarded(Through(d), r)
    \/ turn.relay # "none" /\ PassOn(d, r)

\* The turn raised: its work is rolled back, and a durable job runs again.  A decision
\* stays owed.
RollBack ==
    /\ db' = before
    /\ turn' = IF durable /\ turn.relay = "none" /\ turn.tries < MaxTries
               THEN [Idle EXCEPT !.msg = turn.msg, !.at = "owed", !.tries = turn.tries]
               ELSE Idle
    /\ call' = NoCall
    /\ UNCHANGED <<before, price, durable, said, relayed, taken>>

\* Without a turn's deadline each call has what one request may take.
NextCall(d, t) ==
    /\ db' = d
    /\ turn' = [t EXCEPT !.at = "call", !.round = @ + 1,
                         !.spent = IF t.relay = "none" THEN @ ELSE 0]
    /\ call' = NoCall
    /\ UNCHANGED <<before, price, durable, said, relayed, taken>>

\* Out of iterations: something is looping, so a person is asked.
NotConverged(d) ==
    Written(Escalate(d, "repeated_agent_failure", "did not converge", turn.msg), Says("safe"))

\* Mutant: the rounds are not counted.
LoopUncounted(d, t) == NextCall(d, [t EXCEPT !.round = 0])

LoopAgain(d, t) ==
    \/ t.round < MaxIterations /\ NextCall(d, t)
    \/ t.round >= MaxIterations /\ NotConverged(d)

-----------------------------------------------------------------------------
(* The message arrives, or a durable job runs again.                        *)

\* A roadside report is recognised in code, before any model is asked.
Alarm(m) ==
    /\ m.reports
    /\ Send(Escalate(db, "accident", m.text, m), Says("emergency"))

StaysUrgent(m) ==
    /\ ~ m.reports /\ db.escalated /\ db.reason \in Urgent
    /\ Send(db, Says("emergency"))

Linked(d, r) == [d EXCEPT !.links = IF r \in Range(@) THEN @ ELSE Append(@, r)]

\* "Send me the payment link" goes straight to the payment service.
Shortcut(m) == m.pays /\ ~ db.escalated /\ (Confirmed(db) \/ Holding(db))

Pays(m) ==
    /\ ~ m.reports /\ Shortcut(m)
    /\ \/ \E r \in Refs : /\ db.status[r] = "confirmed"
                          /\ Send(Linked(db, r), [Says("receipt") EXCEPT !.refs = {r}])
       \/ Send(db, Says("cannot"))

Starts(m) ==
    /\ ~ m.reports /\ ~ (db.escalated /\ db.reason \in Urgent) /\ ~ Shortcut(m)
    /\ turn' = [Idle EXCEPT !.msg = m, !.at = "call", !.round = 1, !.heard = FALSE,
                            !.tries = turn.tries + 1]
    /\ call' = NoCall
    /\ UNCHANGED <<db, before, price, durable, said, relayed>>

Handle(m) == Alarm(m) \/ StaysUrgent(m) \/ Pays(m) \/ Starts(m)

Receive(m) ==
    /\ turn.at = "idle" /\ taken < MaxTurns
    /\ taken' = taken + 1
    /\ Handle(m)

Retry == turn.at = "owed" /\ UNCHANGED taken /\ Handle(turn.msg)

-----------------------------------------------------------------------------
(* One call of the provider: a sweep over the models, and another.          *)

Limit == IF turn.relay = "none" THEN Budget ELSE Cap
Remaining == Limit - turn.spent
Usable(i) == i >= call.next /\ i \notin call.exhausted /\ call.until[i] <= turn.spent
Usables == {i \in DOMAIN Candidates : Usable(i)}
\* Mutant: each request has its fifteen seconds.
LeftToEach == Cap

Left == Min({Cap, Remaining})

\* Pausing until the first rate limit ends, or the backoff.
PauseTicks ==
    LET waits == {IF call.until[i] > turn.spent THEN call.until[i] - turn.spent ELSE 0 :
                    i \in DOMAIN Candidates \ call.exhausted}
    IN  Max({1, IF waits = {} THEN 0 ELSE Min(waits)})

GivesUp ==
    IF Usables # {} THEN Left < Floor
    ELSE \/ call.sweep = MaxRetries
         \/ call.exhausted = DOMAIN Candidates
         \/ PauseTicks + Floor >= Remaining

Calling == turn.at = "call" /\ Usables # {} /\ ~ GivesUp

Answers(ticks) ==
    /\ Calling
    /\ turn' = [turn EXCEPT !.at = "read", !.spent = @ + Min({ticks, Left})]
    /\ call' = NoCall
    /\ UNCHANGED <<db, before, price, durable, said, relayed, taken>>

\* A transient failure, a rate limit with its delay, or a day's quota used up.
Fails(ticks, kind) ==
    /\ Calling
    /\ LET i == Min(Usables)
           now == turn.spent + Min({ticks, Left})
       IN  /\ turn' = [turn EXCEPT !.spent = now]
           /\ call' = [call EXCEPT !.next = i + 1,
                         !.exhausted = IF kind = "daily" THEN @ \cup {i} ELSE @,
                         !.until[i] = IF kind = "limited" THEN now + RetryDelay ELSE @]
    /\ UNCHANGED <<db, before, price, durable, said, relayed, taken>>

\* An error that is not worth retrying is raised as it is, through the turn.
Breaks == Calling /\ RollBack

Pauses ==
    /\ turn.at = "call" /\ Usables = {} /\ ~ GivesUp
    /\ turn' = [turn EXCEPT !.spent = @ + PauseTicks]
    /\ call' = [call EXCEPT !.sweep = @ + 1, !.next = 1]
    /\ UNCHANGED <<db, before, price, durable, said, relayed, taken>>

\* No model can be reached in the time that is left.
Recovers == turn.search = "found"

\* Mutant: the count is kept in the turn and not in the conversation.
ApologyUncounted(d) == Guarded(d, Says("busy"))

Apology(d) ==
    LET counted == [d EXCEPT !.failures = IF @ < BeforeHandover THEN @ + 1 ELSE @]
    IN  IF counted.failures < BeforeHandover THEN Guarded(counted, Says("busy"))
        ELSE Guarded(Escalate(counted, "repeated_agent_failure", turn.msg.text, turn.msg),
                     [Says("down") EXCEPT !.staff = TRUE])

Unavailable ==
    /\ turn.at = "call" /\ GivesUp
    /\ \/ Recovers /\ Written(db, Says("options"))
       \/ ~ Recovers /\ turn.relay # "none" /\ PassOn(db, Says("busy"))
       \/ ~ Recovers /\ turn.pass = 1 /\ Finish(db, Says("safe"))
       \/ /\ ~ Recovers /\ turn.relay = "none" /\ turn.pass = 0
          /\ \/ durable /\ RollBack
             \/ ~ durable /\ Apology(db)

-----------------------------------------------------------------------------
(* A response is in hand.                                                   *)

\* What the extraction may have found; late or failed, it has found nothing.
Extractions == [dates : Dates \cup {"none"}, signal : Signals \cup {"none"}]

\* A value that is known is replaced but never cleared.
Merged(d, e) == [d EXCEPT !.wanted = IF e.dates = "none" THEN @ ELSE e.dates]

\* The extraction runs beside the first request, whichever provider takes it in the
\* end, and is joined once, before the response is read; it may fail or be late.
Joins == turn.at = "read" /\ ~ turn.heard

Hears(e) ==
    /\ Joins
    /\ LET d == IF e.signal = "none" THEN Merged(db, e)
                ELSE Escalate(Merged(db, e), e.signal, turn.msg.text, turn.msg)
           t == [turn EXCEPT !.heard = TRUE]
           news == d.escalated /\ ~ db.escalated
       IN  \/ /\ ~ news
              /\ db' = d /\ turn' = t
              /\ UNCHANGED <<before, price, durable, call, said, relayed, taken>>
           \/ news /\ d.reason \in Urgent /\ Written(d, Says("emergency"))
           \/ news /\ d.reason \notin Urgent /\ LoopAgain(d, t)

InHand == turn.at = "read" /\ turn.heard

Refuses ==
    /\ InHand
    /\ Written(Escalate(db, "repeated_agent_failure", "declined", turn.msg), Says("safe"))

\* The model writes its reply; an empty one becomes the apology.
Writes(r) == InHand /\ Written(db, r)

Ran(d, tool, search) == LoopAgain(d, [turn EXCEPT !.tools = @ \cup tool, !.search = search])

\* Search results serve a later outage only if nothing else was done.
SearchesFound == IF turn.search \in {"none", "found", "empty"} THEN "found" ELSE "other"
SearchesEmpty == IF turn.search \in {"none", "found", "empty"} THEN "empty" ELSE "other"

\* An empty search checks nothing; an empty list of alternatives counts as a check.
Searches(date) ==
    /\ InHand
    /\ LET checked == [db EXCEPT !.calls = @ \cup {<<"search", date>>}]
       IN  \/ Ran(checked, {}, SearchesFound)
           \/ Ran(db, {}, SearchesEmpty)
           \/ Ran(checked, {}, SearchesEmpty)

\* A quote checks availability, prices the car and fixes the dates.
Quotes(date, car) ==
    /\ InHand
    /\ Ran([db EXCEPT !.calls = @ \cup {<<"quote", date, car, price[car]>>}, !.wanted = date],
           {}, "other")

Books(r) ==
    /\ InHand /\ db.status[r] = "none"
    /\ \E s \in {"held", "confirmed"} : Ran([db EXCEPT !.status[r] = s], {}, "other")

Cancels(r) ==
    /\ InHand /\ db.status[r] \in {"held", "confirmed"}
    /\ Ran([db EXCEPT !.status[r] = "cancelled"], {"cancel"}, "other")

Links(r) ==
    /\ InHand /\ db.status[r] = "confirmed"
    /\ Ran(Linked(db, r), {"link"}, "other")

Errs == InHand /\ Ran(db, {}, "other")

\* The model raises a case; an urgent one is answered at once.
Reports(reason) ==
    /\ InHand
    /\ LET d == Escalate(db, reason, turn.msg.text, turn.msg)
           raised == Raises(db, reason, turn.msg.text, turn.msg)
       IN  \/ /\ raised /\ Classified(db, reason) \in Urgent
              /\ Written(d, Says("emergency"))
           \/ /\ ~ (raised /\ Classified(db, reason) \in Urgent)
              /\ Ran(d, {}, "other")

-----------------------------------------------------------------------------
(* The guard: one rewriting, then words that claim nothing.                 *)

\* Mutant: what was written again is sent without another look.
GuardOnce ==
    /\ turn.at = "guard"
    /\ LET asked == NeedsAnswer(db, turn.msg)
           d == IF asked THEN Escalate(db, "unconfirmed_figure", turn.msg.text, turn.msg) ELSE db
           r == IF asked /\ Raises(db, "unconfirmed_figure", turn.msg.text, turn.msg)
                THEN Says("recorded") ELSE turn.reply
       IN  \/ (~ Issues(d, r) \/ turn.pass = 1) /\ Finish(d, r)
           \/ /\ Issues(d, r) /\ turn.pass = 0
              /\ NextCall(d, [turn EXCEPT !.pass = 1, !.round = 0, !.search = "none"])

Guard ==
    /\ turn.at = "guard"
    /\ LET asked == NeedsAnswer(db, turn.msg)
           d == IF asked THEN Escalate(db, "unconfirmed_figure", turn.msg.text, turn.msg) ELSE db
           r == IF asked /\ Raises(db, "unconfirmed_figure", turn.msg.text, turn.msg)
                THEN Says("recorded") ELSE turn.reply
       IN  \/ ~ Issues(d, r) /\ Finish(d, r)
           \/ Issues(d, r) /\ turn.pass = 1 /\ Finish(d, Says("safe"))
           \/ /\ Issues(d, r) /\ turn.pass = 0
              /\ NextCall(d, [turn EXCEPT !.pass = 1, !.round = 0, !.search = "none", !.reply = Says("none")])

-----------------------------------------------------------------------------
(* Between turns the owner decides, is passed on, and the fleet is repriced. *)

AtRest == turn.at \in {"idle", "owed"}

\* A booking that was held, or what the conversation had asked a colleague: the customer
\* is owed the answer.
Decides(r, s) ==
    /\ AtRest /\ db.status[r] = "held"
    /\ db' = [db EXCEPT !.status[r] = s, !.owed = @ \cup {r}]
    /\ before' = db'
    /\ UNCHANGED <<price, durable, turn, call, said, relayed, taken>>

Settles ==
    /\ AtRest /\ (db.escalated \/ db.awaiting) /\ "case" \notin db.owed
    /\ db' = [db EXCEPT !.owed = @ \cup {"case"}]
    /\ before' = db'
    /\ UNCHANGED <<price, durable, turn, call, said, relayed, taken>>

\* The owner's answer, or the customer's next message, has the decision put into words;
\* m is the last that she wrote.  A job that will run again goes first.
Relays(c, m) ==
    /\ turn.at = "idle" /\ c \in db.owed
    /\ turn' = [Idle EXCEPT !.msg = m, !.at = "call", !.round = 1, !.relay = c]
    /\ call' = NoCall
    /\ UNCHANGED <<db, before, price, durable, said, relayed, taken>>

Reprices(car, p) ==
    /\ AtRest /\ price[car] # p
    /\ price' = [price EXCEPT ![car] = p]
    /\ UNCHANGED <<db, before, durable, turn, call, said, relayed, taken>>

Step ==
    \/ Retry \/ Breaks \/ Pauses \/ Unavailable \/ Refuses \/ Errs \/ Guard
    \/ \E t \in Durations : Answers(t)
    \/ \E t \in Durations, k \in {"busy", "limited", "daily"} : Fails(t, k)
    \/ \E e \in Extractions : Hears(e)
    \/ \E r \in Drafts : Writes(r)
    \/ \E date \in Dates : Searches(date)
    \/ \E date \in Dates, car \in Cars : Quotes(date, car)
    \/ \E r \in Refs : Books(r) \/ Cancels(r) \/ Links(r)
    \/ \E reason \in Signals : Reports(reason)

Next ==
    \/ Step \/ Settles
    \/ \E m \in Messages : Receive(m)
    \/ \E r \in Refs, s \in {"confirmed", "declined"} : Decides(r, s)
    \/ \E c \in db.owed, m \in Messages : Relays(c, m)
    \/ \E car \in Cars, p \in Prices : Reprices(car, p)

\* The thread that runs a turn is not abandoned; nothing else is fair.
Spec == Init /\ [][Next]_vars /\ WF_vars(Step)

-----------------------------------------------------------------------------
(* Properties.                                                              *)

\* The type invariant.  A turn keeps within its budget whatever the provider does: an
\* attempt is given no more than what is left, and none is made in vain.
TypeOK ==
    /\ db.status \in [Refs -> {"none", "held", "confirmed", "declined", "cancelled"}]
    /\ db.failures \in 0..BeforeHandover /\ db.reason \in Reasons \cup {"none"}
    /\ db.wanted \in Dates \cup {"none"} /\ Range(db.links) \subseteq Refs
    /\ turn.at \in {"idle", "owed", "call", "read", "guard"}
    /\ turn.spent \in 0..Limit /\ turn.round \in 0..MaxIterations /\ turn.pass \in 0..1
    /\ call.sweep \in 0..MaxRetries /\ call.next \in 1..(Len(Candidates) + 1)
    /\ db.owed \subseteq Refs \cup {"case"} /\ (turn.relay # "none" => turn.relay \in db.owed)
    /\ taken \in 0..MaxTurns /\ said.n \in 0..MaxTurns

\* A reply says that a booking is done, and a receipt asks for its payment, only if the
\* booking it means is confirmed when it leaves.
DoneIn(d, r) ==
    LET named == {ref \in r.refs : d.status[ref] # "none"}
    IN  /\ Confirmed(d)
        /\ \A ref \in named : d.status[ref] = "confirmed"
        /\ named = {} => ~ Holding(d)

\* What it offers was checked for the dates it leaves under.
OfferedIn(d) == d.wanted # "none" => \E c \in d.calls : c[1] # "escalate" /\ c[2] = d.wanted

\* A figure came from a tool, and for the car it is said of.
PricedIn(d, r) ==
    r.amount # 0 /\ r.car # "none" => \E date \in Dates : <<"quote", date, r.car, r.amount>> \in d.calls

\* Whatever a reply claims holds in the rows it leaves with, and a colleague it speaks of
\* has been called: also after a rewriting whose own tools booked or cancelled, when one
\* booking is confirmed and another waits, and when the extraction or a tool of this very
\* turn has moved the dates (_guard_outbound, confirmation_backing, unchecked offers).
SaidOnEvidence ==
    [][said' # said =>
         LET r == said'.reply
         IN  /\ r.done = "explicit" \/ r.kind = "receipt" => DoneIn(db', r)
             /\ r.offers => OfferedIn(db')
             /\ PricedIn(db', r)
             /\ r.staff => \E e \in db'.ledger : e[2]]_vars

\* Two turns in a row do not both end with the request to send the message again: the
\* second outage calls a colleague, whatever else the turns did and whatever was passed on
\* between them (_provider_unavailable).  What passes a decision on neither counts nor
\* clears; with it the customer may well be asked twice: SorryOnlyOnce.
NeverTwiceSorry == [][said' # said /\ said'.reply.kind = "busy" => said.reply.kind # "busy"]_vars

\* Every turn ends: the provider's sweeps, the tool loop, the rewriting and the runs of
\* a durable job are all bounded (_generate, _run_tool_loop, _guard_outbound, run_once).
TurnEnds == turn.at # "idle" ~> turn.at = "idle"

\* What the comment at the join of the extraction says: a report of an emergency that is
\* found during the turn is answered with the fixed guidance and nothing else.
EmergencyIsSaid ==
    [][said' # said /\ db'.reason \in Urgent /\ before.reason \notin Urgent
          => said'.reply.kind = "emergency"]_vars

\* What the customer heard last.
LastHeard == IF relayed # "none" THEN relayed ELSE said.reply.kind

\* What the comment at the reply to an outage says: once it has cost the customer a second
\* turn she is not asked to try again.
SorryOnlyOnce ==
    [][<<said, relayed>>' # <<said, relayed>> /\ LastHeard' = "busy" => LastHeard # "busy"]_vars

\* What _relay_to_customer says of the decision it passes on: it is settled, only its
\* wording is the model's job, and one that nobody managed to deliver stays owed.
OwedUntilTold == [][db.owed \subseteq db'.owed \/ relayed' # "busy"]_vars
=============================================================================
