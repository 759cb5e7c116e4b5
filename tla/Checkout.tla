------------------------------ MODULE Checkout -------------------------------
(***************************************************************************)
(* How one customer comes to a booking of one car, in one conversation.    *)
(* Every message is observed (services/checkout.observe); then either the  *)
(* checkout answers it by itself, which may quote, put the terms and book, *)
(* or the model does, calling tools (agent/loop, tools/registry) behind    *)
(* gates that hold the offer of the terms against everything it rests on:  *)
(* the quote, the policy, the driver, the documents and the address.       *)
(* State-changing tools answer a repeated call from their ledger           *)
(* (services/idempotency).  Quotes expire and the policy is edited at any  *)
(* time.  Bookings that wait for a person are in Requests, other customers *)
(* in Bookings, and a turn that is rolled back in WorkQueue.               *)
(***************************************************************************)
EXTENDS Naturals, FiniteSets

CONSTANTS
    Slots,          \* pickup and return, dates and times
    Places,         \* addresses to deliver to
    Policies,       \* versions of the rules
    Documents,      \* attachments the customer may send
    Names,          \* what their holders are called
    MaxQuotes,      \* bound on the quotes ever made
    MaxVersion,     \* bound on the changes of a booking
    Unsaid, Nothing

ASSUME CheckoutAssumption ==
    /\ MaxQuotes \in Nat /\ MaxVersion \in Nat
    /\ Unsaid \notin Slots \cup Places

VARIABLES
    flow,       \* the state's checkout: what the customer said and was offered
    wish,       \* the state's pickup and return
    current,    \* the state's quote
    booked,     \* the state's reservation
    quote,      \* the quotes, by reference
    booking,    \* the reservations, by the quote they were made of
    ledger,     \* the keys of the tool calls that succeeded
    document,   \* the attachments and what became of their checks
    policy,     \* the rules as they are now
    pc, said,   \* where the turn is, and the message it answers
    told,       \* the change a tool of this turn has answered is made
    shown,      \* the last message the customer was sent
    consent     \* the terms the customer has accepted and not put off since

state == <<flow, wish, current, booked>>
rows  == <<quote, booking, ledger, document>>
vars  == <<state, rows, policy, pc, said, told, shown, consent>>

Quotes == 1 .. MaxQuotes

\* The text that puts the terms of a quote.
Terms == [quote: Quotes, policy: Policies, place: Places]

\* What an acceptance is a fingerprint of.
Evidence == [quote: Quotes, policy: Policies, place: Places, papers: SUBSET Documents]

Flow == [requested: BOOLEAN, adult: BOOLEAN,
         place: Places \cup {Unsaid}, offer: Evidence \cup {Nothing},
         text: Terms \cup {Nothing}, accepted: Evidence \cup {Nothing}]

Quote == [slot: Slots, place: Places \cup {Unsaid}, expired: BOOLEAN]

Booking == [status: {"confirmed", "cancelled"}, slot: Slots, quote: Quotes,
            delivery: Slots \cup {Unsaid}, version: 0 .. MaxVersion]

Document == [status: {"unsent", "passed", "failed"}, name: Names]

Messages ==
    [kind: {"proceed", "accept", "defer", "adult", "minor", "new", "other", "cancel", "annul"}]
    \cup [kind: {"slot"}, slot: Slots] \cup [kind: {"place"}, place: Places]
    \cup [kind: {"change"}, slot: Slots]

Shown == [kind: {"other"}] \cup [kind: {"terms"}, text: Terms]

Other == [kind |-> "other"]

ASSUME NothingAssumption ==
    Nothing \notin Quote /\ Nothing \notin Booking /\ Nothing \notin Evidence /\ Nothing \notin Terms

Keys == [tool: {"quote"}, slot: Slots, place: Places \cup {Unsaid}]
        \cup [tool: {"change"}, of: Quotes, salt: 0 .. MaxVersion, slot: Slots]

TypeOK ==
    /\ flow \in Flow
    /\ wish \in Slots \cup {Unsaid}
    /\ current \in Quotes \cup {0} /\ booked \in Quotes \cup {0}
    /\ quote \in [Quotes -> Quote \cup {Nothing}]
    /\ booking \in [Quotes -> Booking \cup {Nothing}]
    /\ \A q \in Quotes : booking[q] # Nothing => quote[q] # Nothing
    /\ \A q \in {current, booked} : q # 0 => quote[q] # Nothing
    /\ booked # 0 => booking[booked] # Nothing /\ booking[booked].status = "confirmed"
    /\ ledger \subseteq Keys
    /\ document \in [Documents -> Document]
    /\ policy \in Policies
    /\ pc \in {"idle", "observed", "model", "guarded"}
    /\ said \in Messages
    /\ told \in [of: Quotes, slot: Slots] \cup {Nothing}
    /\ shown \in Shown
    /\ consent \in Terms \cup {Nothing}

NewFlow == [requested |-> FALSE, adult |-> FALSE, place |-> Unsaid,
            offer |-> Nothing, text |-> Nothing, accepted |-> Nothing]

Init ==
    /\ flow = NewFlow
    /\ wish = Unsaid /\ current = 0 /\ booked = 0
    /\ quote = [q \in Quotes |-> Nothing]
    /\ booking = [q \in Quotes |-> Nothing]
    /\ ledger = {}
    /\ document \in [Documents -> [status: {"unsent"}, name: Names]]
    /\ policy \in Policies
    /\ pc = "idle" /\ said = Other /\ told = Nothing
    /\ shown = Other /\ consent = Nothing

-----------------------------------------------------------------------------
(* What the customer says *)

\* Mutant: the sentence alone is an acceptance of what was last put.
AcceptsUnread(m) == m.kind = "accept" /\ flow.text # Nothing

\* The sentence counts only as the answer to the terms it follows.
Accepts(m) == m.kind = "accept" /\ flow.text # Nothing
                                /\ shown = [kind |-> "terms", text |-> flow.text]

\* "Not now", "let me think", unless the message goes on to book.
Defers(m) == m.kind = "defer"

Said(m) ==
    [flow EXCEPT !.requested = m.kind = "proceed" \/ (@ /\ ~Defers(m)),
                 !.adult = m.kind = "adult" \/ (@ /\ m.kind # "minor"),
                 !.place = IF m.kind = "place" THEN m.place ELSE @,
                 !.accepted = IF Accepts(m) THEN flow.offer
                              ELSE IF Defers(m) THEN Nothing ELSE @]

\* A customer who has a booking and wants another starts over.
StartsOver(m) == m.kind = "new" /\ booked # 0

Observe(m) ==
    /\ pc = "idle"
    /\ pc' = "observed"
    /\ said' = m
    /\ IF StartsOver(m)
       THEN flow' = NewFlow /\ wish' = Unsaid /\ current' = 0 /\ booked' = 0
       ELSE /\ flow' = Said(m)
            /\ wish' = IF m.kind \in {"slot", "change"} THEN m.slot ELSE wish
            /\ UNCHANGED <<current, booked>>
    /\ consent' = IF Defers(m) \/ StartsOver(m) THEN Nothing
                  ELSE IF m.kind = "accept" /\ shown.kind = "terms" THEN shown.text
                  ELSE consent
    /\ UNCHANGED <<rows, policy, told, shown>>

-----------------------------------------------------------------------------
(* Documents *)

Passed == {d \in Documents : document[d].status = "passed"}

\* An attachment passes if it can be read and its name is that of those which have.
Checked(d, readable) ==
    IF readable /\ \A e \in Passed : document[e].name = document[d].name
    THEN "passed" ELSE "failed"

\* An attachment that could be downloaded is stored and checked at once.
Attach(d, readable) ==
    /\ pc = "idle"
    /\ document[d].status = "unsent"
    /\ document' = [document EXCEPT ![d].status = Checked(d, readable)]
    /\ shown' = Other
    /\ UNCHANGED <<state, quote, booking, ledger, policy, pc, said, told, consent>>

\* The retention period of an attachment ends, and it is deleted.
Purge(d) ==
    /\ pc = "idle"
    /\ document[d].status = "passed"
    /\ document' = [document EXCEPT ![d].status = "failed"]
    /\ UNCHANGED <<state, quote, booking, ledger, policy, pc, said, told, shown, consent>>

-----------------------------------------------------------------------------
(* The gates *)

EvidenceOf(q) == [quote |-> q, policy |-> policy, place |-> flow.place, papers |-> Passed]

TextOf(q) == [quote |-> q, policy |-> policy, place |-> flow.place]

\* evaluate, up to the acceptance: the quote is live and for the times and the
\* address the customer gave, and the driver is known, of age and documented.
Eligible(q) ==
    /\ ~quote[q].expired
    /\ quote[q].slot = wish
    /\ flow.adult
    /\ Passed # {}
    /\ \A d, e \in Passed : document[d].name = document[e].name
    /\ flow.place # Unsaid
    /\ quote[q].place = flow.place

Ready(q) == Eligible(q) /\ flow.accepted = EvidenceOf(q)

Gate(q) == q = current /\ Ready(q)

\* The reservation is as its quote says, and its quote passes the gate.
ReservationGate(b) ==
    LET q == booking[b].quote
    IN quote[q].slot = booking[b].slot /\ Gate(q)

-----------------------------------------------------------------------------
(* The tools *)

Spare == {q \in Quotes : quote[q] = Nothing}

NextQuote == CHOOSE q \in Spare : \A p \in Spare : q <= p

\* create_demo_quote
MakeQuote(slot, place) ==
    /\ Spare # {}
    /\ quote' = [quote EXCEPT ![NextQuote] = [slot |-> slot, place |-> place, expired |-> FALSE]]
    /\ current' = NextQuote

\* create_demo_reservation: a quote that has been booked is answered from the
\* ledger, whatever became of the booking.
Cached(q) == booking[q] # Nothing

Book(q) ==
    /\ booking' = [booking EXCEPT ![q] = [status |-> "confirmed", slot |-> quote[q].slot,
                                          quote |-> q, delivery |-> Unsaid, version |-> 0]]
    /\ booked' = q

Goto(label) == pc' = label

\* The model may call tools until max_tool_iterations, which is bounded here by
\* what the calls can still change.
Calling == pc = "model"

ModelQuote(place) ==
    LET key == [tool |-> "quote", slot |-> wish, place |-> place] IN
    /\ Calling
    /\ wish # Unsaid
    /\ IF key \in ledger
       THEN UNCHANGED <<quote, current, ledger>>
       ELSE MakeQuote(wish, place) /\ ledger' = ledger \cup {key}
    /\ UNCHANGED <<flow, wish, booked, booking, document, policy, pc, said, told, shown, consent>>

\* The provider may refuse; what fails is not kept in the ledger.
ModelReserve(q) ==
    /\ Calling
    /\ quote[q] # Nothing
    /\ Gate(q) /\ ~Defers(said)
    /\ IF Cached(q) THEN UNCHANGED <<booking, booked>> ELSE Book(q)
    /\ UNCHANGED <<flow, wish, current, quote, ledger, document, policy, pc, said, told, shown, consent>>

\* mutation_error: this message names the booking and a change of some kind; it is the
\* model that tells one kind from another.
Mentions(b) == booking[b] # Nothing /\ said.kind \in {"change", "cancel", "annul"}

\* Mutant: a change is told from another by its arguments alone.
ChangeKeyOnce(b, slot) == [tool |-> "change", of |-> b, salt |-> 0, slot |-> slot]

\* The ledger's key of a change has its arguments and the version it starts from.
ChangeKey(b, slot) == [tool |-> "change", of |-> b, salt |-> booking[b].version, slot |-> slot]

\* modify and extend: the model may have misread the dates.
ModelChange(b, slot) ==
    /\ Calling
    /\ Mentions(b)
    /\ LET key == ChangeKey(b, slot)
       IN IF key \in ledger
          THEN UNCHANGED <<booking, quote, ledger>>
          ELSE /\ booking[b].status = "confirmed"
               /\ booking[b].version < MaxVersion
               /\ Spare # {}
               /\ quote' = [quote EXCEPT ![NextQuote] =
                              [slot |-> slot, place |-> quote[booking[b].quote].place, expired |-> FALSE]]
               /\ booking' = [booking EXCEPT ![b].slot = slot, ![b].quote = NextQuote,
                                             ![b].version = @ + 1]
               /\ ledger' = ledger \cup {key}
    /\ told' = [of |-> b, slot |-> slot]
    /\ UNCHANGED <<state, document, policy, pc, said, shown, consent>>

\* Mutant: the state keeps the reservation that was cancelled.
StillBooked == booked

\* The reservation of the state once one is cancelled.
AfterCancel == 0

ModelCancel(b) ==
    /\ Calling
    /\ Mentions(b)
    /\ booking[b].status = "confirmed"
    /\ booking[b].version < MaxVersion
    /\ booking' = [booking EXCEPT ![b].status = "cancelled", ![b].version = @ + 1]
    /\ booked' = AfterCancel
    /\ UNCHANGED <<flow, wish, current, quote, ledger, document, policy, pc, said, told, shown, consent>>

\* create_payment_link, by the model or at the customer's word.
ModelLink(b) ==
    /\ Calling
    /\ booking[b] # Nothing
    /\ booking[b].status = "confirmed"
    /\ booking[b].version < MaxVersion
    /\ ReservationGate(b)
    /\ booking' = [booking EXCEPT ![b].version = @ + 1]
    /\ UNCHANGED <<state, quote, ledger, document, policy, pc, said, told, shown, consent>>

\* schedule_demo_delivery: with the checkout enforced, at the time of the pickup.
ModelDelivery(b) ==
    /\ Calling
    /\ booking[b] # Nothing
    /\ booking[b].status = "confirmed"
    /\ booking[b].version < MaxVersion
    /\ ReservationGate(b)
    /\ booking' = [booking EXCEPT ![b].delivery = booking[b].slot, ![b].version = @ + 1]
    /\ UNCHANGED <<state, quote, ledger, document, policy, pc, said, told, shown, consent>>

-----------------------------------------------------------------------------
(* Replies *)

\* reply_for_turn takes a message over once the customer wants to book, until
\* there is a booking; it reads English words for what it leaves to the model.
TakesOver == flow.requested /\ booked = 0 /\ said.kind # "cancel"

Reply(message) ==
    /\ shown' = message
    /\ Goto("idle")
    /\ said' = Other /\ told' = Nothing

FlowTurn == pc \in {"observed", "guarded"} /\ TakesOver

Stale(q) == q = 0 \/ (q # 0 /\ \/ quote[q].slot # wish
                               \/ quote[q].place # flow.place
                               \/ quote[q].expired)

\* Something is missing: the dates, a detail of the driver, the address.
FlowAsks ==
    /\ FlowTurn
    /\ wish = Unsaid \/ (~Stale(current) /\ ~Eligible(current))
    /\ Reply(Other)
    /\ UNCHANGED <<state, rows, policy, consent>>

\* A fresh quote, if the car can be priced; the reply follows from it.
FlowQuotes ==
    /\ FlowTurn
    /\ wish # Unsaid
    /\ Stale(current)
    /\ MakeQuote(wish, flow.place)
    /\ UNCHANGED <<flow, wish, booked, booking, ledger, document, policy, pc, said, told, shown, consent>>

FlowCannotQuote ==
    /\ FlowTurn
    /\ wish # Unsaid
    /\ Stale(current)
    /\ Reply(Other)
    /\ UNCHANGED <<state, rows, policy, consent>>

FlowOffers ==
    /\ FlowTurn
    /\ wish # Unsaid /\ ~Stale(current)
    /\ Eligible(current) /\ ~Ready(current)
    /\ flow' = [flow EXCEPT !.offer = EvidenceOf(current), !.text = TextOf(current)]
    /\ Reply([kind |-> "terms", text |-> TextOf(current)])
    /\ UNCHANGED <<wish, current, booked, rows, policy, consent>>

FlowBooks ==
    /\ FlowTurn
    /\ wish # Unsaid /\ ~Stale(current)
    /\ Ready(current)
    /\ IF Cached(current) THEN UNCHANGED <<booking, booked>> ELSE Book(current)
    /\ Reply(Other)
    /\ UNCHANGED <<flow, wish, current, quote, ledger, document, policy, consent>>

\* The provider has no car, or does not answer.
FlowCannotBook ==
    /\ FlowTurn
    /\ wish # Unsaid /\ ~Stale(current)
    /\ Ready(current)
    /\ ~Cached(current)
    /\ Reply(Other)
    /\ UNCHANGED <<state, rows, policy, consent>>

AskModel ==
    /\ pc = "observed"
    /\ ~TakesOver
    /\ Goto("model")
    /\ UNCHANGED <<state, rows, policy, said, told, shown, consent>>

\* The model words a reply, whose claims the guard checks, or its calls are used
\* up and a colleague takes over; then the checkout is asked once more.
GuardReply ==
    /\ pc = "model"
    /\ IF TakesOver
       THEN Goto("guarded") /\ UNCHANGED <<said, told, shown>>
       ELSE Reply(Other)
    /\ UNCHANGED <<state, rows, policy, consent>>

-----------------------------------------------------------------------------
\* Quotes live for hours, and no time passes while the checkout answers.
QuoteExpires(q) ==
    /\ pc \notin {"observed", "guarded"}
    /\ quote[q] # Nothing
    /\ ~quote[q].expired
    /\ quote' = [quote EXCEPT ![q].expired = TRUE]
    /\ UNCHANGED <<state, booking, ledger, document, policy, pc, said, told, shown, consent>>

PolicyChanges(p) ==
    /\ policy # p
    /\ policy' = p
    /\ UNCHANGED <<state, rows, pc, said, told, shown, consent>>

Tools ==
    \/ \E p \in Places \cup {Unsaid} : ModelQuote(p)
    \/ \E q \in Quotes : ModelReserve(q) \/ ModelCancel(q) \/ ModelLink(q) \/ ModelDelivery(q)
    \/ \E q \in Quotes, s \in Slots : ModelChange(q, s)

Next ==
    \/ \E m \in Messages : Observe(m)
    \/ FlowAsks \/ FlowQuotes \/ FlowCannotQuote \/ FlowOffers \/ FlowBooks \/ FlowCannotBook
    \/ AskModel \/ Tools \/ GuardReply
    \/ \E d \in Documents, readable \in BOOLEAN : Attach(d, readable)
    \/ \E d \in Documents : Purge(d)
    \/ \E q \in Quotes : QuoteExpires(q)
    \/ \E p \in Policies : PolicyChanges(p)

Spec == Init /\ [][Next]_vars

-----------------------------------------------------------------------------
(* Properties *)

\* A booking is made only on terms the customer has read and accepted, has not put
\* off since, and which are still those of its quote, the policy and the address,
\* with documents that pass then; and its payment is asked for, and its delivery
\* planned, only for the dates she agreed to, not for those of a change since (observe,
\* evaluate, gate, reservation_gate).
DoneAsAgreed ==
    [][/\ \A q \in Quotes : booking[q] = Nothing /\ booking'[q] # Nothing =>
             /\ consent = [quote |-> q, policy |-> policy, place |-> quote[q].place]
             /\ Passed # {}
       /\ \A b \in Quotes : ModelLink(b) \/ ModelDelivery(b) =>
             consent # Nothing /\ consent.quote = b /\ booking[b].slot = quote[b].slot]_vars

\* The customer is told of a change only if the booking is so, however often she
\* changes her mind (derive_key, _mutation_salt).
ChangedAsTold == told # Nothing => booking[told.of].slot = told.slot

\* A promise the code breaks: a booking the customer is told was created exists.
CreatedIsLive ==
    [][FlowBooks => booking'[current].status = "confirmed"]_vars

\* Another: a car is delivered when its booking begins, also after a change.
DeliveredOnTime ==
    \A b \in Quotes : booking[b] # Nothing /\ booking[b].status = "confirmed"
                          => booking[b].delivery \in {booking[b].slot, Unsaid}
=============================================================================
